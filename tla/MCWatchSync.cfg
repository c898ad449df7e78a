SPECIFICATION SyncSpec
CONSTANTS
  NumPaths = 2
  Existing = {1}
  NumKeys = 8
  Messages <- Changes
  Debounce = 1
  MinTick = 1
  MaxMessages = 3
INVARIANTS
  SyncedAtRest
PROPERTIES
  CatchesUp
