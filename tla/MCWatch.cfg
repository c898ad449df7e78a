SPECIFICATION Spec
CONSTANTS
  NumKeys = 2
  Messages <- RawEvents
  Debounce = 2
  MinTick = 1
  MaxMessages = 3
INVARIANTS
  SessionInv
  ClosedAfterLatest
  DelaysBounded
PROPERTIES
  QuietBeforeSent
  NobodyStaysBlocked
