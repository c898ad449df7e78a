CONSTANTS
  web = web
  db = db
  job = job
  net = net
  undeclared = undeclared
  data = data
  cache = cache
  small = small
  NoImage = NoImage
  Services <- MCServices
  Networks <- MCNetworks
  Volumes <- MCVolumes
  Requests <- MCRequests

SPECIFICATION Spec
CHECK_DEADLOCK FALSE
INVARIANTS
  PlansAreDags
  StartedAfterAllItNeeds
  TearsDownItsOwnInOrder
  ReplicasAccountedFor
  OnlyEqualLeftAlone
