CONSTANTS
  web = web
  db = db
  old = old
  net = net
  data = data
  image = image
  NoImage = NoImage
  Services <- TwoServices
  Networks <- MCNetworks
  Volumes <- MCVolumes
  Operations <- AllOperations
  TheProject <- HealthyProject
  Starts <- OverlapStarts
  Exits <- AnExit
  NumCommands = 2
  MaxConcurrency = 1
  MaxAlive = 2
  MaxFaults = 0
  MaxMeddling = 1
  Meddled <- AllNames

SPECIFICATION Spec
PROPERTIES
  ForeignUntouched
  VolumesSurvive
  NewcomersSurvive
