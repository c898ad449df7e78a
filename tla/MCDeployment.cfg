CONSTANTS
  web = web
  db = db
  old = old
  net = net
  data = data
  image = image
  NoImage = NoImage
  Services <- ThreeServices
  Networks <- MCNetworks
  Volumes <- MCVolumes
  Operations <- AllOperations
  TheProject <- HealthyProject
  Starts <- MCStarts
  Exits <- AnExit
  NumCommands = 2
  MaxConcurrency = 2
  MaxAlive = 1
  MaxFaults = 1
  MaxMeddling = 1
  Meddled <- SomeNames

SPECIFICATION Spec
PROPERTIES
  DependentsStartLater
  DownCleansUp
  UpFailsOnlyForCause
