CONSTANTS
  web = web
  db = db
  old = old
  net = net
  data = data
  image = image
  NoImage = NoImage
  Services <- TwoServices
  Networks <- MCNetworks
  Volumes <- MCVolumes
  Operations <- UpOnly
  TheProject <- HealthyProject
  Starts <- VolumeTaken
  Exits <- AnExit
  NumCommands = 1
  MaxConcurrency = 1
  MaxAlive = 1
  MaxFaults = 0
  MaxMeddling = 0
  Meddled <- AllNames

SPECIFICATION Spec
PROPERTY
  ForeignVolumeRefused
