CONSTANTS
  web = web
  db = db
  old = old
  net = net
  data = data
  image = image
  NoImage = NoImage
  Services <- TwoServices
  Networks <- MCNetworks
  Volumes <- MCVolumes
  Operations <- UpOnly
  TheProject <- CompletedProject
  Starts <- CleanStart
  Exits <- AllExits
  NumCommands = 1
  MaxConcurrency = 1
  MaxAlive = 1
  MaxFaults = 0
  MaxMeddling = 0
  Meddled <- AllNames

SPECIFICATION Spec
PROPERTY
  CompletedSuccessfully
