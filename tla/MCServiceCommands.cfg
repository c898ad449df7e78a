CONSTANTS
  web = web
  job = job
  webImage = webImage
  jobImage = jobImage
  NoImage = NoImage
  NoService = NoService
  Blank = Blank
  shop = shop
  ProjectNames <- MCProjectNames
  Services <- MCServices
  Networks = {}
  Volumes = {}
  TheProject <- MCProject
  Builds <- MCBuilds
  Tree <- MCTree
  ProjectDir <- MCProjectDir
  Operations <- MCOperations
  Starts <- MCStarts
  NumCommands = 2
  MaxContainers = 6
  MaxTrouble = 1

SPECIFICATION Spec
INVARIANT
  StatusAgrees
PROPERTIES
  RunReturnsAndCleans
  CommandsKeepTheirWord
  RefusedOnlyForOneOffs
  CommandsEnd
