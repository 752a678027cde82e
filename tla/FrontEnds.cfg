CONSTANTS
  Programs = {"web", "interactive", "simulation"}
  NumServers = 2
  NumJobs = 2
  Versions = {1, 2, 3}
  Dims <- MCDims
  FirstVersions <- MCFirstVersions
  Flags <- MCFlags
  BlockBits = 4
  MaxFaults = 1
  None = None
SPECIFICATION Spec
INVARIANTS
  TypeOK
  OwnAnswers
  RepliesAreTrue
  ScratchUnshared
  RetrievalsInRange
  
PROPERTIES
  EveryJobEnds
