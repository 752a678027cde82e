CONSTANTS
  Q = 32
  MaxSample = 6
  N = 2
  SeedStream <- MCSeedStream
  BoundPerRow = 2
  P = 3
  Reject = Reject
  Undecoded = Undecoded
  Invalid = Invalid
  None = None
  Primitives = {"cmp-vpir-dh", "cmp-vpir-lwe", "cmp-vpir-lwe-128", "preprocessing", "pir-classic"}
  Configs <- MCConfigs
  Repeats = 2
  BlockBits = 2
  tECC <- MCtECC
  HugeDB = 4
  SmallDB = 1
  SmallRoutines = 3
  NumCPUs = {2, 4}
  Draws <- MCDraws
  Draws128 <- MCDraws128
SPECIFICATION Spec
INVARIANTS
  TypeOK
  DigestsInOrder
  HonestIsAccepted
  HonestIsStored
  DeviationIsCaught
  ResultsAreComplete
PROPERTIES
  StepsCountDown
