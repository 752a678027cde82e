CONSTANTS
  NumServers = 2
  Schemes = {"complexVPIR", "pointPIR", "pointVPIR"}
  Simulations = {"pir-classic", "pir-merkle"}
  Dumps <- MCDumps
  Lower <- MCLower
  keySizeLimit = 1
  hundredMb = 3
  IDLen = 1
  RandomBlocks <- MCRandomBlocks
  MaxCommands <- MCMaxCommands
  MaxKills = 1
  MaxFiles = 3
  Hash <- MCHash
  KeysPerBlock = 1
  PacketLen = 1
  None = None
SPECIFICATION Spec
INVARIANTS
  TypeOK
  SameDatabases
  LatestKeyServed
  KeyTableImplemented
