CONSTANTS
  Hash <- MCHash
  KeysPerBlock = 1
  PacketLen = 1
  EmailOf <- MCEmailOf
  Versions = {"first", "next", "tiny", "wide"}
  Files <- MCFiles
  Deployments <- AsTested
  Ids = {1, 21, 32}
  ByteBits = 2
  RandomBits = {{}, {0}, {1, 2}}
SPECIFICATION Spec
INVARIANTS
  TypeOK
  StoredKeyFound
  AcceptedIsStored
  DeliveredIsStored
PROPERTY RetrievalEnds
