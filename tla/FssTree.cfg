CONSTANTS
  SeedBits = {0, 1}
  Depth = 2
  MaxBits = 2
  ModP = 3
  G <- MCG
  Raw <- MCRaw
SPECIFICATION Spec
INVARIANTS
  TypeOK
  Lockstep
  PointFunction
