CONSTANTS
  KnownAlgos = {"RSA", "DSA"}
  NoAlgo = "none"
  ModP = 13
  Tags = 1
  Masks = {0, 5}
  Alphas = {0, 1, 6}
  Requests <- MCRequests
  Databases <- MCDatabases
  ThisYear = 2022
  Chars = {"a", "b", "c"}
  MapOrder = TRUE
SPECIFICATION Spec
INVARIANT AcceptedIsTrue
