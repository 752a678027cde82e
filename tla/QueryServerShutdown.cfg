CONSTANTS
  r1 = r1
  r2 = r2
  r3 = r3
  r4 = r4
  Rpcs = {r1, r2, r3}
  BadQueries = {}
  Panicking = {}
  QueueCap = 1
  ReplyCap = 1
  Idle = Idle
  Exited = Exited
  MayServeFail = FALSE
SYMMETRY Symmetry
SPECIFICATION Spec
INVARIANT NoPanic
