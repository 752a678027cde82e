CONSTANTS
  r1 = r1
  r2 = r2
  r3 = r3
  r4 = r4
  Rpcs = {r1, r2, r3, r4}
  BadQueries = {r1}
  Panicking = {r2}
  QueueCap = 1
  ReplyCap = 1
  Idle = Idle
  Exited = Exited
  MayServeFail = TRUE
SPECIFICATION Spec
INVARIANTS
  TypeOK
  OwnReply
  WorkerNeverBlocks
  WaitingIsServed
  CleanStop
PROPERTIES
  EveryCallReturns
  SignalEndsProcess
  ImplementsService
