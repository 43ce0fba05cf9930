SPECIFICATION Spec
CONSTANTS
  Job = {j1, j2}
  Requires <- PlainJob
  CreatedAt <- SameTime
  Feature = {}
  Worker = {w1, w2}
  Request = {r1, r2}
  CancelRouted = TRUE
  Null = Null
SYMMETRY AllAlike
INVARIANTS
  TypeOK
  RowShape
  LockedRowIsQueued
  OneConversation
  OnlyGranteesReport
PROPERTIES
  OwnerChangesThroughQueue
  FinishedStaysFinished
  ImplementsBoard
