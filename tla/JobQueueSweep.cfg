SPECIFICATION SweepSpec
CONSTANTS
  Job = {j1}
  Requires <- GpuJob
  CreatedAt <- SameTime
  Feature = {"gpu"}
  Worker = {w1, w2}
  Request = {r1, r2}
  CancelRouted = TRUE
  Null = Null
INVARIANTS
  HoldsOnlyWhatItCanRun
PROPERTIES
  LeftBehindIsRequeued
  EveryJobSettles
