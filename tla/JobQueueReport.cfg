SPECIFICATION Spec
CONSTANTS
  Job = {j1}
  Requires <- GpuJob
  CreatedAt <- SameTime
  Feature = {"gpu"}
  Worker = {w1, w2}
  Request = {r1, r2, r3}
  CancelRouted = FALSE
  Null = Null
SYMMETRY SlotsAndWorkers
PROPERTIES
  ReportIsTerminal
