SPECIFICATION Spec
CONSTANTS
  Experiment = {e1, e2}
  Tracked = {e1}
  Entry = {k1, k2}
  Submission = {s1, s2}
  Request = {r1, r2}
  ClientReturnsRef = TRUE
  Restarts = TRUE
  EmptyRef = EmptyRef
  Null = Null
SYMMETRY Alike
INVARIANTS
  TypeOK
  RowsTellKagglesVerdict
  ScoresBelongToTheRun
  NothingBeforeTheVerdict
  EntriesAreRecorded
  RunningRowsArePolled
  RunsAreClosed
PROPERTIES
  VerdictIsFinal
  ImplementsLedger
