SPECIFICATION PollSpec
CONSTANTS
  Experiment = {e1}
  Tracked = {e1}
  Entry = {k1, k2}
  Submission = {s1, s2}
  Request = {r1, r2}
  ClientReturnsRef = TRUE
  Restarts = FALSE
  EmptyRef = EmptyRef
  Null = Null
PROPERTIES
  PolledUntilScored
  ScoreReachesTheRun
