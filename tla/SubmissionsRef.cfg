SPECIFICATION PollSpec
CONSTANTS
  Experiment = {e1}
  Tracked = {e1}
  Entry = {k1}
  Submission = {s1}
  Request = {r1}
  ClientReturnsRef = FALSE
  Restarts = FALSE
  EmptyRef = EmptyRef
  Null = Null
PROPERTIES
  PolledUntilScored
