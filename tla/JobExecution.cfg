SPECIFICATION LoopSpec
CONSTANTS
  File = {submission, model, plot}
  Nested = {plot}
  Input <- Inputs
  MaxLines = 3
  Failures = TRUE
  OutputsOutlive = TRUE
CHECK_DEADLOCK FALSE
INVARIANTS
  TypeOK
  NoLineIsLost
  LogIsInOrder
  NumbersTellTheOrder
  ReportedArtifactsExist
  NoWakeupIsLost
PROPERTIES
  ReportGetsNearer
  ImplementsStream
  JobIsReported
  PushedLineIsTaken
