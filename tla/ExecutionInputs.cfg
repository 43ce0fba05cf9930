SPECIFICATION Spec
CONSTANTS
  File = {submission}
  Nested = {}
  Input <- Inputs
  MaxLines = 1
  Failures = FALSE
  OutputsOutlive = FALSE
CHECK_DEADLOCK FALSE
INVARIANTS
  InputsAreMounted
