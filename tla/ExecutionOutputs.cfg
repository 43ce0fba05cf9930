SPECIFICATION Spec
CONSTANTS
  File = {submission}
  Nested = {}
  Input = {}
  MaxLines = 2
  Failures = FALSE
  OutputsOutlive = FALSE
CHECK_DEADLOCK FALSE
INVARIANTS
  OutputsAreReported
