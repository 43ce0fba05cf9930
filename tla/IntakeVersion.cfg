SPECIFICATION Spec
CONSTANTS
  Upload = {u1, u2}
  Slug = {dataset}
  Inputs <- AllInputs
  Tracked = {u1}
  MaxVersion = 2
  Failures = FALSE
CHECK_DEADLOCK FALSE
INVARIANTS
  InputsAreOfTheVersion
