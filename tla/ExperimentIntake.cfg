SPECIFICATION Spec
CONSTANTS
  Upload = {u1, u2}
  Slug = {competition, dataset}
  Inputs <- AllInputs
  Tracked = {u1}
  MaxVersion = 2
  Failures = TRUE
SYMMETRY Slugs
CHECK_DEADLOCK FALSE
INVARIANTS
  TypeOK
  QueuedJobIsComplete
  AnswersAreTrue
