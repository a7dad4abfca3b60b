CONSTANTS
  b1 = b1  b2 = b2
  Backup = {b1, b2}
  MaxConcurrent = 2
  Faulty = FALSE
  Crashing = FALSE
  JobsLag = FALSE
  MaxVersion = 20
SPECIFICATION Spec
CHECK_DEADLOCK FALSE
INVARIANT OneActiveJob
