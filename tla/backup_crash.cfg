CONSTANTS
  b1 = b1  b2 = b2
  Backup = {b1, b2}
  MaxConcurrent = 2
  Faulty = FALSE
  Crashing = TRUE
  JobsLag = TRUE
  MaxVersion = 20
SPECIFICATION FairSpec
CHECK_DEADLOCK FALSE
INVARIANT NotForgotten
PROPERTY BackupEnds
