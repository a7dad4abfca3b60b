CONSTANTS
  b1 = b1  b2 = b2
  Backup = {b1, b2}
  MaxConcurrent = 2
  Faulty = TRUE
  Crashing = TRUE
  JobsLag = TRUE
  MaxVersion = 7
SPECIFICATION Spec
CHECK_DEADLOCK FALSE
SYMMETRY BackupSymmetry
INVARIANTS
  TypeOK
  SuccessIsReal
  IgnoredHasNoJob
PROPERTY TerminalIsFinal
