CONSTANTS
  i1 = i1  i2 = i2  p0 = p0  p1 = p1
  MinMasterSize = 1
  DefaultImage = DefaultImage
  NoImage = NoImage
  NoSecret = NoSecret
  Image = {i1, i2}
  Secret = {p0, p1}
  Config <- Configs
  MaxSize = 2
  MaxReplicas = 1
  Edits <- SecretEdits
  Webhook = TRUE
  Persistent = TRUE
  MaxMishaps = 1
  MaxEdits = 1
SPECIFICATION EnsureSpec
CHECK_DEADLOCK FALSE
INVARIANTS
  TypeOK
  NotForgotten
  RestoredShape
  DataKept
  ConfFollows
PROPERTIES
  FailoverOpens
  PasswordEnds
  RestoreEnds
