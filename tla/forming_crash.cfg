CONSTANTS
  NoId = NoId
  ID = {0, 1, 2, 3, 4, 5, 6, 7}
  MaxSize = 3
  Replicas = 1
  Vm <- ByOrdinal
  MaxMishaps = 1
  MaxEdits = 1
SPECIFICATION FormSpec
CHECK_DEADLOCK FALSE
INVARIANTS
  TypeOK
  OwnMaster
PROPERTIES
  NamedAreSpared
  Settles
CONSTRAINT Copes
