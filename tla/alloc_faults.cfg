CONSTANTS
  HashSlots = 11
  MaxMasters = 5
  MaxFaults = 1
SPECIFICATION FairSpec
CHECK_DEADLOCK FALSE
INVARIANTS
  TypeOK
  AssertionHolds
  NoGiverTakes
  Balanced
  AllocComplete
  OverfillBounded
PROPERTY AllAssigned
