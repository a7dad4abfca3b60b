CONSTANTS
  n0 = n0  n1 = n1  n2 = n2  s1 = s1  s2 = s2  s3 = s3  s4 = s4  s5 = s5
  s6 = s6  k1 = k1  k2 = k2
  Node = {n0, n1, n2}
  StsIndex <- Index3
  MasterSize = 2
  Slot = {s1, s2, s3}
  Key = {k1, k2}
  SlotOf <- TwoSlots
  NoNode = NoNode
  NoBatch = NoBatch
  Faulty = TRUE
  Crashing = TRUE
  MaxEpoch = 2
SPECIFICATION Spec
INVARIANTS
  TypeOK
  OneWriter
