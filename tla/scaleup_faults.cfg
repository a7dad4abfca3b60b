CONSTANTS
  n1 = n1  n2 = n2  n3 = n3  s1 = s1  s2 = s2  k1 = k1  k2 = k2
  Node = {n1, n2, n3}
  Slot = {s1, s2}
  Key = {k1, k2}
  SlotOf <- OneSlot
  NoNode = NoNode
  NoMove = NoMove
  Crashing = TRUE
  Faulty = TRUE
  MaxEpoch = 2
SPECIFICATION Spec
SYMMETRY NodeSymmetry
INVARIANTS
  TypeOK
  NoKeyLost
  OneWriter
