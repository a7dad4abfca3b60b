CONSTANTS
  n1 = n1  n2 = n2  n3 = n3  s1 = s1  s2 = s2  k1 = k1  k2 = k2
  Node = {n1, n2, n3}
  Slot = {s1, s2}
  Key = {k1}
  SlotOf <- OneKey
  NoNode = NoNode
  NoMove = NoMove
  Crashing = TRUE
  Faulty = FALSE
  MaxEpoch = 2
SPECIFICATION FairSpec

INVARIANT SlotCovered
PROPERTIES HandoverIsAtomic NodesAgreeAgain
