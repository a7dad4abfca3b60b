---------------------------- MODULE MCScaleDown ----------------------------
(* ScaleDown on up to three masters, of which MasterSize stay. *)
EXTENDS ScaleDown, TLC

CONSTANTS n0, n1, n2, s1, s2, s3, s4, s5, s6, k1, k2

Index2 == (n0 :> 0) @@ (n1 :> 1)
Index3 == Index2 @@ (n2 :> 2)

OneKey == k1 :> s1
OneSlot == (k1 :> s1) @@ (k2 :> s1)
TwoSlots == (k1 :> s1) @@ (k2 :> s2)

\* n0 holds more than its share, so that it is both a source and a target.
Overfull == (s1 :> n0) @@ (s2 :> n0) @@ (s3 :> n0) @@ (s4 :> n0) @@ (s5 :> n1) @@ (s6 :> n2)

\* AllocSlots failed to assign two slots.
Unassigned == [Overfull EXCEPT ![s3] = NoNode, ![s4] = NoNode]

UnevenInit == Init /\ owner[n0] \in {Overfull, Unassigned}

UnevenSpec == UnevenInit /\ [][Next]_vars

=============================================================================
