----------------------------- MODULE MCScaleUp -----------------------------
(* ScaleUp on three masters; keys are spread over the slots in turn. *)
EXTENDS ScaleUp, TLC

CONSTANTS n1, n2, n3, s1, s2, k1, k2

OneKey == k1 :> s1
OneSlot == (k1 :> s1) @@ (k2 :> s1)
TwoSlots == (k1 :> s1) @@ (k2 :> s2)

NodeSymmetry == Permutations(Node)

=============================================================================
