--------------------------- MODULE SlotOwnership ---------------------------
(***************************************************************************)
(* What scaling promises the clients of the cluster: a slot that has an    *)
(* authority never loses it, authority passes from node to node at once,   *)
(* and what has been stored stays stored.                                  *)
(***************************************************************************)
CONSTANTS Node, Slot, Key, NoNode

VARIABLES
  auth,    \* auth[s]: the node whose claim on s prevails, if there is one
  stored   \* the keys stored in the cluster

vars == <<auth, stored>>

Init ==
  /\ auth \in [Slot -> Node \cup {NoNode}]
  /\ stored \in SUBSET Key

\* n becomes the authority of some slots.
Handover(n) ==
  /\ auth' \in [Slot -> Node \cup {NoNode}]
  /\ \A s \in Slot : auth'[s] \in {auth[s], n}
  /\ UNCHANGED stored

Store(k) ==
  /\ stored' = stored \cup {k}
  /\ UNCHANGED auth

Next ==
  \/ \E n \in Node : Handover(n)
  \/ \E k \in Key : Store(k)

Spec == Init /\ [][Next]_vars

=============================================================================
