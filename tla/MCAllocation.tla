---------------------------- MODULE MCAllocation ----------------------------
(* SlotAllocation for every number of masters up to MaxMasters. *)
EXTENDS SlotAllocation

=============================================================================
