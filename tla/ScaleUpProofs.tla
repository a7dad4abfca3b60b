--------------------------- MODULE ScaleUpProofs ---------------------------
(***************************************************************************)
(* Proofs about ScaleUp for any number of nodes, slots and keys, with lost *)
(* commands, failed MIGRATEs and operator crashes at every step; and, when *)
(* no command is lost, that ScaleUp implements SlotOwnership.              *)
(***************************************************************************)
EXTENDS ScaleUp, RedisProofs, TLAPS

-----------------------------------------------------------------------------
(***************************************************************************)
(* Type correctness.                                                       *)
(***************************************************************************)
LEMMA ForgetTypeOK ==
  ASSUME Forget
  PROVE  /\ bom' \in [Node -> SUBSET Slot]
         /\ givers' \in SUBSET Node
         /\ move' = NoMove
BY DEF Forget, NoSlots

LEMMA InitTypeOK == Init => TypeOK
BY RestTypeOK DEF Init, TypeOK, NoSlots, Steps, Maybe

LEMMA NextTypeOK == TypeOK /\ [Next]_vars => TypeOK'
<1>. SUFFICES ASSUME TypeOK, [Next]_vars PROVE TypeOK'
  OBVIOUS
<1>. USE DEF TypeOK, Steps
<1>0. ASSUME NEW C \in SUBSET KeysIn(move.src, move.slot)
      PROVE  C \in SUBSET keys[move.src]
  BY DEF KeysIn
<1>1. CASE GetClusterInfos
  BY <1>1 DEF GetClusterInfos, OwnSlots, redisVars, RedisTypeOK
<1>2. CASE WaitForClusterJoin
  BY <1>2, ForgetTypeOK DEF WaitForClusterJoin, Return, redisVars, RedisTypeOK
<1>3. ASSUME NEW m \in Node, NEW n \in Node, NEW s \in Slot, PickMove(m, n, s)
      PROVE  TypeOK'
  BY <1>3, NoMoveAssumption DEF PickMove, redisVars, RedisTypeOK, Move
<1>4. CASE EndRebalance
  BY <1>4, ForgetTypeOK DEF EndRebalance, Return, redisVars, RedisTypeOK
<1>5. CASE SetSlotImporting
  BY <1>5, ForgetTypeOK, SetImportingTypeOK
     DEF SetSlotImporting, Return, memory, Move
<1>6. CASE SetSlotMigrating
  BY <1>6, ForgetTypeOK, SetMigratingTypeOK
     DEF SetSlotMigrating, Return, memory, Move
<1>7. CASE MigrateKeysInSlot
  BY <1>7, <1>0, MigrateTypeOK DEF MigrateKeysInSlot, memory, Move
<1>8. CASE MigrateKeysInSlotDone
  BY <1>8 DEF MigrateKeysInSlotDone, memory, redisVars, RedisTypeOK
<1>9. CASE MigrateKeysInSlotFails
  BY <1>9, <1>0, ForgetTypeOK, MigrateTypeOK
     DEF MigrateKeysInSlotFails, Return, Move
<1>10. CASE SetSlotNodeDst
  BY <1>10, SetNodeTypeOK DEF SetSlotNodeDst, memory, Move
<1>11. CASE SetSlotNodeSrc
  BY <1>11, SetNodeTypeOK DEF SetSlotNodeSrc, Move
<1>12. CASE Crash
  BY <1>12, ForgetTypeOK DEF Crash, redisVars, RedisTypeOK
<1>13. CASE Restart
  BY <1>13 DEF Restart, memory, redisVars, RedisTypeOK
<1>14. CASE Environment /\ UNCHANGED <<pc, memory>>
  BY <1>14, EnvironmentTypeOK DEF memory
<1>15. CASE UNCHANGED vars
  BY <1>15 DEF vars, memory, redisVars, RedisTypeOK
<1>. QED
  BY <1>1, <1>2, <1>3, <1>4, <1>5, <1>6, <1>7, <1>8, <1>9, <1>10, <1>11,
     <1>12, <1>13, <1>14, <1>15 DEF Next, MoveSlot

(***************************************************************************)
(* ScaleUp is type correct.                                                *)
(***************************************************************************)
THEOREM TypeCorrect == Spec => []TypeOK
BY InitTypeOK, NextTypeOK, PTL DEF Spec

-----------------------------------------------------------------------------
(***************************************************************************)
(* The invariant.  Steps that only change the operator's memory keep what  *)
(* it says of the nodes.                                                   *)
(***************************************************************************)
NodesOK == EpochOK /\ ClaimsOK /\ NoKeyLost

LEMMA SameNodesOK ==
  ASSUME NodesOK, UNCHANGED redisVars
  PROVE  NodesOK'
BY DEF NodesOK, EpochOK, ClaimsOK, VoidClaim, NoKeyLost, Claims, KeysIn, redisVars

(***************************************************************************)
(* When the nodes agree, no slot has two claims.                           *)
(***************************************************************************)
LEMMA ConsistentPrevails ==
  ASSUME TypeOK, Consistent, NEW n \in Node, NEW s \in Slot, Claims(n, s)
  PROVE  Prevails(n, s)
BY DEF Consistent, Prevails, Claims

(***************************************************************************)
(* Outside a run nothing is said of the operator's memory.                 *)
(***************************************************************************)
LEMMA IdleOK ==
  ASSUME pc' \in {"down", "read", "join"}
  PROVE  GiversOK' /\ PlanOK' /\ MoveOK'
BY DEF GiversOK, PlanOK, MoveOK

LEMMA InitIInv == Init => IInv
<1>. SUFFICES ASSUME Init PROVE IInv
  OBVIOUS
<1>. PICK table \in [Slot -> Node], W \in SUBSET Key : RestInit(table, W)
  BY DEF Init
<1>1. TypeOK
  BY InitTypeOK
<1>2. EpochOK /\ ClaimsOK
  BY DEF RestInit, EpochOK, ClaimsOK, Claims
<1>3. NoKeyLost
  BY SlotOfAssumption DEF RestInit, NoKeyLost
<1>4. GiversOK /\ PlanOK /\ MoveOK
  BY DEF Init, GiversOK, PlanOK, MoveOK
<1>. QED
  BY <1>1, <1>2, <1>3, <1>4 DEF IInv

(***************************************************************************)
(* A heartbeat takes claims away from nodes whose claim was void.          *)
(***************************************************************************)
LEMMA GossipIInv ==
  ASSUME IInv, TypeOK', NEW m \in Node, NEW n \in Node, Gossip(m, n),
         UNCHANGED <<pc, memory>>
  PROVE  IInv'
<1>. USE DEF IInv
<1>1. \A p \in Node, s \in Slot : Claims(p, s)' => Claims(p, s)
  BY GossipClaims DEF TypeOK
<1>2. epoch' = epoch /\ migrating' = migrating /\ importing' = importing
      /\ written' = written /\ currentEpoch' = currentEpoch
  BY DEF Gossip
<1>3. \A p \in Node : keys'[p] \subseteq keys[p]
  BY DEF Gossip, TypeOK, RedisTypeOK
<1>4. \A p \in Node, s \in Slot : Prevails(p, s) => Prevails(p, s)'
  BY <1>1, <1>2 DEF Prevails
<1>5. EpochOK'
  BY <1>2 DEF EpochOK
<1>6. ClaimsOK'
  BY <1>1, <1>2, <1>3 DEF ClaimsOK, VoidClaim, KeysIn
<1>7. GiversOK' /\ PlanOK'
  BY <1>1, <1>4 DEF GiversOK, PlanOK, memory
<1>8. MoveOK'
  <2>1. pc \in {"keys", "nodeDst"} => Claims(move.src, move.slot)'
    <3>. SUFFICES ASSUME pc \in {"keys", "nodeDst"}, ~Claims(move.src, move.slot)'
                  PROVE  FALSE
      OBVIOUS
    <3>1. move.src \in Node /\ move.slot \in Slot
      BY DEF TypeOK, Move
    <3>2. Claims(move.src, move.slot) /\ Prevails(move.src, move.slot)
      BY <3>1 DEF MoveOK, PlanOK
    <3>. PICK p \in Node, s \in Slot : p = move.src /\ s = move.slot
      BY <3>1
    <3>3. ~Claims(p, s)'
      BY DEF Claims, memory
    <3>4. p = m /\ m # n /\ Claims(n, s) /\ epoch[m] < epoch[n]
      BY <3>2, <3>3, GossipClaims DEF TypeOK
    <3>5. epoch[n] < epoch[m]
      BY <3>2, <3>4 DEF Prevails
    <3>. QED
      BY <3>4, <3>5 DEF TypeOK, RedisTypeOK
  <2>2. pc = "nodeDst" => KeysIn(move.src, move.slot)' = {}
    BY <1>3 DEF MoveOK, KeysIn, memory, TypeOK, Move
  <2>. QED
    BY <2>1, <2>2, <1>2 DEF MoveOK, memory
<1>9. NoKeyLost'
  <2>. SUFFICES ASSUME NEW k \in written', NEW p \in Node, k \in keys[p]
                PROVE  k \in keys'[p]
    BY <1>2 DEF NoKeyLost
  <2>. DEFINE s == SlotOf[k]
  <2>1. k \in Key /\ s \in Slot
    BY SlotOfAssumption DEF TypeOK, RedisTypeOK
  <2>2. ~(p = m /\ Yields(m, n, s) /\ Claims(m, s))
    <3>. SUFFICES ASSUME p = m, Yields(m, n, s), Claims(m, s)
                  PROVE  FALSE
      OBVIOUS
    <3>1. Claims(n, s) /\ m # n /\ epoch[m] < epoch[n]
      BY NodeAssumption DEF Yields, Claims
    <3>2. ~(epoch[n] < epoch[m])
      BY <3>1 DEF TypeOK, RedisTypeOK
    <3>3. KeysIn(m, s) = {}
      BY <2>1, <3>1, <3>2 DEF ClaimsOK, VoidClaim
    <3>. QED
      BY <3>3 DEF KeysIn
  <2>. QED
    BY <2>2 DEF Gossip, TypeOK, RedisTypeOK
<1>. QED
  BY <1>5, <1>6, <1>7, <1>8, <1>9

(***************************************************************************)
(* A client creates a key only where no claim is void.                     *)
(***************************************************************************)
LEMMA ClientWriteIInv ==
  ASSUME IInv, TypeOK', NEW k \in Key, NEW n \in Node, ClientWrite(k, n),
         UNCHANGED <<pc, memory>>
  PROVE  IInv'
<1>. USE DEF IInv
<1>. DEFINE s == SlotOf[k]
<1>0. s \in Slot
  BY SlotOfAssumption
<1>1. owner' = owner /\ migrating' = migrating /\ importing' = importing
      /\ epoch' = epoch /\ currentEpoch' = currentEpoch
      /\ written' = written \cup {k}
  BY DEF ClientWrite
<1>2. keys' = [keys EXCEPT ![n] = keys[n] \cup {k}]
  BY DEF ClientWrite
<1>3. ~(Claims(n, s) /\ migrating[n][s] # NoNode)
  BY DEF ClientWrite, ServesAsking, Serves
<1>4. \A p \in Node, t \in Slot :
        Claims(p, t) /\ migrating[p][t] # NoNode => KeysIn(p, t)' = KeysIn(p, t)
  BY <1>2, <1>3 DEF KeysIn, TypeOK, RedisTypeOK
<1>5. EpochOK' /\ GiversOK' /\ PlanOK'
  BY <1>1 DEF EpochOK, GiversOK, PlanOK, Prevails, Claims, memory
<1>6. ClaimsOK'
  BY <1>1, <1>4 DEF ClaimsOK, VoidClaim, Claims
<1>7. MoveOK'
  BY <1>1, <1>4 DEF MoveOK, Claims, memory, TypeOK, Move
<1>8. NoKeyLost'
  BY <1>1, <1>2 DEF NoKeyLost, TypeOK, RedisTypeOK
<1>. QED
  BY <1>5, <1>6, <1>7, <1>8

(***************************************************************************)
(* moveSlot, step by step.                                                 *)
(***************************************************************************)
LEMMA SetSlotImportingIInv ==
  ASSUME IInv, TypeOK', SetSlotImporting
  PROVE  IInv'
<1>. USE DEF IInv
<1>. PICK D \in SUBSET {move.slot}, ok \in BOOLEAN :
       /\ SetSlots({move.slot}, AcceptsImporting(move.dst, {move.slot}), D, ok)
       /\ SetImporting(move.dst, D, move.dst)
       /\ IF ok THEN pc' = "migrating" /\ UNCHANGED memory ELSE Return
  BY DEF SetSlotImporting
<1>0. move.src \in Node /\ move.dst \in Node /\ move.slot \in Slot
      /\ pc = "importing"
  BY DEF SetSlotImporting, TypeOK, Move
<1>1. owner' = owner /\ migrating' = migrating /\ keys' = keys /\ epoch' = epoch
      /\ currentEpoch' = currentEpoch /\ written' = written
  BY DEF SetImporting
<1>2. EpochOK' /\ ClaimsOK' /\ NoKeyLost'
  BY <1>1 DEF EpochOK, ClaimsOK, VoidClaim, NoKeyLost, Claims, KeysIn
<1>3. CASE ~ok
  BY <1>2, <1>3, IdleOK DEF Return
<1>4. CASE ok
  <2>1. importing'[move.dst][move.slot] = move.dst
    BY <1>0, <1>4 DEF SetSlots, SetImporting, With, TypeOK, RedisTypeOK
  <2>2. GiversOK' /\ PlanOK'
    BY <1>0, <1>1, <1>4 DEF GiversOK, PlanOK, Prevails, Claims, memory
  <2>3. MoveOK'
    BY <1>0, <1>4, <2>1, NodeAssumption DEF MoveOK, memory
  <2>. QED
    BY <1>2, <2>2, <2>3
<1>. QED
  BY <1>3, <1>4

LEMMA SetSlotMigratingIInv ==
  ASSUME IInv, TypeOK', SetSlotMigrating
  PROVE  IInv'
<1>. USE DEF IInv
<1>. PICK D \in SUBSET {move.slot}, ok \in BOOLEAN :
       /\ SetSlots({move.slot}, AcceptsMigrating(move.src, {move.slot}), D, ok)
       /\ SetMigrating(move.src, D, move.src)
       /\ IF ok THEN pc' = "keys" /\ UNCHANGED memory ELSE Return
  BY DEF SetSlotMigrating
<1>0. move.src \in Node /\ move.dst \in Node /\ move.slot \in Slot
      /\ pc = "migrating"
  BY DEF SetSlotMigrating, TypeOK, Move
<1>1. owner' = owner /\ importing' = importing /\ keys' = keys /\ epoch' = epoch
      /\ currentEpoch' = currentEpoch /\ written' = written
  BY DEF SetMigrating
<1>2. \A p \in Node, t \in Slot :
        migrating'[p][t] = IF p = move.src /\ t \in D THEN move.src
                                                      ELSE migrating[p][t]
  BY <1>0 DEF SetMigrating, With, TypeOK, RedisTypeOK
<1>3. EpochOK' /\ NoKeyLost'
  BY <1>1 DEF EpochOK, NoKeyLost
<1>4. ClaimsOK'
  BY <1>0, <1>1, <1>2, NodeAssumption DEF ClaimsOK, VoidClaim, Claims, KeysIn
<1>5. CASE ~ok
  BY <1>3, <1>4, <1>5, IdleOK DEF Return
<1>6. CASE ok
  <2>1. D = {move.slot} /\ Claims(move.src, move.slot)
    BY <1>0, <1>6 DEF SetSlots, AcceptsMigrating
  <2>2. GiversOK' /\ PlanOK'
    BY <1>0, <1>1, <1>6 DEF GiversOK, PlanOK, Prevails, Claims, memory
  <2>3. MoveOK'
    BY <1>0, <1>1, <1>2, <1>6, <2>1, NodeAssumption DEF MoveOK, Claims, memory
  <2>. QED
    BY <1>3, <1>4, <2>2, <2>3
<1>. QED
  BY <1>5, <1>6

(***************************************************************************)
(* Keys move from a source whose claim prevails to a target without one.   *)
(***************************************************************************)
LEMMA MigrateIInv ==
  ASSUME IInv, TypeOK', pc = "keys",
         NEW C \in SUBSET KeysIn(move.src, move.slot), NEW R \in SUBSET C,
         Migrate(move.src, move.dst, C, R)
  PROVE  /\ (EpochOK /\ ClaimsOK /\ NoKeyLost)'
         /\ (pc' = "keys" /\ UNCHANGED memory) => (GiversOK /\ PlanOK /\ MoveOK)'
<1>. USE DEF IInv
<1>0. move.src \in Node /\ move.dst \in Node /\ move.slot \in Slot
  BY DEF TypeOK, Move
<1>1. owner' = owner /\ migrating' = migrating /\ importing' = importing
      /\ epoch' = epoch /\ currentEpoch' = currentEpoch /\ written' = written
  BY DEF Migrate
<1>2. move.src # move.dst
  BY DEF MoveOK
<1>3. /\ keys'[move.src] = keys[move.src] \ R
      /\ keys'[move.dst] = keys[move.dst] \cup C
      /\ \A p \in Node \ {move.src, move.dst} : keys'[p] = keys[p]
  BY <1>0, <1>2 DEF Migrate, TypeOK, RedisTypeOK
<1>4. ~Claims(move.dst, move.slot)
  <2>. SUFFICES ASSUME Claims(move.dst, move.slot) PROVE FALSE
    OBVIOUS
  <2>1. epoch[move.src] < epoch[move.dst]
    BY <1>0, <1>2 DEF GiversOK, MoveOK, Prevails
  <2>2. epoch[move.dst] < epoch[move.src]
    BY <1>0, <1>2 DEF PlanOK, MoveOK, Prevails
  <2>. QED
    BY <1>0, <2>1, <2>2 DEF TypeOK, RedisTypeOK
<1>5. \A p \in Node, t \in Slot : Claims(p, t) => KeysIn(p, t)' \subseteq KeysIn(p, t)
  <2>. SUFFICES ASSUME NEW p \in Node, NEW t \in Slot, Claims(p, t),
                       NEW k \in keys'[p], SlotOf[k] = t
                PROVE  k \in keys[p]
    BY DEF KeysIn
  <2>1. CASE p = move.dst
    BY <2>1, <1>3, <1>4 DEF KeysIn
  <2>2. CASE p # move.dst
    BY <2>2, <1>3
  <2>. QED
    BY <2>1, <2>2
<1>6. EpochOK'
  BY <1>1 DEF EpochOK
<1>7. ClaimsOK'
  BY <1>1, <1>5 DEF ClaimsOK, VoidClaim, Claims
<1>8. NoKeyLost'
  <2>. SUFFICES ASSUME NEW k \in written, NEW p \in Node, k \in keys[p]
                PROVE  \E q \in Node : k \in keys'[q]
    BY <1>1 DEF NoKeyLost
  <2>. QED
    BY <1>0, <1>3
<1>9. ASSUME pc' = "keys", UNCHANGED memory
      PROVE  (GiversOK /\ PlanOK /\ MoveOK)'
  BY <1>1, <1>9 DEF GiversOK, PlanOK, MoveOK, Prevails, Claims, memory
<1>. QED
  BY <1>6, <1>7, <1>8, <1>9

(***************************************************************************)
(* SETSLOT NODE on the target: its claim becomes the prevailing one, and   *)
(* the source's claim is void by then.                                     *)
(***************************************************************************)
LEMMA SetSlotNodeDstIInv ==
  ASSUME IInv, TypeOK', SetSlotNodeDst
  PROVE  IInv'
<1>. USE DEF IInv
<1>. PICK D \in SUBSET {move.slot}, ok \in BOOLEAN :
       SetNode(move.dst, D, move.dst)
  BY DEF SetSlotNodeDst
<1>. PICK src \in Node, dst \in Node, slot \in Slot :
       move = [src |-> src, dst |-> dst, slot |-> slot]
  BY DEF SetSlotNodeDst, TypeOK, Move
<1>0. src \in Node /\ dst \in Node /\ slot \in Slot /\ pc = "nodeDst"
      /\ pc' = "nodeSrc" /\ UNCHANGED memory
  BY DEF SetSlotNodeDst, TypeOK, Move
<1>1. /\ src \in givers /\ dst \notin givers /\ slot \in bom[src]
      /\ importing[dst][slot] # NoNode
      /\ Claims(src, slot) /\ migrating[src][slot] # NoNode
      /\ KeysIn(src, slot) = {}
  BY <1>0 DEF MoveOK
<1>2. Prevails(src, slot)
  BY <1>0, <1>1 DEF PlanOK
<1>3. keys' = keys /\ written' = written
  BY DEF SetNode
<1>4. MoveOK' /\ NoKeyLost'
  BY <1>0, <1>1, <1>3 DEF MoveOK, NoKeyLost, memory
<1>5. CASE D = {}
  <2>1. epoch' = epoch /\ currentEpoch' = currentEpoch
    BY <1>5 DEF SetNode
  <2>2. owner' = owner /\ migrating' = migrating
    BY <1>0, <1>5 DEF SetNode, With, TypeOK, RedisTypeOK
  <2>3. EpochOK' /\ ClaimsOK' /\ GiversOK'
    BY <1>0, <1>3, <2>1, <2>2
       DEF EpochOK, ClaimsOK, GiversOK, VoidClaim, Prevails, Claims, KeysIn, memory
  <2>4. PlanOK'
    BY <1>0, <2>1, <2>2 DEF PlanOK, Prevails, Claims, memory
  <2>. QED
    BY <1>4, <2>3, <2>4
<1>6. CASE D = {slot}
  <2>1. /\ currentEpoch' = currentEpoch + 1
        /\ epoch' = [epoch EXCEPT ![dst] = currentEpoch + 1]
    BY <1>1, <1>6 DEF SetNode
  <2>2. \A p \in Node, t \in Slot :
          owner'[p][t] = IF p = dst /\ t = slot THEN dst ELSE owner[p][t]
    BY <1>0, <1>6 DEF SetNode, With, TypeOK, RedisTypeOK
  <2>3. \A p \in Node, t \in Slot : p # dst => migrating'[p][t] = migrating[p][t]
    BY <1>0 DEF SetNode, With, TypeOK, RedisTypeOK
  <2>4. /\ epoch'[dst] = currentEpoch + 1
        /\ \A p \in Node \ {dst} :
             epoch'[p] = epoch[p] /\ epoch'[p] < epoch'[dst]
    BY <1>0, <2>1 DEF EpochOK, TypeOK, RedisTypeOK
  <2>5. EpochOK'
    BY <1>0, <2>1, <2>4 DEF EpochOK, TypeOK, RedisTypeOK
  <2>6. \A p \in Node \ {dst}, t \in Slot :
          (Claims(p, t) /\ Claims(dst, t)') => VoidClaim(p, t)
    <3>. SUFFICES ASSUME NEW p \in Node \ {dst}, NEW t \in Slot,
                         Claims(p, t), Claims(dst, t)'
                  PROVE  VoidClaim(p, t)
      OBVIOUS
    <3>1. CASE t = slot
      <4>1. CASE p = src
        BY <3>1, <4>1, <1>1 DEF VoidClaim
      <4>2. CASE p # src
        <5>1. epoch[p] < epoch[src]
          BY <3>1, <4>2, <1>0, <1>2 DEF Prevails
        <5>2. ~(epoch[src] < epoch[p])
          BY <5>1, <1>0 DEF TypeOK, RedisTypeOK
        <5>. QED
          BY <3>1, <4>2, <5>2, <1>0, <1>1 DEF ClaimsOK
      <4>. QED
        BY <4>1, <4>2
    <3>2. CASE t # slot
      <4>1. Claims(dst, t)
        BY <3>2, <2>2, <1>0 DEF Claims, memory
      <4>2. epoch[p] < epoch[dst]
        BY <4>1, <1>0, <1>1 DEF GiversOK, Prevails
      <4>3. ~(epoch[dst] < epoch[p])
        BY <4>2, <1>0 DEF TypeOK, RedisTypeOK
      <4>. QED
        BY <4>1, <4>3, <1>0 DEF ClaimsOK
    <3>. QED
      BY <3>1, <3>2
  <2>7. \A p \in Node \ {dst}, t \in Slot :
          /\ Claims(p, t)' <=> Claims(p, t)
          /\ VoidClaim(p, t)' <=> VoidClaim(p, t)
    BY <1>3, <2>2, <2>3 DEF Claims, VoidClaim, KeysIn
  <2>8. ClaimsOK'
    <3>. SUFFICES ASSUME NEW t \in Slot, NEW p \in Node, NEW q \in Node,
                         p # q, Claims(p, t)', Claims(q, t)'
                  PROVE  \/ epoch'[p] < epoch'[q] /\ VoidClaim(p, t)'
                         \/ epoch'[q] < epoch'[p] /\ VoidClaim(q, t)'
      BY DEF ClaimsOK
    <3>1. CASE q = dst
      BY <3>1, <2>4, <2>6, <2>7
    <3>2. CASE p = dst
      BY <3>2, <2>4, <2>6, <2>7
    <3>3. CASE p # dst /\ q # dst
      BY <3>3, <2>4, <2>7 DEF ClaimsOK
    <3>. QED
      BY <3>1, <3>2, <3>3
  <2>9. \A t \in Slot : Prevails(dst, t)'
    BY <2>4, <1>0 DEF Prevails, memory
  <2>10. ASSUME NEW p \in Node \ {dst}, NEW t \in Slot, Claims(p, t), Prevails(p, t),
                p # src \/ t # slot
         PROVE  Prevails(p, t)'
    <3>1. ~Claims(dst, t)'
      <4>. SUFFICES ASSUME Claims(dst, t)' PROVE FALSE
        OBVIOUS
      <4>1. CASE t = slot
        <5>1. epoch[src] < epoch[p] /\ epoch[p] < epoch[src]
          BY <4>1, <2>10, <1>0, <1>1, <1>2 DEF Prevails
        <5>. QED
          BY <5>1, <1>0 DEF TypeOK, RedisTypeOK
      <4>2. CASE t # slot
        <5>1. Claims(dst, t)
          BY <4>2, <2>2, <1>0 DEF Claims, memory
        <5>2. epoch[p] < epoch[dst] /\ epoch[dst] < epoch[p]
          BY <5>1, <2>10, <1>0, <1>1 DEF GiversOK, Prevails
        <5>. QED
          BY <5>2, <1>0 DEF TypeOK, RedisTypeOK
      <4>. QED
        BY <4>1, <4>2
    <3>. QED
      BY <3>1, <2>4, <2>7, <2>10 DEF Prevails
  <2>11. GiversOK'
    BY <2>7, <2>9, <2>10, <1>0, <1>1 DEF GiversOK, memory
  <2>12. PlanOK'
    BY <2>7, <2>9, <2>10, <1>0 DEF PlanOK, memory
  <2>. QED
    BY <1>4, <2>5, <2>8, <2>11, <2>12
<1>. QED
  BY <1>5, <1>6

(***************************************************************************)
(* SETSLOT NODE on the source: at most its void claim goes away.           *)
(***************************************************************************)
LEMMA SetSlotNodeSrcIInv ==
  ASSUME IInv, TypeOK', SetSlotNodeSrc
  PROVE  IInv'
<1>. USE DEF IInv
<1>. PICK D \in SUBSET {move.slot}, ok \in BOOLEAN :
       SetNode(move.src, D, move.dst)
  BY DEF SetSlotNodeSrc
<1>. PICK src \in Node, dst \in Node, slot \in Slot :
       move = [src |-> src, dst |-> dst, slot |-> slot]
  BY DEF SetSlotNodeSrc, TypeOK, Move
<1>0. /\ src \in Node /\ dst \in Node /\ slot \in Slot /\ src # dst
      /\ pc = "nodeSrc" /\ pc' = "plan" /\ givers' = givers
      /\ bom' = [bom EXCEPT ![src] = bom[src] \ {slot}]
  BY DEF SetSlotNodeSrc, TypeOK, Move, MoveOK
<1>1. /\ keys' = keys /\ written' = written
      /\ epoch' = epoch /\ currentEpoch' = currentEpoch
  BY <1>0 DEF SetNode
<1>2. \A p \in Node, t \in Slot :
        owner'[p][t] = IF p = src /\ t \in D THEN dst ELSE owner[p][t]
  BY <1>0 DEF SetNode, With, TypeOK, RedisTypeOK
<1>3. \A p \in Node, t \in Slot :
        ~(p = src /\ t \in D) => migrating'[p][t] = migrating[p][t]
  BY <1>0 DEF SetNode, With, TypeOK, RedisTypeOK
<1>4. \A p \in Node, t \in Slot :
        Claims(p, t)' => Claims(p, t) /\ ~(p = src /\ t \in D)
  BY <1>0, <1>2 DEF Claims
<1>5. \A p \in Node, t \in Slot : Prevails(p, t) => Prevails(p, t)'
  BY <1>1, <1>4 DEF Prevails
<1>6. EpochOK' /\ NoKeyLost'
  BY <1>1 DEF EpochOK, NoKeyLost
<1>7. ClaimsOK'
  BY <1>1, <1>3, <1>4 DEF ClaimsOK, VoidClaim, KeysIn
<1>8. GiversOK'
  BY <1>0, <1>4, <1>5 DEF GiversOK
<1>9. PlanOK'
  BY <1>0, <1>4, <1>5 DEF PlanOK, TypeOK
<1>10. MoveOK'
  BY <1>0 DEF MoveOK
<1>. QED
  BY <1>6, <1>7, <1>8, <1>9, <1>10

-----------------------------------------------------------------------------
LEMMA NextIInv == IInv /\ [Next]_vars => IInv'
<1>. SUFFICES ASSUME IInv, [Next]_vars PROVE IInv'
  OBVIOUS
<1>. USE DEF IInv
<1>0. TypeOK'
  BY NextTypeOK
<1>01. UNCHANGED redisVars => (EpochOK /\ ClaimsOK /\ NoKeyLost)'
  BY SameNodesOK DEF NodesOK
<1>1. CASE GetClusterInfos
  BY <1>0, <1>01, <1>1, IdleOK DEF GetClusterInfos
<1>2. CASE WaitForClusterJoin
  <2>1. CASE pc' = "plan"
    <3>1. \A n \in Node, s \in Slot : Claims(n, s) => Prevails(n, s)
      BY <1>2, <2>1, ConsistentPrevails DEF WaitForClusterJoin, Return
    <3>2. GiversOK' /\ PlanOK' /\ MoveOK'
      BY <1>2, <2>1, <3>1
         DEF WaitForClusterJoin, GiversOK, PlanOK, MoveOK, Prevails, Claims, redisVars
    <3>. QED
      BY <1>0, <1>01, <1>2, <3>2 DEF WaitForClusterJoin
  <2>2. CASE pc' # "plan"
    BY <1>0, <1>01, <1>2, <2>2, IdleOK DEF WaitForClusterJoin, Return
  <2>. QED
    BY <2>1, <2>2
<1>3. ASSUME NEW m \in Node, NEW n \in Node, NEW s \in Slot, PickMove(m, n, s)
      PROVE  IInv'
  <2>1. GiversOK' /\ PlanOK'
    BY <1>3 DEF PickMove, GiversOK, PlanOK, Prevails, Claims, redisVars
  <2>2. MoveOK'
    BY <1>3 DEF PickMove, MoveOK
  <2>. QED
    BY <1>0, <1>01, <1>3, <2>1, <2>2 DEF PickMove
<1>4. CASE EndRebalance
  BY <1>0, <1>01, <1>4, IdleOK DEF EndRebalance, Return
<1>5. CASE SetSlotImporting
  BY <1>0, <1>5, SetSlotImportingIInv
<1>6. CASE SetSlotMigrating
  BY <1>0, <1>6, SetSlotMigratingIInv
<1>7. CASE MigrateKeysInSlot
  BY <1>0, <1>7, MigrateIInv DEF MigrateKeysInSlot
<1>8. CASE MigrateKeysInSlotDone
  <2>1. GiversOK' /\ PlanOK' /\ MoveOK'
    BY <1>8 DEF MigrateKeysInSlotDone, GiversOK, PlanOK, MoveOK, Prevails,
                Claims, KeysIn, redisVars, memory
  <2>. QED
    BY <1>0, <1>01, <1>8, <2>1 DEF MigrateKeysInSlotDone
<1>9. CASE MigrateKeysInSlotFails
  BY <1>0, <1>9, MigrateIInv, IdleOK DEF MigrateKeysInSlotFails, Return
<1>10. CASE SetSlotNodeDst
  BY <1>0, <1>10, SetSlotNodeDstIInv
<1>11. CASE SetSlotNodeSrc
  BY <1>0, <1>11, SetSlotNodeSrcIInv
<1>12. CASE Crash
  BY <1>0, <1>01, <1>12, IdleOK DEF Crash
<1>13. CASE Restart
  BY <1>0, <1>01, <1>13, IdleOK DEF Restart
<1>14. CASE Environment /\ UNCHANGED <<pc, memory>>
  BY <1>0, <1>14, GossipIInv, ClientWriteIInv DEF Environment
<1>15. CASE UNCHANGED vars
  BY <1>0, <1>01, <1>15
     DEF vars, memory, redisVars, GiversOK, PlanOK, MoveOK, Prevails, Claims, KeysIn
<1>. QED
  BY <1>1, <1>2, <1>3, <1>4, <1>5, <1>6, <1>7, <1>8, <1>9, <1>10, <1>11,
     <1>12, <1>13, <1>14, <1>15 DEF Next, MoveSlot

LEMMA Invariance == Spec => []IInv
BY InitIInv, NextIInv, PTL DEF Spec

(***************************************************************************)
(* moveSlot never loses an acknowledged key: whatever commands are lost,   *)
(* wherever MIGRATE stops and the operator crashes, every key written is   *)
(* on some node.                                                           *)
(***************************************************************************)
THEOREM KeysSurvive == Spec => []NoKeyLost
<1>1. IInv => NoKeyLost
  BY DEF IInv
<1>. QED
  BY <1>1, Invariance, PTL

(***************************************************************************)
(* At no time do two nodes both create keys of the same slot, although two *)
(* nodes may claim it at once.                                             *)
(***************************************************************************)
THEOREM NoTwoWriters == Spec => []OneWriter
<1>1. IInv => OneWriter
  BY DEF IInv, ClaimsOK, VoidClaim, OneWriter, Serves
<1>. QED
  BY <1>1, Invariance, PTL

-----------------------------------------------------------------------------
(***************************************************************************)
(* From here on no admin command is lost: every slot keeps an authority,   *)
(* and scaling up implements SlotOwnership.  The operator may still crash  *)
(* between any two commands.                                               *)
(***************************************************************************)
(***************************************************************************)
(* Before the source is told to give the slot up, the target has taken it. *)
(***************************************************************************)
TakenOK == pc = "nodeSrc" => Authority(move.dst, move.slot)

CInv == IInv /\ SlotCovered /\ TakenOK

(***************************************************************************)
(* A slot has one authority at most.                                       *)
(***************************************************************************)
LEMMA OneAuthority ==
  ASSUME TypeOK, NEW s \in Slot, NEW m \in Node, NEW n \in Node,
         Authority(m, s), Authority(n, s)
  PROVE  m = n
<1>. SUFFICES ASSUME m # n PROVE FALSE
  OBVIOUS
<1>1. epoch[m] < epoch[n] /\ epoch[n] < epoch[m]
  BY DEF Authority, Prevails
<1>. QED
  BY <1>1 DEF TypeOK, RedisTypeOK

LEMMA AuthorityIs ==
  ASSUME TypeOK, NEW s \in Slot, NEW n \in Node, Authority(n, s)
  PROVE  AuthorityOf[s] = n
<1>1. AuthorityOf[s] = CHOOSE m \in Node : Authority(m, s)
  BY DEF AuthorityOf
<1>2. \A m \in Node : Authority(m, s) => m = n
  BY OneAuthority
<1>. QED
  BY <1>1, <1>2

(***************************************************************************)
(* A step after which every authority is still one hands nothing over.     *)
(***************************************************************************)
AuthoritiesStay == \A n \in Node, s \in Slot : Authority(n, s) => Authority(n, s)'

LEMMA StayCovered ==
  ASSUME SlotCovered, AuthoritiesStay
  PROVE  SlotCovered'
BY DEF SlotCovered, AuthoritiesStay

LEMMA StaySame ==
  ASSUME TypeOK, TypeOK', SlotCovered, AuthoritiesStay
  PROVE  AuthorityOf' = AuthorityOf
<1>1. ASSUME NEW s \in Slot PROVE AuthorityOf'[s] = AuthorityOf[s]
  <2>1. PICK n \in Node : Authority(n, s)
    BY DEF SlotCovered
  <2>2. AuthorityOf[s] = n
    BY <2>1, AuthorityIs
  <2>3. Authority(n, s)'
    BY <2>1 DEF AuthoritiesStay
  <2>4. \A m \in Node : Authority(m, s)' => m = n
    <3>. SUFFICES ASSUME NEW m \in Node, Authority(m, s)', m # n PROVE FALSE
      OBVIOUS
    <3>1. epoch'[m] < epoch'[n] /\ epoch'[n] < epoch'[m]
      BY <2>3 DEF Authority, Prevails
    <3>. QED
      BY <3>1 DEF TypeOK, RedisTypeOK
  <2>5. AuthorityOf'[s] = CHOOSE m \in Node : Authority(m, s)'
    BY <2>3 DEF AuthorityOf
  <2>. QED
    BY <2>2, <2>3, <2>4, <2>5
<1>. QED
  BY <1>1 DEF AuthorityOf

LEMMA SameTablesStay ==
  ASSUME owner' = owner, epoch' = epoch
  PROVE  AuthoritiesStay
BY DEF AuthoritiesStay, Authority, Prevails, Claims

-----------------------------------------------------------------------------
(***************************************************************************)
(* A heartbeat takes a claim from a node only for a greater one, so no     *)
(* authority is lost, and the claim it takes away was void: no key goes.   *)
(***************************************************************************)
LEMMA GossipStays ==
  ASSUME IInv, NEW m \in Node, NEW n \in Node, Gossip(m, n)
  PROVE  AuthoritiesStay /\ keys' = keys
<1>. USE DEF IInv
<1>1. AuthoritiesStay
  <2>. SUFFICES ASSUME NEW p \in Node, NEW s \in Slot, Authority(p, s)
                PROVE  Authority(p, s)'
    BY DEF AuthoritiesStay
  <2>1. epoch' = epoch
    BY DEF Gossip
  <2>2. Claims(p, s)'
    <3>. SUFFICES ASSUME ~Claims(p, s)' PROVE FALSE
      OBVIOUS
    <3>1. p = m /\ m # n /\ Claims(n, s) /\ epoch[m] < epoch[n]
      BY GossipClaims DEF Authority, TypeOK
    <3>2. epoch[n] < epoch[m]
      BY <3>1 DEF Authority, Prevails
    <3>. QED
      BY <3>1, <3>2 DEF TypeOK, RedisTypeOK
  <2>3. \A q \in Node : Claims(q, s)' => Claims(q, s)
    BY GossipClaims DEF TypeOK
  <2>. QED
    BY <2>1, <2>2, <2>3 DEF Authority, Prevails
<1>2. ASSUME NEW k \in keys[m], Yields(m, n, SlotOf[k]), Claims(m, SlotOf[k])
      PROVE  FALSE
  <2>1. k \in Key /\ SlotOf[k] \in Slot
    BY SlotOfAssumption DEF TypeOK, RedisTypeOK
  <2>2. Claims(n, SlotOf[k]) /\ m # n /\ epoch[m] < epoch[n]
    BY <1>2, NodeAssumption DEF Yields, Claims
  <2>3. ~(epoch[n] < epoch[m])
    BY <2>2 DEF TypeOK, RedisTypeOK
  <2>4. KeysIn(m, SlotOf[k]) = {}
    BY <1>2, <2>1, <2>2, <2>3 DEF ClaimsOK, VoidClaim
  <2>. QED
    BY <2>4 DEF KeysIn
<1>3. {k \in keys[m] : ~(SlotOf[k] \in {s \in Slot : Yields(m, n, s)}
                         /\ Claims(m, SlotOf[k]))} = keys[m]
  BY <1>2
<1>4. keys' = keys
  BY <1>3 DEF Gossip, TypeOK, RedisTypeOK
<1>. QED
  BY <1>1, <1>4

(***************************************************************************)
(* SETSLOT NODE on the target arrives and makes it the authority; every    *)
(* other slot keeps its own.                                               *)
(***************************************************************************)
LEMMA NodeDstHandsOver ==
  ASSUME ~Faulty, IInv, SetSlotNodeDst
  PROVE  /\ Authority(move.dst, move.slot)'
         /\ \A n \in Node, s \in Slot \ {move.slot} : Authority(n, s) => Authority(n, s)'
         /\ keys' = keys
<1>. USE DEF IInv
<1>0. PICK src \in Node, dst \in Node, slot \in Slot :
        move = [src |-> src, dst |-> dst, slot |-> slot]
  BY DEF SetSlotNodeDst, TypeOK, Move
<1>1. /\ pc = "nodeDst" /\ UNCHANGED memory
      /\ src \in givers /\ dst \notin givers
      /\ importing[dst][slot] # NoNode
  BY <1>0 DEF SetSlotNodeDst, MoveOK
<1>2. SetNode(dst, {slot}, dst)
  <2>1. AcceptsNode(dst, {slot}, dst) = {slot}
    BY DEF AcceptsNode
  <2>. QED
    BY <1>0, <2>1 DEF SetSlotNodeDst, SetSlots
<1>3. keys' = keys
  BY <1>2 DEF SetNode
<1>4. epoch' = [epoch EXCEPT ![dst] = currentEpoch + 1]
  BY <1>1, <1>2 DEF SetNode
<1>5. \A p \in Node, t \in Slot :
        owner'[p][t] = IF p = dst /\ t = slot THEN dst ELSE owner[p][t]
  BY <1>2 DEF SetNode, With, TypeOK, RedisTypeOK
<1>6. /\ epoch'[dst] = currentEpoch + 1
      /\ \A p \in Node \ {dst} : epoch'[p] = epoch[p] /\ epoch'[p] < epoch'[dst]
  BY <1>4 DEF EpochOK, TypeOK, RedisTypeOK
<1>7. Authority(dst, slot)'
  BY <1>5, <1>6 DEF Authority, Claims, Prevails
<1>8. ASSUME NEW n \in Node, NEW s \in Slot \ {slot}, Authority(n, s)
      PROVE  Authority(n, s)'
  <2>1. \A p \in Node : Claims(p, s)' <=> Claims(p, s)
    BY <1>5 DEF Claims
  <2>2. CASE n = dst
    BY <1>6, <1>8, <2>1, <2>2 DEF Authority, Prevails
  <2>3. CASE n # dst
    <3>1. ~Claims(dst, s)
      <4>. SUFFICES ASSUME Claims(dst, s) PROVE FALSE
        OBVIOUS
      <4>1. Authority(dst, s)
        BY <1>1 DEF GiversOK, Authority
      <4>. QED
        BY <1>8, <2>3, <4>1, OneAuthority
    <3>. QED
      BY <1>6, <1>8, <2>1, <2>3, <3>1 DEF Authority, Prevails
  <2>. QED
    BY <2>2, <2>3
<1>. QED
  BY <1>0, <1>1, <1>3, <1>7, <1>8 DEF memory

(***************************************************************************)
(* SETSLOT NODE on the source takes nothing from an authority.             *)
(***************************************************************************)
LEMMA NodeSrcStays ==
  ASSUME CInv, SetSlotNodeSrc
  PROVE  AuthoritiesStay /\ keys' = keys
<1>. USE DEF CInv, IInv
<1>0. PICK src \in Node, dst \in Node, slot \in Slot :
        move = [src |-> src, dst |-> dst, slot |-> slot]
  BY DEF SetSlotNodeSrc, TypeOK, Move
<1>1. PICK D \in SUBSET {slot} : SetNode(src, D, dst)
  BY <1>0 DEF SetSlotNodeSrc
<1>2. src # dst /\ Authority(dst, slot)
  BY <1>0 DEF SetSlotNodeSrc, MoveOK, TakenOK
<1>3. keys' = keys /\ epoch' = epoch
  BY <1>1, <1>2 DEF SetNode
<1>4. \A p \in Node, t \in Slot :
        owner'[p][t] = IF p = src /\ t \in D THEN dst ELSE owner[p][t]
  BY <1>1 DEF SetNode, With, TypeOK, RedisTypeOK
<1>5. ASSUME NEW n \in Node, NEW s \in Slot, Authority(n, s)
      PROVE  Authority(n, s)'
  <2>1. ~(n = src /\ s = slot)
    BY <1>2, <1>5, OneAuthority
  <2>2. Claims(n, s)' /\ \A p \in Node : Claims(p, s)' => Claims(p, s)
    BY <1>2, <1>4, <1>5, <2>1 DEF Claims, Authority
  <2>. QED
    BY <1>3, <1>5, <2>2 DEF Authority, Prevails
<1>. QED
  BY <1>3, <1>5 DEF AuthoritiesStay

(***************************************************************************)
(* MIGRATE without an error moves keys and loses none.                     *)
(***************************************************************************)
LEMMA MigrateStores ==
  ASSUME IInv, MigrateKeysInSlot
  PROVE  Stored' = Stored /\ owner' = owner /\ epoch' = epoch
<1>. USE DEF IInv
<1>0. PICK src \in Node, dst \in Node, slot \in Slot :
        move = [src |-> src, dst |-> dst, slot |-> slot]
  BY DEF MigrateKeysInSlot, TypeOK, Move
<1>1. PICK K \in SUBSET KeysIn(src, slot) : Migrate(src, dst, K, K)
  BY <1>0 DEF MigrateKeysInSlot
<1>2. src # dst /\ K \subseteq keys[src]
  BY <1>0 DEF MigrateKeysInSlot, MoveOK, KeysIn
<1>3. /\ keys'[src] = keys[src] \ K /\ keys'[dst] = keys[dst] \cup K
      /\ \A p \in Node \ {src, dst} : keys'[p] = keys[p]
  BY <1>1, <1>2 DEF Migrate, TypeOK, RedisTypeOK
<1>4. \A k : k \in Stored' <=> k \in Stored
  <2>1. ASSUME NEW k, NEW p \in Node, k \in keys[p]
        PROVE  \E q \in Node : k \in keys'[q]
    BY <1>2, <1>3, <2>1
  <2>2. ASSUME NEW k, NEW p \in Node, k \in keys'[p]
        PROVE  \E q \in Node : k \in keys[q]
    BY <1>2, <1>3, <2>2
  <2>. QED
    BY <2>1, <2>2 DEF Stored
<1>. QED
  BY <1>1, <1>4 DEF Migrate, Stored

-----------------------------------------------------------------------------
(***************************************************************************)
(* Every step but SETSLOT NODE on the target leaves the authorities alone, *)
(* and only clients change what is stored.                                 *)
(***************************************************************************)
LEMMA StepStays ==
  ASSUME ~Faulty, CInv, [Next]_vars
  PROVE  \/ SetSlotNodeDst
         \/ /\ AuthoritiesStay
            /\ \/ Stored' = Stored
               \/ \E k \in Key : Stored' = Stored \cup {k}
            /\ pc' = "nodeSrc" => pc = "nodeSrc" /\ move' = move
<1>. USE DEF CInv
<1>. DEFINE Stays == /\ AuthoritiesStay
                     /\ \/ Stored' = Stored
                        \/ \E k \in Key : Stored' = Stored \cup {k}
                     /\ pc' = "nodeSrc" => pc = "nodeSrc" /\ move' = move
<1>1. CASE UNCHANGED redisVars /\ pc' # "nodeSrc"
  BY <1>1, SameTablesStay DEF redisVars, Stored
<1>2. CASE SetSlotImporting
  BY <1>2, SameTablesStay DEF SetSlotImporting, SetImporting, Return, Stored
<1>3. CASE SetSlotMigrating
  BY <1>3, SameTablesStay DEF SetSlotMigrating, SetMigrating, Return, Stored
<1>4. CASE MigrateKeysInSlot
  BY <1>4, MigrateStores, SameTablesStay DEF MigrateKeysInSlot
<1>5. CASE MigrateKeysInSlotFails
  BY <1>5 DEF MigrateKeysInSlotFails
<1>6. CASE SetSlotNodeSrc
  BY <1>6, NodeSrcStays DEF SetSlotNodeSrc, Stored
<1>7. ASSUME NEW m \in Node, NEW n \in Node, Gossip(m, n), UNCHANGED <<pc, memory>>
      PROVE  Stays
  BY <1>7, GossipStays DEF Stored, memory
<1>8. ASSUME NEW k \in Key, NEW n \in Node, ClientWrite(k, n), UNCHANGED <<pc, memory>>
      PROVE  Stays
  <2>1. owner' = owner /\ epoch' = epoch
    BY <1>8 DEF ClientWrite
  <2>2. keys' = [keys EXCEPT ![n] = keys[n] \cup {k}]
    BY <1>8 DEF ClientWrite
  <2>3. Stored' = Stored \cup {k}
    BY <2>2 DEF Stored, IInv, TypeOK, RedisTypeOK
  <2>. QED
    BY <1>8, <2>1, <2>3, SameTablesStay DEF memory
<1>9. CASE UNCHANGED vars
  BY <1>9, SameTablesStay DEF vars, redisVars, memory, Stored
<1>10. CASE \/ GetClusterInfos \/ WaitForClusterJoin \/ EndRebalance
            \/ MigrateKeysInSlotDone \/ Crash \/ Restart
            \/ \E m, n \in Node, s \in Slot : PickMove(m, n, s)
  <2>1. UNCHANGED redisVars /\ pc' # "nodeSrc"
    BY <1>10 DEF GetClusterInfos, WaitForClusterJoin, EndRebalance, Return,
                 MigrateKeysInSlotDone, Crash, Restart, PickMove
  <2>. QED
    BY <1>1, <2>1
<1>. QED
  BY <1>2, <1>3, <1>4, <1>5, <1>6, <1>7, <1>8, <1>9, <1>10
     DEF Next, MoveSlot, Environment

LEMMA InitCInv == Init => CInv
<1>. SUFFICES ASSUME Init PROVE CInv
  OBVIOUS
<1>1. PICK table \in [Slot -> Node], W \in SUBSET Key : RestInit(table, W)
  BY DEF Init
<1>2. \A s \in Slot : Authority(table[s], s)
  BY <1>1 DEF RestInit, Authority, Claims, Prevails
<1>3. SlotCovered
  BY <1>2 DEF SlotCovered
<1>. QED
  BY <1>3, InitIInv DEF Init, CInv, TakenOK

LEMMA NextCInv ==
  ASSUME ~Faulty, CInv, [Next]_vars
  PROVE  CInv'
<1>1. IInv'
  BY NextIInv DEF CInv
<1>2. CASE SetSlotNodeDst
  <2>1. PICK dst \in Node, slot \in Slot : move.dst = dst /\ move.slot = slot
    BY <1>2 DEF SetSlotNodeDst, CInv, IInv, TypeOK, Move
  <2>2. move' = move
    BY <1>2 DEF SetSlotNodeDst, memory
  <2>3. /\ Authority(dst, slot)'
        /\ \A n \in Node, s \in Slot \ {slot} : Authority(n, s) => Authority(n, s)'
    BY <1>2, <2>1, <2>2, NodeDstHandsOver DEF CInv, Authority, Claims, Prevails
  <2>4. SlotCovered'
    BY <2>3 DEF CInv, SlotCovered
  <2>5. TakenOK'
    BY <2>1, <2>2, <2>3 DEF TakenOK, Authority, Claims, Prevails
  <2>. QED
    BY <1>1, <2>4, <2>5 DEF CInv
<1>3. CASE ~SetSlotNodeDst
  <2>1. AuthoritiesStay /\ (pc' = "nodeSrc" => pc = "nodeSrc" /\ move' = move)
    BY <1>3, StepStays
  <2>2. SlotCovered'
    BY <2>1, StayCovered DEF CInv
  <2>3. TakenOK'
    <3>. SUFFICES ASSUME pc' = "nodeSrc" PROVE Authority(move.dst, move.slot)'
      BY DEF TakenOK
    <3>1. PICK dst \in Node, slot \in Slot : move.dst = dst /\ move.slot = slot
      BY <2>1 DEF CInv, IInv, TypeOK, Move
    <3>2. Authority(dst, slot)
      BY <2>1, <3>1 DEF CInv, TakenOK
    <3>3. Authority(dst, slot)'
      BY <2>1, <3>2 DEF AuthoritiesStay
    <3>. QED
      BY <2>1, <3>1, <3>3 DEF Authority, Claims, Prevails
  <2>. QED
    BY <1>1, <2>2, <2>3 DEF CInv
<1>. QED
  BY <1>2, <1>3

(***************************************************************************)
(* When no command is lost, every slot has an authority at all times,      *)
(* wherever the operator crashes within moveSlot.                          *)
(***************************************************************************)
THEOREM AlwaysCovered == ~Faulty => (Spec => []SlotCovered)
<1>. SUFFICES ASSUME ~Faulty PROVE Spec => []SlotCovered
  OBVIOUS
<1>1. CInv /\ [Next]_vars => CInv'
  BY NextCInv
<1>2. CInv => SlotCovered
  BY DEF CInv
<1>. QED
  BY <1>1, <1>2, InitCInv, PTL DEF Spec

-----------------------------------------------------------------------------
LEMMA AuthorityOfType == AuthorityOf \in [Slot -> Node \cup {NoNode}]
<1>1. ASSUME NEW s \in Slot PROVE AuthorityOf[s] \in Node \cup {NoNode}
  BY DEF AuthorityOf
<1>. QED
  BY <1>1 DEF AuthorityOf

LEMMA StoredType == TypeOK => Stored \in SUBSET Key
BY DEF TypeOK, RedisTypeOK, Stored

(***************************************************************************)
(* Each step is a step of SlotOwnership or changes nothing there.          *)
(***************************************************************************)
LEMMA StepImplements ==
  ASSUME ~Faulty, CInv, [Next]_vars
  PROVE  [Ownership!Next]_(Ownership!vars)
<1>1. CInv' /\ TypeOK /\ TypeOK' /\ SlotCovered
  BY NextCInv DEF CInv, IInv
<1>2. CASE SetSlotNodeDst
  <2>1. PICK dst \in Node, slot \in Slot : move.dst = dst /\ move.slot = slot
    BY <1>2 DEF SetSlotNodeDst, CInv, IInv, TypeOK, Move
  <2>2. /\ Authority(dst, slot)'
        /\ \A n \in Node, s \in Slot \ {slot} : Authority(n, s) => Authority(n, s)'
        /\ Stored' = Stored
    <3>1. move' = move
      BY <1>2 DEF SetSlotNodeDst, memory
    <3>. QED
      BY <1>2, <2>1, <3>1, NodeDstHandsOver
         DEF CInv, Authority, Claims, Prevails, Stored
  <2>3. ASSUME NEW s \in Slot, NEW n \in Node, Authority(n, s)'
        PROVE  AuthorityOf'[s] = n
    <3>1. \A m \in Node : Authority(m, s)' => m = n
      <4>. SUFFICES ASSUME NEW m \in Node, Authority(m, s)', m # n PROVE FALSE
        OBVIOUS
      <4>1. epoch'[m] < epoch'[n] /\ epoch'[n] < epoch'[m]
        BY <2>3 DEF Authority, Prevails
      <4>. QED
        BY <1>1, <4>1 DEF TypeOK, RedisTypeOK
    <3>2. AuthorityOf'[s] = CHOOSE m \in Node : Authority(m, s)'
      BY <2>3 DEF AuthorityOf
    <3>. QED
      BY <2>3, <3>1, <3>2
  <2>4. ASSUME NEW s \in Slot PROVE AuthorityOf'[s] \in {AuthorityOf[s], dst}
    <3>1. CASE s = slot
      BY <2>2, <2>3, <3>1
    <3>2. CASE s # slot
      <4>1. PICK n \in Node : Authority(n, s)
        BY <1>1 DEF SlotCovered
      <4>2. AuthorityOf[s] = n
        BY <1>1, <4>1, AuthorityIs
      <4>3. AuthorityOf'[s] = n
        BY <2>2, <2>3, <3>2, <4>1
      <4>. QED
        BY <4>2, <4>3
    <3>. QED
      BY <3>1, <3>2
  <2>5. AuthorityOf' \in [Slot -> Node \cup {NoNode}]
    <3>1. ASSUME NEW s \in Slot PROVE AuthorityOf'[s] \in Node \cup {NoNode}
      BY <2>4, AuthorityOfType
    <3>. QED
      BY <3>1 DEF AuthorityOf
  <2>6. Ownership!Handover(dst)
    BY <2>2, <2>4, <2>5 DEF Ownership!Handover
  <2>. QED
    BY <2>6 DEF Ownership!Next
<1>3. CASE ~SetSlotNodeDst
  <2>1. AuthorityOf' = AuthorityOf
    BY <1>1, <1>3, StepStays, StaySame
  <2>2. CASE Stored' = Stored
    BY <2>1, <2>2 DEF Ownership!vars
  <2>3. ASSUME NEW k \in Key, Stored' = Stored \cup {k}
        PROVE  Ownership!Next
    BY <2>1, <2>3 DEF Ownership!Next, Ownership!Store
  <2>. QED
    BY <1>3, <2>2, <2>3, StepStays
<1>. QED
  BY <1>2, <1>3

(***************************************************************************)
(* When no command is lost, scaling up implements SlotOwnership: authority *)
(* over a slot passes at once and stored keys stay.                        *)
(***************************************************************************)
THEOREM ImplementsOwnership == ~Faulty => (Spec => HandoverIsAtomic)
<1>. SUFFICES ASSUME ~Faulty PROVE Spec => HandoverIsAtomic
  OBVIOUS
<1>1. Init => Ownership!Init
  BY InitTypeOK, AuthorityOfType, StoredType DEF Ownership!Init
<1>2. CInv /\ [Next]_vars => CInv'
  BY NextCInv
<1>3. CInv /\ [Next]_vars => [Ownership!Next]_(Ownership!vars)
  BY StepImplements
<1>. QED
  BY <1>1, <1>2, <1>3, InitCInv, PTL DEF Spec, HandoverIsAtomic, Ownership!Spec

=============================================================================
