------------------------ MODULE ScaleDownRefinement ------------------------
(***************************************************************************)
(* Proofs about ScaleDown when no admin command is lost: every slot is     *)
(* dispatched, only empty nodes are removed, no key is lost, and scaling   *)
(* down implements SlotOwnership.  The operator may still crash between    *)
(* any two commands; the last two theorems, on where redirections lead,    *)
(* are about behaviours in which it does not.                              *)
(***************************************************************************)
EXTENDS ScaleDownProofs

(***************************************************************************)
(* The inductive invariant when no command is lost; the operator may still *)
(* crash anywhere.                                                         *)
(***************************************************************************)
EpochOK == \A n \in Node : epoch[n] <= currentEpoch

\* Of two claims on a slot the newer is that of a master that stays, and the
\* other node redirects and has no key of the slot left.
VoidOK ==
  \A s \in Slot, m, n \in Node :
    Claims(m, s) /\ Claims(n, s) /\ m # n =>
      /\ epoch[m] # epoch[n]
      /\ epoch[m] < epoch[n] =>
           n \in NewMasters /\ migrating[m][s] # NoNode /\ KeysIn(m, s) = {}

\* A node that does not stay has keys of its own slots only.
KeysOK ==
  \A n \in Node : \A k \in keys[n] : Claims(n, SlotOf[k]) \/ n \in NewMasters

Stays(s) == \E x \in NewMasters : Claims(x, s)

Settled(s) == Sole(s) /\ Stays(s)

\* What is neither to be dispatched nor being dispatched is with a master
\* that stays.
SettledOK ==
  /\ pc \in {"heal", "join", "meet"} =>
       \A n \in NewMasters : \A s \in bom[n] : Stays(s)
  /\ pc = "dispatch" => \A s \in Slot \ todo : Settled(s)
  /\ pc \in InBatch => \A s \in Slot \ (todo \cup batch.slots) : Settled(s)
  /\ pc \in {"forget", "delete"} => todo = {} /\ \A s \in Slot : Settled(s)

\* The target of the batch imports its slots, then claims them with the
\* newest epoch, and then alone.
TakenOK ==
  /\ pc \in {"migrating", "keys", "nodeDst"} =>
       \A s \in batch.slots : importing[batch.dst][s] # NoNode
  /\ pc = "nodeDst" => \A s \in batch.slots : KeysIn(batch.src, s) = {}
  /\ pc = "nodeSrc" => \A s \in batch.slots :
       /\ Claims(batch.dst, s)
       /\ epoch[batch.src] < epoch[batch.dst]
       /\ \A n \in Node : Claims(n, s) => n \in {batch.src, batch.dst}
  /\ pc = "tell" => \A s \in batch.slots : Sole(s) /\ Claims(batch.dst, s)

HInv == IInv /\ EpochOK /\ VoidOK /\ KeysOK /\ SettledOK /\ TakenOK

LEMMA InitHInv == Init => HInv
<1>. SUFFICES ASSUME Init PROVE HInv
  OBVIOUS
<1>1. IInv
  BY InitIInv
<1>2. PICK table \in [Slot -> Maybe], W \in SUBSET Key : RestInit(table, W)
  BY DEF Init
<1>3. \A n \in Node, s \in Slot : owner[n][s] = table[s]
  BY <1>2 DEF RestInit
<1>4. EpochOK
  <2>. SUFFICES ASSUME NEW n \in Node PROVE epoch[n] <= currentEpoch
    BY DEF EpochOK
  <2>1. epoch[n] = currentEpoch /\ currentEpoch \in Nat
    BY <1>2 DEF RestInit
  <2>. QED
    BY <2>1
<1>5. VoidOK
  BY <1>3 DEF VoidOK, Claims
<1>6. KeysOK
  BY <1>2, <1>3, SlotOfAssumption DEF RestInit, KeysOK, Claims
<1>7. SettledOK /\ TakenOK
  BY DEF Init, SettledOK, TakenOK, InBatch
<1>. QED
  BY <1>1, <1>4, <1>5, <1>6, <1>7 DEF HInv

\* Between two Reconciles, and while the operator is down, nothing is promised.
LEMMA IdleSettled ==
  ASSUME pc' \in {"read", "down", "status"}
  PROVE  SettledOK' /\ TakenOK'
BY DEF SettledOK, TakenOK, InBatch

\* Steps that leave the nodes alone.
LEMMA SameNodesOK ==
  ASSUME EpochOK, VoidOK, KeysOK, UNCHANGED redisVars
  PROVE  EpochOK' /\ VoidOK' /\ KeysOK'
BY DEF EpochOK, VoidOK, KeysOK, Claims, KeysIn, redisVars

LEMMA SameClaimsOK ==
  ASSUME TypeOK, EpochOK, VoidOK, KeysOK, UNCHANGED <<keys, epoch, currentEpoch>>,
         \A p \in Node, s \in Slot : /\ Claims(p, s)' <=> Claims(p, s)
                                     /\ migrating'[p][s] = migrating[p][s]
  PROVE  EpochOK' /\ VoidOK' /\ KeysOK'
<1>1. EpochOK'
  BY DEF EpochOK
<1>2. VoidOK'
  BY DEF VoidOK, KeysIn, NewMasters
<1>3. KeysOK'
  BY SlotOfAssumption DEF KeysOK, NewMasters, TypeOK, RedisTypeOK
<1>. QED
  BY <1>1, <1>2, <1>3

LEMMA SameClaimsSettled ==
  ASSUME NEW s, \A p \in Node : Claims(p, s)' <=> Claims(p, s)
  PROVE  /\ Sole(s)' <=> Sole(s)
         /\ Stays(s)' <=> Stays(s)
         /\ Settled(s)' <=> Settled(s)
BY DEF Sole, Stays, Settled, NewMasters

LEMMA MemoryHInv ==
  ASSUME HInv, IInv', UNCHANGED redisVars,
         GetClusterInfos \/ UpdateStatus \/ Crash \/ Restart \/ EndDispatch
           \/ MigrateKeysDone
  PROVE  HInv'
<1>. USE DEF HInv
<1>0. EpochOK' /\ VoidOK' /\ KeysOK'
  BY SameNodesOK
<1>c. \A p \in Node : \A s : Claims(p, s)' <=> Claims(p, s)
  BY DEF Claims, redisVars
<1>s. \A s : /\ Sole(s)' <=> Sole(s)
             /\ Stays(s)' <=> Stays(s)
             /\ Settled(s)' <=> Settled(s)
  BY <1>c, SameClaimsSettled
<1>1. CASE GetClusterInfos
  <2>1. pc' = "heal" /\ \A n \in NewMasters : \A s \in bom'[n] : Claims(n, s)
    BY <1>1 DEF GetClusterInfos, OwnSlots, NewMasters
  <2>2. SettledOK' /\ TakenOK'
    BY <1>s, <2>1 DEF SettledOK, TakenOK, Stays, InBatch
  <2>. QED
    BY <1>0, <2>2
<1>2. CASE UpdateStatus \/ Crash \/ Restart
  BY <1>0, <1>2, IdleSettled DEF UpdateStatus, Crash, Restart, Return
<1>3. CASE EndDispatch
  <2>1. CASE Return
    BY <1>0, <2>1, IdleSettled DEF Return
  <2>2. CASE ~Return
    <3>1. pc = "dispatch" /\ pc' = "forget" /\ todo = {} /\ todo' = {}
      BY <1>3, <2>2 DEF EndDispatch, memory
    <3>. QED
      BY <1>0, <1>s, <3>1 DEF SettledOK, TakenOK, InBatch
  <2>. QED
    BY <2>1, <2>2
<1>4. CASE MigrateKeysDone
  <2>1. pc = "keys" /\ pc' = "nodeDst" /\ todo' = todo /\ batch' = batch /\ KeysToMove = {}
        /\ importing' = importing /\ keys' = keys
    BY <1>4 DEF MigrateKeysDone, memory, redisVars
  <2>2. \A s \in batch.slots : KeysIn(batch.src, s)' = {}
    BY <2>1 DEF KeysToMove, KeysIn
  <2>3. SettledOK' /\ TakenOK'
    BY <1>s, <2>1, <2>2 DEF SettledOK, TakenOK, InBatch
  <2>. QED
    BY <1>0, <2>3
<1>. QED
  BY <1>1, <1>2, <1>3, <1>4

LEMMA JoinHInv ==
  ASSUME HInv, IInv', WaitForClusterJoin \/ WaitForClusterMeet
  PROVE  HInv'
<1>. USE DEF HInv
<1>0. EpochOK' /\ VoidOK' /\ KeysOK'
  BY SameNodesOK DEF WaitForClusterJoin, WaitForClusterMeet
<1>1. \A p \in Node : \A s : Claims(p, s)' <=> Claims(p, s)
  BY DEF WaitForClusterJoin, WaitForClusterMeet, Claims, redisVars
<1>2. pc \in {"join", "meet"}
  BY DEF WaitForClusterJoin, WaitForClusterMeet
<1>3. CASE Return
  BY <1>0, <1>3, IdleSettled DEF Return
<1>4. CASE ~Return /\ ~Agree
  <2>1. pc' = "meet" /\ bom' = bom
    BY <1>4 DEF WaitForClusterJoin, WaitForClusterMeet, memory
  <2>2. SettledOK'
    <3>1. \A s : Stays(s)' <=> Stays(s)
      BY <1>1, SameClaimsSettled
    <3>. QED
      BY <1>2, <2>1, <3>1 DEF SettledOK, InBatch
  <2>. QED
    BY <1>0, <2>1, <2>2 DEF TakenOK
<1>5. CASE ~Return /\ Agree
  <2>1. pc' = "dispatch" /\ \A s \in Slot \ todo' : \E n \in NewMasters : s \in bom[n]
    BY <1>5 DEF WaitForClusterJoin, WaitForClusterMeet, SyncCluster
  <2>2. \A s \in Slot : Sole(s)
    BY <1>5, AgreeSole DEF IInv
  <2>3. \A s \in Slot \ todo' : Settled(s)'
    BY <1>1, <1>2, <2>1, <2>2, SameClaimsSettled DEF SettledOK, Settled
  <2>. QED
    BY <1>0, <2>1, <2>3 DEF SettledOK, TakenOK, InBatch
<1>. QED
  BY <1>3, <1>4, <1>5

LEMMA PickBatchHInv ==
  ASSUME HInv, IInv', NEW m \in Maybe, NEW n \in Node, NEW S \in SUBSET Slot,
         PickBatch(m, n, S)
  PROVE  HInv'
<1>. USE DEF HInv
<1>0. EpochOK' /\ VoidOK' /\ KeysOK'
  BY SameNodesOK DEF PickBatch
<1>1. \A p \in Node : \A s : Claims(p, s)' <=> Claims(p, s)
  BY DEF PickBatch, Claims, redisVars
<1>2. /\ pc = "dispatch" /\ pc' \in {"addslots", "importing"}
      /\ todo' = todo \ S /\ batch'.slots = S
  BY DEF PickBatch
<1>3. SettledOK'
  BY <1>1, <1>2, SameClaimsSettled DEF SettledOK, InBatch
<1>. QED
  BY <1>0, <1>2, <1>3 DEF TakenOK

LEMMA HealHInv ==
  ASSUME HInv, IInv', Heal
  PROVE  HInv'
<1>. USE DEF HInv
<1>1. CASE Ghosts = {}
  <2>1. pc = "heal" /\ pc' = "join" /\ UNCHANGED <<redisVars, bom>>
    BY <1>1 DEF Heal, memory
  <2>2. EpochOK' /\ VoidOK' /\ KeysOK'
    BY <2>1, SameNodesOK
  <2>3. \A s : Stays(s)' <=> Stays(s)
    BY <2>1 DEF Stays, Claims, redisVars, NewMasters
  <2>4. SettledOK' /\ TakenOK'
    BY <2>1, <2>3 DEF SettledOK, TakenOK, InBatch
  <2>. QED
    BY <2>2, <2>4
<1>2. CASE Ghosts # {}
  <2>1. UNCHANGED <<keys, epoch, currentEpoch>> /\ Return
    BY <1>2 DEF Heal, ForgetNode
  <2>2. \A p \in Node, s \in Slot : /\ Claims(p, s)' <=> Claims(p, s)
                                    /\ migrating'[p][s] = migrating[p][s]
    BY <1>2, HealClaims DEF IInv
  <2>3. EpochOK' /\ VoidOK' /\ KeysOK'
    BY <2>1, <2>2, SameClaimsOK DEF IInv
  <2>. QED
    BY <2>1, <2>3, IdleSettled DEF Return
<1>. QED
  BY <1>1, <1>2

LEMMA AddSlotsHInv ==
  ASSUME ~Faulty, HInv, IInv', AddSlots
  PROVE  HInv'
<1>. USE DEF HInv, IInv
<1>0. /\ pc = "addslots" /\ pc \in InBatch /\ batch.dst \in Node /\ batch.dst \in NewMasters
      /\ batch.slots \in SUBSET Slot
      /\ UNCHANGED <<migrating, keys, epoch, currentEpoch>>
  BY BatchNodes DEF AddSlots, InBatch, PairOK, redisVars
<1>1. \A s \in batch.slots, n \in Node : ~Claims(n, s)
  BY <1>0 DEF BatchOK
<1>2. CASE UNCHANGED redisVars /\ Return
  BY <1>2, SameNodesOK, IdleSettled DEF Return
<1>3. CASE ~(UNCHANGED redisVars /\ Return)
  <2>1. owner' = With(owner, batch.dst, batch.slots, batch.dst) /\ NextBatch
    BY <1>3 DEF AddSlots
  <2>2. ASSUME NEW p \in Node, NEW s \in Slot
        PROVE  Claims(p, s)' <=> (Claims(p, s) \/ (p = batch.dst /\ s \in batch.slots))
    <3>1. owner \in [Node -> [Slot -> Maybe]]
      BY DEF TypeOK, RedisTypeOK
    <3>2. owner'[p][s] =
            IF p = batch.dst /\ s \in batch.slots THEN batch.dst ELSE owner[p][s]
      BY <1>0, <2>1, <3>1, WithValue
    <3>. QED
      BY <3>2 DEF Claims
  <2>3. EpochOK'
    BY <1>0 DEF EpochOK
  <2>4. VoidOK'
    BY <1>0, <1>1, <2>2 DEF VoidOK, KeysIn
  <2>5. KeysOK'
    BY <1>0, <2>2, SlotOfAssumption DEF KeysOK, TypeOK, RedisTypeOK
  <2>6. pc' = "dispatch" /\ todo' = todo
    BY <2>1 DEF NextBatch
  <2>7. ASSUME NEW s \in Slot, s \notin todo PROVE Settled(s)'
    <3>1. CASE s \in batch.slots
      BY <1>0, <1>1, <2>2, <3>1 DEF Settled, Sole, Stays, NewMasters
    <3>2. CASE s \notin batch.slots
      <4>1. Settled(s)
        BY <1>0, <2>7, <3>2 DEF SettledOK
      <4>. QED
        BY <2>2, <3>2, <4>1, SameClaimsSettled
    <3>. QED
      BY <3>1, <3>2
  <2>. QED
    BY <2>3, <2>4, <2>5, <2>6, <2>7 DEF SettledOK, TakenOK, InBatch
<1>. QED
  BY <1>2, <1>3

LEMMA SetSlotsImportingHInv ==
  ASSUME HInv, IInv', SetSlotsImporting
  PROVE  HInv'
<1>. USE DEF HInv, IInv
<1>0. /\ pc = "importing" /\ UNCHANGED <<owner, migrating, keys, epoch, currentEpoch>>
      /\ batch.dst \in Node /\ batch.src \in Node /\ batch.slots \in SUBSET Slot
  BY BatchNodes DEF SetSlotsImporting, SetImporting, InBatch
<1>1. \A p \in Node : \A s : Claims(p, s)' <=> Claims(p, s)
  BY <1>0 DEF Claims
<1>2. EpochOK' /\ VoidOK' /\ KeysOK'
  BY <1>0, <1>1, SameClaimsOK
<1>3. CASE Return
  BY <1>2, <1>3, IdleSettled DEF Return
<1>4. CASE ~Return
  <2>1. PICK D \in SUBSET batch.slots :
          D = batch.slots /\ SetImporting(batch.dst, D, batch.src)
    BY <1>4 DEF SetSlotsImporting, SetSlots
  <2>2. pc' = "migrating" /\ UNCHANGED <<todo, batch>>
    BY <1>4 DEF SetSlotsImporting, memory
  <2>3. ASSUME NEW s \in batch.slots PROVE importing'[batch.dst][s] # NoNode
    <3>1. importing \in [Node -> [Slot -> Maybe]]
      BY DEF TypeOK, RedisTypeOK
    <3>2. importing' = With(importing, batch.dst, batch.slots, batch.src)
      BY <2>1 DEF SetImporting
    <3>3. importing'[batch.dst][s] = batch.src
      BY <1>0, <3>1, <3>2, WithValue
    <3>. QED
      BY <1>0, <3>3, NodeAssumption
  <2>4. TakenOK'
    BY <2>2, <2>3 DEF TakenOK
  <2>5. SettledOK'
    <3>1. \A s \in Slot \ (todo \cup batch.slots) : Settled(s)'
      BY <1>0, <1>1, SameClaimsSettled DEF SettledOK, InBatch
    <3>. QED
      BY <2>2, <3>1 DEF SettledOK, InBatch
  <2>. QED
    BY <1>2, <2>4, <2>5
<1>. QED
  BY <1>3, <1>4

LEMMA SetSlotsMigratingHInv ==
  ASSUME HInv, IInv', SetSlotsMigrating
  PROVE  HInv'
<1>. USE DEF HInv, IInv
<1>0. /\ pc = "migrating" /\ UNCHANGED <<owner, importing, keys, epoch, currentEpoch>>
      /\ batch.dst \in Node /\ batch.src \in Node /\ batch.slots \in SUBSET Slot
  BY BatchNodes DEF SetSlotsMigrating, SetMigrating, InBatch
<1>1. \A p \in Node : \A s : Claims(p, s)' <=> Claims(p, s)
  BY <1>0 DEF Claims
<1>2. ASSUME NEW p \in Node, NEW s \in Slot
      PROVE  migrating[p][s] # NoNode => migrating'[p][s] # NoNode
  <2>1. PICK D : migrating' = With(migrating, batch.src, D, batch.dst)
    BY DEF SetSlotsMigrating, SetMigrating
  <2>2. migrating \in [Node -> [Slot -> Maybe]]
    BY DEF TypeOK, RedisTypeOK
  <2>3. migrating'[p][s] = IF p = batch.src /\ s \in D THEN batch.dst ELSE migrating[p][s]
    BY <1>0, <2>1, <2>2, WithValue
  <2>. QED
    BY <1>0, <2>3, NodeAssumption
<1>3. VoidOK'
  BY <1>0, <1>1, <1>2 DEF VoidOK, KeysIn
<1>4. EpochOK' /\ KeysOK'
  BY <1>0, <1>1 DEF EpochOK, KeysOK
<1>5. CASE Return
  BY <1>3, <1>4, <1>5, IdleSettled DEF Return
<1>6. CASE ~Return
  <2>1. pc' = "keys" /\ UNCHANGED <<todo, batch>>
    BY <1>6 DEF SetSlotsMigrating, memory
  <2>2. TakenOK'
    BY <1>0, <2>1 DEF TakenOK
  <2>3. SettledOK'
    <3>1. \A s \in Slot \ (todo \cup batch.slots) : Settled(s)'
      BY <1>0, <1>1, SameClaimsSettled DEF SettledOK, InBatch
    <3>. QED
      BY <2>1, <3>1 DEF SettledOK, InBatch
  <2>. QED
    BY <1>3, <1>4, <2>2, <2>3
<1>. QED
  BY <1>5, <1>6

LEMMA MigrateKeysHInv ==
  ASSUME HInv, IInv', MigrateKeys
  PROVE  HInv'
<1>. USE DEF HInv, IInv
<1>0. /\ pc = "keys" /\ pc' = "keys" /\ UNCHANGED <<todo, batch>>
      /\ UNCHANGED <<owner, importing, migrating, epoch, currentEpoch>>
      /\ batch.dst \in Node /\ batch.src \in Node /\ batch.slots \in SUBSET Slot
      /\ batch.dst \in NewMasters /\ batch.src # batch.dst
  BY BatchNodes DEF MigrateKeys, Migrate, InBatch, memory, PairOK
<1>1. \A p \in Node : \A s : Claims(p, s)' <=> Claims(p, s)
  BY <1>0 DEF Claims
<1>2. PICK K \in SUBSET KeysToMove :
        keys' = [keys EXCEPT ![batch.src] = @ \ K, ![batch.dst] = @ \cup K]
  BY DEF MigrateKeys, Migrate
<1>3. \A k \in K : SlotOf[k] \in batch.slots
  BY <1>2 DEF KeysToMove, KeysIn
<1>4. \A p \in Node : keys'[p] \subseteq keys[p] \/ (p = batch.dst /\ keys'[p] = keys[p] \cup K)
  BY <1>0, <1>2 DEF TypeOK, RedisTypeOK
<1>5. KeysOK'
  BY <1>0, <1>1, <1>4 DEF KeysOK
<1>6. VoidOK'
  <2>1. ASSUME NEW p \in Node, NEW s \in Slot, Claims(p, s), KeysIn(p, s) = {}
        PROVE  KeysIn(p, s)' = {}
    <3>1. CASE keys'[p] \subseteq keys[p]
      BY <2>1, <3>1 DEF KeysIn
    <3>2. CASE p = batch.dst /\ keys'[p] = keys[p] \cup K
      <4>1. s \notin batch.slots
        BY <1>0, <2>1, <3>2 DEF BatchOK
      <4>. QED
        BY <1>3, <2>1, <3>2, <4>1 DEF KeysIn
    <3>. QED
      BY <1>4, <3>1, <3>2
  <2>. QED
    BY <1>0, <1>1, <2>1 DEF VoidOK
<1>7. EpochOK' /\ TakenOK'
  BY <1>0 DEF EpochOK, TakenOK
<1>8. SettledOK'
  <2>1. \A s \in Slot \ (todo \cup batch.slots) : Settled(s)'
    BY <1>0, <1>1, SameClaimsSettled DEF SettledOK, InBatch
  <2>. QED
    BY <1>0, <2>1 DEF SettledOK, InBatch
<1>. QED
  BY <1>5, <1>6, <1>7, <1>8

\* While slots are handed over, every other slot is claimed once at most.
LEMMA BatchSole ==
  ASSUME HInv, pc \in InBatch, NEW s \in Slot, s \notin batch.slots
  PROVE  Sole(s)
BY DEF HInv, IInv, PlanOK, SettledOK, Settled

\* SETSLOT NODE on the target, which accepts it for the whole batch.
LEMMA NodeDstStep ==
  ASSUME ~Faulty, HInv, SetSlotsNodeDst
  PROVE  /\ pc = "nodeDst" /\ pc' = "nodeSrc" /\ UNCHANGED <<todo, batch, keys>>
         /\ batch.dst \in Node /\ batch.src \in Node /\ batch.slots \in SUBSET Slot
         /\ batch.dst \in NewMasters /\ batch.src # batch.dst
         /\ SetNode(batch.dst, batch.slots, batch.dst)
<1>. USE DEF HInv, IInv
<1>1. /\ pc = "nodeDst" /\ pc' = "nodeSrc" /\ UNCHANGED <<todo, batch, keys>>
      /\ batch.dst \in Node /\ batch.src \in Node /\ batch.slots \in SUBSET Slot
      /\ batch.dst \in NewMasters /\ batch.src # batch.dst
  BY BatchNodes DEF SetSlotsNodeDst, TellNode, SetNode, InBatch, memory, PairOK
<1>2. PICK D \in SUBSET batch.slots, ok \in BOOLEAN :
        /\ SetSlots(batch.slots, AcceptsNode(batch.dst, batch.slots, batch.dst), D, ok)
        /\ SetNode(batch.dst, D, batch.dst)
  BY DEF SetSlotsNodeDst, TellNode
<1>3. AcceptsNode(batch.dst, batch.slots, batch.dst) = batch.slots
  BY DEF AcceptsNode
<1>4. D = batch.slots
  BY <1>2, <1>3 DEF SetSlots
<1>. QED
  BY <1>1, <1>2, <1>4

LEMMA SetSlotsNodeDstHInv ==
  ASSUME ~Faulty, HInv, IInv', SetSlotsNodeDst
  PROVE  HInv'
<1>. USE DEF HInv, IInv
<1>0. /\ pc = "nodeDst" /\ pc' = "nodeSrc" /\ UNCHANGED <<todo, batch, keys>>
      /\ batch.dst \in Node /\ batch.src \in Node /\ batch.slots \in SUBSET Slot
      /\ batch.dst \in NewMasters /\ batch.src # batch.dst
      /\ SetNode(batch.dst, batch.slots, batch.dst)
  BY NodeDstStep
<1>1. \A p \in Node, s \in Slot :
        /\ Claims(p, s)' <=> (Claims(p, s) \/ (p = batch.dst /\ s \in batch.slots))
        /\ ~(p = batch.dst /\ s \in batch.slots) => migrating'[p][s] = migrating[p][s]
  BY <1>0, SetNodeClaims DEF TypeOK
<1>2. \A s \in batch.slots :
        /\ migrating[batch.src][s] = batch.dst /\ KeysIn(batch.src, s) = {}
        /\ importing[batch.dst][s] # NoNode
        /\ \A n \in Node : Claims(n, s) => n = batch.src
  BY <1>0 DEF BatchOK, TakenOK
<1>3. batch.slots # {} =>
        currentEpoch' = currentEpoch + 1 /\ epoch' = [epoch EXCEPT ![batch.dst] = currentEpoch + 1]
  BY <1>0, <1>2 DEF SetNode
<1>e. /\ \A n \in Node : epoch[n] \in Nat /\ epoch[n] <= currentEpoch
      /\ currentEpoch \in Nat
  BY DEF TypeOK, RedisTypeOK, EpochOK
<1>4. EpochOK'
  <2>1. CASE batch.slots = {}
    <3>1. UNCHANGED <<epoch, currentEpoch>>
      BY <1>0, <2>1 DEF SetNode
    <3>. QED
      BY <3>1 DEF EpochOK
  <2>2. CASE batch.slots # {}
    <3>. SUFFICES ASSUME NEW n \in Node PROVE epoch'[n] <= currentEpoch'
      BY DEF EpochOK
    <3>1. epoch'[n] = IF n = batch.dst THEN currentEpoch + 1 ELSE epoch[n]
      BY <1>0, <1>3, <2>2 DEF TypeOK, RedisTypeOK
    <3>. QED
      BY <1>3, <1>e, <2>2, <3>1
  <2>. QED
    BY <2>1, <2>2
<1>5. batch.slots # {} => \A n \in Node : /\ n = batch.dst => epoch'[n] = currentEpoch + 1
                                          /\ n # batch.dst => epoch'[n] = epoch[n]
  BY <1>0, <1>3 DEF TypeOK, RedisTypeOK
<1>6. batch.slots # {} => epoch'[batch.src] < epoch'[batch.dst]
  BY <1>0, <1>5, <1>e
<1>7. VoidOK'
  <2>. SUFFICES ASSUME NEW s \in Slot, NEW m \in Node, NEW n \in Node,
                       Claims(m, s)', Claims(n, s)', m # n
                PROVE  /\ epoch'[m] # epoch'[n]
                       /\ epoch'[m] < epoch'[n] => /\ n \in NewMasters
                                                   /\ migrating'[m][s] # NoNode
                                                   /\ KeysIn(m, s)' = {}
    BY DEF VoidOK, NewMasters
  <2>1. s \in batch.slots
    <3>. SUFFICES ASSUME s \notin batch.slots PROVE FALSE
      OBVIOUS
    <3>1. Claims(m, s) /\ Claims(n, s)
      BY <1>1
    <3>. QED
      BY <1>0, <3>1, BatchSole DEF Sole, InBatch
  <2>2. \/ m = batch.src /\ n = batch.dst
        \/ m = batch.dst /\ n = batch.src
    BY <1>1, <1>2, <2>1
  <2>3. epoch'[batch.src] < epoch'[batch.dst] /\ epoch'[batch.src] \in Nat
        /\ epoch'[batch.dst] \in Nat
    BY <1>0, <1>5, <1>6, <1>e, <2>1
  <2>4. migrating'[batch.src][s] # NoNode /\ KeysIn(batch.src, s)' = {}
    <3>1. migrating'[batch.src][s] = batch.dst
      BY <1>0, <1>1, <1>2, <2>1
    <3>. QED
      BY <1>0, <1>2, <2>1, <3>1, NodeAssumption DEF KeysIn
  <2>. QED
    BY <1>0, <2>2, <2>3, <2>4
<1>8. KeysOK'
  BY <1>0, <1>1, SlotOfAssumption DEF KeysOK, TypeOK, RedisTypeOK
<1>9. SettledOK'
  <2>1. ASSUME NEW s \in Slot, s \notin todo, s \notin batch.slots PROVE Settled(s)'
    <3>1. Settled(s)
      BY <1>0, <2>1 DEF SettledOK, InBatch
    <3>2. \A p \in Node : Claims(p, s)' <=> Claims(p, s)
      BY <1>1, <2>1
    <3>. QED
      BY <3>1, <3>2, SameClaimsSettled
  <2>. QED
    BY <1>0, <2>1 DEF SettledOK, InBatch
<1>10. TakenOK'
  <2>1. ASSUME NEW s \in batch.slots
        PROVE  /\ Claims(batch.dst, s)'
               /\ epoch'[batch.src] < epoch'[batch.dst]
               /\ \A n \in Node : Claims(n, s)' => n \in {batch.src, batch.dst}
    BY <1>0, <1>1, <1>2, <1>6
  <2>. QED
    BY <1>0, <2>1 DEF TakenOK
<1>. QED
  BY <1>4, <1>7, <1>8, <1>9, <1>10

\* Claims are lost, but not the newest one on a slot, nor any mark or key that
\* matters.
LEMMA ShrinkVoidOK ==
  ASSUME VoidOK, ClaimsShrink, epoch' = epoch,
         \A p \in Node : keys'[p] \subseteq keys[p]
  PROVE  VoidOK'
<1>1. \A p \in Node, s \in Slot : KeysIn(p, s) = {} => KeysIn(p, s)' = {}
  BY DEF KeysIn
<1>. QED
  BY <1>1 DEF VoidOK, ClaimsShrink, NewMasters

\* SETSLOT NODE on a node other than the target: no epoch changes.
LEMMA TellOtherStep ==
  ASSUME TypeOK, PairOK, pc \in InBatch, NEW x \in Node, x # batch.dst, TellNode(x)
  PROVE  UNCHANGED <<keys, epoch, currentEpoch>>
<1>1. PICK D \in SUBSET batch.slots : SetNode(x, D, batch.dst)
  BY DEF TellNode
<1>2. {s \in D : batch.dst = x /\ importing[x][s] # NoNode} = {}
  OBVIOUS
<1>. QED
  BY <1>1, <1>2 DEF SetNode

LEMMA NodeSrcStep ==
  ASSUME ~Faulty, HInv, SetSlotsNodeSrc
  PROVE  /\ pc = "nodeSrc" /\ pc' = "tell" /\ UNCHANGED <<todo, batch, keys, epoch, currentEpoch>>
         /\ batch.dst \in Node /\ batch.src \in Node /\ batch.slots \in SUBSET Slot
         /\ batch.dst \in NewMasters /\ batch.src # batch.dst
         /\ SetNode(batch.src, batch.slots, batch.dst)
<1>. USE DEF HInv, IInv
<1>1. /\ pc = "nodeSrc" /\ pc' = "tell" /\ UNCHANGED <<todo, batch>>
      /\ batch.dst \in Node /\ batch.src \in Node /\ batch.slots \in SUBSET Slot
      /\ batch.dst \in NewMasters /\ batch.src # batch.dst
  BY BatchNodes DEF SetSlotsNodeSrc, InBatch, PairOK
<1>2. UNCHANGED <<keys, epoch, currentEpoch>>
  BY <1>1, TellOtherStep DEF SetSlotsNodeSrc, InBatch
<1>3. PICK D \in SUBSET batch.slots, ok \in BOOLEAN :
        /\ SetSlots(batch.slots, AcceptsNode(batch.src, batch.slots, batch.dst), D, ok)
        /\ SetNode(batch.src, D, batch.dst)
  BY DEF SetSlotsNodeSrc, TellNode
<1>4. ASSUME NEW s \in batch.slots, Claims(batch.src, s)
      PROVE  KeysIn(batch.src, s) = {}
  BY <1>1, <1>4 DEF TakenOK, VoidOK
<1>5. AcceptsNode(batch.src, batch.slots, batch.dst) = batch.slots
  BY <1>4 DEF AcceptsNode
<1>6. D = batch.slots
  BY <1>3, <1>5 DEF SetSlots
<1>. QED
  BY <1>1, <1>2, <1>3, <1>6

LEMMA SetSlotsNodeSrcHInv ==
  ASSUME ~Faulty, HInv, IInv', SetSlotsNodeSrc
  PROVE  HInv'
<1>. USE DEF HInv, IInv
<1>0. /\ pc = "nodeSrc" /\ pc' = "tell" /\ UNCHANGED <<todo, batch, keys, epoch, currentEpoch>>
      /\ batch.dst \in Node /\ batch.src \in Node /\ batch.slots \in SUBSET Slot
      /\ batch.dst \in NewMasters /\ batch.src # batch.dst
      /\ SetNode(batch.src, batch.slots, batch.dst)
  BY NodeSrcStep
<1>1. ClaimsShrink
  BY <1>0, TellOtherShrinks DEF SetSlotsNodeSrc, InBatch
<1>2. \A p \in Node, s \in Slot :
        Claims(p, s)' <=> (Claims(p, s) /\ ~(p = batch.src /\ s \in batch.slots))
  BY <1>0, SetNodeClaims DEF TypeOK
<1>3. EpochOK' /\ VoidOK'
  BY <1>0, <1>1, ShrinkVoidOK DEF EpochOK
<1>4. KeysOK'
  <2>. SUFFICES ASSUME NEW n \in Node, NEW k \in keys[n], n \notin NewMasters
                PROVE  Claims(n, SlotOf[k])'
    BY <1>0 DEF KeysOK, NewMasters
  <2>1. SlotOf[k] \in Slot /\ Claims(n, SlotOf[k])
    BY SlotOfAssumption DEF KeysOK, TypeOK, RedisTypeOK
  <2>2. ~(n = batch.src /\ SlotOf[k] \in batch.slots)
    <3>. SUFFICES ASSUME n = batch.src, SlotOf[k] \in batch.slots PROVE FALSE
      OBVIOUS
    <3>1. KeysIn(batch.src, SlotOf[k]) = {}
      BY <1>0, <2>1 DEF TakenOK, VoidOK
    <3>. QED
      BY <3>1 DEF KeysIn
  <2>. QED
    BY <1>2, <2>1, <2>2
<1>5. SettledOK'
  <2>1. ASSUME NEW s \in Slot, s \notin todo, s \notin batch.slots PROVE Settled(s)'
    <3>1. Settled(s)
      BY <1>0, <2>1 DEF SettledOK, InBatch
    <3>2. \A p \in Node : Claims(p, s)' <=> Claims(p, s)
      BY <1>2, <2>1
    <3>. QED
      BY <3>1, <3>2, SameClaimsSettled
  <2>. QED
    BY <1>0, <2>1 DEF SettledOK, InBatch
<1>6. TakenOK'
  <2>1. ASSUME NEW s \in batch.slots PROVE Sole(s)' /\ Claims(batch.dst, s)'
    <3>1. /\ Claims(batch.dst, s)
          /\ \A n \in Node : Claims(n, s) => n \in {batch.src, batch.dst}
      BY <1>0 DEF TakenOK
    <3>. QED
      BY <1>0, <1>2, <3>1 DEF Sole
  <2>. QED
    BY <1>0, <2>1 DEF TakenOK
<1>. QED
  BY <1>3, <1>4, <1>5, <1>6

\* The others do not claim a slot of the batch any more.
LEMMA TellOtherClaims ==
  ASSUME HInv, NEW x \in Node, TellOther(x), NEW p \in Node, NEW s \in Slot
  PROVE  /\ Claims(p, s)' <=> Claims(p, s)
         /\ Claims(p, s) => migrating'[p][s] = migrating[p][s]
<1>. USE DEF HInv, IInv
<1>0. pc = "tell" /\ x # batch.dst /\ batch.dst \in Node /\ batch.slots \in SUBSET Slot
  BY BatchNodes DEF TellOther, PairOK, InBatch
<1>1. PICK D \in SUBSET batch.slots : SetNode(x, D, batch.dst)
  BY DEF TellOther, TellNode
<1>2. /\ Claims(p, s)' <=> (IF p = x /\ s \in D THEN batch.dst = x ELSE Claims(p, s))
      /\ ~(p = x /\ s \in D) => migrating'[p][s] = migrating[p][s]
  BY <1>0, <1>1, SetNodeClaims DEF TypeOK
<1>3. s \in batch.slots => ~Claims(x, s)
  BY <1>0 DEF TakenOK, Sole
<1>. QED
  BY <1>0, <1>1, <1>2, <1>3

LEMMA TellOtherHInv ==
  ASSUME HInv, IInv', NEW x \in Node, TellOther(x)
  PROVE  HInv'
<1>. USE DEF HInv, IInv
<1>0. /\ pc = "tell" /\ pc' = "tell" /\ UNCHANGED <<todo, batch>> /\ x # batch.dst
      /\ batch.slots \in SUBSET Slot
  BY BatchNodes DEF TellOther, PairOK, InBatch
<1>1. UNCHANGED <<keys, epoch, currentEpoch>>
  BY <1>0, TellOtherStep DEF TellOther, InBatch
<1>2. \A p \in Node, s \in Slot :
        /\ Claims(p, s)' <=> Claims(p, s)
        /\ Claims(p, s) => migrating'[p][s] = migrating[p][s]
  BY TellOtherClaims
<1>3. EpochOK' /\ VoidOK'
  BY <1>1, <1>2, ShrinkVoidOK DEF EpochOK, ClaimsShrink
<1>4. KeysOK'
  BY <1>1, <1>2, SlotOfAssumption DEF KeysOK, TypeOK, RedisTypeOK, NewMasters
<1>5. \A s \in Slot : (Sole(s)' <=> Sole(s)) /\ (Settled(s)' <=> Settled(s))
  BY <1>2, SameClaimsSettled
<1>6. SettledOK'
  BY <1>0, <1>5 DEF SettledOK, InBatch
<1>7. TakenOK'
  <2>1. batch.dst \in Node
    BY <1>0, BatchNodes DEF InBatch
  <2>. QED
    BY <1>0, <1>2, <1>5, <2>1 DEF TakenOK
<1>. QED
  BY <1>3, <1>4, <1>6, <1>7

LEMMA AllToldHInv ==
  ASSUME HInv, IInv', AllTold
  PROVE  HInv'
<1>. USE DEF HInv, IInv
<1>0. pc = "tell" /\ pc' = "dispatch" /\ todo' = todo /\ UNCHANGED redisVars
      /\ batch.dst \in NewMasters
  BY DEF AllTold, NextBatch, PairOK, InBatch
<1>1. EpochOK' /\ VoidOK' /\ KeysOK'
  BY <1>0, SameNodesOK
<1>2. \A s : Settled(s)' <=> Settled(s)
  BY <1>0, SameClaimsSettled DEF Claims, redisVars
<1>3. ASSUME NEW s \in Slot, s \notin todo PROVE Settled(s)
  <2>1. CASE s \in batch.slots
    BY <1>0, <2>1 DEF TakenOK, Settled, Stays
  <2>2. CASE s \notin batch.slots
    BY <1>0, <1>3, <2>2 DEF SettledOK, InBatch
  <2>. QED
    BY <2>1, <2>2
<1>4. SettledOK'
  BY <1>0, <1>2, <1>3 DEF SettledOK, InBatch
<1>. QED
  BY <1>0, <1>1, <1>4 DEF TakenOK

LEMMA ForgetDoomedHInv ==
  ASSUME HInv, IInv', ForgetDoomed
  PROVE  HInv'
<1>. USE DEF HInv, IInv
<1>1. \A p \in Node, s \in Slot : /\ Claims(p, s)' <=> Claims(p, s)
                                  /\ migrating'[p][s] = migrating[p][s]
  BY ForgetDoomedClaims
<1>2. UNCHANGED <<keys, epoch, currentEpoch>>
  BY DEF ForgetDoomed, ForgetNode, redisVars
<1>3. EpochOK' /\ VoidOK' /\ KeysOK'
  BY <1>1, <1>2, SameClaimsOK
<1>4. CASE Return
  BY <1>3, <1>4, IdleSettled DEF Return
<1>5. CASE ~Return
  <2>1. pc = "forget" /\ pc' = "delete" /\ todo' = todo
    BY <1>5 DEF ForgetDoomed, memory
  <2>2. \A s \in Slot : Settled(s)' <=> Settled(s)
    BY <1>1, SameClaimsSettled
  <2>3. SettledOK'
    BY <2>1, <2>2 DEF SettledOK, InBatch
  <2>. QED
    BY <1>3, <2>1, <2>3 DEF TakenOK
<1>. QED
  BY <1>4, <1>5

\* The node to be deleted has neither slots nor keys.
LEMMA DoomedIsEmpty ==
  ASSUME HInv, pc = "delete"
  PROVE  /\ LastDoomed \in Node \ NewMasters
         /\ \A s \in Slot : ~Claims(LastDoomed, s)
         /\ keys[LastDoomed] = {}
<1>. USE DEF HInv, IInv
<1>1. LastDoomed \in Node \ NewMasters
  BY LastIsDoomed DEF TypeOK
<1>2. ASSUME NEW s \in Slot PROVE ~Claims(LastDoomed, s)
  BY <1>1 DEF SettledOK, Settled, Sole, Stays, NewMasters
<1>3. keys[LastDoomed] = {}
  BY <1>1, <1>2, SlotOfAssumption DEF KeysOK, TypeOK, RedisTypeOK
<1>. QED
  BY <1>1, <1>2, <1>3

LEMMA DeleteSame ==
  ASSUME HInv, DeleteDoomed
  PROVE  /\ UNCHANGED <<keys, epoch, currentEpoch>>
         /\ \A p \in Node, s \in Slot : Claims(p, s)' <=> Claims(p, s)
<1>. USE DEF HInv, IInv
<1>0. /\ pc = "delete" /\ UNCHANGED <<epoch, currentEpoch>>
      /\ UNCHANGED keys \/ keys' = [keys EXCEPT ![LastDoomed] = {}]
  BY DEF DeleteDoomed, redisVars
<1>1. keys' = keys
  <2>1. keys[LastDoomed] = {} /\ keys \in [Node -> SUBSET Key]
    BY <1>0, DoomedIsEmpty DEF TypeOK, RedisTypeOK
  <2>2. [keys EXCEPT ![LastDoomed] = {}] = keys
    BY <2>1
  <2>. QED
    BY <1>0, <2>2
<1>2. ASSUME NEW p \in Node, NEW s \in Slot PROVE Claims(p, s)' <=> Claims(p, s)
  BY <1>0, DeleteClaims, DoomedIsEmpty
<1>. QED
  BY <1>0, <1>1, <1>2

LEMMA DeleteDoomedHInv ==
  ASSUME HInv, IInv', DeleteDoomed
  PROVE  HInv'
<1>. USE DEF HInv, IInv
<1>1. /\ UNCHANGED <<keys, epoch, currentEpoch>>
      /\ \A p \in Node, s \in Slot : Claims(p, s)' <=> Claims(p, s)
  BY DeleteSame
<1>2. ClaimsShrink
  BY DeleteClaims DEF ClaimsShrink
<1>3. EpochOK' /\ VoidOK'
  BY <1>1, <1>2, ShrinkVoidOK DEF EpochOK
<1>4. KeysOK'
  BY <1>1, SlotOfAssumption DEF KeysOK, TypeOK, RedisTypeOK, NewMasters
<1>5. CASE pc' = "status"
  BY <1>3, <1>4, <1>5, IdleSettled
<1>6. CASE pc' # "status"
  <2>1. pc = "delete" /\ pc' = "forget" /\ todo' = todo
    BY <1>6 DEF DeleteDoomed
  <2>2. \A s \in Slot : Settled(s)' <=> Settled(s)
    BY <1>1, SameClaimsSettled
  <2>3. SettledOK'
    BY <2>1, <2>2 DEF SettledOK, InBatch
  <2>. QED
    BY <1>3, <1>4, <2>1, <2>3 DEF TakenOK
<1>. QED
  BY <1>5, <1>6

(***************************************************************************)
(* A heartbeat only takes a claim away for a newer one, which is void of   *)
(* keys; a sole claim stays.                                               *)
(***************************************************************************)
LEMMA HeartbeatHInv ==
  ASSUME HInv, IInv', NEW m \in Node, NEW n \in Node, Heartbeat(m, n)
  PROVE  HInv'
<1>. USE DEF HInv, IInv
<1>1. /\ \A p \in Node, s \in Slot : Claims(p, s)' => Claims(p, s)
      /\ UNCHANGED <<migrating, importing, epoch, currentEpoch, pc, bom, todo, batch>>
  BY HeartbeatClaims DEF memory
<1>2. \A p \in Node, s \in Slot :
        (Claims(p, s) /\ ~Claims(p, s)') =>
           p = m /\ m # n /\ Claims(n, s) /\ Claims(n, s)' /\ epoch[m] < epoch[n]
  BY GossipClaims DEF Heartbeat, TypeOK
<1>3. \A p \in Node : keys'[p] \subseteq keys[p]
  BY DEF Heartbeat, Gossip, TypeOK, RedisTypeOK
<1>4. ClaimsShrink
  BY <1>1 DEF ClaimsShrink
<1>5. EpochOK' /\ VoidOK'
  BY <1>1, <1>3, <1>4, ShrinkVoidOK DEF EpochOK
<1>6. KeysOK'
  <2>. SUFFICES ASSUME NEW p \in Node, NEW k \in keys'[p], p \notin NewMasters
                PROVE  Claims(p, SlotOf[k])'
    BY DEF KeysOK, NewMasters
  <2>1. k \in keys[p] /\ SlotOf[k] \in Slot
    BY <1>3, SlotOfAssumption DEF TypeOK, RedisTypeOK
  <2>2. Claims(p, SlotOf[k])
    BY <2>1 DEF KeysOK
  <2>3. ASSUME ~Claims(p, SlotOf[k])' PROVE FALSE
    <3>1. p = m /\ m # n /\ Claims(n, SlotOf[k]) /\ epoch[m] < epoch[n]
      BY <1>2, <2>1, <2>2, <2>3
    <3>2. KeysIn(p, SlotOf[k]) = {}
      BY <2>1, <2>2, <3>1 DEF VoidOK
    <3>. QED
      BY <2>1, <3>2 DEF KeysIn
  <2>. QED
    BY <2>3
<1>7. \A s \in Slot : Sole(s) => Sole(s)' /\ \A p \in Node : Claims(p, s)' <=> Claims(p, s)
  BY <1>1, <1>2 DEF Sole
<1>8. ASSUME NEW s \in Slot, Stays(s) PROVE Stays(s)'
  <2>1. PICK x \in NewMasters : Claims(x, s)
    BY <1>8 DEF Stays
  <2>2. CASE Claims(x, s)'
    BY <2>2 DEF Stays, NewMasters
  <2>3. CASE ~Claims(x, s)'
    <3>1. x = m /\ m # n /\ Claims(n, s) /\ Claims(n, s)' /\ epoch[m] < epoch[n]
      BY <1>2, <2>1, <2>3 DEF NewMasters
    <3>2. n \in NewMasters
      BY <2>1, <3>1 DEF VoidOK
    <3>. QED
      BY <3>1, <3>2 DEF Stays, NewMasters
  <2>. QED
    BY <2>2, <2>3
<1>9. SettledOK'
  <2>1. \A p \in Node : bom[p] \subseteq Slot
    BY DEF TypeOK
  <2>2. \A s \in Slot : Settled(s) => Settled(s)'
    BY <1>7, <1>8 DEF Settled
  <2>. QED
    BY <1>1, <1>8, <2>1, <2>2 DEF SettledOK, NewMasters
<1>10. TakenOK'
  <2>1. ASSUME pc \in InBatch, pc # "addslots"
        PROVE  /\ batch.slots \subseteq Slot /\ batch.dst \in Node /\ batch.src \in Node
               /\ \A s \in batch.slots : KeysIn(batch.src, s) = {} => KeysIn(batch.src, s)' = {}
    <3>1. batch.slots \subseteq Slot /\ batch.dst \in Node /\ batch.src \in Node
      BY <2>1, BatchNodes
    <3>. QED
      BY <1>1, <1>3, <3>1 DEF KeysIn
  <2>2. CASE pc = "nodeSrc"
    <3>1. ASSUME NEW s \in batch.slots PROVE Claims(batch.dst, s)'
      <4>. SUFFICES ASSUME ~Claims(batch.dst, s)' PROVE FALSE
        OBVIOUS
      <4>1. Claims(batch.dst, s) /\ s \in Slot /\ epoch[batch.src] < epoch[batch.dst]
        BY <2>1, <2>2 DEF TakenOK, InBatch
      <4>2. batch.dst = m /\ m # n /\ Claims(n, s) /\ epoch[m] < epoch[n]
        BY <1>1, <1>2, <2>1, <2>2, <4>1 DEF InBatch
      <4>3. n = batch.src
        BY <2>2, <4>2 DEF TakenOK
      <4>. QED
        BY <4>1, <4>2, <4>3 DEF TypeOK, RedisTypeOK
    <3>. QED
      BY <1>1, <2>1, <2>2, <3>1 DEF TakenOK, InBatch
  <2>3. CASE pc = "tell"
    BY <1>1, <1>7, <2>1, <2>3 DEF TakenOK, InBatch
  <2>4. CASE pc \notin {"nodeSrc", "tell"}
    BY <1>1, <2>1, <2>4 DEF TakenOK, InBatch
  <2>. QED
    BY <2>2, <2>3, <2>4
<1>. QED
  BY <1>5, <1>6, <1>9, <1>10

(***************************************************************************)
(* A client creates a key on a node that serves its slot, or on one that a *)
(* mark names.                                                             *)
(***************************************************************************)
LEMMA WriteHInv ==
  ASSUME HInv, IInv', NEW k \in Key, NEW n \in Node, Write(k, n)
  PROVE  HInv'
<1>. USE DEF HInv, IInv
<1>. DEFINE s == SlotOf[k]
<1>0. /\ UNCHANGED <<owner, migrating, importing, epoch, currentEpoch, pc, bom, todo, batch>>
      /\ keys' = [keys EXCEPT ![n] = @ \cup {k}] /\ s \in Slot
      /\ \/ Serves(n, s)
         \/ /\ ServesAsking(n, s)
            /\ \E m \in Node : Claims(m, s) /\ migrating[m][s] = n
  BY SlotOfAssumption DEF Write, ClientWrite, memory
<1>. HIDE DEF s
<1>1. \A p \in Node : \A t : Claims(p, t)' <=> Claims(p, t)
  BY <1>0 DEF Claims
<1>2. \A p \in Node : keys'[p] = IF p = n THEN keys[p] \cup {k} ELSE keys[p]
  BY <1>0 DEF TypeOK, RedisTypeOK
<1>3. Claims(n, s) => migrating[n][s] = NoNode
  BY <1>0 DEF Serves, ServesAsking
<1>4. Claims(n, s) \/ n \in NewMasters
  BY <1>0, NodeAssumption DEF Serves, ScopeOK
<1>5. KeysOK'
  BY <1>1, <1>2, <1>4 DEF KeysOK, s, NewMasters
<1>6. \A p \in Node, t \in Slot : ~(p = n /\ t = s) => KeysIn(p, t)' = KeysIn(p, t)
  BY <1>2 DEF KeysIn, s
<1>7. VoidOK'
  <2>1. ASSUME NEW p \in Node, NEW t \in Slot, Claims(p, t), migrating[p][t] # NoNode
        PROVE  KeysIn(p, t)' = KeysIn(p, t)
    BY <1>3, <1>6, <2>1
  <2>. QED
    BY <1>0, <1>1, <2>1 DEF VoidOK, NewMasters
<1>8. EpochOK'
  BY <1>0 DEF EpochOK
<1>9. \A t : (Sole(t)' <=> Sole(t)) /\ (Stays(t)' <=> Stays(t)) /\ (Settled(t)' <=> Settled(t))
  BY <1>1, SameClaimsSettled
<1>10. SettledOK'
  BY <1>0, <1>9 DEF SettledOK, NewMasters
<1>11. TakenOK'
  <2>1. ASSUME pc = "nodeDst", NEW t \in batch.slots PROVE KeysIn(batch.src, t)' = {}
    <3>0. batch.src \in Node /\ batch.dst \in Node /\ batch.src # batch.dst /\ t \in Slot
      BY <2>1, BatchNodes DEF InBatch, PairOK
    <3>1. KeysIn(batch.src, t) = {} /\ migrating[batch.src][t] = batch.dst
          /\ \A p \in Node : Claims(p, t) => p = batch.src
      BY <2>1 DEF TakenOK, BatchOK
    <3>2. ~(batch.src = n /\ t = s)
      <4>. SUFFICES ASSUME batch.src = n, t = s PROVE FALSE
        OBVIOUS
      <4>1. ~Claims(n, s)
        BY <1>3, <3>0, <3>1, NodeAssumption
      <4>2. PICK m \in Node : Claims(m, s) /\ migrating[m][s] = n
        BY <1>0, <4>1 DEF Serves
      <4>. QED
        BY <3>1, <4>1, <4>2
    <3>. QED
      BY <1>0, <1>6, <3>0, <3>1, <3>2
  <2>. QED
    BY <1>0, <1>1, <1>9, <2>1, BatchNodes DEF TakenOK, InBatch
<1>. QED
  BY <1>5, <1>7, <1>8, <1>10, <1>11

LEMMA NextHInv ==
  ASSUME ~Faulty
  PROVE  HInv /\ [Next]_vars => HInv'
<1>. SUFFICES ASSUME HInv, [Next]_vars PROVE HInv'
  OBVIOUS
<1>1. IInv'
  BY NextIInv DEF HInv
<1>2. CASE GetClusterInfos \/ UpdateStatus \/ Crash \/ Restart \/ EndDispatch
             \/ MigrateKeysDone
  <2>1. UNCHANGED redisVars
    BY <1>2 DEF GetClusterInfos, UpdateStatus, Crash, Restart, EndDispatch,
                MigrateKeysDone
  <2>. QED
    BY <1>1, <1>2, <2>1, MemoryHInv
<1>3. CASE UNCHANGED vars
  <2>1. UNCHANGED <<redisVars, pc, bom, todo, batch>>
    BY <1>3 DEF vars, memory
  <2>2. EpochOK' /\ VoidOK' /\ KeysOK'
    BY <2>1, SameNodesOK DEF HInv
  <2>3. \A p \in Node : \A s : Claims(p, s)' <=> Claims(p, s)
    BY <2>1 DEF Claims, redisVars
  <2>4. \A s : /\ Sole(s)' <=> Sole(s)
               /\ Stays(s)' <=> Stays(s)
               /\ Settled(s)' <=> Settled(s)
    BY <2>3, SameClaimsSettled
  <2>5. SettledOK'
    BY <2>1, <2>4 DEF HInv, SettledOK, NewMasters
  <2>6. TakenOK'
    BY <2>1 DEF HInv, TakenOK, Sole, Claims, KeysIn, redisVars
  <2>. QED
    BY <1>1, <2>2, <2>5, <2>6 DEF HInv
<1>4. ~MigrateKeysFails
  BY DEF MigrateKeysFails
<1>. QED
  BY <1>1, <1>2, <1>3, <1>4, HealHInv, JoinHInv, PickBatchHInv, AddSlotsHInv,
     SetSlotsImportingHInv, SetSlotsMigratingHInv, MigrateKeysHInv,
     SetSlotsNodeDstHInv, SetSlotsNodeSrcHInv, TellOtherHInv, AllToldHInv,
     ForgetDoomedHInv, DeleteDoomedHInv, HeartbeatHInv, WriteHInv
     DEF Next, Dispatch

LEMMA HandoverInvariance ==
  ASSUME ~Faulty
  PROVE  Spec => []HInv
BY InitHInv, NextHInv, PTL DEF Spec

(***************************************************************************)
(* When the operator begins to remove nodes, every slot is claimed by a    *)
(* master that stays, unless a command was lost; earlier runs may have     *)
(* been cut short by a crash at any step (feedMigInfo, retrieveLostSlots). *)
(***************************************************************************)
THEOREM AllDispatched ==
  ASSUME ~Faulty
  PROVE  Spec => []DispatchComplete
<1>1. HInv => DispatchComplete
  BY DEF HInv, SettledOK, Settled, Stays, DispatchComplete
<1>. QED
  BY <1>1, HandoverInvariance, PTL

(***************************************************************************)
(* A StatefulSet and its volumes are deleted only when the node owns no    *)
(* slot and stores no key, unless a command was lost (scalingDown looks at *)
(* the operator's own lists only).                                         *)
(***************************************************************************)
THEOREM OnlyEmptyRemoved ==
  ASSUME ~Faulty
  PROVE  Spec => RemovedIsEmpty
<1>1. HInv /\ [Next]_vars => [\A n \in live \ live' : keys[n] = {} /\ OwnSlots(n) = {}]_vars
  <2>. SUFFICES ASSUME HInv, Next, NEW n \in live \ live'
                PROVE  keys[n] = {} /\ OwnSlots(n) = {}
    OBVIOUS
  <2>1. live' # live
    OBVIOUS
  <2>2. DeleteDoomed
    BY <2>1 DEF Next, Dispatch, kube, GetClusterInfos, Heal, WaitForClusterJoin,
       WaitForClusterMeet, SyncCluster, PickBatch, EndDispatch, AddSlots,
       SetSlotsImporting, SetSlotsMigrating, MigrateKeys, MigrateKeysDone,
       MigrateKeysFails, SetSlotsNodeDst, SetSlotsNodeSrc, TellOther, AllTold,
       ForgetDoomed, UpdateStatus, Crash, Restart, Heartbeat, Write
  <2>3. pc = "delete" /\ n = LastDoomed
    BY <2>2 DEF DeleteDoomed
  <2>. QED
    BY <2>3, DoomedIsEmpty DEF OwnSlots
<1>. QED
  BY <1>1, HandoverInvariance, PTL DEF Spec, RemovedIsEmpty

-----------------------------------------------------------------------------
(***************************************************************************)
(* The refinement of SlotOwnership.  A slot has one authority at most.     *)
(***************************************************************************)
LEMMA AuthorityIs ==
  ASSUME TypeOK, NEW s \in Slot
  PROVE  /\ \A n \in Node : Authority(n, s) => AuthorityOf[s] = n
         /\ (\A n \in Node : ~Authority(n, s)) => AuthorityOf[s] = NoNode
<1>1. ASSUME NEW n \in Node, Authority(n, s) PROVE AuthorityOf[s] = n
  <2>1. ASSUME NEW m \in Node, Authority(m, s), m # n PROVE FALSE
    <3>1. epoch[m] < epoch[n] /\ epoch[n] < epoch[m]
      BY <1>1, <2>1 DEF Authority, Prevails
    <3>. QED
      BY <3>1 DEF TypeOK, RedisTypeOK
  <2>2. AuthorityOf[s] = CHOOSE m \in Node : Authority(m, s)
    BY <1>1 DEF AuthorityOf
  <2>. QED
    BY <1>1, <2>1, <2>2
<1>2. ASSUME \A n \in Node : ~Authority(n, s) PROVE AuthorityOf[s] = NoNode
  BY <1>2 DEF AuthorityOf
<1>. QED
  BY <1>1, <1>2

LEMMA AuthorityBecomes ==
  ASSUME TypeOK', NEW s \in Slot
  PROVE  /\ \A n \in Node : Authority(n, s)' => AuthorityOf'[s] = n
         /\ (\A n \in Node : ~Authority(n, s)') => AuthorityOf'[s] = NoNode
<1>1. ASSUME NEW n \in Node, Authority(n, s)' PROVE AuthorityOf'[s] = n
  <2>1. ASSUME NEW m \in Node, Authority(m, s)', m # n PROVE FALSE
    <3>1. epoch'[m] < epoch'[n] /\ epoch'[n] < epoch'[m]
      BY <1>1, <2>1 DEF Authority, Prevails
    <3>. QED
      BY <3>1 DEF TypeOK, RedisTypeOK
  <2>2. AuthorityOf'[s] = CHOOSE m \in Node : Authority(m, s)'
    BY <1>1 DEF AuthorityOf
  <2>. QED
    BY <1>1, <2>1, <2>2
<1>2. ASSUME \A n \in Node : ~Authority(n, s)' PROVE AuthorityOf'[s] = NoNode
  BY <1>2 DEF AuthorityOf
<1>. QED
  BY <1>1, <1>2

LEMMA SameAuthority ==
  ASSUME TypeOK, TypeOK', NEW s \in Slot,
         \A n \in Node : Authority(n, s)' <=> Authority(n, s)
  PROVE  AuthorityOf'[s] = AuthorityOf[s]
<1>1. CASE \E n \in Node : Authority(n, s)
  BY <1>1, AuthorityIs, AuthorityBecomes
<1>2. CASE \A n \in Node : ~Authority(n, s)
  BY <1>2, AuthorityIs, AuthorityBecomes
<1>. QED
  BY <1>1, <1>2

AuthoritiesSame == \A n \in Node, s \in Slot : Authority(n, s)' <=> Authority(n, s)

LEMMA SameAuthorities ==
  ASSUME TypeOK, TypeOK', AuthoritiesSame
  PROVE  AuthorityOf' = AuthorityOf
<1>1. \A s \in Slot : AuthorityOf'[s] = AuthorityOf[s]
  BY SameAuthority DEF AuthoritiesSame
<1>. QED
  BY <1>1 DEF AuthorityOf

LEMMA SameClaimsSame ==
  ASSUME epoch' = epoch,
         \A p \in Node, s \in Slot : Claims(p, s)' <=> Claims(p, s)
  PROVE  AuthoritiesSame
BY DEF AuthoritiesSame, Authority, Prevails

LEMMA AuthorityOfType == AuthorityOf \in [Slot -> Node \cup {NoNode}]
<1>1. ASSUME NEW s \in Slot PROVE AuthorityOf[s] \in Node \cup {NoNode}
  BY DEF AuthorityOf
<1>. QED
  BY <1>1 DEF AuthorityOf

LEMMA StoredType == TypeOK => Stored \in SUBSET Key
BY DEF TypeOK, RedisTypeOK, Stored

(***************************************************************************)
(* A batch is handed over as a whole.                                      *)
(***************************************************************************)
LEMMA Handover ==
  ASSUME TypeOK, TypeOK', NEW d \in Node, NEW S \in SUBSET Slot, Stored' = Stored,
         \A s \in S : Authority(d, s)',
         \A s \in Slot \ S : \A n \in Node : Authority(n, s)' <=> Authority(n, s)
  PROVE  Ownership!Next
<1>1. ASSUME NEW s \in Slot PROVE AuthorityOf'[s] \in {AuthorityOf[s], d}
  <2>1. CASE s \in S
    BY <2>1, AuthorityBecomes
  <2>2. CASE s \notin S
    BY <2>2, SameAuthority
  <2>. QED
    BY <2>1, <2>2
<1>2. AuthorityOf' \in [Slot -> Node \cup {NoNode}]
  <2>1. ASSUME NEW s \in Slot PROVE AuthorityOf'[s] \in Node \cup {NoNode}
    BY <1>1, AuthorityOfType
  <2>. QED
    BY <2>1 DEF AuthorityOf
<1>3. Ownership!Handover(d)
  BY <1>1, <1>2 DEF Ownership!Handover
<1>. QED
  BY <1>3 DEF Ownership!Next

\* SETSLOT NODE on the target: its claims are the newest, and the other slots
\* are claimed once.
LEMMA NodeDstHandsOver ==
  ASSUME ~Faulty, HInv, HInv', SetSlotsNodeDst
  PROVE  Ownership!Next
<1>. USE DEF HInv, IInv
<1>0. /\ pc = "nodeDst" /\ pc' = "nodeSrc" /\ UNCHANGED <<todo, batch, keys>>
      /\ batch.dst \in Node /\ batch.src \in Node /\ batch.slots \in SUBSET Slot
      /\ SetNode(batch.dst, batch.slots, batch.dst)
  BY NodeDstStep
<1>1. \A p \in Node, s \in Slot :
        Claims(p, s)' <=> (Claims(p, s) \/ (p = batch.dst /\ s \in batch.slots))
  BY <1>0, SetNodeClaims DEF TypeOK
<1>2. ASSUME NEW s \in batch.slots PROVE Authority(batch.dst, s)'
  <2>1. /\ Claims(batch.dst, s)'
        /\ epoch'[batch.src] < epoch'[batch.dst]
        /\ \A n \in Node : Claims(n, s)' => n \in {batch.src, batch.dst}
    BY <1>0 DEF TakenOK, Claims
  <2>. QED
    BY <1>0, <2>1 DEF Authority, Prevails
<1>3. ASSUME NEW s \in Slot \ batch.slots, NEW n \in Node
      PROVE  Authority(n, s)' <=> Authority(n, s)
  <2>1. Sole(s)
    BY <1>0, BatchSole DEF InBatch
  <2>2. \A p \in Node : Claims(p, s)' <=> Claims(p, s)
    BY <1>1
  <2>. QED
    BY <2>1, <2>2 DEF Authority, Prevails, Sole
<1>4. Stored' = Stored
  BY <1>0 DEF Stored
<1>5. \E d \in Node, S \in SUBSET Slot :
        /\ \A s \in S : Authority(d, s)'
        /\ \A s \in Slot \ S : \A n \in Node : Authority(n, s)' <=> Authority(n, s)
  <2>. DEFINE d == batch.dst
              S == batch.slots
  <2>1. d' = d
    BY <1>0
  <2>2. \A s \in S : Authority(d, s)'
    BY <1>2
  <2>3. PICK e \in Node : e = batch.dst
    BY <1>0
  <2>4. \A s \in S : Authority(e, s)'
    BY <1>0, <2>2, <2>3 DEF Authority, Claims, Prevails
  <2>. QED
    BY <1>0, <1>3, <2>4
<1>. QED
  BY <1>4, <1>5, Handover

\* ADDSLOTS: nobody claimed the slots before.
LEMMA AddSlotsHandsOver ==
  ASSUME HInv, HInv', AddSlots
  PROVE  Ownership!Next \/ UNCHANGED redisVars
<1>. USE DEF HInv, IInv
<1>0. /\ pc = "addslots" /\ batch.dst \in Node /\ batch.slots \in SUBSET Slot
      /\ UNCHANGED <<keys, epoch>>
  BY BatchNodes DEF AddSlots, InBatch, redisVars
<1>. SUFFICES ASSUME ~UNCHANGED redisVars PROVE Ownership!Next
  OBVIOUS
<1>1. owner' = With(owner, batch.dst, batch.slots, batch.dst)
  BY DEF AddSlots
<1>2. PICK d \in Node, S \in SUBSET Slot : d = batch.dst /\ S = batch.slots
  BY <1>0
<1>3. ASSUME NEW p \in Node, NEW s \in Slot
      PROVE  Claims(p, s)' <=> (Claims(p, s) \/ (p = d /\ s \in S))
  <2>1. owner \in [Node -> [Slot -> Maybe]]
    BY DEF TypeOK, RedisTypeOK
  <2>2. owner'[p][s] = IF p = d /\ s \in S THEN d ELSE owner[p][s]
    BY <1>1, <1>2, <2>1, WithValue
  <2>. QED
    BY <2>2 DEF Claims
<1>4. \A s \in S, n \in Node : ~Claims(n, s)
  BY <1>0, <1>2 DEF BatchOK
<1>5. \A s \in S : Authority(d, s)'
  BY <1>3, <1>4 DEF Authority, Prevails
<1>6. \A s \in Slot \ S : \A n \in Node : Authority(n, s)' <=> Authority(n, s)
  BY <1>0, <1>3 DEF Authority, Prevails
<1>7. Stored' = Stored
  BY <1>0 DEF Stored
<1>. QED
  BY <1>5, <1>6, <1>7, Handover

\* SETSLOT NODE on the source: the target is the authority already.
LEMMA NodeSrcSame ==
  ASSUME ~Faulty, HInv, SetSlotsNodeSrc
  PROVE  AuthoritiesSame /\ Stored' = Stored
<1>. USE DEF HInv, IInv
<1>0. /\ pc = "nodeSrc" /\ UNCHANGED <<keys, epoch>>
      /\ batch.dst \in Node /\ batch.src \in Node /\ batch.slots \in SUBSET Slot
      /\ batch.src # batch.dst
      /\ SetNode(batch.src, batch.slots, batch.dst)
  BY NodeSrcStep
<1>1. \A p \in Node, s \in Slot :
        Claims(p, s)' <=> (Claims(p, s) /\ ~(p = batch.src /\ s \in batch.slots))
  BY <1>0, SetNodeClaims DEF TypeOK
<1>2. ASSUME NEW s \in Slot, NEW n \in Node PROVE Authority(n, s)' <=> Authority(n, s)
  <2>1. CASE s \in batch.slots
    <3>1. /\ Claims(batch.dst, s) /\ epoch[batch.src] < epoch[batch.dst]
          /\ \A p \in Node : Claims(p, s) => p \in {batch.src, batch.dst}
      BY <1>0, <2>1 DEF TakenOK
    <3>2. Authority(n, s) <=> n = batch.dst
      <4>1. ~(epoch[batch.dst] < epoch[batch.src])
        BY <1>0, <3>1 DEF TypeOK, RedisTypeOK
      <4>. QED
        BY <1>0, <3>1, <4>1 DEF Authority, Prevails
    <3>3. \A p \in Node : Claims(p, s)' <=> p = batch.dst
      BY <1>0, <1>1, <2>1, <3>1
    <3>4. Authority(n, s)' <=> n = batch.dst
      BY <3>3 DEF Authority, Prevails
    <3>. QED
      BY <3>2, <3>4
  <2>2. CASE s \notin batch.slots
    BY <1>0, <1>1, <2>2 DEF Authority, Prevails
  <2>. QED
    BY <2>1, <2>2
<1>. QED
  BY <1>0, <1>2 DEF AuthoritiesSame, Stored

\* A heartbeat takes void claims only, and no key.
LEMMA HeartbeatSame ==
  ASSUME HInv, NEW m \in Node, NEW n \in Node, Heartbeat(m, n)
  PROVE  AuthoritiesSame /\ Stored' = Stored
<1>. USE DEF HInv, IInv
<1>0. epoch' = epoch /\ Gossip(m, n)
  BY DEF Heartbeat, Gossip
<1>1. \A p \in Node, s \in Slot :
        /\ Claims(p, s)' => Claims(p, s)
        /\ (Claims(p, s) /\ ~Claims(p, s)') =>
              p = m /\ m # n /\ Claims(n, s) /\ Claims(n, s)' /\ epoch[m] < epoch[n]
  BY <1>0, GossipClaims DEF TypeOK
<1>e. \A p \in Node : epoch[p] \in Nat
  BY DEF TypeOK, RedisTypeOK
<1>2. ASSUME NEW s \in Slot, NEW p \in Node, Authority(p, s) PROVE Authority(p, s)'
  <2>1. Claims(p, s)'
    <3>. SUFFICES ASSUME ~Claims(p, s)' PROVE FALSE
      OBVIOUS
    <3>1. p = m /\ m # n /\ Claims(n, s) /\ epoch[m] < epoch[n]
      BY <1>1, <1>2 DEF Authority
    <3>2. epoch[n] < epoch[m]
      BY <1>2, <3>1 DEF Authority, Prevails
    <3>. QED
      BY <1>e, <3>1, <3>2
  <2>. QED
    BY <1>0, <1>1, <1>2, <2>1 DEF Authority, Prevails
<1>3. ASSUME NEW s \in Slot, NEW p \in Node, Authority(p, s)' PROVE Authority(p, s)
  <2>1. Claims(p, s)
    BY <1>1, <1>3 DEF Authority
  <2>2. ASSUME NEW q \in Node, q # p, Claims(q, s) PROVE epoch[q] < epoch[p]
    <3>1. CASE Claims(q, s)'
      BY <1>0, <1>3, <2>2, <3>1 DEF Authority, Prevails
    <3>2. CASE ~Claims(q, s)'
      <4>1. q = m /\ Claims(n, s)' /\ epoch[m] < epoch[n]
        BY <1>1, <2>2, <3>2
      <4>2. n = p \/ epoch[n] < epoch[p]
        BY <1>0, <1>3, <4>1 DEF Authority, Prevails
      <4>. QED
        BY <1>e, <4>1, <4>2
    <3>. QED
      BY <3>1, <3>2
  <2>. QED
    BY <2>1, <2>2 DEF Authority, Prevails
<1>4. ASSUME NEW k \in keys[m], Yields(m, n, SlotOf[k]), Claims(m, SlotOf[k])
      PROVE  FALSE
  <2>1. SlotOf[k] \in Slot
    BY SlotOfAssumption DEF TypeOK, RedisTypeOK
  <2>2. Claims(n, SlotOf[k]) /\ m # n /\ epoch[m] < epoch[n]
    BY <1>4, NodeAssumption DEF Yields, Claims
  <2>3. KeysIn(m, SlotOf[k]) = {}
    BY <1>4, <2>1, <2>2 DEF VoidOK
  <2>. QED
    BY <2>3 DEF KeysIn
<1>5. {k \in keys[m] : ~(SlotOf[k] \in {s \in Slot : Yields(m, n, s)}
                         /\ Claims(m, SlotOf[k]))} = keys[m]
  BY <1>4
<1>6. keys' = keys
  BY <1>0, <1>5 DEF Gossip, TypeOK, RedisTypeOK
<1>. QED
  BY <1>2, <1>3, <1>6 DEF AuthoritiesSame, Stored

LEMMA MigrateKeysStores ==
  ASSUME HInv, MigrateKeys
  PROVE  Stored' = Stored
<1>. USE DEF HInv, IInv
<1>0. PICK src \in Node, dst \in Node : src = batch.src /\ dst = batch.dst /\ src # dst
  BY BatchNodes DEF MigrateKeys, InBatch, PairOK
<1>1. PICK K \in SUBSET KeysToMove : Migrate(src, dst, K, K)
  BY <1>0 DEF MigrateKeys
<1>2. K \subseteq keys[src]
  BY <1>0 DEF KeysToMove, KeysIn
<1>3. /\ keys'[src] = keys[src] \ K /\ keys'[dst] = keys[dst] \cup K
      /\ \A p \in Node \ {src, dst} : keys'[p] = keys[p]
  BY <1>0, <1>1 DEF Migrate, TypeOK, RedisTypeOK
<1>4. \A k : k \in Stored' <=> k \in Stored
  <2>1. ASSUME NEW k, NEW p \in Node, k \in keys[p] PROVE \E q \in Node : k \in keys'[q]
    BY <1>0, <1>2, <1>3, <2>1
  <2>2. ASSUME NEW k, NEW p \in Node, k \in keys'[p] PROVE \E q \in Node : k \in keys[q]
    BY <1>0, <1>2, <1>3, <2>2
  <2>. QED
    BY <2>1, <2>2 DEF Stored
<1>. QED
  BY <1>4 DEF Stored

\* A command that changes no claim and no epoch, and moves no key away.
LEMMA SameStep ==
  ASSUME TypeOK, TypeOK', epoch' = epoch, Stored' = Stored,
         \A p \in Node, s \in Slot : Claims(p, s)' <=> Claims(p, s)
  PROVE  UNCHANGED Ownership!vars
BY SameClaimsSame, SameAuthorities DEF Ownership!vars

LEMMA WriteStores ==
  ASSUME TypeOK, TypeOK', NEW k \in Key, NEW n \in Node, Write(k, n)
  PROVE  Ownership!Next
<1>1. /\ UNCHANGED <<owner, epoch>>
      /\ keys' = [keys EXCEPT ![n] = @ \cup {k}]
  BY DEF Write, ClientWrite
<1>2. \A p \in Node : keys'[p] = IF p = n THEN keys[p] \cup {k} ELSE keys[p]
  BY <1>1 DEF TypeOK, RedisTypeOK
<1>3. Stored' = Stored \cup {k}
  <2>1. \A j : j \in Stored' <=> j \in Stored \cup {k}
    BY <1>2 DEF Stored
  <2>. QED
    BY <2>1 DEF Stored
<1>4. AuthorityOf' = AuthorityOf
  BY <1>1, SameClaimsSame, SameAuthorities DEF Claims
<1>. QED
  BY <1>3, <1>4 DEF Ownership!Next, Ownership!Store

(***************************************************************************)
(* Each step is a step of SlotOwnership or changes nothing there.          *)
(***************************************************************************)
LEMMA StepImplements ==
  ASSUME ~Faulty, HInv, [Next]_vars
  PROVE  [Ownership!Next]_(Ownership!vars)
<1>0. HInv' /\ TypeOK /\ TypeOK' /\ ScopeOK /\ PairOK
  BY NextHInv DEF HInv, IInv
<1>1. ASSUME UNCHANGED redisVars PROVE UNCHANGED Ownership!vars
  BY <1>0, <1>1, SameStep DEF redisVars, Claims, Stored
<1>2. CASE \/ GetClusterInfos \/ WaitForClusterJoin \/ WaitForClusterMeet
           \/ EndDispatch \/ MigrateKeysDone \/ AllTold
           \/ UpdateStatus \/ Crash \/ Restart \/ UNCHANGED vars
           \/ \E m \in Maybe, n \in Node, S \in SUBSET Slot : PickBatch(m, n, S)
  <2>1. UNCHANGED redisVars
    BY <1>2 DEF GetClusterInfos, WaitForClusterJoin, WaitForClusterMeet, EndDispatch,
      MigrateKeysDone, AllTold, UpdateStatus, Crash, Restart, PickBatch, vars
  <2>. QED
    BY <1>1, <2>1
<1>3. CASE Heal
  <2>1. CASE Ghosts = {}
    <3>1. UNCHANGED redisVars
      BY <1>3, <2>1 DEF Heal
    <3>. QED
      BY <1>1, <3>1
  <2>2. CASE Ghosts # {}
    <3>1. UNCHANGED <<keys, epoch>>
      BY <1>3, <2>2 DEF Heal, ForgetNode
    <3>2. \A p \in Node, s \in Slot : Claims(p, s)' <=> Claims(p, s)
      BY <1>0, <1>3, <2>2, HealClaims
    <3>. QED
      BY <1>0, <3>1, <3>2, SameStep DEF Stored
  <2>. QED
    BY <2>1, <2>2
<1>4. CASE AddSlots
  BY <1>0, <1>1, <1>4, AddSlotsHandsOver
<1>5. CASE SetSlotsImporting \/ SetSlotsMigrating
  <2>1. UNCHANGED <<owner, keys, epoch>>
    BY <1>5 DEF SetSlotsImporting, SetSlotsMigrating, SetImporting, SetMigrating
  <2>. QED
    BY <1>0, <2>1, SameStep DEF Claims, Stored
<1>6. CASE MigrateKeys
  <2>1. UNCHANGED <<owner, epoch>>
    BY <1>6 DEF MigrateKeys, Migrate
  <2>. QED
    BY <1>0, <1>6, <2>1, MigrateKeysStores, SameStep DEF Claims
<1>7. CASE SetSlotsNodeDst
  BY <1>0, <1>7, NodeDstHandsOver
<1>8. CASE SetSlotsNodeSrc
  BY <1>0, <1>8, NodeSrcSame, SameAuthorities DEF Ownership!vars
<1>9. ASSUME NEW x \in Node, TellOther(x) PROVE UNCHANGED Ownership!vars
  <2>1. pc \in InBatch /\ x # batch.dst /\ TellNode(x)
    BY <1>0, <1>9 DEF TellOther, InBatch, PairOK
  <2>2. UNCHANGED <<keys, epoch>>
    BY <1>0, <2>1, TellOtherStep
  <2>3. \A p \in Node, s \in Slot : Claims(p, s)' <=> Claims(p, s)
    BY <1>9, TellOtherClaims
  <2>. QED
    BY <1>0, <2>2, <2>3, SameStep DEF Stored
<1>10. CASE ForgetDoomed
  <2>1. UNCHANGED <<keys, epoch>>
    BY <1>10 DEF ForgetDoomed, ForgetNode, redisVars
  <2>2. \A p \in Node, s \in Slot : Claims(p, s)' <=> Claims(p, s)
    BY <1>0, <1>10, ForgetDoomedClaims
  <2>. QED
    BY <1>0, <2>1, <2>2, SameStep DEF Stored
<1>11. CASE DeleteDoomed
  BY <1>0, <1>11, DeleteSame, SameStep DEF Stored
<1>12. ASSUME NEW m \in Node, NEW n \in Node, Heartbeat(m, n)
       PROVE  UNCHANGED Ownership!vars
  BY <1>0, <1>12, HeartbeatSame, SameAuthorities DEF Ownership!vars
<1>13. ASSUME NEW k \in Key, NEW n \in Node, Write(k, n) PROVE Ownership!Next
  BY <1>0, <1>13, WriteStores
<1>14. ~MigrateKeysFails
  BY DEF MigrateKeysFails
<1>. QED
  BY <1>2, <1>3, <1>4, <1>5, <1>6, <1>7, <1>8, <1>9, <1>10, <1>11, <1>12, <1>13, <1>14
     DEF Next, Dispatch

(***************************************************************************)
(* When no command is lost, scaling down implements SlotOwnership: a batch *)
(* passes to its target at once (SetSlots NODE in DispatchSlotToNewMasters *)
(* goes to the target first), and removing nodes drops no stored key.      *)
(***************************************************************************)
THEOREM ImplementsOwnership ==
  ASSUME ~Faulty
  PROVE  Spec => HandoverIsAtomic
<1>1. Init => Ownership!Init
  BY InitTypeOK, AuthorityOfType, StoredType DEF Ownership!Init
<1>2. HInv /\ [Next]_vars => [Ownership!Next]_(Ownership!vars)
  BY StepImplements
<1>. QED
  BY <1>1, <1>2, HandoverInvariance, PTL DEF Spec, HandoverIsAtomic, Ownership!Spec

(***************************************************************************)
(* When no command is lost, an acknowledged key is on some node, although  *)
(* the volumes of the removed nodes are deleted.  (With a failed MIGRATE,  *)
(* whose error is only logged, it may be lost.)                            *)
(***************************************************************************)
THEOREM KeysSurvive ==
  ASSUME ~Faulty
  PROVE  Spec => []NoKeyLost
<1>1. Init => NoKeyLost
  <2>. SUFFICES ASSUME Init PROVE NoKeyLost
    OBVIOUS
  <2>1. PICK table \in [Slot -> Maybe], W \in SUBSET Key :
          RestInit(table, W) /\ \A k \in W : table[SlotOf[k]] # NoNode
    BY DEF Init
  <2>. QED
    BY <2>1, SlotOfAssumption DEF RestInit, NoKeyLost, Maybe
<1>2. HInv /\ NoKeyLost /\ [Next]_vars => NoKeyLost'
  <2>. SUFFICES ASSUME HInv, NoKeyLost, [Next]_vars PROVE NoKeyLost'
    OBVIOUS
  <2>1. Stored \subseteq Stored'
    <3>1. Stored' = Stored \/ \E k \in Key : Stored' = Stored \cup {k}
      BY StepImplements
         DEF Ownership!Next, Ownership!Handover, Ownership!Store, Ownership!vars
    <3>. QED
      BY <3>1
  <2>2. ASSUME NEW k \in Key, NEW n \in Node, Write(k, n) PROVE NoKeyLost'
    <3>1. /\ keys' = [keys EXCEPT ![n] = @ \cup {k}] /\ written' = written \cup {k}
          /\ keys \in [Node -> SUBSET Key]
      BY <2>2 DEF Write, ClientWrite, HInv, IInv, TypeOK, RedisTypeOK
    <3>. QED
      BY <3>1 DEF NoKeyLost
  <2>3. CASE UNCHANGED written
    BY <2>1, <2>3 DEF NoKeyLost, Stored
  <2>. QED
    BY <2>2, <2>3
       DEF Next, Dispatch, vars, redisVars, GetClusterInfos, Heal, WaitForClusterJoin,
       WaitForClusterMeet, PickBatch, EndDispatch, AddSlots, SetSlotsImporting,
       SetSlotsMigrating, MigrateKeys, MigrateKeysDone, MigrateKeysFails,
       SetSlotsNodeDst, SetSlotsNodeSrc, TellOther, AllTold, TellNode, SetImporting,
       SetMigrating, SetNode, Migrate, ForgetNode, ForgetDoomed, DeleteDoomed,
       UpdateStatus, Crash, Restart, Heartbeat, Gossip
<1>. QED
  BY <1>1, <1>2, HandoverInvariance, PTL DEF Spec

-----------------------------------------------------------------------------
(***************************************************************************)
(* Redirection while the operator does not crash.  A crash leaves marks    *)
(* behind that a later run, moving the slot back, may find (see the        *)
(* README); without one, marks are those of the current batch.             *)
(***************************************************************************)
Marked == {"keys", "nodeDst", "nodeSrc"}

SoleOK == \A s \in Slot : Sole(s) \/ (pc = "nodeSrc" /\ s \in batch.slots)

\* What the operator's memory and its plan say of an owner is true.
HeldOK ==
  /\ pc \in {"heal", "join", "meet"} =>
       \A n \in Node : \A s \in bom[n] : Claims(n, s)
  /\ \A n \in Node : \A s \in todo \cap bom[n] : Claims(n, s)
  /\ pc \in {"importing", "migrating", "keys", "nodeDst"} =>
       \A s \in batch.slots : Claims(batch.src, s)

MarkOK ==
  \A n \in Node, s \in Slot : migrating[n][s] # NoNode =>
    /\ pc \in Marked
    /\ n = batch.src
    /\ s \in batch.slots
    /\ migrating[n][s] = batch.dst

\* The source has no key left once the target has taken the slots.
GoneOK == pc = "nodeSrc" => \A s \in batch.slots : KeysIn(batch.src, s) = {}

AInv == HInv /\ pc # "down" /\ SoleOK /\ HeldOK /\ MarkOK /\ GoneOK /\ KeyFound

LEMMA InitAInv == Init => AInv
<1>. SUFFICES ASSUME Init PROVE AInv
  OBVIOUS
<1>1. PICK table \in [Slot -> Maybe], W \in SUBSET Key :
        RestInit(table, W) /\ \A k \in W : table[SlotOf[k]] # NoNode
  BY DEF Init
<1>2. HInv /\ pc = "read" /\ todo = {}
  BY InitHInv DEF Init
<1>3. \A n \in Node, s \in Slot : /\ Claims(n, s) <=> table[s] = n
                                  /\ migrating[n][s] = NoNode
  BY <1>1 DEF RestInit, Claims
<1>4. SoleOK /\ HeldOK /\ MarkOK /\ GoneOK
  BY <1>2, <1>3 DEF SoleOK, Sole, HeldOK, MarkOK, GoneOK
<1>5. ASSUME NEW k \in written PROVE \E n \in Node : k \in keys[n] /\ Claims(n, SlotOf[k])
  <2>1. k \in W /\ SlotOf[k] \in Slot /\ table[SlotOf[k]] \in Node
    BY <1>1, <1>5, SlotOfAssumption DEF RestInit, Maybe
  <2>. QED
    BY <1>1, <1>3, <2>1 DEF RestInit
<1>. QED
  BY <1>2, <1>4, <1>5 DEF AInv, KeyFound

LEMMA FoundByClaim ==
  ASSUME AInv, pc \notin Marked, NEW k \in written
  PROVE  \E n \in Node : k \in keys[n] /\ Claims(n, SlotOf[k])
<1>1. SlotOf[k] \in Slot
  BY SlotOfAssumption DEF AInv, HInv, IInv, TypeOK, RedisTypeOK
<1>2. \A m \in Node : migrating[m][SlotOf[k]] = NoNode
  BY <1>1 DEF AInv, MarkOK
<1>. QED
  BY <1>2, NodeAssumption DEF AInv, KeyFound

\* A step that changes neither claims nor marks, with no batch under way.
LEMMA QuietAInv ==
  ASSUME AInv, HInv', HeldOK', pc' # "down", pc \notin Marked, pc' \notin Marked,
         UNCHANGED <<keys, written>>,
         \A p \in Node, s \in Slot : /\ Claims(p, s)' <=> Claims(p, s)
                                     /\ migrating'[p][s] = migrating[p][s]
  PROVE  AInv'
<1>1. SoleOK'
  BY DEF AInv, SoleOK, Sole, Marked
<1>2. MarkOK' /\ GoneOK'
  BY DEF AInv, MarkOK, GoneOK, Marked
<1>3. KeyFound'
  <2>1. ASSUME NEW k \in written' PROVE \E n \in Node : k \in keys'[n] /\ Claims(n, SlotOf[k])'
    <3>1. SlotOf[k] \in Slot /\ k \in written
      BY <2>1, SlotOfAssumption DEF AInv, HInv, IInv, TypeOK, RedisTypeOK
    <3>. QED
      BY <3>1, FoundByClaim
  <2>. QED
    BY <2>1 DEF KeyFound
<1>. QED
  BY <1>1, <1>2, <1>3 DEF AInv

LEMMA ReturnHeld == Return => HeldOK'
BY DEF Return, Forget, HeldOK

\* The steps that send no command, before, between and after the batches.
LEMMA MemoryAInv ==
  ASSUME AInv, HInv', pc' # "down", UNCHANGED redisVars,
         \/ GetClusterInfos \/ WaitForClusterJoin \/ WaitForClusterMeet
         \/ EndDispatch \/ AllTold \/ UpdateStatus \/ Heal
         \/ \E m \in Maybe, n \in Node, S \in SUBSET Slot : PickBatch(m, n, S)
  PROVE  AInv'
<1>. USE DEF AInv, HInv, IInv
<1>0. \A p \in Node : \A s : /\ Claims(p, s)' <=> Claims(p, s)
                             /\ migrating'[p][s] = migrating[p][s]
  BY DEF Claims, redisVars
<1>1. ASSUME GetClusterInfos PROVE HeldOK' /\ pc \notin Marked /\ pc' \notin Marked
  <2>1. /\ pc = "read" /\ pc' = "heal" /\ todo' = todo
        /\ \A n \in Node : bom'[n] = OwnSlots(n)
    BY <1>1 DEF GetClusterInfos
  <2>. QED
    BY <1>0, <2>1 DEF HeldOK, OwnSlots, Marked
<1>2. ASSUME SyncCluster, pc \in {"join", "meet"}
      PROVE  HeldOK' /\ pc \notin Marked /\ pc' \notin Marked
  <2>1. CASE Return
    BY <1>2, <2>1, ReturnHeld DEF Return, Marked
  <2>2. CASE ~Return
    <3>1. pc' = "dispatch" /\ bom' = bom /\ todo' \subseteq Slot
      BY <1>2, <2>2 DEF SyncCluster
    <3>. QED
      BY <1>0, <1>2, <3>1 DEF HeldOK, Marked
  <2>. QED
    BY <2>1, <2>2
<1>3. ASSUME WaitForClusterJoin PROVE HeldOK' /\ pc \notin Marked /\ pc' \notin Marked
  <2>1. CASE SyncCluster
    BY <1>2, <1>3, <2>1 DEF WaitForClusterJoin
  <2>2. CASE ~SyncCluster
    <3>1. pc = "join" /\ pc' = "meet" /\ bom' = bom /\ todo' = todo
      BY <1>3, <2>2 DEF WaitForClusterJoin, memory
    <3>. QED
      BY <1>0, <3>1 DEF HeldOK, Marked
  <2>. QED
    BY <2>1, <2>2
<1>4. ASSUME WaitForClusterMeet PROVE HeldOK' /\ pc \notin Marked /\ pc' \notin Marked
  BY <1>2, <1>4, ReturnHeld DEF WaitForClusterMeet, Return, Marked
<1>5. ASSUME EndDispatch PROVE HeldOK' /\ pc \notin Marked /\ pc' \notin Marked
  <2>1. CASE Return
    BY <1>5, <2>1, ReturnHeld DEF EndDispatch, Return, Marked
  <2>2. CASE ~Return
    BY <1>0, <1>5, <2>2 DEF EndDispatch, HeldOK, Marked, memory
  <2>. QED
    BY <2>1, <2>2
<1>6. ASSUME AllTold PROVE HeldOK' /\ pc \notin Marked /\ pc' \notin Marked
  <2>1. /\ pc = "tell" /\ pc' = "dispatch" /\ todo' = todo
        /\ bom' = [bom EXCEPT ![batch.dst] = @ \cup batch.slots]
    BY <1>6 DEF AllTold, NextBatch
  <2>2. batch.slots \cap todo = {} /\ batch.dst \in Node
    BY <2>1, BatchNodes DEF InBatch
  <2>3. \A n \in Node : todo \cap bom'[n] \subseteq todo \cap bom[n]
    BY <2>1, <2>2 DEF TypeOK
  <2>. QED
    BY <1>0, <2>1, <2>3 DEF HeldOK, Marked
<1>7. ASSUME UpdateStatus PROVE HeldOK' /\ pc \notin Marked /\ pc' \notin Marked
  BY <1>7, ReturnHeld DEF UpdateStatus, Return, Marked
<1>8. ASSUME Heal PROVE HeldOK' /\ pc \notin Marked /\ pc' \notin Marked
  <2>1. CASE Return
    BY <1>8, <2>1, ReturnHeld DEF Heal, Return, Marked
  <2>2. CASE ~Return
    BY <1>0, <1>8, <2>2 DEF Heal, HeldOK, Marked, memory
  <2>. QED
    BY <2>1, <2>2
<1>9. ASSUME NEW m \in Maybe, NEW n \in Node, NEW S \in SUBSET Slot, PickBatch(m, n, S)
      PROVE  HeldOK' /\ pc \notin Marked /\ pc' \notin Marked
  <2>1. /\ pc = "dispatch" /\ bom' = bom /\ todo' = todo \ S /\ S \subseteq todo
        /\ batch'.src = m /\ batch'.slots = S
        /\ pc' = IF m = NoNode THEN "addslots" ELSE "importing"
        /\ m # NoNode => S \subseteq bom[m]
    BY <1>9 DEF PickBatch
  <2>2. pc' = "importing" => \A s \in S : Claims(m, s)'
    <3>. SUFFICES ASSUME pc' = "importing", NEW s \in S PROVE Claims(m, s)'
      OBVIOUS
    <3>1. m \in Node
      BY <2>1 DEF Maybe
    <3>2. s \in todo \cap bom[m]
      BY <2>1, <3>1, NodeAssumption
    <3>. QED
      BY <1>0, <3>1, <3>2 DEF HeldOK
  <2>3. \A x \in Node : \A s \in todo' \cap bom'[x] : Claims(x, s)'
    BY <1>0, <2>1 DEF HeldOK
  <2>4. pc' \in {"importing", "migrating", "keys", "nodeDst"} =>
           \A s \in batch'.slots : Claims(batch.src, s)'
    BY <2>1, <2>2 DEF Claims
  <2>. QED
    BY <2>1, <2>3, <2>4 DEF HeldOK, Marked
<1>. QED
  BY <1>0, <1>1, <1>3, <1>4, <1>5, <1>6, <1>7, <1>8, <1>9, QuietAInv DEF redisVars

LEMMA AddSlotsAInv ==
  ASSUME AInv, HInv', AddSlots
  PROVE  AInv'
<1>. USE DEF AInv, HInv, IInv
<1>0. /\ pc = "addslots" /\ pc' \in {"dispatch", "read"} /\ UNCHANGED <<migrating, keys, written>>
      /\ batch.dst \in Node /\ batch.slots \in SUBSET Slot /\ batch.slots \cap todo = {}
  BY BatchNodes DEF AddSlots, InBatch, redisVars, NextBatch, Return
<1>1. ASSUME NEW p \in Node, NEW s \in Slot
      PROVE  /\ Claims(p, s) => Claims(p, s)'
             /\ Claims(p, s)' => Claims(p, s) \/ (p = batch.dst /\ s \in batch.slots)
  <2>1. owner \in [Node -> [Slot -> Maybe]]
    BY DEF TypeOK, RedisTypeOK
  <2>2. CASE owner' = With(owner, batch.dst, batch.slots, batch.dst)
    <3>1. owner'[p][s] = IF p = batch.dst /\ s \in batch.slots THEN batch.dst ELSE owner[p][s]
      BY <1>0, <2>1, <2>2, WithValue
    <3>. QED
      BY <3>1 DEF Claims
  <2>3. CASE owner' = owner
    BY <2>3 DEF Claims
  <2>. QED
    BY <2>2, <2>3 DEF AddSlots, redisVars
<1>2. SoleOK'
  <2>1. \A s \in batch.slots, n \in Node : ~Claims(n, s)
    BY <1>0 DEF BatchOK
  <2>. QED
    BY <1>0, <1>1, <2>1 DEF SoleOK, Sole
<1>3. HeldOK'
  <2>1. CASE Return
    BY <2>1, ReturnHeld
  <2>2. CASE ~Return
    <3>1. /\ pc' = "dispatch" /\ todo' = todo
          /\ bom' = [bom EXCEPT ![batch.dst] = @ \cup batch.slots]
      BY <2>2 DEF AddSlots, NextBatch
    <3>2. \A n \in Node : todo \cap bom'[n] \subseteq todo \cap bom[n] /\ todo \subseteq Slot
      BY <1>0, <3>1 DEF TypeOK
    <3>. QED
      BY <1>1, <3>1, <3>2 DEF HeldOK
  <2>. QED
    BY <2>1, <2>2
<1>4. MarkOK' /\ GoneOK' /\ pc' # "down"
  BY <1>0 DEF MarkOK, GoneOK, Marked
<1>5. KeyFound'
  <2>1. ASSUME NEW k \in written PROVE \E n \in Node : k \in keys'[n] /\ Claims(n, SlotOf[k])'
    <3>1. SlotOf[k] \in Slot
      BY <2>1, SlotOfAssumption DEF TypeOK, RedisTypeOK
    <3>2. \E n \in Node : k \in keys[n] /\ Claims(n, SlotOf[k])
      BY <1>0, <2>1, FoundByClaim DEF Marked
    <3>. QED
      BY <1>0, <1>1, <3>1, <3>2
  <2>. QED
    BY <1>0, <2>1 DEF KeyFound
<1>. QED
  BY <1>2, <1>3, <1>4, <1>5

LEMMA SetSlotsImportingAInv ==
  ASSUME AInv, HInv', SetSlotsImporting
  PROVE  AInv'
<1>. USE DEF AInv, HInv, IInv
<1>0. /\ pc = "importing" /\ pc' \in {"migrating", "read"}
      /\ UNCHANGED <<owner, migrating, keys, written>>
  BY DEF SetSlotsImporting, SetImporting, Return
<1>1. \A p \in Node : \A s : Claims(p, s)' <=> Claims(p, s)
  BY <1>0 DEF Claims
<1>2. HeldOK'
  <2>1. CASE Return
    BY <2>1, ReturnHeld
  <2>2. CASE ~Return
    <3>1. pc' = "migrating" /\ UNCHANGED <<bom, todo, batch>>
      BY <2>2 DEF SetSlotsImporting, memory
    <3>2. batch.src \in Node
      BY <1>0, BatchNodes DEF InBatch
    <3>. QED
      BY <1>0, <1>1, <3>1, <3>2 DEF HeldOK
  <2>. QED
    BY <2>1, <2>2
<1>. QED
  BY <1>0, <1>1, <1>2, QuietAInv DEF Marked

\* The source owns the whole batch, so it accepts every MIGRATING.
LEMMA SetSlotsMigratingAInv ==
  ASSUME ~Faulty, AInv, HInv', SetSlotsMigrating
  PROVE  AInv'
<1>. USE DEF AInv, HInv, IInv
<1>0. /\ pc = "migrating" /\ UNCHANGED <<owner, importing, keys, written>>
      /\ batch.dst \in Node /\ batch.src \in Node /\ batch.slots \in SUBSET Slot
  BY BatchNodes DEF SetSlotsMigrating, SetMigrating, InBatch
<1>1. \A p \in Node : \A s : Claims(p, s)' <=> Claims(p, s)
  BY <1>0 DEF Claims
<1>2. AcceptsMigrating(batch.src, batch.slots) = batch.slots
  BY <1>0 DEF AcceptsMigrating, HeldOK
<1>3. /\ migrating' = With(migrating, batch.src, batch.slots, batch.dst)
      /\ pc' = "keys" /\ UNCHANGED <<bom, todo, batch>>
  BY <1>2 DEF SetSlotsMigrating, SetSlots, SetMigrating, memory
<1>4. ASSUME NEW p \in Node, NEW s \in Slot
      PROVE  migrating'[p][s] = IF p = batch.src /\ s \in batch.slots
                                  THEN batch.dst ELSE NoNode
  <2>1. migrating \in [Node -> [Slot -> Maybe]] /\ migrating[p][s] = NoNode
    BY <1>0, <1>4 DEF TypeOK, RedisTypeOK, MarkOK, Marked
  <2>. QED
    BY <1>0, <1>3, <2>1, WithValue
<1>5. SoleOK' /\ GoneOK'
  BY <1>0, <1>1, <1>3 DEF SoleOK, Sole, GoneOK
<1>6. MarkOK'
  BY <1>3, <1>4 DEF MarkOK, Marked
<1>7. HeldOK'
  BY <1>0, <1>1, <1>3 DEF HeldOK
<1>8. KeyFound'
  BY <1>0, <1>1, FoundByClaim DEF KeyFound, Marked
<1>. QED
  BY <1>3, <1>5, <1>6, <1>7, <1>8

LEMMA MigrateKeysAInv ==
  ASSUME AInv, HInv', MigrateKeys
  PROVE  AInv'
<1>. USE DEF AInv, HInv, IInv
<1>0. /\ pc = "keys" /\ UNCHANGED <<pc, bom, todo, batch, owner, importing, migrating, written>>
      /\ batch.dst \in Node /\ batch.src \in Node /\ batch.slots \in SUBSET Slot
      /\ batch.src # batch.dst
  BY BatchNodes DEF MigrateKeys, Migrate, InBatch, memory, PairOK
<1>1. \A p \in Node : \A s : Claims(p, s)' <=> Claims(p, s)
  BY <1>0 DEF Claims
<1>2. PICK K \in SUBSET KeysToMove :
        keys' = [keys EXCEPT ![batch.src] = @ \ K, ![batch.dst] = @ \cup K]
  BY DEF MigrateKeys, Migrate
<1>3. \A k \in K : SlotOf[k] \in batch.slots
  BY <1>2 DEF KeysToMove, KeysIn
<1>4. /\ \A p \in Node : keys[p] \ K \subseteq keys'[p]
      /\ \A p \in Node \ {batch.src} : keys[p] \subseteq keys'[p]
      /\ K \subseteq keys'[batch.dst]
  <2>1. \A p \in Node : keys'[p] = IF p = batch.dst THEN keys[p] \cup K
                                   ELSE IF p = batch.src THEN keys[p] \ K ELSE keys[p]
    BY <1>0, <1>2 DEF TypeOK, RedisTypeOK
  <2>. QED
    BY <1>0, <2>1
<1>5. SoleOK' /\ MarkOK' /\ GoneOK'
  BY <1>0, <1>1 DEF SoleOK, Sole, MarkOK, GoneOK
<1>6. HeldOK'
  BY <1>0, <1>1 DEF HeldOK
<1>7. ASSUME NEW k \in K
      PROVE  /\ k \in keys'[batch.dst] /\ importing'[batch.dst][SlotOf[k]] # NoNode
             /\ Claims(batch.src, SlotOf[k])' /\ migrating'[batch.src][SlotOf[k]] = batch.dst
  BY <1>0, <1>1, <1>3, <1>4, <1>7 DEF TakenOK, HeldOK, BatchOK, Claims
<1>8. KeyFound'
  <2>. SUFFICES ASSUME NEW k \in written, k \notin K
       PROVE  \E n \in Node :
                /\ k \in keys'[n]
                /\ \/ Claims(n, SlotOf[k])'
                   \/ /\ importing'[n][SlotOf[k]] # NoNode
                      /\ \E m \in Node : Claims(m, SlotOf[k])' /\ migrating'[m][SlotOf[k]] = n
    <3>1. PICK src \in Node, dst \in Node : src = batch.src /\ dst = batch.dst
      BY <1>0
    <3>2. \A k \in K : /\ k \in keys'[dst] /\ importing'[dst][SlotOf[k]] # NoNode
                       /\ Claims(src, SlotOf[k])' /\ migrating'[src][SlotOf[k]] = dst
      BY <1>0, <1>7, <3>1 DEF Claims
    <3>. QED
      BY <1>0, <3>2 DEF KeyFound
  <2>1. PICK n \in Node :
          /\ k \in keys[n]
          /\ \/ Claims(n, SlotOf[k])
             \/ /\ importing[n][SlotOf[k]] # NoNode
                /\ \E m \in Node : Claims(m, SlotOf[k]) /\ migrating[m][SlotOf[k]] = n
    BY DEF KeyFound
  <2>2. k \in keys'[n]
    BY <1>4, <2>1
  <2>. QED
    BY <1>0, <1>1, <2>1, <2>2
<1>. QED
  BY <1>0, <1>5, <1>6, <1>8

LEMMA MigrateKeysDoneAInv ==
  ASSUME AInv, HInv', MigrateKeysDone
  PROVE  AInv'
<1>. USE DEF AInv, HInv, IInv
<1>0. /\ pc = "keys" /\ pc' = "nodeDst" /\ UNCHANGED <<bom, todo, batch>>
      /\ UNCHANGED <<owner, importing, migrating, written, keys>>
      /\ batch.src \in Node
  BY BatchNodes DEF MigrateKeysDone, memory, redisVars, InBatch
<1>1. \A p \in Node : \A s : Claims(p, s)' <=> Claims(p, s)
  BY <1>0 DEF Claims
<1>2. SoleOK' /\ MarkOK' /\ GoneOK' /\ HeldOK'
  BY <1>0, <1>1 DEF SoleOK, Sole, MarkOK, GoneOK, HeldOK, Marked
<1>3. KeyFound'
  BY <1>0, <1>1 DEF KeyFound
<1>. QED
  BY <1>0, <1>2, <1>3

LEMMA SetSlotsNodeDstAInv ==
  ASSUME ~Faulty, AInv, HInv', SetSlotsNodeDst
  PROVE  AInv'
<1>. USE DEF AInv, HInv, IInv
<1>0. /\ pc = "nodeDst" /\ pc' = "nodeSrc" /\ UNCHANGED <<bom, todo, batch, keys, written>>
      /\ batch.dst \in Node /\ batch.src \in Node /\ batch.slots \in SUBSET Slot
      /\ batch.src # batch.dst
      /\ SetNode(batch.dst, batch.slots, batch.dst)
  BY NodeDstStep DEF SetSlotsNodeDst, TellNode, SetNode, memory
<1>1. ASSUME NEW p \in Node, NEW s \in Slot
      PROVE  /\ Claims(p, s)' <=> (Claims(p, s) \/ (p = batch.dst /\ s \in batch.slots))
             /\ migrating'[p][s] \in {migrating[p][s], NoNode}
             /\ ~(p = batch.dst /\ s \in batch.slots) =>
                  migrating'[p][s] = migrating[p][s] /\ importing'[p][s] = importing[p][s]
  BY <1>0, SetNodeClaims DEF TypeOK
<1>2. SoleOK'
  BY <1>0, <1>1 DEF SoleOK, Sole
<1>3. HeldOK'
  BY <1>0, <1>1 DEF HeldOK, TypeOK
<1>4. MarkOK'
  BY <1>0, <1>1 DEF MarkOK, Marked
<1>5. GoneOK'
  BY <1>0 DEF GoneOK, TakenOK, KeysIn
<1>6. KeyFound'
  <2>. SUFFICES ASSUME NEW k \in written
       PROVE  \E n \in Node : k \in keys'[n] /\ Claims(n, SlotOf[k])'
    BY <1>0 DEF KeyFound
  <2>0. SlotOf[k] \in Slot
    BY SlotOfAssumption DEF TypeOK, RedisTypeOK
  <2>1. PICK n \in Node :
          /\ k \in keys[n]
          /\ \/ Claims(n, SlotOf[k])
             \/ \E m \in Node : migrating[m][SlotOf[k]] = n
    BY DEF KeyFound
  <2>2. CASE Claims(n, SlotOf[k])
    BY <1>0, <1>1, <2>0, <2>1, <2>2
  <2>3. CASE \E m \in Node : migrating[m][SlotOf[k]] = n
    <3>1. n = batch.dst /\ SlotOf[k] \in batch.slots
      BY <2>0, <2>3, NodeAssumption DEF MarkOK
    <3>. QED
      BY <1>0, <1>1, <2>0, <2>1, <3>1
  <2>. QED
    BY <2>1, <2>2, <2>3
<1>. QED
  BY <1>0, <1>2, <1>3, <1>4, <1>5, <1>6

LEMMA SetSlotsNodeSrcAInv ==
  ASSUME ~Faulty, AInv, HInv', SetSlotsNodeSrc
  PROVE  AInv'
<1>. USE DEF AInv, HInv, IInv
<1>0. /\ pc = "nodeSrc" /\ pc' = "tell" /\ UNCHANGED <<todo, batch, keys, written>>
      /\ bom' = [bom EXCEPT ![batch.src] = @ \ batch.slots]
      /\ batch.dst \in Node /\ batch.src \in Node /\ batch.slots \in SUBSET Slot
      /\ batch.src # batch.dst /\ batch.slots \cap todo = {}
      /\ SetNode(batch.src, batch.slots, batch.dst)
  BY NodeSrcStep, BatchNodes DEF SetSlotsNodeSrc, TellNode, SetNode, InBatch
<1>1. ASSUME NEW p \in Node, NEW s \in Slot
      PROVE  /\ Claims(p, s)' <=> (Claims(p, s) /\ ~(p = batch.src /\ s \in batch.slots))
             /\ migrating'[p][s] = NoNode
  <2>1. /\ Claims(p, s)' <=> (Claims(p, s) /\ ~(p = batch.src /\ s \in batch.slots))
        /\ migrating'[p][s] = IF p = batch.src /\ s \in batch.slots /\ KeysIn(batch.src, s) = {}
                                THEN NoNode ELSE migrating[p][s]
    BY <1>0, SetNodeClaims DEF TypeOK
  <2>. QED
    BY <1>0, <2>1 DEF MarkOK, GoneOK
<1>2. SoleOK'
  <2>1. \A s \in batch.slots : Sole(s)'
    BY <1>0 DEF TakenOK
  <2>2. \A s \in Slot \ batch.slots : Sole(s)'
    BY <1>0, <1>1 DEF SoleOK, Sole
  <2>. QED
    BY <1>0, <2>1, <2>2 DEF SoleOK
<1>3. HeldOK'
  <2>1. \A n \in Node : bom'[n] \subseteq bom[n] /\ todo \subseteq Slot
    BY <1>0 DEF TypeOK
  <2>. QED
    BY <1>0, <1>1, <2>1 DEF HeldOK
<1>4. MarkOK' /\ GoneOK'
  BY <1>0, <1>1 DEF MarkOK, GoneOK
<1>5. KeyFound'
  <2>. SUFFICES ASSUME NEW k \in written
       PROVE  \E n \in Node : k \in keys'[n] /\ Claims(n, SlotOf[k])'
    BY <1>0 DEF KeyFound
  <2>0. SlotOf[k] \in Slot
    BY SlotOfAssumption DEF TypeOK, RedisTypeOK
  <2>1. PICK n \in Node :
          /\ k \in keys[n]
          /\ \/ Claims(n, SlotOf[k])
             \/ \E m \in Node : migrating[m][SlotOf[k]] = n
    BY DEF KeyFound
  <2>2. Claims(n, SlotOf[k])
    <3>1. CASE \E m \in Node : migrating[m][SlotOf[k]] = n
      <4>1. n = batch.dst /\ SlotOf[k] \in batch.slots
        BY <2>0, <3>1, NodeAssumption DEF MarkOK
      <4>. QED
        BY <1>0, <4>1 DEF TakenOK
    <3>. QED
      BY <2>1, <3>1
  <2>3. ~(n = batch.src /\ SlotOf[k] \in batch.slots)
    BY <1>0, <2>1 DEF GoneOK, KeysIn
  <2>. QED
    BY <1>0, <1>1, <2>0, <2>1, <2>2, <2>3
<1>. QED
  BY <1>0, <1>2, <1>3, <1>4, <1>5

LEMMA TellOtherAInv ==
  ASSUME AInv, HInv', NEW x \in Node, TellOther(x)
  PROVE  AInv'
<1>. USE DEF AInv, HInv, IInv
<1>0. /\ pc = "tell" /\ UNCHANGED <<pc, bom, todo, batch, keys, written>>
      /\ batch.dst \in Node /\ batch.slots \in SUBSET Slot /\ x # batch.dst
  BY BatchNodes DEF TellOther, TellNode, SetNode, InBatch, PairOK
<1>1. \A p \in Node, s \in Slot : Claims(p, s)' <=> Claims(p, s)
  BY TellOtherClaims
<1>2. ASSUME NEW p \in Node, NEW s \in Slot PROVE migrating'[p][s] = migrating[p][s]
  <2>1. PICK D : SetNode(x, D, batch.dst)
    BY DEF TellOther, TellNode
  <2>2. migrating'[p][s] \in {migrating[p][s], NoNode}
    BY <1>0, <2>1, SetNodeClaims DEF TypeOK
  <2>. QED
    BY <1>0, <2>2 DEF MarkOK, Marked
<1>3. HeldOK'
  BY <1>0, <1>1 DEF HeldOK, TypeOK
<1>. QED
  BY <1>0, <1>1, <1>2, <1>3, QuietAInv DEF Marked

\* CLUSTER FORGET and the removal of nodes, which claim nothing.
LEMMA RemovalAInv ==
  ASSUME AInv, HInv', (Heal /\ Ghosts # {}) \/ ForgetDoomed \/ DeleteDoomed
  PROVE  AInv'
<1>. USE DEF AInv, HInv, IInv
<1>1. /\ UNCHANGED <<keys, written>>
      /\ pc \in {"heal", "forget", "delete"}
      /\ pc' \in {"read", "forget", "delete", "status"}
      /\ Return \/ UNCHANGED <<bom, todo>>
  <2>1. CASE Heal /\ Ghosts # {}
    BY <2>1 DEF Heal, ForgetNode, Return
  <2>2. CASE ForgetDoomed
    BY <2>2 DEF ForgetDoomed, ForgetNode, Return, memory, redisVars
  <2>3. CASE DeleteDoomed
    <3>1. keys' = keys
      BY <2>3, DeleteSame
    <3>. QED
      BY <2>3, <3>1 DEF DeleteDoomed, redisVars
  <2>. QED
    BY <2>1, <2>2, <2>3
<1>2. ASSUME NEW p \in Node, NEW s \in Slot
      PROVE  /\ Claims(p, s)' <=> Claims(p, s)
             /\ migrating'[p][s] = migrating[p][s]
  <2>1. CASE Heal /\ Ghosts # {}
    BY <2>1, HealClaims
  <2>2. CASE ForgetDoomed
    BY <2>2, ForgetDoomedClaims
  <2>3. CASE DeleteDoomed
    <3>1. Claims(p, s)' <=> Claims(p, s)
      BY <2>3, DeleteSame
    <3>2. migrating'[p][s] \in {migrating[p][s], NoNode} /\ migrating[p][s] = NoNode
      BY <1>1, <2>3, DeleteClaims DEF MarkOK, Marked
    <3>. QED
      BY <3>1, <3>2
  <2>. QED
    BY <2>1, <2>2, <2>3
<1>3. HeldOK'
  <2>1. CASE Return
    BY <2>1, ReturnHeld
  <2>2. CASE UNCHANGED <<bom, todo>>
    BY <1>1, <1>2, <2>2 DEF HeldOK, TypeOK
  <2>. QED
    BY <1>1, <2>1, <2>2
<1>. QED
  BY <1>1, <1>2, <1>3, QuietAInv DEF Marked

LEMMA HeartbeatAInv ==
  ASSUME AInv, HInv', NEW m \in Node, NEW n \in Node, Heartbeat(m, n)
  PROVE  AInv'
<1>. USE DEF AInv, HInv, IInv
<1>0. UNCHANGED <<pc, bom, todo, batch, importing, migrating, written>>
  BY DEF Heartbeat, Gossip, memory
<1>1. ASSUME NEW p \in Node, NEW s \in Slot
      PROVE  /\ Claims(p, s)' => Claims(p, s)
             /\ (Claims(p, s) /\ ~Claims(p, s)') =>
                   pc = "nodeSrc" /\ p = batch.src /\ s \in batch.slots
  <2>1. /\ Claims(p, s)' => Claims(p, s)
        /\ (Claims(p, s) /\ ~Claims(p, s)') =>
              p = m /\ m # n /\ Claims(n, s) /\ epoch[m] < epoch[n]
    BY GossipClaims DEF Heartbeat, TypeOK
  <2>. SUFFICES ASSUME Claims(p, s), ~Claims(p, s)'
       PROVE  pc = "nodeSrc" /\ p = batch.src /\ s \in batch.slots
    BY <2>1
  <2>2. p # n /\ Claims(n, s) /\ epoch[p] < epoch[n]
    BY <2>1
  <2>3. pc = "nodeSrc" /\ s \in batch.slots
    BY <2>2 DEF SoleOK, Sole
  <2>4. migrating[p][s] # NoNode
    BY <2>2 DEF VoidOK
  <2>. QED
    BY <2>3, <2>4 DEF MarkOK
<1>2. keys' = keys
  <2>1. ASSUME NEW k \in keys[m], Yields(m, n, SlotOf[k]), Claims(m, SlotOf[k])
        PROVE  FALSE
    <3>1. SlotOf[k] \in Slot
      BY <2>1, SlotOfAssumption DEF TypeOK, RedisTypeOK
    <3>2. Claims(n, SlotOf[k]) /\ m # n /\ epoch[m] < epoch[n]
      BY <2>1, NodeAssumption DEF Yields, Claims
    <3>3. KeysIn(m, SlotOf[k]) = {}
      BY <2>1, <3>1, <3>2 DEF VoidOK
    <3>. QED
      BY <2>1, <3>3 DEF KeysIn
  <2>2. {k \in keys[m] : ~(SlotOf[k] \in {s \in Slot : Yields(m, n, s)}
                           /\ Claims(m, SlotOf[k]))} = keys[m]
    BY <2>1
  <2>. QED
    BY <2>2 DEF Heartbeat, Gossip, TypeOK, RedisTypeOK
<1>3. SoleOK'
  BY <1>0, <1>1 DEF SoleOK, Sole
<1>4. HeldOK'
  <2>0. pc \in InBatch => batch.slots \cap todo = {} /\ batch.slots \subseteq Slot
    BY BatchNodes
  <2>1. \A p \in Node : \A s \in todo \cap bom[p] : Claims(p, s)'
    BY <1>1, <2>0 DEF HeldOK, TypeOK, InBatch
  <2>2. pc \in {"importing", "migrating", "keys", "nodeDst"} =>
          \A s \in batch.slots : Claims(batch.src, s)'
    <3>. SUFFICES ASSUME pc \in {"importing", "migrating", "keys", "nodeDst"},
                         NEW s \in batch.slots
         PROVE  Claims(batch.src, s)'
      OBVIOUS
    <3>1. PICK p \in Node : p = batch.src
      BY BatchNodes DEF InBatch
    <3>2. Claims(p, s) /\ s \in Slot
      BY <2>0, <3>1 DEF HeldOK, InBatch
    <3>3. Claims(p, s)'
      BY <1>1, <3>2
    <3>. QED
      BY <1>0, <3>1, <3>3 DEF Claims
  <2>3. pc \in {"heal", "join", "meet"} => \A p \in Node : \A s \in bom[p] : Claims(p, s)'
    BY <1>1 DEF HeldOK, TypeOK
  <2>. QED
    BY <1>0, <2>1, <2>2, <2>3 DEF HeldOK
<1>5. MarkOK' /\ GoneOK'
  BY <1>0, <1>2 DEF MarkOK, GoneOK, KeysIn
<1>6. KeyFound'
  <2>. SUFFICES ASSUME NEW k \in written
       PROVE  \E q \in Node :
                /\ k \in keys[q]
                /\ \/ Claims(q, SlotOf[k])'
                   \/ /\ importing[q][SlotOf[k]] # NoNode
                      /\ \E x \in Node : Claims(x, SlotOf[k])' /\ migrating[x][SlotOf[k]] = q
    BY <1>0, <1>2 DEF KeyFound
  <2>0. SlotOf[k] \in Slot
    BY SlotOfAssumption DEF TypeOK, RedisTypeOK
  <2>1. PICK q \in Node :
          /\ k \in keys[q]
          /\ \/ Claims(q, SlotOf[k])
             \/ /\ importing[q][SlotOf[k]] # NoNode
                /\ \E x \in Node : Claims(x, SlotOf[k]) /\ migrating[x][SlotOf[k]] = q
    BY DEF KeyFound
  <2>2. CASE pc # "nodeSrc"
    BY <1>1, <2>0, <2>1, <2>2
  <2>3. CASE pc = "nodeSrc"
    <3>1. Claims(q, SlotOf[k])
      <4>1. CASE \E x \in Node : migrating[x][SlotOf[k]] = q
        <5>1. q = batch.dst /\ SlotOf[k] \in batch.slots
          BY <2>0, <4>1, NodeAssumption DEF MarkOK
        <5>. QED
          BY <2>3, <5>1 DEF TakenOK
      <4>. QED
        BY <2>1, <4>1
    <3>2. ~(q = batch.src /\ SlotOf[k] \in batch.slots)
      BY <2>1, <2>3 DEF GoneOK, KeysIn
    <3>. QED
      BY <1>1, <2>0, <2>1, <3>1, <3>2
  <2>. QED
    BY <2>2, <2>3
<1>. QED
  BY <1>0, <1>3, <1>4, <1>5, <1>6

LEMMA WriteAInv ==
  ASSUME AInv, HInv', NEW k \in Key, NEW n \in Node, Write(k, n)
  PROVE  AInv'
<1>. USE DEF AInv, HInv, IInv
<1>0. /\ UNCHANGED <<owner, importing, migrating, pc, bom, todo, batch>>
      /\ keys' = [keys EXCEPT ![n] = @ \cup {k}] /\ written' = written \cup {k}
      /\ SlotOf[k] \in Slot
      /\ \/ Serves(n, SlotOf[k])
         \/ /\ ServesAsking(n, SlotOf[k])
            /\ \E m \in Node : Claims(m, SlotOf[k]) /\ migrating[m][SlotOf[k]] = n
  BY SlotOfAssumption DEF Write, ClientWrite, memory
<1>1. \A p \in Node : \A s : Claims(p, s)' <=> Claims(p, s)
  BY <1>0 DEF Claims
<1>2. \A p \in Node : keys'[p] = IF p = n THEN keys[p] \cup {k} ELSE keys[p]
  BY <1>0 DEF TypeOK, RedisTypeOK
<1>3. SoleOK' /\ MarkOK'
  BY <1>0, <1>1 DEF SoleOK, Sole, MarkOK
<1>4. HeldOK'
  BY <1>0, <1>1, BatchNodes DEF HeldOK, InBatch
<1>5. GoneOK'
  <2>. SUFFICES ASSUME pc = "nodeSrc", NEW s \in batch.slots PROVE KeysIn(batch.src, s)' = {}
    BY <1>0 DEF GoneOK
  <2>1. batch.src \in Node /\ batch.dst \in Node /\ batch.src # batch.dst /\ s \in Slot
    BY BatchNodes DEF InBatch, PairOK
  <2>2. ~(batch.src = n /\ SlotOf[k] = s)
    <3>. SUFFICES ASSUME batch.src = n, SlotOf[k] = s PROVE FALSE
      OBVIOUS
    <3>1. ~\E m \in Node : migrating[m][s] = n
      BY <2>1, NodeAssumption DEF MarkOK
    <3>2. Claims(n, s) /\ migrating[n][s] = NoNode
      BY <1>0, <3>1 DEF Serves
    <3>3. Claims(batch.dst, s) /\ epoch[n] < epoch[batch.dst]
      BY DEF TakenOK
    <3>. QED
      BY <2>1, <3>2, <3>3 DEF VoidOK
  <2>. QED
    BY <1>0, <1>2, <2>1, <2>2 DEF GoneOK, KeysIn
<1>6. KeyFound'
  <2>1. /\ k \in keys'[n]
        /\ \/ Claims(n, SlotOf[k])
           \/ /\ importing[n][SlotOf[k]] # NoNode
              /\ \E m \in Node : Claims(m, SlotOf[k]) /\ migrating[m][SlotOf[k]] = n
    BY <1>0, <1>2 DEF Serves, ServesAsking
  <2>2. \A p \in Node : keys[p] \subseteq keys'[p]
    BY <1>2
  <2>. QED
    BY <1>0, <1>1, <2>1, <2>2 DEF KeyFound
<1>. QED
  BY <1>0, <1>3, <1>4, <1>5, <1>6

LEMMA NextAInv ==
  ASSUME ~Faulty, AInv, [Next]_vars, pc' # "down"
  PROVE  AInv'
<1>1. HInv'
  BY NextHInv DEF AInv
<1>2. CASE \/ GetClusterInfos \/ WaitForClusterJoin \/ WaitForClusterMeet
           \/ EndDispatch \/ AllTold \/ UpdateStatus \/ (Heal /\ Ghosts = {})
           \/ \E m \in Maybe, n \in Node, S \in SUBSET Slot : PickBatch(m, n, S)
  <2>1. UNCHANGED redisVars
    BY <1>2 DEF GetClusterInfos, WaitForClusterJoin, WaitForClusterMeet, EndDispatch,
      AllTold, UpdateStatus, Heal, PickBatch
  <2>. QED
    BY <1>1, <1>2, <2>1, MemoryAInv
<1>3. CASE UNCHANGED vars
  <2>1. UNCHANGED <<redisVars, pc, bom, todo, batch>>
    BY <1>3 DEF vars, memory
  <2>2. UNCHANGED <<owner, migrating, importing, keys, written>>
    BY <2>1 DEF redisVars
  <2>3. (SoleOK /\ HeldOK /\ MarkOK /\ GoneOK)'
    BY <2>1, <2>2 DEF AInv, SoleOK, Sole, HeldOK, MarkOK, GoneOK, Claims, KeysIn
  <2>4. KeyFound'
    BY <2>2 DEF AInv, KeyFound, Claims
  <2>. QED
    BY <1>1, <2>3, <2>4 DEF AInv
<1>4. ~MigrateKeysFails /\ ~Crash /\ ~Restart
  BY DEF MigrateKeysFails, Crash, Restart, AInv
<1>. QED
  BY <1>1, <1>2, <1>3, <1>4, AddSlotsAInv, SetSlotsImportingAInv, SetSlotsMigratingAInv,
     MigrateKeysAInv, MigrateKeysDoneAInv, SetSlotsNodeDstAInv, SetSlotsNodeSrcAInv,
     TellOtherAInv, RemovalAInv, HeartbeatAInv, WriteAInv
     DEF Next, Dispatch

(***************************************************************************)
(* While no command is lost and the operator does not crash, an ASK leads  *)
(* to a node that accepts the key: DispatchSlotToNewMasters sends          *)
(* IMPORTING before MIGRATING, each naming the other side.                 *)
(***************************************************************************)
THEOREM AskLeadsOn ==
  ASSUME ~Faulty
  PROVE  Spec => AskIsServed
<1>1. AInv /\ [Next]_vars /\ (pc # "down")' => AInv'
  BY NextAInv
<1>2. AInv => AskServed
  <2>. SUFFICES ASSUME AInv, NEW s \in Slot, NEW n \in Node,
                       Claims(n, s), migrating[n][s] # NoNode
       PROVE  ServesAsking(migrating[n][s], s)
    BY DEF AskServed
  <2>. USE DEF AInv, HInv, IInv
  <2>1. /\ pc \in Marked /\ n = batch.src /\ s \in batch.slots
        /\ migrating[n][s] = batch.dst
    BY DEF MarkOK
  <2>2. batch.src \in Node /\ batch.dst \in Node /\ batch.src # batch.dst
    BY <2>1, BatchNodes DEF Marked, InBatch, PairOK
  <2>3. CASE pc = "nodeSrc"
    <3>1. Claims(batch.dst, s) /\ migrating[batch.dst][s] = NoNode
      BY <2>1, <2>2, <2>3 DEF TakenOK, MarkOK
    <3>. QED
      BY <2>1, <3>1 DEF ServesAsking, Serves
  <2>4. CASE pc # "nodeSrc"
    <3>1. importing[batch.dst][s] # NoNode /\ ~Claims(batch.dst, s)
      BY <2>1, <2>2, <2>4 DEF TakenOK, BatchOK, Marked
    <3>. QED
      BY <2>1, <3>1 DEF ServesAsking
  <2>. QED
    BY <2>3, <2>4
<1>. QED
  BY <1>1, <1>2, InitAInv, PTL DEF Spec, AskIsServed

(***************************************************************************)
(* While no command is lost and the operator does not crash, a client that *)
(* follows MOVED and ASK finds every acknowledged key at every moment of   *)
(* DispatchSlotToNewMasters and scalingDown.                               *)
(***************************************************************************)
THEOREM KeysAlwaysFound ==
  ASSUME ~Faulty
  PROVE  Spec => KeysStayFound
<1>1. AInv /\ [Next]_vars /\ (pc # "down")' => AInv'
  BY NextAInv
<1>2. AInv => KeyFound
  BY DEF AInv
<1>. QED
  BY <1>1, <1>2, InitAInv, PTL DEF Spec, KeysStayFound

=============================================================================
