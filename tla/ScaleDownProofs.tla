-------------------------- MODULE ScaleDownProofs --------------------------
(***************************************************************************)
(* Proofs about ScaleDown for any number of nodes, slots and keys.         *)
(***************************************************************************)
EXTENDS ScaleDown, RedisProofs, FiniteSetTheorems, TLAPS

(***************************************************************************)
(* The inductive invariant, with lost commands and with crashes.           *)
(***************************************************************************)

\* One node claims s at most.
Sole(s) == \A m, n \in Node : Claims(m, s) /\ Claims(n, s) => m = n

\* The masters that stay are never removed, marks redirect to them only, and
\* a removed node claims nothing.
ScopeOK ==
  /\ NewMasters \subseteq live
  /\ \A n \in Node, s \in Slot : migrating[n][s] \in NewMasters \cup {NoNode}
  /\ \A n \in Node, s \in Slot : Claims(n, s) => n \in live

\* A batch goes to another master, one that stays.
PairOK ==
  /\ pc \in InBatch => /\ batch.dst \in NewMasters
                       /\ batch.src # batch.dst
                       /\ pc = "addslots" <=> batch.src = NoNode
  /\ pc = "tell" => tell \subseteq Node \ {batch.src, batch.dst}

\* A claim on a slot that is still to be dispatched is in the operator's
\* memory, and it is the only one.
PlanOK ==
  /\ pc \in {"heal", "join", "meet"} =>
       \A n \in Node, s \in Slot : Claims(n, s) => s \in bom[n]
  /\ \A s \in todo : Sole(s) /\ \A n \in Node : Claims(n, s) => s \in bom[n]

\* When the target takes the slots of the batch, nobody else serves them.
BatchOK ==
  /\ pc = "addslots" => \A s \in batch.slots, n \in Node : ~Claims(n, s)
  /\ pc \in {"importing", "migrating"} => \A s \in batch.slots : Sole(s)
  /\ pc \in {"keys", "nodeDst"} => \A s \in batch.slots :
       /\ migrating[batch.src][s] = batch.dst
       /\ \A n \in Node : Claims(n, s) => n = batch.src

IInv == TypeOK /\ ScopeOK /\ PairOK /\ PlanOK /\ BatchOK /\ OneWriter

-----------------------------------------------------------------------------
(***************************************************************************)
(* Removal has a node to begin with: the doomed one of the greatest index. *)
(* It is the one above which the fewest doomed nodes are.                  *)
(***************************************************************************)
LEMMA LastIsDoomed ==
  ASSUME TypeOK, doomed # {}
  PROVE  LastDoomed \in doomed
<1>. DEFINE Above(n) == {m \in doomed : StsIndex[n] < StsIndex[m]}
            R == StrictSubsetOrdering(Node)
            T == {Above(n) : n \in doomed}
<1>1. doomed \subseteq Node /\ \A n \in doomed : StsIndex[n] \in Nat
  BY StsIndexAssumption DEF TypeOK
<1>2. IsWellFoundedOn(R, FiniteSubsetsOf(Node))
  BY FS_StrictSubsetOrderingWellFounded
<1>3. FiniteSubsetsOf(Node) = SUBSET Node
  BY FS_FiniteSubsetsOfFinite, NodesAssumption
<1>4. T \subseteq SUBSET Node /\ T # {}
  BY <1>1
<1>5. PICK x \in T : \A y \in T : <<y, x>> \notin R
  <2>. HIDE DEF R, T
  <2>. QED
    BY <1>2, <1>3, <1>4, WFMin, Zenon
<1>6. PICK n \in doomed : x = Above(n)
  BY <1>5
<1>7. \A m \in doomed : StsIndex[m] <= StsIndex[n]
  <2>. SUFFICES ASSUME NEW m \in doomed, StsIndex[n] < StsIndex[m] PROVE FALSE
    BY <1>1
  <2>1. m \in Above(n) /\ m \notin Above(m)
    BY <1>1
  <2>2. Above(m) \subseteq Above(n)
    BY <1>1
  <2>3. <<Above(m), Above(n)>> \in R
    BY <1>1, <2>1, <2>2 DEF StrictSubsetOrdering
  <2>. QED
    BY <1>5, <1>6, <2>3
<1>. QED
  BY <1>7 DEF LastDoomed

-----------------------------------------------------------------------------
(***************************************************************************)
(* Type correctness.                                                       *)
(***************************************************************************)
LEMMA ForgetTypeOK ==
  ASSUME Forget
  PROVE  /\ bom' \in [Node -> SUBSET Slot]
         /\ todo' = {} /\ batch' = NoBatch /\ tell' = {} /\ doomed' = {}
BY DEF Forget, NoSlots

LEMMA ForgetNodeTypeOK ==
  ASSUME RedisTypeOK, known \in [Node -> SUBSET Node], NEW M, NEW G,
         ForgetNode(M, G)
  PROVE  RedisTypeOK' /\ known' \in [Node -> SUBSET Node]
<1>1. known' \in [Node -> SUBSET Node]
  BY DEF ForgetNode
<1>2. owner' \in [Node -> [Slot -> Maybe]]
  BY DEF ForgetNode, RedisTypeOK, Maybe
<1>3. migrating' \in [Node -> [Slot -> Maybe]]
  BY DEF ForgetNode, RedisTypeOK, Maybe
<1>4. importing' \in [Node -> [Slot -> Maybe]]
  BY DEF ForgetNode, RedisTypeOK, Maybe
<1>. QED
  BY <1>1, <1>2, <1>3, <1>4 DEF ForgetNode, RedisTypeOK

LEMMA InitTypeOK == Init => TypeOK
<1>. SUFFICES ASSUME Init PROVE TypeOK
  OBVIOUS
<1>1. PICK table \in [Slot -> Maybe], W \in SUBSET Key : RestInit(table, W)
  BY DEF Init
<1>. QED
  BY <1>1, RestTypeOK DEF Init, TypeOK, NoSlots, InBatch

\* A batch with a source is between two nodes.
LEMMA BatchNodes ==
  ASSUME TypeOK, PairOK, pc \in InBatch
  PROVE  /\ batch \in Batch /\ batch.dst \in Node /\ batch.slots \in SUBSET Slot
         /\ batch.src \in Maybe /\ batch.slots \cap todo = {}
         /\ pc # "addslots" => batch.src \in Node
<1>1. batch \in Batch
  BY DEF TypeOK
<1>. QED
  BY <1>1 DEF TypeOK, PairOK, Batch, Maybe

LEMMA NextBatchTypeOK ==
  ASSUME TypeOK, PairOK, pc \in InBatch, NextBatch
  PROVE  /\ bom' \in [Node -> SUBSET Slot] /\ batch' = NoBatch /\ pc' = "dispatch"
         /\ todo' = todo /\ tell' = tell /\ doomed' = doomed
BY BatchNodes DEF NextBatch, TypeOK

\* SETSLOT NODE on a node for the batch.
LEMMA TellNodeTypeOK ==
  ASSUME TypeOK, PairOK, pc \in InBatch, NEW x \in Node, TellNode(x)
  PROVE  RedisTypeOK'
BY BatchNodes, SetNodeTypeOK DEF TellNode, TypeOK

LEMMA MovedKeysTypeOK ==
  ASSUME TypeOK, PairOK, pc = "keys", NEW C \in SUBSET KeysToMove, NEW R,
         Migrate(batch.src, batch.dst, C, R)
  PROVE  RedisTypeOK'
<1>1. C \in SUBSET keys[batch.src]
  BY DEF KeysToMove, KeysIn
<1>2. batch.src \in Node /\ batch.dst \in Node
  BY BatchNodes DEF InBatch
<1>. QED
  BY <1>1, <1>2, MigrateTypeOK DEF TypeOK

LEMMA AddSlotsTypeOK ==
  ASSUME TypeOK, PairOK, AddSlots
  PROVE  RedisTypeOK'
<1>1. pc \in InBatch /\ batch.dst \in Node
  BY BatchNodes DEF AddSlots, InBatch
<1>2. CASE UNCHANGED redisVars
  BY <1>2 DEF redisVars, RedisTypeOK, TypeOK
<1>3. CASE /\ owner' = With(owner, batch.dst, batch.slots, batch.dst)
           /\ importing' = With(importing, batch.dst, batch.slots, NoNode)
           /\ UNCHANGED <<migrating, keys, epoch, currentEpoch, written>>
  <2>1. owner' \in [Node -> [Slot -> Maybe]]
    BY <1>1, <1>3, WithType DEF RedisTypeOK, TypeOK, Maybe
  <2>2. importing' \in [Node -> [Slot -> Maybe]]
    BY <1>1, <1>3, WithType DEF RedisTypeOK, TypeOK, Maybe
  <2>. QED
    BY <1>3, <2>1, <2>2 DEF RedisTypeOK, TypeOK
<1>. QED
  BY <1>2, <1>3 DEF AddSlots

LEMMA DeleteTypeOK ==
  ASSUME TypeOK, DeleteDoomed
  PROVE  RedisTypeOK' /\ live' \in SUBSET Node /\ known' \in [Node -> SUBSET Node]
<1>1. CASE UNCHANGED <<redisVars, live, known>>
  BY <1>1 DEF TypeOK, RedisTypeOK, redisVars
<1>2. CASE ~UNCHANGED <<redisVars, live, known>>
  <2>1. live' \in SUBSET Node /\ known' \in [Node -> SUBSET Node]
        /\ keys' \in [Node -> SUBSET Key]
    BY <1>2 DEF DeleteDoomed, TypeOK, RedisTypeOK
  <2>2. [s \in Slot |-> NoNode] \in [Slot -> Maybe]
    BY DEF Maybe
  <2>. DEFINE none == [s \in Slot |-> NoNode]
  <2>3. /\ owner' = [owner EXCEPT ![LastDoomed] = none]
        /\ migrating' = [migrating EXCEPT ![LastDoomed] = none]
        /\ importing' = [importing EXCEPT ![LastDoomed] = none]
    BY <1>2 DEF DeleteDoomed
  <2>4. /\ owner \in [Node -> [Slot -> Maybe]]
        /\ migrating \in [Node -> [Slot -> Maybe]]
        /\ importing \in [Node -> [Slot -> Maybe]]
    BY DEF TypeOK, RedisTypeOK
  <2>. HIDE DEF none
  <2>5. none \in [Slot -> Maybe]
    BY <2>2 DEF none
  <2>6. /\ owner' \in [Node -> [Slot -> Maybe]]
        /\ migrating' \in [Node -> [Slot -> Maybe]]
        /\ importing' \in [Node -> [Slot -> Maybe]]
    BY <2>3, <2>4, <2>5
  <2>. QED
    BY <1>2, <2>1, <2>6 DEF DeleteDoomed, TypeOK, RedisTypeOK
<1>. QED
  BY <1>1, <1>2

LEMMA SyncTypeOK ==
  ASSUME TypeOK, pc \notin InBatch, SyncCluster
  PROVE  /\ bom' \in [Node -> SUBSET Slot] /\ todo' \in SUBSET Slot
         /\ batch' \in Batch \cup {NoBatch} /\ tell' \in SUBSET Node
         /\ doomed' \in SUBSET (Node \ NewMasters)
         /\ pc' \in {"dispatch", "read"} /\ statusNodes' \in SUBSET Node
         /\ live' = live /\ known' = known
<1>1. CASE Return
  BY <1>1, ForgetTypeOK DEF Return, TypeOK, SyncCluster, UpdateClusterIfNeed
<1>2. CASE ~Return
  BY <1>2 DEF SyncCluster, TypeOK, UpdateClusterIfNeed
<1>. QED
  BY <1>1, <1>2

LEMMA NextTypeOK ==
  ASSUME TypeOK, PairOK, [Next]_vars
  PROVE  TypeOK'
<1>. USE DEF TypeOK
<1>r. ASSUME UNCHANGED redisVars PROVE RedisTypeOK'
  BY <1>r DEF redisVars, RedisTypeOK
<1>f. ASSUME Forget, pc' \in {"read", "down"}, RedisTypeOK', live' \in SUBSET Node,
             known' \in [Node -> SUBSET Node], statusNodes' \in SUBSET Node
      PROVE  TypeOK'
  BY <1>f, ForgetTypeOK DEF InBatch
<1>u. ASSUME UNCHANGED <<memory, kube>>, RedisTypeOK',
             pc' \in {"heal", "join", "meet", "dispatch", "status", "read"}
               \cup (IF pc \in InBatch THEN InBatch ELSE {})
               \cup (IF doomed # {} THEN {"forget", "delete"} ELSE {})
      PROVE  TypeOK'
  BY <1>u DEF memory, kube, InBatch
<1>1. CASE GetClusterInfos
  BY <1>1, <1>r DEF GetClusterInfos, OwnSlots, kube, InBatch
<1>2. CASE Heal
  <2>1. CASE Ghosts = {}
    BY <1>2, <2>1, <1>r, <1>u DEF Heal, kube
  <2>2. CASE Ghosts # {}
    BY <1>2, <2>2, <1>f, ForgetNodeTypeOK DEF Heal, Return
  <2>. QED
    BY <2>1, <2>2
<1>3. CASE WaitForClusterJoin
  <2>1. CASE Agree
    BY <1>3, <2>1, <1>r, SyncTypeOK DEF WaitForClusterJoin, InBatch
  <2>2. CASE ~Agree
    BY <1>3, <2>2, <1>r DEF WaitForClusterJoin, memory, InBatch
  <2>. QED
    BY <2>1, <2>2
<1>4. CASE WaitForClusterMeet
  <2>1. CASE Agree
    BY <1>4, <2>1, <1>r, SyncTypeOK DEF WaitForClusterMeet, InBatch
  <2>2. CASE ~Agree
    BY <1>4, <2>2, <1>r, <1>f DEF WaitForClusterMeet, Return, kube
  <2>. QED
    BY <2>1, <2>2
<1>5. ASSUME NEW m \in Maybe, NEW n \in Node, NEW S \in SUBSET Slot, PickBatch(m, n, S)
      PROVE  TypeOK'
  <2>1. batch' \in Batch /\ batch' # NoBatch /\ batch'.slots = S
    BY <1>5, NoBatchAssumption DEF PickBatch, Batch
  <2>. QED
    BY <1>5, <2>1, <1>r DEF PickBatch, kube, InBatch
<1>6. CASE EndDispatch
  <2>1. CASE doomed = {}
    BY <1>6, <2>1, <1>r, <1>f DEF EndDispatch, Return, kube
  <2>2. CASE doomed # {}
    BY <1>6, <2>2, <1>r, <1>u DEF EndDispatch
  <2>. QED
    BY <2>1, <2>2
<1>7. CASE AddSlots
  <2>1. RedisTypeOK'
    BY <1>7, AddSlotsTypeOK
  <2>2. CASE NextBatch
    BY <1>7, <2>1, <2>2, NextBatchTypeOK DEF AddSlots, kube, InBatch
  <2>3. CASE Return
    BY <1>7, <2>1, <2>3, <1>f DEF AddSlots, Return, kube
  <2>. QED
    BY <1>7, <2>2, <2>3 DEF AddSlots
<1>8. CASE SetSlotsImporting
  <2>0. pc \in InBatch /\ batch.dst \in Node /\ batch.src \in Node
    BY <1>8, BatchNodes DEF SetSlotsImporting, InBatch
  <2>1. RedisTypeOK'
    BY <1>8, <2>0, SetImportingTypeOK DEF SetSlotsImporting
  <2>2. CASE Return
    BY <1>8, <2>1, <2>2, <1>f DEF SetSlotsImporting, Return, kube
  <2>3. CASE pc' = "migrating" /\ UNCHANGED memory
    BY <1>8, <2>0, <2>1, <2>3, <1>u DEF SetSlotsImporting, InBatch
  <2>. QED
    BY <1>8, <2>2, <2>3 DEF SetSlotsImporting
<1>9. CASE SetSlotsMigrating
  <2>0. pc \in InBatch /\ batch.dst \in Node /\ batch.src \in Node
    BY <1>9, BatchNodes DEF SetSlotsMigrating, InBatch
  <2>1. RedisTypeOK'
    BY <1>9, <2>0, SetMigratingTypeOK DEF SetSlotsMigrating
  <2>2. CASE Return
    BY <1>9, <2>1, <2>2, <1>f DEF SetSlotsMigrating, Return, kube
  <2>3. CASE pc' = "keys" /\ UNCHANGED memory
    BY <1>9, <2>0, <2>1, <2>3, <1>u DEF SetSlotsMigrating, InBatch
  <2>. QED
    BY <1>9, <2>2, <2>3 DEF SetSlotsMigrating
<1>10. CASE MigrateKeys
  BY <1>10, <1>u, MovedKeysTypeOK DEF MigrateKeys, InBatch
<1>11. CASE MigrateKeysDone
  BY <1>11, <1>u, <1>r DEF MigrateKeysDone, InBatch
<1>12. CASE MigrateKeysFails
  BY <1>12, <1>u, MovedKeysTypeOK DEF MigrateKeysFails, InBatch
<1>13. CASE SetSlotsNodeDst
  BY <1>13, <1>u, TellNodeTypeOK, BatchNodes DEF SetSlotsNodeDst, InBatch
<1>14. CASE SetSlotsNodeSrc
  <2>0. pc \in InBatch /\ batch.src \in Node
    BY <1>14, BatchNodes DEF SetSlotsNodeSrc, InBatch
  <2>1. RedisTypeOK'
    BY <1>14, <2>0, TellNodeTypeOK DEF SetSlotsNodeSrc
  <2>. QED
    BY <1>14, <2>0, <2>1 DEF SetSlotsNodeSrc, kube, InBatch
<1>15. ASSUME NEW x \in Node, TellOther(x) PROVE TypeOK'
  <2>1. RedisTypeOK'
    BY <1>15, TellNodeTypeOK DEF TellOther, InBatch
  <2>. QED
    BY <1>15, <2>1 DEF TellOther, kube, InBatch
<1>16. CASE AllTold
  BY <1>16, <1>r, NextBatchTypeOK DEF AllTold, kube, InBatch
<1>17. CASE ForgetDoomed
  <2>1. CASE LastDoomed \in live /\ bom[LastDoomed] = {}
    <3>1. RedisTypeOK' /\ known' \in [Node -> SUBSET Node]
      BY <1>17, <2>1, ForgetNodeTypeOK DEF ForgetDoomed
    <3>. QED
      BY <1>17, <2>1, <3>1 DEF ForgetDoomed, memory, InBatch
  <2>2. CASE ~(LastDoomed \in live /\ bom[LastDoomed] = {})
    BY <1>17, <2>2, <1>r, <1>f DEF ForgetDoomed, Return
  <2>. QED
    BY <2>1, <2>2
<1>18. CASE DeleteDoomed
  <2>1. RedisTypeOK' /\ live' \in SUBSET Node /\ known' \in [Node -> SUBSET Node]
    BY <1>18, DeleteTypeOK
  <2>2. pc' \in {"status", "forget"} /\ (pc' = "forget" => doomed' # {})
    BY <1>18, LastIsDoomed DEF DeleteDoomed
  <2>. QED
    BY <1>18, <2>1, <2>2 DEF DeleteDoomed, InBatch
<1>19. CASE UpdateStatus
  BY <1>19, <1>r, <1>f DEF UpdateStatus, Return, UpdateClusterIfNeed
<1>20. CASE Crash
  BY <1>20, <1>r, <1>f DEF Crash, kube
<1>21. CASE Restart
  BY <1>21, <1>r, <1>u DEF Restart
<1>22. ASSUME NEW m \in Node, NEW n \in Node, Heartbeat(m, n) PROVE TypeOK'
  BY <1>22, GossipTypeOK DEF Heartbeat, memory, kube
<1>23. ASSUME NEW k \in Key, NEW n \in Node, Write(k, n) PROVE TypeOK'
  BY <1>23, ClientWriteTypeOK DEF Write, memory, kube
<1>24. CASE UNCHANGED vars
  BY <1>24, <1>r DEF vars, memory, kube
<1>. QED
  BY <1>1, <1>2, <1>3, <1>4, <1>5, <1>6, <1>7, <1>8, <1>9, <1>10, <1>11, <1>12,
     <1>13, <1>14, <1>15, <1>16, <1>17, <1>18, <1>19, <1>20, <1>21, <1>22, <1>23,
     <1>24 DEF Next, Dispatch

-----------------------------------------------------------------------------
(***************************************************************************)
(* What each command does to claims and marks.                             *)
(***************************************************************************)
LEMMA SetNodeClaims ==
  ASSUME RedisTypeOK, NEW x \in Node, NEW D, NEW id \in Node, SetNode(x, D, id),
         NEW p \in Node, NEW s \in Slot
  PROVE  /\ Claims(p, s)' <=> (IF p = x /\ s \in D THEN id = x ELSE Claims(p, s))
         /\ migrating'[p][s] =
              IF p = x /\ s \in D /\ KeysIn(x, s) = {} THEN NoNode ELSE migrating[p][s]
         /\ importing'[p][s] =
              IF p = x /\ s \in D /\ id = x THEN NoNode ELSE importing[p][s]
<1>1. owner'[p][s] = IF p = x /\ s \in D THEN id ELSE owner[p][s]
  BY WithValue DEF SetNode, RedisTypeOK
<1>2. migrating'[p][s] = IF p = x /\ s \in {t \in D : KeysIn(x, t) = {}}
                           THEN NoNode ELSE migrating[p][s]
  BY WithValue DEF SetNode, RedisTypeOK
<1>3. importing'[p][s] =
        IF p = x /\ s \in {t \in D : id = x /\ importing[x][t] # NoNode}
          THEN NoNode ELSE importing[p][s]
  BY WithValue DEF SetNode, RedisTypeOK
<1>. QED
  BY <1>1, <1>2, <1>3 DEF Claims

\* The forgotten nodes are not among those that forget, and no mark names them.
LEMMA ForgetNodeClaims ==
  ASSUME TypeOK, ScopeOK, NEW M, NEW G, M \cap G = {}, G \cap NewMasters = {},
         NoNode \notin G, ForgetNode(M, G), NEW p \in Node, NEW s \in Slot
  PROVE  /\ Claims(p, s)' <=> Claims(p, s)
         /\ migrating'[p][s] = migrating[p][s]
<1>1. owner'[p][s] = IF p \in M /\ owner[p][s] \in G THEN NoNode ELSE owner[p][s]
  BY DEF ForgetNode
<1>2. migrating'[p][s] =
        IF p \in M /\ migrating[p][s] \in G THEN NoNode ELSE migrating[p][s]
  BY DEF ForgetNode
<1>3. migrating[p][s] \in G => migrating[p][s] = NoNode
  BY DEF ScopeOK
<1>. QED
  BY <1>1, <1>2, <1>3, NodeAssumption DEF Claims

LEMMA HealClaims ==
  ASSUME TypeOK, ScopeOK, Heal, Ghosts # {}, NEW p \in Node, NEW s \in Slot
  PROVE  /\ Claims(p, s)' <=> Claims(p, s)
         /\ migrating'[p][s] = migrating[p][s]
<1>1. PICK M \in SUBSET live : ForgetNode(M, Ghosts)
  BY DEF Heal
<1>2. Ghosts \cap live = {}
  BY DEF Ghosts
<1>3. \A g \in Ghosts : \E m \in live : g \in known[m]
  BY DEF Ghosts
<1>4. Ghosts \subseteq Node
  BY <1>3 DEF TypeOK
<1>5. M \cap Ghosts = {} /\ Ghosts \cap NewMasters = {} /\ NoNode \notin Ghosts
  BY <1>2, <1>4, NodeAssumption DEF ScopeOK
<1>. QED
  BY <1>1, <1>5, ForgetNodeClaims

LEMMA ForgetDoomedClaims ==
  ASSUME TypeOK, ScopeOK, ForgetDoomed, NEW p \in Node, NEW s \in Slot
  PROVE  /\ Claims(p, s)' <=> Claims(p, s)
         /\ migrating'[p][s] = migrating[p][s]
<1>1. CASE UNCHANGED redisVars
  BY <1>1 DEF redisVars, Claims
<1>2. CASE ~UNCHANGED redisVars
  <2>1. \E M \in SUBSET (live \ doomed) : ForgetNode(M, {LastDoomed})
    BY <1>2 DEF ForgetDoomed
  <2>2. LastDoomed \in doomed /\ LastDoomed \in Node \ NewMasters
    BY LastIsDoomed DEF ForgetDoomed, TypeOK
  <2>. QED
    BY <2>1, <2>2, ForgetNodeClaims, NodeAssumption
<1>. QED
  BY <1>1, <1>2

LEMMA DeleteClaims ==
  ASSUME TypeOK, DeleteDoomed, NEW p \in Node, NEW s \in Slot
  PROVE  /\ Claims(p, s)' => Claims(p, s)
         /\ p # LastDoomed => /\ Claims(p, s)' <=> Claims(p, s)
                              /\ migrating'[p][s] = migrating[p][s]
         /\ migrating'[p][s] \in {migrating[p][s], NoNode}
         /\ Claims(p, s)' => /\ migrating'[p][s] = migrating[p][s]
                             /\ p \in live => p \in live'
<1>1. CASE UNCHANGED <<redisVars, live, known>>
  BY <1>1 DEF redisVars, Claims
<1>2. CASE ~UNCHANGED <<redisVars, live, known>>
  <2>1. owner' = [owner EXCEPT ![LastDoomed] = [t \in Slot |-> NoNode]]
        /\ migrating' = [migrating EXCEPT ![LastDoomed] = [t \in Slot |-> NoNode]]
        /\ live' = live \ {LastDoomed}
    BY <1>2 DEF DeleteDoomed
  <2>2. owner'[p][s] = IF p = LastDoomed THEN NoNode ELSE owner[p][s]
    BY <2>1 DEF TypeOK, RedisTypeOK
  <2>3. migrating'[p][s] = IF p = LastDoomed THEN NoNode ELSE migrating[p][s]
    BY <2>1 DEF TypeOK, RedisTypeOK
  <2>. QED
    BY <2>1, <2>2, <2>3, NodeAssumption DEF Claims
<1>. QED
  BY <1>1, <1>2

LEMMA HeartbeatClaims ==
  ASSUME TypeOK, NEW m \in Node, NEW n \in Node, Heartbeat(m, n)
  PROVE  /\ \A p \in Node, s \in Slot : Claims(p, s)' => Claims(p, s)
         /\ UNCHANGED <<migrating, importing, epoch, currentEpoch, written,
                        pc, memory, kube>>
BY GossipClaims DEF Heartbeat, Gossip, TypeOK

(***************************************************************************)
(* Parts of the invariant that hold whatever the step.                     *)
(***************************************************************************)

\* Between two Reconciles the operator remembers nothing.
LEMMA IdleOK ==
  ASSUME pc' \in {"read", "down"}, todo' = {}
  PROVE  PairOK' /\ PlanOK' /\ BatchOK'
BY DEF PairOK, PlanOK, BatchOK, InBatch

\* No claim is added and no claim loses its mark.
ClaimsShrink ==
  \A p \in Node, s \in Slot :
    Claims(p, s)' => Claims(p, s) /\ migrating'[p][s] = migrating[p][s]

LEMMA ShrinkOneWriter ==
  ASSUME OneWriter, ClaimsShrink
  PROVE  OneWriter'
BY DEF OneWriter, ClaimsShrink, Serves

LEMMA ShrinkPlanOK ==
  ASSUME TypeOK, PlanOK, ClaimsShrink, bom' = bom, todo' = todo,
         pc' \in {"heal", "join", "meet"} => pc \in {"heal", "join", "meet"}
  PROVE  PlanOK'
BY DEF PlanOK, ClaimsShrink, Sole, TypeOK

LEMMA SameNodes ==
  ASSUME ScopeOK, OneWriter, UNCHANGED <<redisVars, live>>
  PROVE  ScopeOK' /\ OneWriter' /\ ClaimsShrink
BY DEF ScopeOK, OneWriter, ClaimsShrink, Serves, Claims, redisVars

-----------------------------------------------------------------------------
(***************************************************************************)
(* The invariant holds of every step, one lemma per group of actions.      *)
(***************************************************************************)
LEMMA InitIInv == Init => IInv
<1>. SUFFICES ASSUME Init PROVE IInv
  OBVIOUS
<1>1. TypeOK
  BY InitTypeOK
<1>2. PICK table \in [Slot -> Maybe], W \in SUBSET Key : RestInit(table, W)
  BY DEF Init
<1>3. \A n \in Node, s \in Slot : migrating[n][s] = NoNode /\ owner[n][s] = table[s]
  BY <1>2 DEF RestInit
<1>4. ScopeOK /\ OneWriter
  BY <1>3 DEF Init, ScopeOK, OneWriter, Serves, Claims, NewMasters
<1>5. PairOK /\ PlanOK /\ BatchOK
  BY DEF Init, PairOK, PlanOK, BatchOK, InBatch
<1>. QED
  BY <1>1, <1>4, <1>5 DEF IInv

\* GetClusterInfos, UpdateStatus, Crash, Restart, EndDispatch, MigrateKeysDone.
LEMMA MemoryIInv ==
  ASSUME IInv, TypeOK', UNCHANGED <<redisVars, live>>,
         GetClusterInfos \/ UpdateStatus \/ Crash \/ Restart \/ EndDispatch
           \/ MigrateKeysDone
  PROVE  IInv'
<1>. USE DEF IInv
<1>0. ScopeOK' /\ OneWriter' /\ ClaimsShrink
  BY SameNodes
<1>c. \A n \in Node, s \in Slot : Claims(n, s)' <=> Claims(n, s)
  BY DEF Claims, redisVars
<1>1. CASE GetClusterInfos
  <2>1. PlanOK'
    <3>1. \A n \in Node : bom'[n] = {s \in Slot : Claims(n, s)}
      BY <1>1 DEF GetClusterInfos, OwnSlots
    <3>. QED
      BY <1>1, <1>c, <3>1 DEF GetClusterInfos, PlanOK, Sole, TypeOK
  <2>. QED
    BY <1>0, <1>1, <2>1 DEF GetClusterInfos, PairOK, BatchOK, InBatch
<1>2. CASE UpdateStatus \/ Crash
  BY <1>0, <1>2, IdleOK DEF UpdateStatus, Crash, Return, Forget
<1>3. CASE Restart
  <2>1. PlanOK'
    BY <1>0, <1>3, ShrinkPlanOK DEF Restart, memory
  <2>. QED
    BY <1>0, <1>3, <2>1 DEF Restart, PairOK, BatchOK, InBatch
<1>4. CASE EndDispatch
  <2>1. CASE Return
    BY <1>0, <2>1, IdleOK DEF Return, Forget
  <2>2. CASE ~Return
    <3>1. pc' = "forget" /\ UNCHANGED memory
      BY <1>4, <2>2 DEF EndDispatch
    <3>2. PlanOK'
      BY <1>0, <3>1, ShrinkPlanOK DEF memory
    <3>. QED
      BY <1>0, <3>1, <3>2 DEF PairOK, BatchOK, InBatch
  <2>. QED
    BY <2>1, <2>2
<1>5. CASE MigrateKeysDone
  <2>1. PlanOK'
    BY <1>0, <1>5, ShrinkPlanOK DEF MigrateKeysDone, memory
  <2>2. PairOK'
    BY <1>5 DEF MigrateKeysDone, memory, PairOK, InBatch
  <2>3. BatchOK'
    <3>1. pc = "keys" /\ pc' = "nodeDst" /\ batch' = batch /\ owner' = owner
          /\ migrating' = migrating
      BY <1>5 DEF MigrateKeysDone, memory, redisVars
    <3>. QED
      BY <3>1 DEF BatchOK, Claims
  <2>. QED
    BY <1>0, <2>1, <2>2, <2>3
<1>. QED
  BY <1>1, <1>2, <1>3, <1>4, <1>5

\* Nodes that agree with each other claim a slot once.
LEMMA AgreeSole ==
  ASSUME TypeOK, ScopeOK, Agree, NEW s \in Slot
  PROVE  Sole(s)
BY DEF Sole, Agree, ScopeOK, Claims

LEMMA SyncIInv ==
  ASSUME IInv, TypeOK', pc \in {"join", "meet"}, Agree, SyncCluster,
         UNCHANGED redisVars
  PROVE  IInv'
<1>. USE DEF IInv
<1>0. ScopeOK' /\ OneWriter' /\ ClaimsShrink
  BY SameNodes DEF SyncCluster
<1>1. CASE Return
  BY <1>0, <1>1, IdleOK DEF Return, Forget
<1>2. CASE ~Return
  <2>1. pc' = "dispatch" /\ bom' = bom /\ todo' \in SUBSET Slot
    BY <1>2 DEF SyncCluster
  <2>2. \A s \in Slot : Sole(s) /\ \A n \in Node : Claims(n, s) => s \in bom[n]
    BY AgreeSole DEF PlanOK
  <2>3. PlanOK'
    BY <1>0, <2>1, <2>2 DEF PlanOK, Sole, ClaimsShrink
  <2>. QED
    BY <1>0, <2>1, <2>3 DEF PairOK, BatchOK, InBatch
<1>. QED
  BY <1>1, <1>2

LEMMA JoinIInv ==
  ASSUME IInv, TypeOK', WaitForClusterJoin \/ WaitForClusterMeet
  PROVE  IInv'
<1>. USE DEF IInv
<1>1. CASE Agree
  BY <1>1, SyncIInv DEF WaitForClusterJoin, WaitForClusterMeet
<1>2. CASE ~Agree
  <2>0. ScopeOK' /\ OneWriter' /\ ClaimsShrink
    BY <1>2, SameNodes DEF WaitForClusterJoin, WaitForClusterMeet, kube
  <2>1. CASE Return
    BY <2>0, <2>1, IdleOK DEF Return, Forget
  <2>2. CASE ~Return
    <3>1. pc = "join" /\ pc' = "meet" /\ UNCHANGED memory
      BY <1>2, <2>2 DEF WaitForClusterJoin, WaitForClusterMeet
    <3>2. PlanOK'
      BY <2>0, <3>1, ShrinkPlanOK DEF memory
    <3>. QED
      BY <2>0, <3>1, <3>2 DEF PairOK, BatchOK, InBatch
  <2>. QED
    BY <2>1, <2>2
<1>. QED
  BY <1>1, <1>2

LEMMA PickBatchIInv ==
  ASSUME IInv, TypeOK', NEW m \in Maybe, NEW n \in Node, NEW S \in SUBSET Slot,
         PickBatch(m, n, S)
  PROVE  IInv'
<1>. USE DEF IInv
<1>0. ScopeOK' /\ OneWriter' /\ ClaimsShrink
  BY SameNodes DEF PickBatch, kube
<1>1. /\ batch'.src = m /\ batch'.dst = n /\ batch'.slots = S
      /\ n \in NewMasters /\ m # n /\ S \subseteq todo
      /\ todo' = todo \ S /\ bom' = bom
      /\ pc' = IF m = NoNode THEN "addslots" ELSE "importing"
  BY DEF PickBatch
<1>2. PairOK'
  BY <1>1 DEF PairOK, InBatch
<1>3. PlanOK'
  BY <1>0, <1>1 DEF PlanOK, Sole, ClaimsShrink, TypeOK
<1>4. BatchOK'
  <2>1. \A s \in S : s \in Slot /\ Sole(s) /\ \A p \in Node : Claims(p, s) => s \in bom[p]
    BY <1>1 DEF PlanOK, TypeOK
  <2>2. \A s \in S : Sole(s)'
    BY <1>0, <2>1 DEF Sole, ClaimsShrink
  <2>3. ASSUME m = NoNode, NEW s \in S, NEW p \in Node PROVE ~Claims(p, s)'
    <3>1. s \notin bom[p]
      BY <2>3 DEF PickBatch
    <3>. QED
      BY <1>0, <2>1, <3>1 DEF ClaimsShrink
  <2>. QED
    BY <1>1, <2>2, <2>3 DEF BatchOK
<1>. QED
  BY <1>0, <1>2, <1>3, <1>4

LEMMA HealIInv ==
  ASSUME IInv, TypeOK', Heal
  PROVE  IInv'
<1>. USE DEF IInv
<1>1. CASE Ghosts = {}
  <2>1. pc = "heal" /\ pc' = "join" /\ UNCHANGED <<redisVars, memory, live>>
    BY <1>1 DEF Heal
  <2>2. ScopeOK' /\ OneWriter' /\ ClaimsShrink
    BY <2>1, SameNodes
  <2>3. PlanOK'
    BY <2>1, <2>2, ShrinkPlanOK DEF memory
  <2>. QED
    BY <2>1, <2>2, <2>3 DEF PairOK, BatchOK, InBatch
<1>2. CASE Ghosts # {}
  <2>3. \A p \in Node, s \in Slot : /\ Claims(p, s)' <=> Claims(p, s)
                                    /\ migrating'[p][s] = migrating[p][s]
    BY <1>2, HealClaims
  <2>4. live' = live /\ Return
    BY <1>2 DEF Heal
  <2>5. ScopeOK'
    BY <2>3, <2>4 DEF ScopeOK
  <2>6. OneWriter'
    BY <2>3, ShrinkOneWriter DEF ClaimsShrink
  <2>. QED
    BY <2>4, <2>5, <2>6, IdleOK DEF Return, Forget
<1>. QED
  BY <1>1, <1>2

\* The batch is done; no slot of the plan was in it.
LEMMA NextBatchOK ==
  ASSUME IInv, pc \in InBatch, NextBatch,
         \A p \in Node, s \in todo : Claims(p, s)' => Claims(p, s)
  PROVE  PairOK' /\ PlanOK' /\ BatchOK'
<1>1. /\ pc' = "dispatch" /\ todo' = todo
      /\ bom' = [bom EXCEPT ![batch.dst] = @ \cup batch.slots]
  BY DEF NextBatch
<1>2. \A n \in Node : bom[n] \subseteq bom'[n]
  BY <1>1 DEF IInv, TypeOK
<1>3. PlanOK'
  BY <1>1, <1>2 DEF IInv, PlanOK, Sole
<1>. QED
  BY <1>1, <1>3 DEF PairOK, BatchOK, InBatch

LEMMA AddSlotsIInv ==
  ASSUME IInv, TypeOK', AddSlots
  PROVE  IInv'
<1>. USE DEF IInv
<1>0. /\ pc = "addslots" /\ pc \in InBatch /\ batch.dst \in Node /\ batch.dst \in NewMasters
      /\ batch.slots \in SUBSET Slot /\ batch.slots \cap todo = {} /\ live' = live
  BY BatchNodes DEF AddSlots, InBatch, kube, PairOK
<1>1. \A p \in Node, s \in Slot :
        /\ Claims(p, s)' => Claims(p, s) \/ (p = batch.dst /\ s \in batch.slots)
        /\ migrating'[p][s] = migrating[p][s]
  <2>1. CASE UNCHANGED redisVars
    BY <2>1 DEF redisVars, Claims
  <2>2. CASE ~UNCHANGED redisVars
    <3>1. owner' = With(owner, batch.dst, batch.slots, batch.dst) /\ migrating' = migrating
      BY <2>2 DEF AddSlots
    <3>2. ASSUME NEW p \in Node, NEW s \in Slot
          PROVE  owner'[p][s] =
                   IF p = batch.dst /\ s \in batch.slots THEN batch.dst ELSE owner[p][s]
      <4>1. owner \in [Node -> [Slot -> Maybe]]
        BY DEF TypeOK, RedisTypeOK
      <4>. QED
        BY <1>0, <3>1, <4>1, WithValue
    <3>. QED
      BY <3>1, <3>2 DEF Claims
  <2>. QED
    BY <2>1, <2>2
<1>2. \A s \in batch.slots, n \in Node : ~Claims(n, s)
  BY <1>0 DEF BatchOK
<1>3. ScopeOK'
  BY <1>0, <1>1 DEF ScopeOK
<1>4. OneWriter'
  BY <1>1, <1>2 DEF OneWriter, Serves
<1>5. \A p \in Node, s \in todo : Claims(p, s)' => Claims(p, s)
  BY <1>0, <1>1 DEF TypeOK
<1>6. CASE NextBatch
  BY <1>0, <1>3, <1>4, <1>5, <1>6, NextBatchOK
<1>7. CASE Return
  BY <1>3, <1>4, <1>7, IdleOK DEF Return, Forget
<1>. QED
  BY <1>6, <1>7 DEF AddSlots

LEMMA SetSlotsImportingIInv ==
  ASSUME IInv, TypeOK', SetSlotsImporting
  PROVE  IInv'
<1>. USE DEF IInv
<1>0. pc = "importing" /\ live' = live /\ owner' = owner /\ migrating' = migrating
  BY DEF SetSlotsImporting, SetImporting, kube
<1>1. \A n \in Node : \A s : Claims(n, s)' <=> Claims(n, s)
  BY <1>0 DEF Claims
<1>2. ScopeOK'
  BY <1>0, <1>1 DEF ScopeOK
<1>3. ClaimsShrink
  BY <1>0, <1>1 DEF ClaimsShrink
<1>4. OneWriter'
  BY <1>3, ShrinkOneWriter
<1>5. CASE Return
  BY <1>2, <1>4, <1>5, IdleOK DEF Return, Forget
<1>6. CASE pc' = "migrating" /\ UNCHANGED memory
  <2>1. PlanOK'
    BY <1>0, <1>3, <1>6, ShrinkPlanOK DEF memory
  <2>2. PairOK'
    BY <1>0, <1>6 DEF PairOK, memory, InBatch
  <2>3. BatchOK'
    BY <1>0, <1>1, <1>6 DEF BatchOK, Sole, memory
  <2>. QED
    BY <1>2, <1>4, <2>1, <2>2, <2>3
<1>. QED
  BY <1>5, <1>6 DEF SetSlotsImporting

LEMMA SetSlotsMigratingIInv ==
  ASSUME IInv, TypeOK', SetSlotsMigrating
  PROVE  IInv'
<1>. USE DEF IInv
<1>0. /\ pc = "migrating" /\ live' = live /\ owner' = owner
      /\ batch.src \in Node /\ batch.dst \in NewMasters /\ batch.slots \in SUBSET Slot
      /\ batch.dst \in Node
  BY BatchNodes DEF SetSlotsMigrating, SetMigrating, kube, InBatch, PairOK
<1>1. \A n \in Node : \A s : Claims(n, s)' <=> Claims(n, s)
  BY <1>0 DEF Claims
<1>2. PICK D \in SUBSET batch.slots, ok \in BOOLEAN :
        /\ SetSlots(batch.slots, AcceptsMigrating(batch.src, batch.slots), D, ok)
        /\ SetMigrating(batch.src, D, batch.dst)
        /\ IF ok THEN pc' = "keys" /\ UNCHANGED memory ELSE Return
  BY DEF SetSlotsMigrating
<1>3. ASSUME NEW n \in Node, NEW s \in Slot
      PROVE  migrating'[n][s] =
               IF n = batch.src /\ s \in D THEN batch.dst ELSE migrating[n][s]
  <2>1. migrating \in [Node -> [Slot -> Maybe]]
    BY DEF TypeOK, RedisTypeOK
  <2>2. migrating' = With(migrating, batch.src, D, batch.dst)
    BY <1>2 DEF SetMigrating
  <2>. QED
    BY <1>0, <2>1, <2>2, WithValue
<1>4. ScopeOK'
  BY <1>0, <1>1, <1>3 DEF ScopeOK
<1>5. OneWriter'
  BY <1>0, <1>1, <1>3, NodeAssumption DEF OneWriter, Serves
<1>6. CASE Return
  BY <1>4, <1>5, <1>6, IdleOK DEF Return, Forget
<1>7. CASE ~Return
  <2>1. ok /\ pc' = "keys" /\ UNCHANGED memory
    BY <1>2, <1>7
  <2>2. D = batch.slots /\ \A s \in batch.slots : Claims(batch.src, s)
    BY <1>2, <2>1 DEF SetSlots, AcceptsMigrating
  <2>3. BatchOK'
    <3>1. ASSUME NEW s \in batch.slots
          PROVE  /\ migrating'[batch.src][s] = batch.dst
                 /\ \A n \in Node : Claims(n, s)' => n = batch.src
      BY <1>0, <1>1, <1>3, <2>2 DEF BatchOK, Sole
    <3>. QED
      BY <2>1, <3>1 DEF BatchOK, memory
  <2>4. PlanOK'
    BY <1>1, <2>1 DEF PlanOK, Sole, memory
  <2>5. PairOK'
    BY <1>0, <2>1 DEF PairOK, memory, InBatch
  <2>. QED
    BY <1>4, <1>5, <2>3, <2>4, <2>5
<1>. QED
  BY <1>6, <1>7

\* MIGRATE changes no table.
LEMMA MigrateIInv ==
  ASSUME IInv, TypeOK', MigrateKeys \/ MigrateKeysFails
  PROVE  IInv'
<1>. USE DEF IInv
<1>0. /\ pc = "keys" /\ pc' \in {"keys", "nodeDst"} /\ UNCHANGED memory /\ live' = live
      /\ owner' = owner /\ migrating' = migrating
  BY DEF MigrateKeys, MigrateKeysFails, Migrate, kube
<1>1. \A n \in Node : \A s : Claims(n, s)' <=> Claims(n, s)
  BY <1>0 DEF Claims
<1>2. ScopeOK' /\ OneWriter'
  BY <1>0, <1>1 DEF ScopeOK, OneWriter, Serves
<1>3. PlanOK' /\ PairOK' /\ BatchOK'
  BY <1>0, <1>1 DEF PlanOK, Sole, PairOK, BatchOK, InBatch, memory
<1>. QED
  BY <1>2, <1>3

(***************************************************************************)
(* SETSLOT NODE: the target claims slots nobody else serves; any other     *)
(* node gives up its claim.                                                *)
(***************************************************************************)
LEMMA SetSlotsNodeDstIInv ==
  ASSUME IInv, TypeOK', SetSlotsNodeDst
  PROVE  IInv'
<1>. USE DEF IInv
<1>0. /\ pc = "nodeDst" /\ pc' = "nodeSrc" /\ UNCHANGED memory /\ live' = live
      /\ batch.src \in Node /\ batch.dst \in Node /\ batch.dst \in NewMasters
      /\ batch.src # batch.dst
      /\ batch.slots \in SUBSET Slot /\ batch.slots \cap todo = {}
  BY BatchNodes DEF SetSlotsNodeDst, kube, InBatch, PairOK
<1>1. PICK D \in SUBSET batch.slots : SetNode(batch.dst, D, batch.dst)
  BY DEF SetSlotsNodeDst, TellNode
<1>2. \A p \in Node, s \in Slot :
        /\ Claims(p, s)' <=> (IF p = batch.dst /\ s \in D THEN TRUE ELSE Claims(p, s))
        /\ migrating'[p][s] \in {NoNode, migrating[p][s]}
        /\ ~(p = batch.dst /\ s \in D) => migrating'[p][s] = migrating[p][s]
  BY <1>0, <1>1, SetNodeClaims DEF TypeOK
<1>3. \A s \in batch.slots : /\ migrating[batch.src][s] = batch.dst
                             /\ \A n \in Node : Claims(n, s) => n = batch.src
  BY <1>0 DEF BatchOK
<1>4. ScopeOK'
  BY <1>0, <1>2 DEF ScopeOK
<1>5. OneWriter'
  <2>. SUFFICES ASSUME NEW s \in Slot, NEW m \in Node, NEW n \in Node,
                       Serves(m, s)', Serves(n, s)', m # n
                PROVE  FALSE
    BY DEF OneWriter
  <2>1. CASE s \in D
    <3>1. ASSUME NEW p \in Node, p # batch.dst PROVE ~Serves(p, s)'
      <4>1. CASE p = batch.src
        <5>1. migrating'[p][s] = batch.dst
          BY <1>0, <1>2, <1>3, <2>1, <4>1
        <5>. QED
          BY <1>0, <5>1, NodeAssumption DEF Serves
      <4>2. CASE p # batch.src
        BY <1>2, <1>3, <2>1, <3>1, <4>2 DEF Serves
      <4>. QED
        BY <4>1, <4>2
    <3>. QED
      BY <3>1
  <2>2. CASE s \notin D
    <3>1. Serves(m, s) /\ Serves(n, s)
      BY <1>2, <2>2 DEF Serves
    <3>. QED
      BY <3>1 DEF OneWriter
  <2>. QED
    BY <2>1, <2>2
<1>6. PlanOK'
  <2>1. \A p \in Node, s \in todo : Claims(p, s)' <=> Claims(p, s)
    BY <1>0, <1>2 DEF TypeOK
  <2>. QED
    BY <1>0, <2>1 DEF PlanOK, Sole, memory
<1>7. PairOK' /\ BatchOK'
  BY <1>0 DEF PairOK, BatchOK, InBatch, memory
<1>. QED
  BY <1>4, <1>5, <1>6, <1>7

LEMMA TellOtherShrinks ==
  ASSUME IInv, pc \in InBatch \ {"addslots"}, NEW x \in Node, x # batch.dst, TellNode(x)
  PROVE  /\ ClaimsShrink
         /\ \A p \in Node, s \in Slot : migrating'[p][s] \in {NoNode, migrating[p][s]}
<1>. USE DEF IInv
<1>0. batch.dst \in Node
  BY BatchNodes
<1>1. PICK D \in SUBSET batch.slots : SetNode(x, D, batch.dst)
  BY DEF TellNode
<1>2. \A p \in Node, s \in Slot :
        /\ Claims(p, s)' <=> (IF p = x /\ s \in D THEN batch.dst = x ELSE Claims(p, s))
        /\ migrating'[p][s] =
             IF p = x /\ s \in D /\ KeysIn(x, s) = {} THEN NoNode ELSE migrating[p][s]
  BY <1>0, <1>1, SetNodeClaims DEF TypeOK
<1>. QED
  BY <1>2 DEF ClaimsShrink

LEMMA SetSlotsNodeSrcIInv ==
  ASSUME IInv, TypeOK', SetSlotsNodeSrc
  PROVE  IInv'
<1>. USE DEF IInv
<1>0. /\ pc = "nodeSrc" /\ pc' = "tell" /\ todo' = todo /\ batch' = batch /\ live' = live
      /\ batch.src \in Node /\ batch.src # batch.dst /\ batch.dst \in NewMasters
      /\ batch.slots \cap todo = {}
      /\ bom' = [bom EXCEPT ![batch.src] = @ \ batch.slots]
      /\ tell' \subseteq Node \ {batch.src, batch.dst}
  BY BatchNodes DEF SetSlotsNodeSrc, kube, InBatch, PairOK
<1>1. /\ ClaimsShrink
      /\ \A p \in Node, s \in Slot : migrating'[p][s] \in {NoNode, migrating[p][s]}
  BY <1>0, TellOtherShrinks DEF SetSlotsNodeSrc, InBatch
<1>2. ScopeOK'
  BY <1>0, <1>1 DEF ScopeOK, ClaimsShrink
<1>3. OneWriter'
  BY <1>1, ShrinkOneWriter
<1>4. PlanOK'
  <2>1. \A n \in Node, s \in todo : s \in bom[n] => s \in bom'[n]
    BY <1>0 DEF TypeOK
  <2>. QED
    BY <1>0, <1>1, <2>1 DEF PlanOK, Sole, ClaimsShrink, TypeOK
<1>5. PairOK' /\ BatchOK'
  BY <1>0 DEF PairOK, BatchOK, InBatch
<1>. QED
  BY <1>2, <1>3, <1>4, <1>5

LEMMA TellOtherIInv ==
  ASSUME IInv, TypeOK', NEW x \in Node, TellOther(x)
  PROVE  IInv'
<1>. USE DEF IInv
<1>0. /\ pc = "tell" /\ pc' = "tell" /\ todo' = todo /\ batch' = batch /\ live' = live
      /\ bom' = bom /\ tell' \subseteq tell /\ x # batch.dst
  BY DEF TellOther, kube, PairOK
<1>1. /\ ClaimsShrink
      /\ \A p \in Node, s \in Slot : migrating'[p][s] \in {NoNode, migrating[p][s]}
  BY <1>0, TellOtherShrinks DEF TellOther, InBatch
<1>2. ScopeOK'
  BY <1>0, <1>1 DEF ScopeOK, ClaimsShrink
<1>3. OneWriter'
  BY <1>1, ShrinkOneWriter
<1>4. PlanOK'
  BY <1>0, <1>1, ShrinkPlanOK
<1>5. PairOK' /\ BatchOK'
  BY <1>0 DEF PairOK, BatchOK, InBatch
<1>. QED
  BY <1>2, <1>3, <1>4, <1>5

LEMMA AllToldIInv ==
  ASSUME IInv, TypeOK', AllTold
  PROVE  IInv'
<1>. USE DEF IInv
<1>0. ScopeOK' /\ OneWriter' /\ ClaimsShrink
  BY SameNodes DEF AllTold, kube
<1>1. PairOK' /\ PlanOK' /\ BatchOK'
  BY <1>0, NextBatchOK DEF AllTold, ClaimsShrink, InBatch, TypeOK
<1>. QED
  BY <1>0, <1>1

-----------------------------------------------------------------------------
(***************************************************************************)
(* Removal: only nodes that do not stay are forgotten and deleted.         *)
(***************************************************************************)
LEMMA ForgetDoomedIInv ==
  ASSUME IInv, TypeOK', ForgetDoomed
  PROVE  IInv'
<1>. USE DEF IInv
<1>0. pc = "forget" /\ live' = live
  BY DEF ForgetDoomed
<1>1. CASE Return /\ UNCHANGED redisVars
  BY <1>0, <1>1, SameNodes, IdleOK DEF Return, Forget
<1>2. CASE ~(Return /\ UNCHANGED redisVars)
  <2>1. pc' = "delete" /\ UNCHANGED memory
    BY <1>2 DEF ForgetDoomed
  <2>3. \A p \in Node, s \in Slot : /\ Claims(p, s)' <=> Claims(p, s)
                                    /\ migrating'[p][s] = migrating[p][s]
    BY ForgetDoomedClaims
  <2>4. ScopeOK'
    BY <1>0, <2>3 DEF ScopeOK
  <2>5. ClaimsShrink
    BY <2>3 DEF ClaimsShrink
  <2>6. OneWriter'
    BY <2>5, ShrinkOneWriter
  <2>7. PlanOK'
    BY <2>1, <2>5, ShrinkPlanOK DEF memory
  <2>. QED
    BY <2>1, <2>4, <2>6, <2>7 DEF PairOK, BatchOK, InBatch
<1>. QED
  BY <1>1, <1>2

LEMMA DeleteDoomedIInv ==
  ASSUME IInv, TypeOK', DeleteDoomed
  PROVE  IInv'
<1>. USE DEF IInv
<1>0. /\ pc = "delete" /\ pc' \in {"status", "forget"} /\ todo' = todo /\ bom' = bom
      /\ live \ {LastDoomed} \subseteq live'
  BY DEF DeleteDoomed
<1>1. LastDoomed \in Node \ NewMasters
  BY <1>0, LastIsDoomed DEF TypeOK
<1>2. ClaimsShrink
  BY DeleteClaims DEF ClaimsShrink
<1>3. \A p \in Node, s \in Slot :
        /\ migrating'[p][s] \in {migrating[p][s], NoNode}
        /\ Claims(p, s)' => Claims(p, s) /\ (p \in live => p \in live')
  BY DeleteClaims
<1>4. ScopeOK'
  BY <1>0, <1>1, <1>3 DEF ScopeOK
<1>5. OneWriter'
  BY <1>2, ShrinkOneWriter
<1>6. PlanOK'
  BY <1>0, <1>2, ShrinkPlanOK
<1>. QED
  BY <1>0, <1>4, <1>5, <1>6 DEF PairOK, BatchOK, InBatch

LEMMA HeartbeatIInv ==
  ASSUME IInv, TypeOK', NEW m \in Node, NEW n \in Node, Heartbeat(m, n)
  PROVE  IInv'
<1>. USE DEF IInv
<1>1. \A p \in Node, s \in Slot : Claims(p, s)' => Claims(p, s)
  BY HeartbeatClaims
<1>2. UNCHANGED <<migrating, pc, bom, todo, batch, tell, live>>
  BY HeartbeatClaims DEF memory, kube
<1>3. ClaimsShrink
  BY <1>1, <1>2 DEF ClaimsShrink
<1>4. ScopeOK' /\ OneWriter'
  BY <1>1, <1>2, <1>3, ShrinkOneWriter DEF ScopeOK
<1>5. PlanOK' /\ PairOK'
  BY <1>2, <1>3, ShrinkPlanOK DEF PairOK
<1>6. BatchOK'
  <2>1. pc \in InBatch => batch.slots \subseteq Slot
    BY BatchNodes
  <2>. QED
    BY <1>1, <1>2, <2>1 DEF BatchOK, Sole, InBatch
<1>. QED
  BY <1>4, <1>5, <1>6

LEMMA WriteIInv ==
  ASSUME IInv, TypeOK', NEW k \in Key, NEW n \in Node, Write(k, n)
  PROVE  IInv'
<1>. USE DEF IInv
<1>1. UNCHANGED <<owner, migrating, pc, bom, todo, batch, tell, live>>
  BY DEF Write, ClientWrite, memory, kube
<1>2. \A p \in Node : \A s : Claims(p, s)' <=> Claims(p, s)
  BY <1>1 DEF Claims
<1>3. ScopeOK' /\ OneWriter'
  BY <1>1, <1>2 DEF ScopeOK, OneWriter, Serves
<1>4. PlanOK' /\ PairOK' /\ BatchOK'
  BY <1>1, <1>2 DEF PlanOK, Sole, PairOK, BatchOK
<1>. QED
  BY <1>3, <1>4

LEMMA NextIInv == IInv /\ [Next]_vars => IInv'
<1>. SUFFICES ASSUME IInv, [Next]_vars PROVE IInv'
  OBVIOUS
<1>1. TypeOK'
  BY NextTypeOK DEF IInv
<1>2. CASE GetClusterInfos \/ UpdateStatus \/ Crash \/ Restart \/ EndDispatch
             \/ MigrateKeysDone
  <2>1. UNCHANGED <<redisVars, live>>
    BY <1>2 DEF GetClusterInfos, UpdateStatus, Crash, Restart, EndDispatch,
                MigrateKeysDone, kube
  <2>. QED
    BY <1>1, <1>2, <2>1, MemoryIInv
<1>3. CASE UNCHANGED vars
  <2>1. UNCHANGED <<redisVars, live, pc, bom, todo, batch, tell>>
    BY <1>3 DEF vars, memory, kube
  <2>2. \A p \in Node : \A s : Claims(p, s)' <=> Claims(p, s)
    BY <2>1 DEF Claims, redisVars
  <2>3. ScopeOK' /\ OneWriter'
    BY <2>1, SameNodes DEF IInv
  <2>. QED
    BY <1>1, <2>1, <2>2, <2>3 DEF IInv, PlanOK, Sole, PairOK, BatchOK, redisVars
<1>. QED
  BY <1>1, <1>2, <1>3, HealIInv, JoinIInv, PickBatchIInv, AddSlotsIInv,
     SetSlotsImportingIInv, SetSlotsMigratingIInv, MigrateIInv,
     SetSlotsNodeDstIInv, SetSlotsNodeSrcIInv, TellOtherIInv, AllToldIInv,
     ForgetDoomedIInv, DeleteDoomedIInv, HeartbeatIInv, WriteIInv
     DEF Next, Dispatch

LEMMA Invariance == Spec => []IInv
BY InitIInv, NextIInv, PTL DEF Spec

(***************************************************************************)
(* The nodes' tables, the operator's lists and the plan keep their types,  *)
(* a slot is never in the plan and in a batch at once, and no master that  *)
(* stays is ever due to be removed (DispatchSlotToNewMasters,              *)
(* scalingDown).                                                           *)
(***************************************************************************)
THEOREM TypeCorrect == Spec => []TypeOK
<1>1. IInv => TypeOK
  BY DEF IInv
<1>. QED
  BY <1>1, Invariance, PTL

(***************************************************************************)
(* Two nodes never both create keys of one slot, whatever commands are     *)
(* lost and wherever the operator crashes: a batch is planned from nodes   *)
(* that agree, its target takes the slots only after the source has        *)
(* accepted MIGRATING, and FORGET never erases such a mark.                *)
(***************************************************************************)
THEOREM NoTwoWriters == Spec => []OneWriter
<1>1. IInv => OneWriter
  BY DEF IInv
<1>. QED
  BY <1>1, Invariance, PTL

=============================================================================
