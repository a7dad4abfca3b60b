----------------------------- MODULE ScaleDown -----------------------------
(***************************************************************************)
(* Scaling down: when more masters hold slots than Spec.MasterSize asks    *)
(* for, syncCluster dispatches the slots of the masters to be removed to   *)
(* the ones that stay (DispatchSlotToNewMasters,                           *)
(* pkg/controller/clustering/migration.go), forgets the empty nodes and    *)
(* deletes their StatefulSets with their volumes (scalingDown,             *)
(* pkg/controller/distributedrediscluster/sync_handler.go).  Slots move in *)
(* batches, one per pair of source and target, in the random order of a Go *)
(* map; a batch without a source adds slots that nobody owns.              *)
(*                                                                         *)
(* One redis node stands for one StatefulSet (no replicas).  Which target  *)
(* feedMigInfo gives a slot is left open.                                  *)
(***************************************************************************)
EXTENDS RedisNodes, FiniteSets

CONSTANTS
  MasterSize, \* Spec.MasterSize
  StsIndex,   \* the index of each node's StatefulSet
  Crashing,   \* TRUE when the operator may crash
  NoBatch

ASSUME CrashingAssumption == Crashing \in BOOLEAN
ASSUME NodesAssumption == IsFiniteSet(Node)
ASSUME MasterSizeAssumption == MasterSize \in Nat \ {0}
ASSUME StsIndexAssumption ==
  /\ StsIndex \in [Node -> Nat]
  /\ \A m, n \in Node : StsIndex[m] = StsIndex[n] => m = n

\* DispatchMasters: the masters of the StatefulSets that stay.
NewMasters == {n \in Node : StsIndex[n] < MasterSize}

VARIABLES
  pc,          \* the next step of Reconcile
  bom,         \* bom[n]: node.Slots in the operator's memory
  todo,        \* the slots of the plan that are not dispatched yet
  batch,       \* the entry of migrationSlotInfo being worked on
  tell,        \* the other masters not told of the batch yet
  doomed,      \* the StatefulSets scalingDown has still to remove
  live,        \* the nodes whose StatefulSet exists
  known,       \* known[n]: the nodes in n's CLUSTER NODES
  statusNodes  \* Status.Nodes of the custom resource

memory == <<bom, todo, batch, tell, doomed>>

kube == <<live, known, statusNodes>>

vars == <<redisVars, pc, memory, kube>>

Batch == [src : Maybe, dst : Node, slots : SUBSET Slot]

ASSUME NoBatchAssumption == NoBatch \notin Batch

InBatch == {"addslots", "importing", "migrating", "keys", "nodeDst", "nodeSrc", "tell"}

TypeOK ==
  /\ RedisTypeOK
  /\ pc \in InBatch \cup
       {"down", "read", "heal", "join", "meet", "dispatch", "forget", "delete", "status"}
  /\ bom \in [Node -> SUBSET Slot]
  /\ todo \in SUBSET Slot
  /\ batch \in Batch \cup {NoBatch}
  /\ pc \in InBatch => batch # NoBatch /\ batch.slots \cap todo = {}
  /\ tell \in SUBSET Node
  /\ doomed \in SUBSET (Node \ NewMasters)
  /\ pc \in {"forget", "delete"} => doomed # {}
  /\ live \in SUBSET Node
  /\ known \in [Node -> SUBSET Node]
  /\ statusNodes \in SUBSET Node

NoSlots == [n \in Node |-> {}]

\* Every master has slots; a slot AllocSlots failed to assign has no owner.
Init ==
  /\ \E table \in [Slot -> Maybe] :
       /\ \A n \in Node : \E s \in Slot : table[s] = n
       /\ \E W \in SUBSET {k \in Key : table[SlotOf[k]] # NoNode} :
            RestInit(table, W)
  /\ pc = "read"
  /\ bom = NoSlots
  /\ todo = {}
  /\ batch = NoBatch
  /\ tell = {}
  /\ doomed = {}
  /\ live = Node
  /\ known = [n \in Node |-> Node]
  /\ statusNodes = Node

-----------------------------------------------------------------------------
(***************************************************************************)
(* Reconcile up to syncCluster.                                            *)
(***************************************************************************)
Forget ==
  /\ bom' = NoSlots
  /\ todo' = {}
  /\ batch' = NoBatch
  /\ tell' = {}
  /\ doomed' = {}

\* Reconcile ends, with or without an error; the next one starts from a read.
Return == pc' = "read" /\ Forget

GetClusterInfos ==
  /\ pc = "read"
  /\ pc' = "heal"
  /\ bom' = [n \in Node |-> OwnSlots(n)]
  /\ UNCHANGED <<redisVars, todo, batch, tell, doomed, kube>>

\* ForgetNode: CLUSTER FORGET of each node of G on the nodes M; an error is
\* ignored.  A node that forgets another unassigns its slots and its marks.
ForgetNode(M, G) ==
  LET drop(table) == [m \in Node |-> [s \in Slot |->
                       IF m \in M /\ table[m][s] \in G THEN NoNode ELSE table[m][s]]]
  IN  /\ known' = [m \in Node |-> IF m \in M THEN known[m] \ G ELSE known[m]]
      /\ owner' = drop(owner)
      /\ migrating' = drop(migrating)
      /\ importing' = drop(importing)
      /\ UNCHANGED <<keys, epoch, currentEpoch, written>>

\* FixFailedNodes: a failed node that some node still knows is forgotten if
\* the custom resource's status does not list it; Reconcile is then requeued.
Ghosts == (UNION {known[m] : m \in live}) \ (live \cup statusNodes)

Heal ==
  /\ pc = "heal"
  /\ \/ /\ Ghosts = {}
        /\ pc' = "join"
        /\ UNCHANGED <<redisVars, memory, known>>
     \/ /\ Ghosts # {}
        /\ \E M \in SUBSET live : (Faulty \/ M = live) /\ ForgetNode(M, Ghosts)
        /\ Return
  /\ UNCHANGED <<live, statusNodes>>

\* ComputeStatus: every node knows the polled masters and no other, and its
\* table agrees with what each of them says of itself.
Agree ==
  \A m \in live :
    /\ known[m] = live
    /\ \A n \in Node, s \in Slot : (owner[m][s] = n) <=> Claims(n, s)

\* updateClusterIfNeed: Status.Nodes becomes the live nodes; an error is ignored.
UpdateClusterIfNeed ==
  statusNodes' = live \/ (Faulty /\ UNCHANGED statusNodes)

\* buildSlotsByNode: the share of a master, rounded up.
NbSlotByNode == (Cardinality(Slot) + MasterSize - 1) \div MasterSize

\* syncCluster plans to move the slots of masters that do not stay, those
\* nobody owns, and what exceeds a staying master's share (or part of it: an
\* excess slot may be given back to its owner).
SyncCluster ==
  LET cur == {n \in Node : bom[n] # {}}
      given == UNION {bom[n] : n \in Node \ NewMasters}
  IN  /\ UpdateClusterIfNeed
      /\ UNCHANGED <<live, known>>
      /\ IF Cardinality(cur) > MasterSize
           THEN /\ pc' = "dispatch"
                /\ todo' \in {T \in SUBSET Slot :
                     /\ \A s \in Slot \ T : \E n \in NewMasters : s \in bom[n]
                     /\ \A n \in NewMasters :
                          \/ bom[n] \cap T \subseteq given
                          \/ Cardinality(bom[n] \ (T \ given)) >= NbSlotByNode}
                /\ doomed' = {n \in Node \ NewMasters : StsIndex[n] < Cardinality(cur)}
                /\ UNCHANGED <<bom, batch, tell>>
           ELSE Return

\* waitForClusterJoin: a first look, and CLUSTER MEET if the nodes disagree.
WaitForClusterJoin ==
  /\ pc = "join"
  /\ \/ /\ Agree
        /\ SyncCluster
     \/ /\ ~Agree
        /\ known' = [n \in Node |-> IF n \in live THEN known[n] \cup live ELSE {}]
        /\ pc' = "meet"
        /\ UNCHANGED <<memory, live, statusNodes>>
  /\ UNCHANGED redisVars

\* waitForClusterJoin: the second look.
WaitForClusterMeet ==
  /\ pc = "meet"
  /\ IF Agree THEN SyncCluster ELSE Return /\ UNCHANGED kube
  /\ UNCHANGED redisVars

-----------------------------------------------------------------------------
(***************************************************************************)
(* DispatchSlotToNewMasters.                                               *)
(***************************************************************************)

\* Mutant: a dispatched slot stays in the plan.
PickBatchKeeps(m, n, S) ==
  /\ pc = "dispatch"
  /\ currentEpoch < MaxEpoch
  /\ S # {} /\ S \subseteq todo
  /\ n \in NewMasters
  /\ m # n
  /\ IF m = NoNode THEN \A x \in Node : S \cap bom[x] = {} ELSE S \subseteq bom[m]
  /\ batch' = [src |-> m, dst |-> n, slots |-> S]
  /\ pc' = IF m = NoNode THEN "addslots" ELSE "importing"
  /\ UNCHANGED <<redisVars, bom, todo, tell, doomed, kube>>

\* The next entry of migrationSlotInfo; m = NoNode when nobody owns S.
PickBatch(m, n, S) ==
  /\ pc = "dispatch"
  /\ currentEpoch < MaxEpoch
  /\ S # {} /\ S \subseteq todo
  /\ n \in NewMasters
  /\ m # n
  /\ IF m = NoNode THEN \A x \in Node : S \cap bom[x] = {} ELSE S \subseteq bom[m]
  /\ batch' = [src |-> m, dst |-> n, slots |-> S]
  /\ todo' = todo \ S
  /\ pc' = IF m = NoNode THEN "addslots" ELSE "importing"
  /\ UNCHANGED <<redisVars, bom, tell, doomed, kube>>

EndDispatch ==
  /\ pc = "dispatch"
  /\ todo = {}
  /\ IF doomed = {} THEN Return ELSE pc' = "forget" /\ UNCHANGED memory
  /\ UNCHANGED <<redisVars, kube>>

\* The batch is done: its slots are added to the target's list in memory.
NextBatch ==
  /\ bom' = [bom EXCEPT ![batch.dst] = @ \cup batch.slots]
  /\ batch' = NoBatch
  /\ pc' = "dispatch"
  /\ UNCHANGED <<todo, tell, doomed>>

\* Mutant: one slot of the batch is added and the others taken for added.
AddSlotsOne ==
  /\ pc = "addslots"
  /\ owner' = With(owner, batch.dst, {CHOOSE s \in batch.slots : TRUE}, batch.dst)
  /\ NextBatch
  /\ UNCHANGED <<migrating, importing, keys, epoch, currentEpoch, written, kube>>

\* ADDSLOTS is refused as a whole when the target knows an owner of a slot.
AddSlots ==
  /\ pc = "addslots"
  /\ \E done, ok \in BOOLEAN :
       /\ done => \A s \in batch.slots : owner[batch.dst][s] = NoNode
       /\ ok => done
       /\ ~Faulty => /\ done <=> \A s \in batch.slots : owner[batch.dst][s] = NoNode
                     /\ ok <=> done
       /\ IF done
            THEN /\ owner' = With(owner, batch.dst, batch.slots, batch.dst)
                 /\ importing' = With(importing, batch.dst, batch.slots, NoNode)
                 /\ UNCHANGED <<migrating, keys, epoch, currentEpoch, written>>
            ELSE UNCHANGED redisVars
       /\ IF ok THEN NextBatch ELSE Return
  /\ UNCHANGED kube

SetSlotsImporting ==
  /\ pc = "importing"
  /\ \E D \in SUBSET batch.slots, ok \in BOOLEAN :
       /\ SetSlots(batch.slots, AcceptsImporting(batch.dst, batch.slots), D, ok)
       /\ SetImporting(batch.dst, D, batch.src)
       /\ IF ok THEN pc' = "migrating" /\ UNCHANGED memory ELSE Return
  /\ UNCHANGED kube

\* Mutant: the error is only logged.
SetSlotsMigratingUnchecked ==
  /\ pc = "migrating"
  /\ \E D \in SUBSET batch.slots, ok \in BOOLEAN :
       /\ SetSlots(batch.slots, AcceptsMigrating(batch.src, batch.slots), D, ok)
       /\ SetMigrating(batch.src, D, batch.dst)
  /\ pc' = "keys"
  /\ UNCHANGED <<memory, kube>>

\* Mutant: the source is told to redirect to itself, as moveSlot does.
SetSlotsMigratingSelf ==
  /\ pc = "migrating"
  /\ \E D \in SUBSET batch.slots, ok \in BOOLEAN :
       /\ SetSlots(batch.slots, AcceptsMigrating(batch.src, batch.slots), D, ok)
       /\ SetMigrating(batch.src, D, batch.src)
       /\ IF ok THEN pc' = "keys" /\ UNCHANGED memory ELSE Return
  /\ UNCHANGED kube

SetSlotsMigrating ==
  /\ pc = "migrating"
  /\ \E D \in SUBSET batch.slots, ok \in BOOLEAN :
       /\ SetSlots(batch.slots, AcceptsMigrating(batch.src, batch.slots), D, ok)
       /\ SetMigrating(batch.src, D, batch.dst)
       /\ IF ok THEN pc' = "keys" /\ UNCHANGED memory ELSE Return
  /\ UNCHANGED kube

KeysToMove == UNION {KeysIn(batch.src, s) : s \in batch.slots}

\* MigrateKeys, one GETKEYSINSLOT and MIGRATE.
MigrateKeys ==
  /\ pc = "keys"
  /\ \E K \in SUBSET KeysToMove :
       /\ K # {}
       /\ Migrate(batch.src, batch.dst, K, K)
  /\ UNCHANGED <<pc, memory, kube>>

\* Mutant: one batch of keys is taken for all of them.
MigrateKeysOnce ==
  /\ pc = "keys"
  /\ pc' = "nodeDst"
  /\ UNCHANGED <<redisVars, memory, kube>>

\* Mutant: the source is told first, the target never.
MigrateKeysSrcFirst ==
  /\ pc = "keys"
  /\ KeysToMove = {}
  /\ pc' = "nodeSrc"
  /\ UNCHANGED <<redisVars, memory, kube>>

MigrateKeysDone ==
  /\ pc = "keys"
  /\ KeysToMove = {}
  /\ pc' = "nodeDst"
  /\ UNCHANGED <<redisVars, memory, kube>>

\* An error of GETKEYSINSLOT or MIGRATE is only logged.
MigrateKeysFails ==
  /\ pc = "keys"
  /\ Faulty
  /\ \E C \in SUBSET KeysToMove : \E R \in SUBSET C :
       Migrate(batch.src, batch.dst, C, R)
  /\ pc' = "nodeDst"
  /\ UNCHANGED <<memory, kube>>

\* SETSLOT NODE on x; an error is only logged.
TellNode(x) ==
  \E D \in SUBSET batch.slots, ok \in BOOLEAN :
    /\ SetSlots(batch.slots, AcceptsNode(x, batch.slots, batch.dst), D, ok)
    /\ SetNode(x, D, batch.dst)

SetSlotsNodeDst ==
  /\ pc = "nodeDst"
  /\ TellNode(batch.dst)
  /\ pc' = "nodeSrc"
  /\ UNCHANGED <<memory, kube>>

\* Mutant: the source's list in memory is not updated.
SetSlotsNodeSrcStale ==
  /\ pc = "nodeSrc"
  /\ TellNode(batch.src)
  /\ tell' = {n \in Node \ {batch.src, batch.dst} : bom[n] # {}}
  /\ pc' = "tell"
  /\ UNCHANGED <<bom, todo, batch, doomed, kube>>

\* Then on the source, and its list in memory shrinks; the other masters
\* with slots are next.
SetSlotsNodeSrc ==
  /\ pc = "nodeSrc"
  /\ TellNode(batch.src)
  /\ bom' = [bom EXCEPT ![batch.src] = @ \ batch.slots]
  /\ tell' = {n \in Node \ {batch.src, batch.dst} : bom[n] # {}}
  /\ pc' = "tell"
  /\ UNCHANGED <<todo, batch, doomed, kube>>

TellOther(x) ==
  /\ pc = "tell"
  /\ x \in tell
  /\ TellNode(x)
  /\ tell' = tell \ {x}
  /\ UNCHANGED <<pc, bom, todo, batch, doomed, kube>>

AllTold ==
  /\ pc = "tell"
  /\ tell = {}
  /\ NextBatch
  /\ UNCHANGED <<redisVars, kube>>

-----------------------------------------------------------------------------
(***************************************************************************)
(* scalingDown, from the highest StatefulSet index downwards.  The node is *)
(* empty when the operator's memory says so.                               *)
(***************************************************************************)
LastDoomed == CHOOSE n \in doomed : \A m \in doomed : StsIndex[m] <= StsIndex[n]

ForgetDoomed ==
  /\ pc = "forget"
  /\ IF LastDoomed \in live /\ bom[LastDoomed] = {}
       THEN /\ \E M \in SUBSET (live \ doomed) :
                 /\ Faulty \/ M = live \ doomed
                 /\ ForgetNode(M, {LastDoomed})
            /\ pc' = "delete"
            /\ UNCHANGED memory
       ELSE Return /\ UNCHANGED <<redisVars, known>>
  /\ UNCHANGED <<live, statusNodes>>

\* The StatefulSet and its volumes go; an error is only logged.
DeleteDoomed ==
  LET n == LastDoomed
      none == [s \in Slot |-> NoNode]
  IN  /\ pc = "delete"
      /\ \/ /\ live' = live \ {n}
            /\ known' = [known EXCEPT ![n] = {}]
            /\ keys' = [keys EXCEPT ![n] = {}]
            /\ owner' = [owner EXCEPT ![n] = none]
            /\ migrating' = [migrating EXCEPT ![n] = none]
            /\ importing' = [importing EXCEPT ![n] = none]
            /\ UNCHANGED <<epoch, currentEpoch, written>>
         \/ Faulty /\ UNCHANGED <<redisVars, live, known>>
      /\ doomed' = doomed \ {n}
      /\ pc' = IF doomed = {n} THEN "status" ELSE "forget"
      /\ UNCHANGED <<bom, todo, batch, tell, statusNodes>>

\* Reconcile reads the cluster again and updates the status.
UpdateStatus ==
  /\ pc = "status"
  /\ UpdateClusterIfNeed
  /\ Return
  /\ UNCHANGED <<redisVars, live, known>>

-----------------------------------------------------------------------------
Crash ==
  /\ Crashing
  /\ pc # "down"
  /\ pc' = "down"
  /\ Forget
  /\ UNCHANGED <<redisVars, kube>>

Restart ==
  /\ pc = "down"
  /\ pc' = "read"
  /\ UNCHANGED <<redisVars, memory, kube>>

\* A heartbeat is only listened to when its sender is known.
Heartbeat(m, n) ==
  /\ m \in live
  /\ n \in live \cap known[m]
  /\ Gossip(m, n)
  /\ UNCHANGED <<pc, memory, kube>>

Write(k, n) == ClientWrite(k, n) /\ UNCHANGED <<pc, memory, kube>>

Dispatch ==
  \/ AddSlots
  \/ SetSlotsImporting
  \/ SetSlotsMigrating
  \/ MigrateKeys
  \/ MigrateKeysDone
  \/ MigrateKeysFails
  \/ SetSlotsNodeDst
  \/ SetSlotsNodeSrc
  \/ \E x \in Node : TellOther(x)
  \/ AllTold

Next ==
  \/ GetClusterInfos
  \/ Heal
  \/ WaitForClusterJoin
  \/ WaitForClusterMeet
  \/ \E m \in Maybe, n \in Node, S \in SUBSET Slot : PickBatch(m, n, S)
  \/ EndDispatch
  \/ Dispatch
  \/ ForgetDoomed
  \/ DeleteDoomed
  \/ UpdateStatus
  \/ Crash
  \/ Restart
  \/ \E m, n \in Node : Heartbeat(m, n)
  \/ \E k \in Key, n \in Node : Write(k, n)

Spec == Init /\ [][Next]_vars

(***************************************************************************)
(* Requests are requeued until Reconcile succeeds, every command and wait  *)
(* of the operator ends, and heartbeats between live nodes get through.    *)
(***************************************************************************)
Fairness ==
  /\ WF_vars(Restart)
  /\ WF_vars(GetClusterInfos)
  /\ WF_vars(Heal)
  /\ WF_vars(WaitForClusterJoin)
  /\ WF_vars(WaitForClusterMeet)
  /\ WF_vars(\E m \in Maybe, n \in Node, S \in SUBSET Slot : PickBatch(m, n, S))
  /\ WF_vars(EndDispatch)
  /\ WF_vars(Dispatch)
  /\ WF_vars(ForgetDoomed)
  /\ WF_vars(DeleteDoomed)
  /\ WF_vars(UpdateStatus)
  /\ \A m, n \in Node : WF_vars(Heartbeat(m, n))

FairSpec == Spec /\ Fairness

-----------------------------------------------------------------------------
(***************************************************************************)
(* An acknowledged key is on some node.  It fails when MIGRATE does: the   *)
(* error is only logged, and the node goes with its volume.                *)
(***************************************************************************)
NoKeyLost == \A k \in written : \E n \in Node : k \in keys[n]

(***************************************************************************)
(* No split brain: two nodes never both create keys of one slot.           *)
(***************************************************************************)
OneWriter ==
  \A s \in Slot, m, n \in Node : Serves(m, s) /\ Serves(n, s) => m = n

\* A node that redirects the creation of a key sends the client to one that
\* accepts it.
AskServed ==
  \A s \in Slot, n \in Node :
    (Claims(n, s) /\ migrating[n][s] # NoNode) => ServesAsking(migrating[n][s], s)

\* A client that follows MOVED and ASK finds every acknowledged key.
KeyFound ==
  \A k \in written : \E n \in Node :
    /\ k \in keys[n]
    /\ \/ Claims(n, SlotOf[k])
       \/ /\ importing[n][SlotOf[k]] # NoNode
          /\ \E m \in Node : Claims(m, SlotOf[k]) /\ migrating[m][SlotOf[k]] = n

(***************************************************************************)
(* While the operator does not crash, an ASK leads to a node that accepts  *)
(* the key: IMPORTING precedes MIGRATING, and both name the other side.    *)
(***************************************************************************)
AskIsServed == [](pc # "down") => []AskServed

(***************************************************************************)
(* While the operator does not crash, a client that follows MOVED and ASK  *)
(* finds every acknowledged key at every moment of the dispatch.           *)
(***************************************************************************)
KeysStayFound == [](pc # "down") => []KeyFound

(***************************************************************************)
(* A StatefulSet is deleted only when its node owns no slot and has no     *)
(* key, although scalingDown looks at its own lists and not at the node.   *)
(***************************************************************************)
RemovedIsEmpty ==
  [][\A n \in live \ live' : keys[n] = {} /\ OwnSlots(n) = {}]_vars

(***************************************************************************)
(* When nodes are about to be removed, every slot, also one that had no    *)
(* owner, is claimed by a master that stays.                               *)
(***************************************************************************)
DispatchComplete ==
  pc = "forget" => \A s \in Slot : \E n \in NewMasters : Claims(n, s)

(***************************************************************************)
(* While the operator does not crash, the StatefulSets beyond MasterSize   *)
(* are removed in the end, and the cluster goes on with the others.        *)
(***************************************************************************)
ScalesDown == [](pc # "down") => <>(live = NewMasters)

\* n's claim on s prevails over every other claim on s.
Prevails(n, s) ==
  \A m \in Node \ {n} : Claims(m, s) => epoch[m] < epoch[n]

Authority(n, s) == Claims(n, s) /\ Prevails(n, s)

Stored == UNION {keys[n] : n \in Node}

AuthorityOf ==
  [s \in Slot |-> IF \E n \in Node : Authority(n, s)
                    THEN CHOOSE n \in Node : Authority(n, s) ELSE NoNode]

Ownership == INSTANCE SlotOwnership WITH auth <- AuthorityOf, stored <- Stored

(***************************************************************************)
(* A batch is handed over at once by SETSLOT NODE on its target, no slot   *)
(* loses its authority and no stored key is dropped, also when a master is *)
(* the source of one batch and the target of another.                      *)
(***************************************************************************)
HandoverIsAtomic == Ownership!Spec

=============================================================================
