------------------------------ MODULE ScaleUp ------------------------------
(***************************************************************************)
(* Scaling up: Reconcile reads the cluster (GetClusterInfos), waits until  *)
(* the nodes agree (waitForClusterJoin) and, when a new master has no slot *)
(* yet, runs RebalancedCluster, which moves slots one at a time with       *)
(* moveSlot (pkg/controller/clustering/rebalance.go).  Any SETSLOT may be  *)
(* lost, MIGRATE may fail part way, and the operator may crash between any *)
(* two commands; a returned error and a crash both end in a new Reconcile. *)
(*                                                                         *)
(* Which slots RebalancedCluster chooses is left open here: a move takes   *)
(* any slot its source lists in the operator's memory.  What is kept of    *)
(* its two-pointer loop over the nodes sorted by balance is that no node   *)
(* is the source of one move and the target of another in the same run:    *)
(* givers is the part of the sorted list that srcIdx runs through.         *)
(***************************************************************************)
EXTENDS RedisNodes

CONSTANTS
  Crashing, \* TRUE when the operator may crash
  NoMove

ASSUME CrashingAssumption == Crashing \in BOOLEAN

VARIABLES
  pc,     \* the next step of Reconcile
  bom,    \* bom[n]: node.Slots in the operator's memory
  givers, \* the nodes this run of RebalancedCluster takes slots from
  move    \* the MovedNode and its target that moveSlot works on

memory == <<bom, givers, move>>

vars == <<redisVars, pc, memory>>

Move == [src : Node, dst : Node, slot : Slot]

ASSUME NoMoveAssumption == NoMove \notin Move

Steps == {"down", "read", "join", "plan", "importing", "migrating", "keys",
          "nodeDst", "nodeSrc"}

TypeOK ==
  /\ RedisTypeOK
  /\ pc \in Steps
  /\ bom \in [Node -> SUBSET Slot]
  /\ givers \in SUBSET Node
  /\ move \in Move \cup {NoMove}
  /\ pc \in {"importing", "migrating", "keys", "nodeDst", "nodeSrc"}
       => move # NoMove

NoSlots == [n \in Node |-> {}]

Init ==
  /\ \E table \in [Slot -> Node], W \in SUBSET Key : RestInit(table, W)
  /\ pc = "read"
  /\ bom = NoSlots
  /\ givers = {}
  /\ move = NoMove

-----------------------------------------------------------------------------
\* The operator forgets what it had read and planned.
Forget ==
  /\ bom' = NoSlots
  /\ givers' = {}
  /\ move' = NoMove

\* Reconcile ends, with or without an error; the next one starts from a read.
Return == pc' = "read" /\ Forget

\* GetClusterInfos: each node's line about itself.
GetClusterInfos ==
  /\ pc = "read"
  /\ pc' = "join"
  /\ bom' = [n \in Node |-> OwnSlots(n)]
  /\ UNCHANGED <<redisVars, givers, move>>

\* waitForClusterJoin reads again; the plan is still made from the first read.
\* syncCluster rebalances when fewer masters have slots than are wanted.
WaitForClusterJoin ==
  /\ pc = "join"
  /\ IF Consistent /\ \E n \in Node : bom[n] = {}
       THEN pc' = "plan" /\ givers' \in SUBSET Node /\ UNCHANGED <<bom, move>>
       ELSE Return
  /\ UNCHANGED redisVars

\* RebalancedCluster picks the next entry of the reshard table.
PickMove(m, n, s) ==
  /\ pc = "plan"
  /\ currentEpoch < MaxEpoch
  /\ m \in givers
  /\ n \notin givers
  /\ s \in bom[m]
  /\ move' = [src |-> m, dst |-> n, slot |-> s]
  /\ pc' = "importing"
  /\ UNCHANGED <<redisVars, bom, givers>>

EndRebalance ==
  /\ pc = "plan"
  /\ Return
  /\ UNCHANGED redisVars

\* Mutant: every node but the source is told, as with SETSLOT NODE.
SetSlotImportingAll ==
  /\ pc = "importing"
  /\ importing' = [n \in Node |-> [s \in Slot |->
       IF n # move.src /\ s = move.slot THEN move.dst ELSE importing[n][s]]]
  /\ pc' = "migrating"
  /\ UNCHANGED <<owner, migrating, keys, epoch, currentEpoch, written, memory>>

\* moveSlot, 1: SETSLOT IMPORTING on the target, naming the target itself.
SetSlotImporting ==
  /\ pc = "importing"
  /\ \E D \in SUBSET {move.slot}, ok \in BOOLEAN :
       /\ SetSlots({move.slot}, AcceptsImporting(move.dst, {move.slot}), D, ok)
       /\ SetImporting(move.dst, D, move.dst)
       /\ IF ok THEN pc' = "migrating" /\ UNCHANGED memory ELSE Return

\* Mutant: the error of SETSLOT MIGRATING is only logged.
SetSlotMigratingUnchecked ==
  /\ pc = "migrating"
  /\ \E D \in SUBSET {move.slot}, ok \in BOOLEAN :
       /\ SetSlots({move.slot}, AcceptsMigrating(move.src, {move.slot}), D, ok)
       /\ SetMigrating(move.src, D, move.src)
  /\ pc' = "keys"
  /\ UNCHANGED memory

\* moveSlot, 2: SETSLOT MIGRATING on the source, naming the source itself.
SetSlotMigrating ==
  /\ pc = "migrating"
  /\ \E D \in SUBSET {move.slot}, ok \in BOOLEAN :
       /\ SetSlots({move.slot}, AcceptsMigrating(move.src, {move.slot}), D, ok)
       /\ SetMigrating(move.src, D, move.src)
       /\ IF ok THEN pc' = "keys" /\ UNCHANGED memory ELSE Return

\* moveSlot, 3: MigrateKeysInSlot, one batch of GETKEYSINSLOT and MIGRATE.
MigrateKeysInSlot ==
  /\ pc = "keys"
  /\ \E K \in SUBSET KeysIn(move.src, move.slot) :
       /\ K # {}
       /\ Migrate(move.src, move.dst, K, K)
  /\ UNCHANGED <<pc, memory>>

\* Mutant: one batch of keys is taken for all of them.
MigrateKeysInSlotOnce ==
  /\ pc = "keys"
  /\ pc' = "nodeDst"
  /\ UNCHANGED <<redisVars, memory>>

\* Mutant: the source is told first, the target never.
MigrateKeysInSlotSrcFirst ==
  /\ pc = "keys"
  /\ KeysIn(move.src, move.slot) = {}
  /\ pc' = "nodeSrc"
  /\ UNCHANGED <<redisVars, memory>>

\* GETKEYSINSLOT returned no key.
MigrateKeysInSlotDone ==
  /\ pc = "keys"
  /\ KeysIn(move.src, move.slot) = {}
  /\ pc' = "nodeDst"
  /\ UNCHANGED <<redisVars, memory>>

\* Mutant: the error of MIGRATE is ignored and the slot handed over.
MigrateKeysInSlotFailsIgnored ==
  /\ pc = "keys"
  /\ Faulty
  /\ \E C \in SUBSET KeysIn(move.src, move.slot) : \E R \in SUBSET C :
       Migrate(move.src, move.dst, C, R)
  /\ pc' = "nodeDst"
  /\ UNCHANGED memory

\* Mutant: the move is forgotten although moveSlot goes on.
MigrateKeysInSlotFailsForgets ==
  /\ pc = "keys"
  /\ Faulty
  /\ \E C \in SUBSET KeysIn(move.src, move.slot) : \E R \in SUBSET C :
       Migrate(move.src, move.dst, C, R)
  /\ pc' = "nodeDst"
  /\ Forget

\* An error of GETKEYSINSLOT or MIGRATE is returned by moveSlot.
MigrateKeysInSlotFails ==
  /\ pc = "keys"
  /\ Faulty
  /\ \E C \in SUBSET KeysIn(move.src, move.slot) : \E R \in SUBSET C :
       Migrate(move.src, move.dst, C, R)
  /\ Return

\* moveSlot, 4: SETSLOT NODE on the target; an error is only logged.
SetSlotNodeDst ==
  /\ pc = "nodeDst"
  /\ \E D \in SUBSET {move.slot}, ok \in BOOLEAN :
       /\ SetSlots({move.slot}, AcceptsNode(move.dst, {move.slot}, move.dst), D, ok)
       /\ SetNode(move.dst, D, move.dst)
  /\ pc' = "nodeSrc"
  /\ UNCHANGED memory

\* moveSlot, 5: SETSLOT NODE on the source; an error is only logged.  The
\* slot leaves the source's list in memory; the target's list is not touched.
SetSlotNodeSrc ==
  /\ pc = "nodeSrc"
  /\ \E D \in SUBSET {move.slot}, ok \in BOOLEAN :
       /\ SetSlots({move.slot}, AcceptsNode(move.src, {move.slot}, move.dst), D, ok)
       /\ SetNode(move.src, D, move.dst)
  /\ bom' = [bom EXCEPT ![move.src] = @ \ {move.slot}]
  /\ pc' = "plan"
  /\ move' = NoMove
  /\ UNCHANGED givers

\* The operator process dies (or loses its leader lease) between two commands.
Crash ==
  /\ Crashing
  /\ pc # "down"
  /\ pc' = "down"
  /\ Forget
  /\ UNCHANGED redisVars

Restart ==
  /\ pc = "down"
  /\ pc' = "read"
  /\ UNCHANGED <<redisVars, memory>>

MoveSlot ==
  \/ SetSlotImporting
  \/ SetSlotMigrating
  \/ MigrateKeysInSlot
  \/ MigrateKeysInSlotDone
  \/ MigrateKeysInSlotFails
  \/ SetSlotNodeDst
  \/ SetSlotNodeSrc

Next ==
  \/ GetClusterInfos
  \/ WaitForClusterJoin
  \/ \E m, n \in Node, s \in Slot : PickMove(m, n, s)
  \/ EndRebalance
  \/ MoveSlot
  \/ Crash
  \/ Restart
  \/ Environment /\ UNCHANGED <<pc, memory>>

Spec == Init /\ [][Next]_vars

(***************************************************************************)
(* Requests are requeued until Reconcile succeeds, every redis command     *)
(* returns or times out, and heartbeats between live nodes get through.    *)
(***************************************************************************)
Fairness ==
  /\ WF_vars(Restart)
  /\ WF_vars(GetClusterInfos)
  /\ WF_vars(WaitForClusterJoin)
  /\ WF_vars(EndRebalance)
  /\ WF_vars(MoveSlot)
  /\ \A m, n \in Node : WF_vars(Gossip(m, n) /\ UNCHANGED <<pc, memory>>)

FairSpec == Spec /\ Fairness

-----------------------------------------------------------------------------
(***************************************************************************)
(* An acknowledged key is on some node, however the move of its slot was   *)
(* interrupted: moveSlot hands a slot over only once GETKEYSINSLOT on the  *)
(* source is empty, and returns when MIGRATE fails.                        *)
(***************************************************************************)
NoKeyLost == \A k \in written : \E n \in Node : k \in keys[n]

(***************************************************************************)
(* No split brain: two nodes never both create keys of one slot, although  *)
(* two may claim it while SETSLOT NODE has reached only the target.        *)
(***************************************************************************)
OneWriter ==
  \A s \in Slot, m, n \in Node : Serves(m, s) /\ Serves(n, s) => m = n

\* n's claim on s prevails over every other claim on s.
Prevails(n, s) ==
  \A m \in Node \ {n} : Claims(m, s) => epoch[m] < epoch[n]

Authority(n, s) == Claims(n, s) /\ Prevails(n, s)

(***************************************************************************)
(* Every slot has an authority: the target takes a slot before the source  *)
(* is told to give it up.                                                  *)
(***************************************************************************)
SlotCovered == \A s \in Slot : \E n \in Node : Authority(n, s)

(***************************************************************************)
(* While the operator does not crash, the nodes agree again and again, so  *)
(* that waitForClusterJoin lets Reconcile go on: moveSlot leaves no mark   *)
(* behind that would keep a node from listening to a claim.                *)
(***************************************************************************)
NodesAgreeAgain == [](pc # "down") => []<>Consistent

(***************************************************************************)
(* Scaling up hands slots over one at a time and atomically, and keeps     *)
(* every stored key, as SlotOwnership says: SETSLOT NODE on the target is  *)
(* the moment of the handover, all other steps change nothing there.       *)
(***************************************************************************)
Stored == UNION {keys[n] : n \in Node}

AuthorityOf == [s \in Slot |->
  IF \E n \in Node : Authority(n, s) THEN CHOOSE n \in Node : Authority(n, s)
                                     ELSE NoNode]

Ownership == INSTANCE SlotOwnership WITH auth <- AuthorityOf, stored <- Stored

HandoverIsAtomic == Ownership!Spec

(***************************************************************************)
(* The strengthening that makes NoKeyLost and OneWriter inductive.         *)
(***************************************************************************)
EpochOK ==
  /\ \A n \in Node : epoch[n] <= currentEpoch

\* A claim that does not prevail is void: no keys, and no new ones accepted.
VoidClaim(n, s) == KeysIn(n, s) = {} /\ migrating[n][s] # NoNode

ClaimsOK ==
  \A s \in Slot, m, n \in Node :
    (m # n /\ Claims(m, s) /\ Claims(n, s)) =>
      \/ epoch[m] < epoch[n] /\ VoidClaim(m, s)
      \/ epoch[n] < epoch[m] /\ VoidClaim(n, s)

\* During a run only sources can hold a void claim, and no source's epoch
\* moves, so a void claim stays void.
GiversOK ==
  pc \notin {"down", "read", "join"} =>
    \A n \in Node \ givers, s \in Slot : Claims(n, s) => Prevails(n, s)

\* While a plan made from bom is carried out, the claims it rests on prevail.
PlanOK ==
  pc \notin {"down", "read", "join"} =>
    \A n \in Node, s \in Slot :
      (s \in bom[n] /\ Claims(n, s)) =>
        \/ Prevails(n, s)
        \/ pc = "nodeSrc" /\ n = move.src /\ s = move.slot

MoveOK ==
  /\ pc \in {"importing", "migrating", "keys", "nodeDst", "nodeSrc"} =>
       /\ move.src \in givers
       /\ move.dst \notin givers
       /\ move.slot \in bom[move.src]
  /\ pc \in {"migrating", "keys", "nodeDst"} =>
       importing[move.dst][move.slot] # NoNode
  /\ pc \in {"keys", "nodeDst"} =>
       /\ Claims(move.src, move.slot)
       /\ migrating[move.src][move.slot] # NoNode
  /\ pc = "nodeDst" => KeysIn(move.src, move.slot) = {}

IInv ==
  /\ TypeOK
  /\ EpochOK
  /\ ClaimsOK
  /\ GiversOK
  /\ PlanOK
  /\ MoveOK
  /\ NoKeyLost

=============================================================================
