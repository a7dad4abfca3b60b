--------------------------- MODULE ClusterForming ---------------------------
(***************************************************************************)
(* Reconcile from the moment all pods are ready: the nodes are read,       *)
(* healed and joined, the status is built, and syncCluster chooses masters *)
(* and attaches slaves (pkg/controller/distributedrediscluster, heal and   *)
(* clustering).  Pods die and come back, with their old Redis node when    *)
(* they have a volume and with a new one otherwise; slaves take over;      *)
(* nodes are out of reach for a while; users change the number of masters. *)
(*                                                                         *)
(* The slots are taken in one piece per StatefulSet (its shard): how they  *)
(* are shared out and moved is the matter of SlotAllocation, ScaleUp and   *)
(* ScaleDown.  Nodes that know each other agree on roles and slots.        *)
(***************************************************************************)
EXTENDS ClusterView

CONSTANTS
  ID,          \* the IDs of Redis nodes, numbers: they are compared
  MaxSize,     \* bound: StatefulSets are numbered below it
  Replicas,    \* Spec.ClusterReplicas
  Vm,          \* the virtual machine of each pod
  MaxMishaps,  \* bound on pods that die, nodes out of reach and failing calls
  MaxEdits     \* bound on changes of Spec.MasterSize

ASSUME IDAssumption == ID \subseteq Nat /\ NoId \notin ID
ASSUME MaxSizeAssumption == MaxSize \in Nat \ {0}
ASSUME ReplicasAssumption == Replicas \in Nat

Index == 0 .. MaxSize - 1

Pod == Index \X (0 .. Replicas)

ASSUME VmAssumption == DOMAIN Vm = Pod

\* The node that runs first in pod p.
FirstId(p) == p[1] * (Replicas + 1) + p[2] + 1

ASSUME FirstIdAssumption == \A p \in Pod : FirstId(p) \in ID

VARIABLES
  size,    \* Spec.MasterSize
  volume,  \* Spec.Storage is a PersistentVolumeClaim
  sts,     \* the StatefulSets that exist
  at,      \* at[p]: the Redis node that runs in pod p
  disk,    \* disk[p]: the one whose nodes.conf is on the volume of p
  master,  \* master[x]: the master x replicates
  owner,   \* owner[i]: the node with the slots of shard i
  copy,    \* copy[x]: the shards whose data x has
  know,    \* know[x]: the nodes in the nodes.conf of x, x included
  shake,   \* the handshakes under way, <<from, to>>
  slow,    \* nodes out of reach, for the operator and for other nodes
  status,  \* the IDs in Status.Nodes
  op,      \* the Reconcile under way
  past,    \* history: what has happened that the operator cannot cope with
  used     \* how much of each bound is used up

kube == <<size, volume, sts, at, disk>>

redis == <<master, owner, copy, know, shake>>

vars == <<kube, redis, slow, status, op, past, used>>

Idle == [pc |-> "idle"]

Running == {at[p] : p \in Pod} \ {NoId}

PodOf(x) == CHOOSE p \in Pod : at[p] = x

Reached == Running \ slow

SlotsOf(x) == {i \in Index : owner[i] = x}

Budget(kind, bound) ==
  /\ used[kind] < bound
  /\ used' = [used EXCEPT ![kind] = @ + 1]

-----------------------------------------------------------------------------
(* CLUSTER NODES.                                                          *)

\* A line of CLUSTER NODES, when the nodes in up answer and those in lost have no
\* address any more.
NodeLine(x, up, lost) ==
  [id |-> x, master |-> master[x], slots |-> SlotsOf(x), failed |-> x \notin up,
   noaddr |-> x \in lost]

\* The answers of the nodes in pool.
Infos(pool, lost) ==
  LET up == Reached
  IN  [x \in pool |->
         [node |-> NodeLine(x, up, lost),
          friends |-> {NodeLine(y, up, lost) : y \in know[x] \ {x}},
          handshakes |-> {y \in ID : <<x, y>> \in shake},
          sts |-> PodOf(x)[1], vm |-> Vm[PodOf(x)]]]

\* What is still looked at after Heal: not the friends.
Kept(infos) == [x \in DOMAIN infos |->
                  [node |-> infos[x].node, sts |-> infos[x].sts, vm |-> infos[x].vm]]

\* A second look: nodes of the pool that do not answer make it partial.
Consistent == op.pool \subseteq Reached /\ ComputeStatus(Infos(op.pool, {}))

Goto(pc) == op' = [op EXCEPT !.pc = pc]

\* Every way out of Reconcile queues the cluster again.
Return == op' = Idle

\* The status that the pass has in memory after buildClusterStatus is stored again, with
\* another phase; it may be refused again when it was refused before.
SetAgain == status' \in {status, DOMAIN op.infos}

\* An error of syncCluster is returned with the phase Failed.
ReturnFailed == Return /\ SetAgain

-----------------------------------------------------------------------------
(* ensureCluster and waitPodReady, in short: EnsureCluster has the details.*)

\* Mutant: off by one.
EnsureOneMore ==
  /\ op.pc = "idle"
  /\ ~(0 .. size \subseteq sts)
  /\ sts' = sts \cup 0 .. size
  /\ UNCHANGED <<size, volume, at, disk, redis, slow, status, op, past, used>>

EnsureStatefulsets ==
  /\ op.pc = "idle"
  /\ ~(0 .. size - 1 \subseteq sts)
  /\ sts' = sts \cup 0 .. size - 1
  /\ UNCHANGED <<size, volume, at, disk, redis, slow, status, op, past, used>>

PodsReady == 0 .. size - 1 \subseteq sts /\ \A p \in Pod : p[1] < size => at[p] # NoId

\* newRedisAdmin leaves out the nodes it cannot connect to.
NewAdminConnections == Reached

\* (A node that is lost after newRedisAdmin makes it fail, and Reconcile starts anew.)
\* sorted: see ClusterView; temporary IDs may be the greatest.  A node that is gone for
\* good has no address once another one answers under its own.
GetClusterInfos ==
  /\ op.pc = "idle"
  /\ PodsReady
  /\ \E sorted \in {Reached, {x \in Reached : \A y \in ID : <<x, y>> \notin shake}},
        lost \in {{}, ID \ (Running \cup {disk[p] : p \in Pod})} :
       LET infos == Infos(NewAdminConnections, lost)
       IN  op' = [pc |-> "heal", pool |-> NewAdminConnections, infos |-> Kept(infos),
                  ghosts |-> listGhostNodes(infos, sorted, status),
                  untrusted |-> untrustedToForget(infos),
                  new |-> <<>>, plan |-> {}, branch |-> "", done |-> {}]
  /\ UNCHANGED <<kube, redis, slow, status, past, used>>

-----------------------------------------------------------------------------
(* Heal.                                                                   *)

\* CLUSTER MEET to x from each node of C; nodes that know each other already
\* drop the handshake at once.
Meet(C, x) == {<<c, x>> : c \in {c \in C : x \notin know[c] \/ c \notin know[x]}}

\* The slaves of g that answer are reset to empty masters and attached anew
\* (DetachSlave); then g is forgotten on the nodes M.  Errors are ignored.
\* A node does not forget itself.
ForgetNode(g, pool, M) ==
  LET slaves == {x \in pool \cap Reached : master[x] = g}
  IN  /\ master' = [x \in ID |-> IF x \in slaves THEN NoId ELSE master[x]]
      /\ copy' = [x \in ID |-> IF x \in slaves THEN {} ELSE copy[x]]
      /\ know' = [x \in ID |-> CASE x \in slaves -> {x}
                                 [] x \in M \ (slaves \cup {g}) -> know[x] \ {g}
                                 [] OTHER -> know[x]]
      /\ shake' = {s \in shake : s[1] \notin slaves}
                    \cup UNION {{<<c, x>> : c \in (pool \cap Reached) \ {x}} : x \in slaves}
      /\ owner' = [i \in Index |-> IF owner[i] = g /\ g \notin Running /\ M # {} THEN NoId
                                   ELSE owner[i]]

\* One ghost after the other.
FixFailedNodes ==
  /\ op.pc = "heal"
  /\ \E g \in op.ghosts :
       /\ ForgetNode(g, op.pool, op.pool \cap Reached)
       /\ IF op.ghosts = {g} THEN Return ELSE op' = [op EXCEPT !.ghosts = @ \ {g}]
  /\ UNCHANGED <<kube, slow, status, past, used>>

\* DeletePodByName is not reached: a node from CLUSTER NODES has no pod name.
FixUntrustedNodes ==
  /\ op.pc = "heal"
  /\ op.ghosts = {}
  /\ IF op.untrusted # {}
     THEN /\ shake' = {s \in shake : s[2] \notin op.untrusted}
          /\ Return
     ELSE Goto("join") /\ UNCHANGED shake
  /\ UNCHANGED <<kube, master, owner, copy, know, slow, status, past, used>>

-----------------------------------------------------------------------------
(* Joining the nodes, and the status.                                      *)

\* Any node may be the first of a map.  The connection to a node that does not
\* answer is dropped (handleError), and the others go on without it.
waitForClusterJoin ==
  /\ op.pc = "join"
  /\ \/ Consistent /\ Goto("status") /\ UNCHANGED shake
     \/ /\ ~Consistent
        /\ \E first \in DOMAIN op.infos :
             shake' = shake \cup Meet(op.pool \cap Reached, first)
        /\ op' = [op EXCEPT !.pc = "joining", !.pool = @ \cap Reached]
  /\ UNCHANGED <<kube, master, owner, copy, know, slow, status, past, used>>

\* One second later.
Joined ==
  /\ op.pc = "joining"
  /\ IF Consistent THEN Goto("status") ELSE Return
  /\ UNCHANGED <<kube, redis, slow, status, past, used>>

\* updateClusterIfNeed, when the pass remembers the nodes old.  Nodes that did not
\* answer are left out; phase and reason may differ although the nodes do not.  An error of
\* UpdateCRStatus is dropped, and after one the next write may be refused as well.
SetNodes(old, nodes) ==
  \/ /\ status' \in IF compareStatus(old, nodes) THEN {nodes} ELSE {status, nodes}
     /\ UNCHANGED used
  \/ /\ compareStatus(status, nodes) /\ UNCHANGED status
     /\ IF old = status THEN Budget("mishaps", MaxMishaps) ELSE UNCHANGED used

\* buildClusterStatus, from the infos read before the join.  The pass goes on with this
\* status, stored or not.  The copy it started with is taken to be up to date.
buildClusterStatus ==
  /\ op.pc = "status"
  /\ SetNodes(status, DOMAIN op.infos)
  /\ Goto(IF needClusterOperation(op.infos, size, Replicas) THEN "sync" ELSE "final")
  /\ UNCHANGED <<kube, redis, slow, past>>

-----------------------------------------------------------------------------
(* syncCluster.                                                            *)

Branch(infos) ==
  CASE currentMasters(infos) = {}                   -> "create"
    [] size > Cardinality(currentMasters(infos))    -> "up"
    [] MinReplicationFactor(infos) < Replicas       -> "slave"
    [] Cardinality(currentMasters(infos)) > size    -> "down"
    [] OTHER                                        -> "none"

syncCluster ==
  /\ op.pc = "sync"
  /\ LET infos == op.infos
         branch == Branch(infos)
     IN  IF DispatchFails(infos, size) THEN ReturnFailed
         ELSE /\ \E new \in DispatchMasters(infos, size) :
                   IF branch \in {"create", "up", "slave"}
                   THEN op' = IF PlaceSlavesPanics(infos, new) THEN [pc |-> "panic"]
                              ELSE [op EXCEPT !.pc = "attach", !.new = new, !.branch = branch,
                                              !.plan = PlaceSlaves(infos, new)]
                   ELSE op' = [op EXCEPT !.pc = IF branch = "down" THEN "down" ELSE "final",
                                         !.new = new, !.branch = branch]
              /\ UNCHANGED status
  /\ past' = past \cup (IF op'.pc = "panic" THEN {"panic"} ELSE {})
  /\ UNCHANGED <<kube, redis, slow, used>>

\* CLUSTER REPLICATE: the master must be known and a master, the new slave
\* must not have slots.
Replicates(s, m) ==
  /\ s \in Reached
  /\ m \in know[s] /\ master[m] = NoId /\ SlotsOf(s) = {}

\* Some slaves have been attached and others have not, to masters without slots.
HalfAttached ==
  /\ op.pc = "attach" /\ op.branch # "slave"
  /\ TRUE \in op.done /\ (op.plan # {} \/ FALSE \in op.done)

\* The plan is worked through in any order and to its end; an error is returned
\* after that.
AttachingSlavesToMaster ==
  /\ op.pc = "attach"
  /\ \/ \E a \in op.plan :
          /\ IF Replicates(a[1], a[2])
             THEN /\ master' = [master EXCEPT ![a[1]] = a[2]]
                  /\ copy' = [copy EXCEPT ![a[1]] = copy[a[2]]]
             ELSE UNCHANGED <<master, copy>>
          /\ op' = [op EXCEPT !.plan = @ \ {a}, !.done = @ \cup {Replicates(a[1], a[2])}]
          /\ UNCHANGED <<status, past>>
     \/ /\ op.plan = {}
        /\ IF FALSE \in op.done
           THEN ReturnFailed
           ELSE Goto(IF op.branch = "slave" THEN "final" ELSE "slots") /\ UNCHANGED status
        /\ past' = past \cup (IF HalfAttached THEN {"half"} ELSE {})
        /\ UNCHANGED <<master, copy>>
  /\ UNCHANGED <<kube, owner, know, shake, slow, used>>

\* The masters that syncCluster has still to give slots to, of the ones that
\* had none when it started.
Empty == {i \in DOMAIN op.new : op.infos[op.new[i]].node.slots = {} /\ owner[i] = NoId}

\* AllocSlots and RebalancedCluster; a replica takes no slots.
AllocSlots ==
  /\ op.pc = "slots"
  /\ IF Empty = {}
     THEN Goto("final") /\ UNCHANGED <<owner, copy, status>>
     ELSE \E i \in Empty :
            LET m == op.new[i]
            IN  /\ \A j \in Empty : i <= j
                /\ IF m \in Reached /\ master[m] = NoId
                   THEN /\ owner' = [owner EXCEPT ![i] = m]
                        /\ copy' = [x \in ID |-> IF x = m \/ master[x] = m THEN {i} ELSE copy[x]]
                        /\ UNCHANGED <<op, status>>
                   ELSE ReturnFailed /\ UNCHANGED <<owner, copy>>
  /\ UNCHANGED <<kube, master, know, shake, slow, past, used>>

\* DispatchSlotToNewMasters: the shards of the masters that go are shared out.  An error
\* and the beginning of scalingDown are both noted in the status.
DispatchSlots ==
  /\ op.pc = "down"
  /\ IF currentMasters(op.infos) \subseteq Reached
     THEN /\ owner' = [i \in Index |-> IF i < size THEN owner[i] ELSE NoId]
          /\ copy' = [x \in ID |-> copy[x] \cap 0 .. size - 1]
          /\ Goto("remove")
     ELSE Return /\ UNCHANGED <<owner, copy>>
  /\ SetAgain
  /\ UNCHANGED <<kube, master, know, shake, slow, past, used>>

\* The StatefulSets with numbers from MasterSize up to the number of masters.
Surplus == {i \in sts : i >= size /\ i < Cardinality(currentMasters(op.infos))}

\* scalingDown: the nodes of the last one are forgotten and it is deleted with
\* its volumes.
scalingDown ==
  /\ op.pc = "remove"
  /\ IF Surplus = {}
     THEN Goto("final") /\ UNCHANGED <<kube, redis, slow>>
     ELSE \E i \in Surplus :
          LET gone == sortRedisNodeByStatefulSet(op.infos, i)
              stay == {x \in op.pool \cap Reached : op.infos[x].sts < size}
              lost(p) == p[1] = i
              stopped == {at[p] : p \in {p \in Pod : lost(p)}}
          IN  /\ \A j \in Surplus : i >= j
              /\ know' = [x \in ID |-> IF x \in stay THEN know[x] \ gone ELSE know[x]]
              /\ sts' = sts \ {i}
              /\ at' = [p \in Pod |-> IF lost(p) THEN NoId ELSE at[p]]
              /\ disk' = [p \in Pod |-> IF lost(p) THEN NoId ELSE disk[p]]
              /\ shake' = {s \in shake : s[1] \notin stopped}
              /\ slow' = slow \ stopped
              /\ UNCHANGED <<size, volume, master, owner, copy, op>>
  /\ UNCHANGED <<status, past, used>>

\* The status at the end; that it may be partial goes unnoticed, because the
\* infos of the first read are looked at.
Finish ==
  /\ op.pc = "final"
  /\ SetNodes(DOMAIN op.infos, op.pool \cap Reached)
  /\ Return
  /\ UNCHANGED <<kube, redis, slow, past>>

\* After a panic the operator is started again.
Restart ==
  /\ op.pc = "panic"
  /\ Return
  /\ UNCHANGED <<kube, redis, slow, status, past, used>>

\* A call fails or the operator crashes.  Masters without slots are not counted, so
\* that nothing makes the next pass remove the StatefulSets that are left over.
Abort ==
  /\ op.pc \notin {"idle", "panic"}
  /\ Budget("mishaps", MaxMishaps)
  /\ IF op.pc \in {"attach", "slots", "down", "remove"}
     THEN ReturnFailed
     ELSE Return /\ UNCHANGED status
  /\ past' = past \cup (IF HalfAttached THEN {"half"} ELSE {})
                  \cup (IF op.pc = "remove" /\ Surplus # {} THEN {"leftover"} ELSE {})
  /\ UNCHANGED <<kube, redis, slow>>

\* One node does not get its FORGET.
ForgetIsLost ==
  /\ op.pc = "heal" /\ op.ghosts # {}
  /\ Budget("lost", MaxMishaps)
  /\ \E g \in op.ghosts : \E x \in op.pool \cap Reached :
       ForgetNode(g, op.pool, (op.pool \cap Reached) \ {x})
  /\ Return
  /\ UNCHANGED <<kube, slow, status, past>>

-----------------------------------------------------------------------------
(* Redis: handshakes and takeovers.                                        *)

\* The handshakes with b: the ends, and all whom they know, learn of each other;
\* nodes that do not answer are not passed on.  If b is gone they time out.
Handshake(b) ==
  LET from == {s[1] : s \in {s \in shake : s[2] = b}} \ slow
      ends == from \cup {b}
      all == {x \in (UNION {know[y] : y \in ends}) \cap Reached : know[x] \cap ends # {}}
  IN  /\ from # {} /\ b \notin slow
      /\ shake' = shake \ (from \X {b})
      /\ know' = [x \in ID |-> IF b \in Running /\ x \in all THEN know[x] \cup all ELSE know[x]]
      /\ UNCHANGED <<kube, master, owner, copy, slow, status, op, past, used>>

\* What x hears of from nodes that know it.
Heard(x) ==
  (UNION {know[y] : y \in {y \in know[x] \cap Reached : x \in know[y]}}) \cap Reached

\* A node that was not there hears of new ones later.
Gossip ==
  /\ \E x \in Reached : ~(Heard(x) \subseteq know[x])
  /\ know' = [x \in ID |-> IF x \in Reached
                          THEN know[x] \cup Heard(x) \cup {y \in Reached : x \in Heard(y)}
                          ELSE know[x]]
  /\ UNCHANGED <<kube, master, owner, copy, shake, slow, status, op, past, used>>

SlottedMasters == {owner[i] : i \in Index} \ {NoId}

Quorum(X) == 2 * Cardinality(SlottedMasters \cap X) > Cardinality(SlottedMasters)

\* The slaves that may take over for the master of shard i: the masters must
\* know them to vote.
Candidates(i) ==
  IF owner[i] = NoId \/ owner[i] \in Reached \/ ~Quorum(Reached) THEN {}
  ELSE {s \in Reached : /\ master[s] = owner[i]
                        /\ \A m \in SlottedMasters \cap Reached : s \in know[m] /\ m \in know[s]}

Failover(i) ==
  /\ \E s \in Candidates(i) :
       /\ master' = [x \in ID |-> CASE x = s -> NoId
                                    [] x # s /\ (master[x] = owner[i] \/ x = owner[i]) -> s
                                    [] OTHER -> master[x]]
       /\ owner' = [j \in Index |-> IF owner[j] = owner[i] THEN s ELSE owner[j]]
  /\ UNCHANGED <<kube, copy, know, shake, slow, status, op, past, used>>

-----------------------------------------------------------------------------
(* Kubernetes, the network and users.                                      *)

PodDies(p) ==
  /\ at[p] # NoId
  /\ Budget("mishaps", MaxMishaps)
  /\ at' = [at EXCEPT ![p] = NoId]
  /\ shake' = {s \in shake : s[1] # at[p]}
  /\ slow' = slow \ {at[p]}
  /\ past' = past \cup (IF SlottedMasters = {} \/ Quorum(Reached \ {at[p]}) THEN {} ELSE {"quorum"})
  /\ UNCHANGED <<size, volume, sts, disk, master, owner, copy, know, status, op>>

\* Of the IDs only the order matters: a node that replaces another comes before or
\* after all others.
NewIds(p) ==
  LET free == {x \in ID : \A y \in ID : x \notin know[y]}
  IN  IF FirstId(p) \in free THEN {FirstId(p)}
      ELSE {x \in free : (\A y \in free : x <= y) \/ (\A y \in free : x >= y)}

\* A pod is ready only after a grace time, and the slaves take over before.
PodStarts(p) ==
  /\ at[p] = NoId /\ p[1] \in sts
  /\ \A i \in Index : Candidates(i) = {}
  /\ \/ /\ disk[p] # NoId
        /\ at' = [at EXCEPT ![p] = disk[p]]
        /\ UNCHANGED <<disk, know>>
     \/ /\ disk[p] = NoId
        /\ \E x \in NewIds(p) :
             /\ at' = [at EXCEPT ![p] = x]
             /\ disk' = [disk EXCEPT ![p] = IF volume THEN x ELSE NoId]
             /\ know' = [know EXCEPT ![x] = {x}]
  /\ shake' = {s \in shake : s[2] # at'[p]}
  /\ UNCHANGED <<size, volume, sts, master, owner, copy, slow, status, op, past, used>>

Unreachable(x) ==
  /\ x \in Reached
  /\ Budget("mishaps", MaxMishaps)
  /\ slow' = slow \cup {x}
  /\ UNCHANGED <<kube, redis, status, op, past>>

Recover(x) ==
  /\ x \in slow
  /\ slow' = slow \ {x}
  /\ UNCHANGED <<kube, redis, status, op, past, used>>

\* Between two passes; EnsureCluster has the races with the spec.
Resize ==
  /\ op.pc = "idle"
  /\ Budget("edits", MaxEdits)
  /\ size' \in {size - 1, size + 1} \cap 1 .. MaxSize
  /\ UNCHANGED <<volume, sts, at, disk, redis, slow, status, op, past>>

-----------------------------------------------------------------------------
\* All pods of a new cluster are running, each for itself, or the cluster has
\* been formed, with as many masters or not as are wanted now.
Init ==
  /\ size \in 1 .. MaxSize
  /\ volume \in BOOLEAN
  /\ sts \in {0 .. n - 1 : n \in 1 .. MaxSize}
  /\ at = [p \in Pod |-> IF p[1] \in sts THEN FirstId(p) ELSE NoId]
  /\ disk = IF volume THEN at ELSE [p \in Pod |-> NoId]
  /\ \/ /\ master = [x \in ID |-> NoId]
        /\ owner = [i \in Index |-> NoId]
        /\ copy = [x \in ID |-> {}]
        /\ know = [x \in ID |-> {x} \cap Running]
        /\ status = {}
        /\ sts = 0 .. size - 1
     \/ /\ master = [x \in ID |-> IF x \in Running /\ PodOf(x)[2] > 0
                                 THEN FirstId(<<PodOf(x)[1], 0>>) ELSE NoId]
        /\ owner = [i \in Index |-> IF i \in sts THEN FirstId(<<i, 0>>) ELSE NoId]
        /\ copy = [x \in ID |-> IF x \in Running THEN {PodOf(x)[1]} ELSE {}]
        /\ know = [x \in ID |-> IF x \in Running THEN Running ELSE {}]
        /\ status = Running
  /\ shake = {}
  /\ slow = {}
  /\ op = Idle
  /\ past = {}
  /\ used \in [mishaps : 0 .. MaxMishaps, lost : 0 .. MaxMishaps, edits : 0 .. MaxEdits]

Reconcile ==
  \/ EnsureStatefulsets \/ GetClusterInfos \/ FixFailedNodes \/ FixUntrustedNodes
  \/ waitForClusterJoin \/ Joined \/ buildClusterStatus \/ syncCluster
  \/ AttachingSlavesToMaster \/ AllocSlots \/ DispatchSlots \/ scalingDown \/ Finish
  \/ Restart

\* What Redis and Kubernetes do by themselves.
Progress ==
  \/ \E b \in ID : Handshake(b)
  \/ Gossip
  \/ \E i \in Index : Failover(i)
  \/ \E p \in Pod : PodStarts(p)
  \/ \E x \in slow : Recover(x)

Next ==
  \/ Reconcile \/ Progress \/ Abort \/ ForgetIsLost \/ Resize
  \/ \E p \in Pod : PodDies(p)
  \/ \E x \in ID : Unreachable(x)

Spec == Init /\ [][Next]_vars

\* The choice of masters that agrees with the slaves there are already.
RightChoice ==
  syncCluster /\ (op'.pc = "attach" => \A a \in op'.plan : Replicates(a[1], a[2]))

\* The cluster is queued again after every pass; the order of Go's maps is random,
\* so that the masters are not chosen wrongly for ever; Kubernetes starts pods,
\* Redis answers and elects.
Fairness ==
  /\ WF_vars(Reconcile)
  /\ SF_vars(RightChoice)
  /\ WF_vars(Progress)

FairSpec == Spec /\ Fairness

-----------------------------------------------------------------------------
(* Properties.                                                             *)

Maybe == ID \cup {NoId}

\* The type of the state; no pod shares its node and no handshake starts from
\* a node that does not run.
TypeOK ==
  /\ size \in 1 .. MaxSize /\ volume \in BOOLEAN /\ sts \subseteq Index
  /\ at \in [Pod -> Maybe] /\ disk \in [Pod -> Maybe]
  /\ \A p, q \in Pod : at[p] = at[q] /\ at[p] # NoId => p = q
  /\ master \in [ID -> Maybe] /\ owner \in [Index -> Maybe]
  /\ copy \in [ID -> SUBSET Index] /\ know \in [ID -> SUBSET ID]
  /\ \A s \in shake : s[1] \in Running /\ s[2] \in ID
  /\ slow \subseteq Running /\ status \subseteq ID
  /\ past \subseteq {"quorum", "panic", "half", "leftover"}

\* FixFailedNodes works through a list made at the read, while pods die and come back.
\* A node that Status.Nodes names is not forgotten, and its slaves are not emptied, as
\* long as a pod runs it or has it on its volume: the data of a shard whose slave has not
\* taken over yet depends on this.
NamedAreSpared ==
  [][\A p \in Pod : \A g \in {at[p], disk[p]} \cap status :
       op.pc = "heal" =>
         \A x \in ID : /\ g \in know[x] => g \in know'[x] \/ know'[x] = {x}
                       /\ master[x] = g => copy[x] \subseteq copy'[x]]_vars

\* A slave replicates a node of its own StatefulSet, so that scaling down
\* removes a master together with its slaves.
OwnMaster ==
  \A x \in Running : master[x] \in Running => PodOf(x)[1] = PodOf(master[x])[1]

\* All nodes know each other and nobody else, every StatefulSet has a master
\* with slots that the rest of its nodes replicate, and the status has it all.
Settled ==
  /\ \A x \in Running : know[x] = Running
  /\ sts = 0 .. size - 1
  /\ \A i \in 0 .. size - 1 :
       /\ owner[i] \in {at[p] : p \in {p \in Pod : p[1] = i}}
       /\ \A p \in Pod : p[1] = i /\ at[p] # owner[i] => at[p] # NoId /\ master[at[p]] = owner[i]
  /\ status = Running

\* A node that no longer runs is listed last, in order of the IDs, by one that has
\* room for one more friend.
GhostIsLast ==
  \E x \in Running :
    /\ HasSpareCapacity(Cardinality(know[x] \ {x}))
    /\ Max(know[x]) \notin Running

\* One without slots, for which no slave takes over, is still in Status.Nodes, which
\* are not refreshed before all nodes agree.
GhostIsNamed ==
  \E x \in Running : \E g \in know[x] \ Running :
    g \in status /\ master[g] = NoId /\ SlotsOf(g) = {}

\* A slave has been forgotten by all others, as a ghost that ran: ComputeStatus compares
\* the masters only, so that nobody introduces it again.
SlaveIsUnknown ==
  \E x \in Running :
    master[x] # NoId /\ \A y \in Running \ {x} : x \notin know[y]

\* A cluster is formed, healed and scaled in the end.
Settles ==
  [](past = {}) /\ []<>~(GhostIsLast \/ GhostIsNamed \/ SlaveIsUnknown) => <>[]Settled

=============================================================================
