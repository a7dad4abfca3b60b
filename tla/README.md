# TLA+ models of the redis-cluster-operator

The repository collects Kubernetes manifests and notes (directories `00-*` to
`26-*`) and holds one program of its own: the Go operator under
`src/23-redis-cluster-operator-0.2.3/` (written `OP/` below), which creates,
scales, heals, backs up and restores Redis clusters. This directory models the
operator. Everything else in the repository is configuration, text or
third-party demonstration code and keeps no state to model.

## 1. Inventory

| part | state | operations | how it interacts |
|---|---|---|---|
| cluster Reconcile loop (`OP/pkg/controller/distributedrediscluster`) | custom resource status, in-memory view of the cluster | `Reconcile`, `ensureCluster`, `waitForClusterJoin`, `syncCluster`, `scalingDown`, `resetClusterPassword` | driven by a work queue (an error puts the request back); calls everything below; one worker per cluster at a time |
| clustering (`OP/pkg/controller/clustering`) | `node.Slots` lists in memory | `AllocSlots`, `RebalancedCluster`, `DispatchSlotToNewMasters`, master and slave placement | sends admin commands to the Redis nodes, one after the other |
| admin client (`OP/pkg/redisutil`) | connections, decoded `CLUSTER NODES` | SETSLOT, ADDSLOTS, GETKEYSINSLOT + MIGRATE loops, FORGET, MEET, CONFIG | the only channel to the Redis nodes; every command can be lost, or its reply |
| Redis nodes (external) | slot table, importing/migrating marks, keys, configuration epoch, known nodes | the commands above, heartbeats, client queries | exchange heartbeats; serve clients while slots move |
| healing (`OP/pkg/controller/heal`) | none | `FixFailedNodes`, `FixUntrustedNodes`, `FixTerminatingPods` (`FixClusterSplit` is never called) | runs before every sync; relies on `Status.Nodes` |
| resource ensurer and checker (`OP/pkg/controller/manager`) | StatefulSets, services, config maps, budgets | create / update if different | Kubernetes API |
| status (`OP/.../status.go`) | `Status` of the custom resource | `buildClusterStatus`, `updateClusterIfNeed` | read back by healing |
| backup controller (`OP/pkg/controller/redisclusterbackup`) | phase, label and version of each backup, its Job | `Reconcile`, `create`, `handleBackupJob`, `isBackupRunning` | two workers by default; reads a cache, writes to the API server; woken by Jobs that end |
| restore | restore phase in the status | init containers, `Reconcile` 274-310 | rewrites StatefulSets in three phases |
| password reset | secret, passwords of the nodes | `resetClusterPassword` | changes nodes one by one |
| API defaults, validation, resource builders, Kubernetes wrappers, object store helpers | none | pure functions, thin wrappers | |

What is hard here: the operator is a sequence of remote commands with no
transaction around it. It can die between any two, any of them can be lost or
executed without the reply arriving, most errors are logged and ignored, the
nodes gossip and the clients write meanwhile, plans are made from a view read
earlier, and the next Reconcile starts from what the nodes say, with no record
of what was under way. `PROJECT.json` lists these hazards with their lines.

What makes the parts correct: no acknowledged key is lost; no slot has two
writers; no slot loses its owner; clients are redirected to nodes that serve
them; a node is deleted only when it is empty; slots are shared out completely
and fairly; the operator gets past `waitForClusterJoin` and finishes what it was
asked to do; a backup ends exactly once, with the phase its Job earned; a restored
cluster has the backup's shape and data and keeps them; a new password is on every
node before a pod is replaced; healing spares the nodes that the status names while their
pods may come back; a cluster settles after every loss of a pod.

## 2. Modules

One `Reconcile` of a cluster is told in two halves that meet where all pods are
ready: `EnsureCluster` before, `ClusterForming` after. What happens inside the slot
steps of `ClusterForming` is told in full by `ScaleUp` and `ScaleDown`, and how many
slots go where by `SlotAllocation`.

| module | models | about |
|---|---|---|
| `RedisNodes` | the Redis nodes as the admin client sees them (external), `ComputeStatus` | variables and command semantics shared by the two scaling modules |
| `ScaleUp` | `RebalancedCluster` / `moveSlot`, with the read and the join before it | one slot at a time, five commands each |
| `ScaleDown` | `DispatchSlotToNewMasters`, `scalingDown`, `FixFailedNodes`, the status | batches of slots, then FORGET and deletion of StatefulSets |
| `SlotOwnership` | abstract specification of both | authority over a slot passes at once, what is stored stays stored |
| `SlotAllocation` | `AllocSlots`, `RebalancedCluster`, `computeReshardTable`, `buildSlotsByNode` on numbers of slots | the arithmetic that `ScaleUp` and `ScaleDown` leave open |
| `ClusterResources` | defaults, StatefulSet and ConfigMap builders, the ensurer's comparisons, the webhook | pure operators |
| `EnsureCluster` | `Reconcile` up to `waitPodReady`, restore, password reset, configuration | one cluster, its StatefulSets, pods and data; extends `ClusterResources` |
| `ClusterView` | `ComputeStatus`, `listGhostNodes`, `buildClusterStatus`, `DispatchMasters`, `PlaceSlaves` | pure operators on the answers to CLUSTER NODES |
| `ClusterForming` | `Reconcile` from the ready pods on: healing, joining, status, `syncCluster` with replicas | extends `ClusterView` |
| `BackupController` | the backup controller, its cache, the API server's version check, the Jobs | one cluster, several backups and workers |
| `RedisProofs` | lemmas about the commands of `RedisNodes` | shared by the two proofs below |
| `ScaleUpProofs` | theorems about `ScaleUp` | with loss and crashes; without loss the refinement. See section 5 |
| `ScaleDownProofs`, `ScaleDownRefinement` | theorems about `ScaleDown` | the same in two modules |
| `AllocationProofs`, `BackupProofs`, `EnsureProofs`, `FormingProofs` | theorems about `SlotAllocation`, `BackupController`, `EnsureCluster`, `ClusterForming` | |
| `MCScaleUp`, `MCScaleDown`, `MCAllocation`, `MCBackup`, `MCEnsure`, `MCForming` | small instances for TLC | model values, key-to-slot maps, initial tables, symmetry |

### RedisNodes

`owner[n][s]` is the owner of slot `s` in node `n`'s own table; `n` *claims* `s`
when that is `n` itself, which is the line of `CLUSTER NODES` that
`DecodeNodeInfos` turns into `node.Slots`. `migrating` and `importing` are the
marks of SETSLOT. SETSLOT NODE is refused by an owner that still has keys of the
slot, and closing an import gives the node a new greatest configuration epoch
(Redis 5, the operator's default image). A heartbeat makes a node yield to a claim with
a greater epoch unless it is importing the slot; a node that loses a slot in this way
drops the keys of it. Clients create keys on the node that serves the slot, or
where ASK sends them; `written` remembers what was acknowledged.

A command that fails has been executed by then or never will be (no command is
executed after its timeout by a later step). `SetSlots(S, A, D, ok)` is one
pipeline: the node accepts `A`, executes `D`, and the operator is told `ok` only
if all of `S` were. `Faulty` switches loss on.

### ScaleUp

`pc` walks through `Reconcile`: `GetClusterInfos` (read), `WaitForClusterJoin`
(the second read, the comparison, and `syncCluster`'s decision), then one `PickMove`
per slot and the five steps of `moveSlot`, each an action: IMPORTING on the target,
MIGRATING on the source (an error of either ends the Reconcile), `MigrateKeysInSlot`
(batches; an error ends it), NODE on the target and NODE on the source (errors are only
logged). The plan uses `bom`, the lists of the first read. `Crash` may happen
before every command. Which slots are moved is open, except that no node both
gives and takes in one run (`givers`): `NoGiverTakes` of `SlotAllocation`
justifies this.

### ScaleDown

The same for `DispatchSlotToNewMasters`: batches in any order (a Go map), each
with one SETSLOT pipeline per step, the other masters told at the end, and a batch
without a source for slots nobody owns (ADDSLOTS). Then `scalingDown` from the
highest StatefulSet down: FORGET on the others, deletion with the volumes, and
the status update. `Heal` forgets failed nodes that `Status.Nodes` does not
list. One Redis node stands for a StatefulSet: replicas are the matter of
`ClusterForming`. The target of each slot is open. A dead node is taken to be flagged as failed at
once, and a deleted StatefulSet takes its node and volume along at once
(`waitPodTerminating` waits for it). After a failed delete a node can still be told FORGET by a later step, which
over-approximates.

### SlotAllocation

`AllocSlots` gives out ranges whose borders are rounded; `RebalancedCluster`
computes balances, hands the remainder out, sorts (in any order that is sorted: the
sort is not stable) and moves slots between a pair of indices that approach each
other; `Panic` is the index out of range in `computeReshardTable`. The borders are
computed in exact arithmetic: the code's float64 cursor is a sum of at most
`MasterSize` shares and far from its precision. A failed command ends the
Reconcile; `faults` counts them.

With `going` > 0 a scale down is planned: `buildSlotsByNode` collects the slots of the
masters that go, those nobody has, and what stays above the rounded-up share;
`buildSlotByNodeFromAvailableSlots` fills one master after the other. `slotOf` starts
from all slots of a master, those it gives away included, as in the code. The slots
come in any order (a Go map), which numbers do not tell apart.

### BackupController

`obj[b]` is the backup on the API server with its resource version, `cache[b]` the
informer's copy, `mem[b]` the copy a worker has. One action per API call of
`create` and `handleBackupJob`. A write made from an old version is refused. `Done`
and `Fail` are the two ways `Reconcile` returns; only the second queues again.
`markAsFailedBackup` and `markAsIgnoredBackup` drop their errors. `isBackupRunning`
looks at cached labels and then at all Jobs of the cluster. With `JobsLag` either read of
Jobs may fail to find one that still runs (`sync_handler.go:448`, see section 3); `missed`
remembers the backups that were ignored for this reason. What the Job does, and the deletion
of backups and Jobs by users, is not modelled.

### ClusterResources and EnsureCluster

A cluster is `[spec, status]`; of the spec there are the fields that some comparison
looks at. `cr` is stored, `cache` what the operator reads, `op.inst` the copy of the
Reconcile under way, with `op.fresh` saying whether it is the newest version: a write
from an older one is refused, and the reply to a status write brings back the stored
spec (`StatusOf`), the reply to a spec write the stored status (`SpecOf`). One action per
call that changes something: the phase Running and the copy of image and size from the
backup (`initRestore`, `validateAndSetDefault`), the ConfigMap, the password reset
with its file in each pod (`ExecCommandInPodSet`) and CONFIG SET node by node
(`ResetPassword`), one StatefulSet after the other, the wait, and at the end the phase
Restart with the StatefulSets rewritten, the phase Succeeded with the number of slaves, or
CONFIG SET and the status.

A configuration that names `appendonly`, or none at all, survives the operator's change of
its copy (`dbLoadedFromDiskWhenRestore`), because the reply to the next status write
replaces it; only such configurations are given to restores.

Kubernetes is external: `StartPod`, `RollPod` and `ScaleIn` replace pods one at a time
per StatefulSet, highest ordinal first, and `current` is the template that is completely
rolled out, from which `status.currentReplicas` is counted. `data[i]` is what master `i` has
in memory, in its dump and in its append only file; the init container replaces the
dump and the file. `torn` remembers which sequences were cut in two.

### ClusterView and ClusterForming

`ClusterView` has the pure parts; the infos of the code are a function from the nodes that
answered to what they say. `SortByFunc` keeps the effect of `append(Friends, Node)`
followed by a sort in place: when the array has room, the friend with the greatest ID drops
out of `Friends`.

`ClusterForming` has pods (StatefulSet, ordinal) with the Redis node each one runs,
`know`, `master`, `owner` (the slots in one piece per StatefulSet), `copy` (who has the
data) and `status` (`Status.Nodes`). `Reconcile` is one action per step: read, one
`ForgetNode` per ghost with the reset of its slaves, handshakes that never end, MEET
and the wait, the status, `syncCluster`, one CLUSTER REPLICATE after the other, slots,
and one StatefulSet after the other when scaling down. Infos read before Heal are
used to the end, as in the code. Pods die and start again, with their node when they have
a volume and with a new ID otherwise; nodes are out of reach for a while; a call fails or
the operator crashes (`Abort`); a FORGET is lost. Redis is external: handshakes, gossip and
takeovers that need a majority of the masters with slots. Known nodes agree on roles and
slots: how they come to agree is the matter of `RedisNodes`. Every write of the status may be
refused, which the code does not notice (`status.go:131`, `SetNodes`): the pass goes on with
what it has in memory, while the next one reads the older `Status.Nodes`. An error of
`syncCluster` writes the same nodes once more (`SetAgain`). `past` remembers what the operator
cannot cope with.

## 3. Runs

`tlc -config <run>.cfg <module>`. Every property of a passing run has a mutant
(`PROJECT.json`): a plausible bug put into one definition, under which TLC
refutes it.

| run | constants | states | result |
|---|---|---|---|
| `scaleup_faults` | 3 nodes, 2 slots, 2 keys in one slot, loss and crashes | 675 000 | `TypeOK`, `NoKeyLost`, `OneWriter` hold |
| `scaleup_crash` | 3 nodes, 2 slots, 1 key, crashes only, fairness | 471 000 | `SlotCovered`, the refinement `HandoverIsAtomic`; `NodesAgreeAgain` while the operator does not crash |
| `alloc_faults` | 11 slots, 1 to 5 masters, every distribution, with or without masters that go, 1 fault, fairness | 78 000 | `TypeOK`, `NoGiverTakes`, `AllocComplete`, `OverfillBounded`; without faults `AssertionHolds`, `Balanced`, `AllAssigned` |
| `scaledown_faults` | 3 nodes of which 2 stay, 3 slots, 2 keys, loss and crashes | 100 000 | `TypeOK`, `OneWriter` hold |
| `scaledown_crash` | the same, 2 keys in one slot, crashes only, fairness | 10 500 | `RemovedIsEmpty`; `AskIsServed`, `KeysStayFound` and `ScalesDown` while the operator does not crash |
| `scaledown_uneven` | 3 nodes of which 2 stay, 6 slots, 1 key, crashes only; a master above its share, or two slots without an owner | 756 000 | `DispatchComplete`, the refinement `HandoverIsAtomic` |
| `scaledown_lossy` | loss | | `NoKeyLost` is violated |
| `backup_faults` | 2 backups, 2 workers, failing calls, Jobs not found at once, crashes | 2 159 000 | `TypeOK`, `SuccessIsReal`, `IgnoredHasNoJob`, `TerminalIsFinal` hold |
| `backup_crash` | the same without failing calls, fairness | 139 000 | `NotForgotten`, `BackupEnds` hold |
| `backup_overlap` | no faults | | `OneActiveJob` is violated |
| `ensure_crash` | 2 masters, at most 1 slave each, webhook on, volumes; a restore or a change of password or configuration; 1 mishap (failing call, crash or evicted pod), fairness | 506 000 | `TypeOK`, `NotForgotten`, `RestoredShape`, `DataKept`, `ConfFollows`, `FailoverOpens`, `PasswordEnds`, `RestoreEnds` hold, each but for the interruptions it names |
| `forming_crash` | up to 3 masters with 1 slave each; a new cluster, a steady one, a growing and a shrinking one; 1 mishap (pod, connection, call, status write or crash) or 1 change of size, lost FORGETs, fairness | 208 000 | `TypeOK`, `OwnMaster`, `NamedAreSpared` hold; `Settles` holds but for what it names |

### Findings of the violation runs

* `scaledown_lossy`: `MigrateKeys` fails and the error is only logged
  (`migration.go:85-87`); SETSLOT NODE follows, and the target takes the slot over with a newer
  epoch. The source still runs and still has a key: it hears of the newer claim by a
  heartbeat, yields the slot and drops the key, before it is told anything by the operator.
  The function says of itself "we must ensure we don't keep a slot in abnormal state"
  (`migration.go:62`), and the e2e suite compares `DBSIZE` before and after
  (`operator_util.go:381`).
* `backup_overlap`: nothing makes `isBackupRunning` and the creation of the Job
  one step.

### Where the properties end

The conditions in the properties above are needed. Dropping one of them gives
further counterexamples, each of a few steps, which explain what the code relies on:

* `SlotCovered` with `Faulty = TRUE`: SETSLOT NODE lost on the target (only logged) and
  executed on the source leaves the slot without an owner.
* `<>[](pc # "down") => []<>Consistent` in `ScaleUp` with crashes: the
  importing mark left by a crash keeps a node from listening once the slot goes to
  another target, and `waitForClusterJoin` never succeeds again.
* `AssertionHolds` without `faults = 0`: after a failed ADDSLOTS the balances sum to
  less than zero, and a master that is short of slots becomes a source. With none the
  table is empty (0/0), with a few the operator panics (`Panic`, which fires in
  `alloc_faults`), and again after every restart.
* `AskServed` of `ScaleDown`, stated for `ScaleUp`: `moveSlot` sends IMPORTING with the
  target's own ID to the target and MIGRATING with the source's own ID to the source
  (`rebalance.go:127-130`). A client that creates a key is redirected to the node it came
  from until the move ends.
* `AllAssigned` with `faults` > 0: when ADDSLOTS fails for a master, the next Reconcile
  sees masters with slots and rebalances instead of allocating; the rest is never
  assigned, and the status becomes OK.
* `KeyFound` as an invariant of `ScaleDown` with crashes: after a crash amid MIGRATE the
  slot may go to another target, and no redirection leads to the keys already moved.
* `AskServed` as an invariant of `ScaleDown` with crashes, on an instance in which a staying master is
  above its share and another one is filled beyond its own by the plan (4 nodes of which 3
  stay, 9 slots shared out as 4, 3, 1 and 1): slot `s` leaves the first, the operator
  crashes after SETSLOT NODE on the target, the source learns of the new owner by
  heartbeat and keeps its migrating mark; the next plan moves `s` back to it. SETSLOT NODE
  on an owner with keys does not clear the mark, so that it answers ASK with a node
  that imports nothing. It takes `buildSlotByNodeFromAvailableSlots` passing a slot on
  from a full master to the next one, full or not (`migration.go:312`, `318-319`), and a
  crash at that point. Without crashes it holds always (section 5).
* `<>[](pc # "down") => <>(live = NewMasters)`: once the slots are dispatched,
  scaling down is no longer recognised (`sync_handler.go:241`), so a crash before the
  deletion leaves the StatefulSets for ever.
* `pc = "join" => \A m \in live : known[m] \subseteq live` with loss and crashes: a
  ghost that `Status.Nodes` still lists is never forgotten, and the status is only
  refreshed once no ghost is known.
* `NotForgotten` with `Faulty = TRUE`: `markAsFailedBackup` drops its error.
* A `Running` backup becoming `Ignored` after a crash between labelling it and creating
  its Job: its own label and any old Job of the cluster make `isBackupRunning` true.
* `IgnoredHasNoJob` without `b \in missed`: "Sometimes the job is created successfully, but it
  cannot be obtained immediately" (`sync_handler.go:448`). A Job is created, but the call that
  creates it reports an error, or the operator dies right after it; the backup is
  labelled, an old Job of the cluster is listed, `GetJob` says NotFound, and the backup is Ignored with
  "One Backup is already Running, Job not found" while its own Job runs; what becomes of that
  Job is reported nowhere. Today `jobController` reads from the API server and not from a cache
  (`newDirectClient`, `redisclusterbackup_controller.go:61-62`), where a Job is found as soon as it has been
  created; with `JobsLag = FALSE` `missed` stays empty. Both runs have `JobsLag = TRUE`, because the code
  says that it happens.

Of `SlotAllocation`'s plan: the branch "over-filling" (`migration.go:313-316`) is never
reached, because the share is rounded up; each master ends with at most its share plus
one, while the log message allows the number of new masters more.

In `EnsureCluster`, the members of `torn` are the sequences that a later Reconcile does
not repeat as a whole:

* `init`: the phase Running is stored, then the operator stops; image and size are never
  taken over from the backup, because `initRestore` is not called again.
* `restart`: the phase Restart is stored and some StatefulSets keep their init
  container, since `shouldUpdateRedis` does not compare it; their masters load the backup
  again at every later start and lose what was written since.
* `stale`: the immediate requeue (`distributedrediscluster_controller.go:293`) may read
  the phase Running from the cache; if it writes a StatefulSet, that one has the init
  container again.
* `succeed`: the phase Succeeded is stored without the number of slaves: they are never
  started.
* `aof`: a master that starts after the ConfigMap says "appendonly yes" and before
  CONFIG SET reaches it finds no append only file, and is empty.
* `stop`, `noevent`: `validateAndSetDefault` gives up, or `UpdateCR` changes nothing and so
  causes no event; the cluster waits for the next edit or restart. Giving up between the
  phase Running and the copy of image and size (the webhook may refuse that write) is
  an `init` as well.
* `reset`: the operator stops during a password reset, or a pod starts or stops during one
  (an evicted pod comes back with the old password). `skipped`: a StatefulSet gets a secret
  that was not reset to, because pods were not ready, the password was removed, or
  the StatefulSet is above the size and was passed over by an earlier reset. The
  password is then on some nodes only, and a pod that is replaced cannot tell its slave to
  take over. A pod that is evicted while the reset is under way must be remembered by
  itself: if the user then takes the edit back, the StatefulSets are right again and the
  node is not, which two edits and one mishap show. A reset that changed the nodes the StatefulSets' password
  no longer opens ends in `Locked`: no Reconcile reaches them again.
* `ConfFollows` without its exception: a ConfigMap written for no configuration has one
  (empty) line, so a first configuration with one entry is not noticed.

In `ClusterForming`:

* `GhostIsLast`: a dead node with the greatest ID drops out of the sorted `Friends` and is
  never forgotten while that order lasts.
* `GhostIsNamed`: a dead master without slots that `Status.Nodes` still names is no ghost;
  the status is refreshed only when all nodes agree, and they do not while some list it.
* `leftover`: an interruption between the dispatch of the slots and `scalingDown` leaves the
  StatefulSets. A later increase of slaves or masters then makes `PlaceSlaves` dereference
  nil for their nodes (`panic`, again after every restart).
* `half`: slaves attached to a master without slots when the operator stopped: another
  choice of masters in the next pass may refuse to attach them.
* `quorum`: a master's pod dies while the other masters with slots are no majority, so that no
  slave takes over. When the cluster shrinks to one master and that of StatefulSet 0 is lost in this
  way, the surplus StatefulSet has all the slots that are left; it is counted as the
  one master wanted, and stays.
* Healing forgets running nodes. A ghost is meant to be a node "which doesn't exists anymore
  meaning it is failed, and pod not in kubernetes, or without targetable IP"
  (`failednodes.go:29-30`); the code compares with `Status.Nodes` and not with the pods. A node
  of a running pod that is out of reach at the first read is forgotten whenever the stored
  status does not name it, and that takes one mishap in each of these cases:
  it is lost before the status of a new cluster is written for the first time, after a status
  write whose refusal is dropped (`status.go:131`), or after it did not answer the second
  `GetClusterInfos`, whose partial result is stored because the first result's status is looked
  at (`distributedrediscluster_controller.go:335-344`). `NamedAreSpared` is therefore about the
  nodes that `Status.Nodes` names, and the other ones do get forgotten in `forming_crash`.
* `SlaveIsUnknown`: what may come of it. Three masters, and one is out of reach at the second
  read: the status leaves it out, the next pass takes it for a ghost, its slave takes over, the
  others forget it, and it comes back as a slave of the new master that nobody
  else knows. `ComputeStatus` compares the masters only, so that the operator finds all in order,
  sends no MEET, and sets the status to OK for ever; this slave cannot be elected.
* The last copy of the data may be emptied. `DetachSlave` resets the slaves of a node that is
  forgotten (`admin.go:495`), which `NamedAreSpared` excludes only for masters that are named
  and may come back. A master's pod dies without a volume while another master is out of
  reach: without a majority the slave is not elected, the pod comes back with a new node, and
  `FixFailedNodes` forgets the old one and resets its slave, which has the only copy. Or the
  slave is out of reach while the others forget its dead master, and is reset by the next
  healing. Or the cluster shrinks: `waitPodReady` looks only at the StatefulSets that stay, so that
  the slave of a dead master in a surplus one may be reset before it takes over. None of the
  three lies within the bounds of `forming_crash`.
* Headless services are deleted under `cluster.Name` (`sync_handler.go:289`) and created
  under `Spec.ServiceName` (`ensurer.go:138`): they stay when the names differ. (Services are
  not modelled; this was seen while reading.)

### Bounds

* `MaxEpoch` (2): ownership changes explored, the bound on the number of moves or batches
  with a source. Two are needed for a slot to move on to a second target, or for
  an interrupted move followed by another, which is where all counterexamples lie.
* Three nodes: source, target and a bystander or second target. Two slots: one on the
  move and one not. Two keys in a slot: a MIGRATE that moves some of a slot's keys.
* Six slots in `scaledown_uneven`: the least number for which one of two staying masters
  can exceed its share while all three have slots.
* `HashSlots` 11 and `MaxMasters` 5: remainders of 1, 2, 3 and 1 for 2 to 5 masters, and
  rounding in both directions; every initial distribution is explored.
* `MaxFaults` 1: one failed command is enough to reach every branch, `Panic` included.
* `MaxVersion`: `backup_faults` starts no Reconcile beyond version 7; without failures
  and crashes a backup is written five times (start time, Running, label, end, label), and
  the rest leaves room for lost replies and repeated writes. Without failing calls the
  versions are bounded by themselves: in `backup_crash` 8 and 20 give the same states.
* `ensure_crash`: two masters are needed for one StatefulSet rewritten and the other not,
  one slave for a failover; one mishap, because two unrelated interruptions add their exceptions
  and nothing else; two passwords and four configurations (none, one entry, two, one of two
  empty). `MinMasterSize` is 1 instead of 3.
* `forming_crash`: three masters are needed for a majority without one of them, two for the rest.
  Eight IDs leave one before, one after and the names of the first six; only their order
  counts. Growth without volumes gives the same results (89 000 states more) and is left out
  for time. `CONSTRAINT Copes` stops at states in which `past` has more than a panic:
  `past` never shrinks, and the behaviours cut off satisfy `Settles` because `[](past = {})` fails
  in them. With three masters it also stops once a running node that has joined is known to nobody
  else (`Remembered`), for time: what follows is explored with two masters only. The safety
  properties are checked up to the cut; the proofs of section 5 know no cut.
* Symmetry is used only in runs without fairness, over interchangeable nodes or
  backups.

Deadlock is checked for the scaling modules. A cluster whose slots are shared out, and a
controller without requests, really stop, so that the other runs do not check it.

### Fairness

`WF` on the operator's steps: the work queue repeats a failed request and
resyncs, every Redis command returns or times out, a restarted pod runs again. `WF` on
heartbeats: live nodes that know each other keep exchanging them. Choosing the next move
(`PickMove`) needs no fairness, since `EndRebalance` has it. In `BackupController`, `SF`
on `Start`: the queue is served in order, so that a request waiting while workers come
and go gets one; `WF` on Jobs ending: a Job has a retry limit. Users need not create a
backup, and clients need not write. In `EnsureCluster` and `ClusterForming`, `WF` on
`Reconcile` (the queue), on watches, and on what Kubernetes and Redis do by themselves; a
user's edit, a mishap and a finished backup need not happen. `SF` on `RightChoice`:
`DispatchMasters` picks from a Go map, whose order is random, so that the choice
that fits the slaves already attached is made in the end.

## 4. Refinement

`SlotOwnership` knows only `auth[s]`, the node whose claim on `s` prevails (it
claims `s`, and every other claimant has a smaller epoch), and `stored`, the keys on any
node. A step hands some slots to one node, or stores a key. `ScaleUp` and `ScaleDown`
implement it (`HandoverIsAtomic`) whenever commands arrive: of all the steps
of a move, only SETSLOT NODE on the target is visible, although two nodes claim the slot for
a while and other nodes learn of it later. Both refinements are checked by TLC and proved
for every value of the constants.

## 5. Proofs

`tlapm <module>.tla`. The theorems hold for every value of the constants that satisfies the
named assumptions of the modules: flags are Boolean, bounds are numbers, "none" values are
none of the values, every key has a slot, the sets of nodes and of backups are finite
(`NodesAssumption`, `BackupAssumption`), `MaxSize` allows the minimal cluster
(`SizesAssumption`), there are at least as many slots as masters (`HashSlotsAssumption`; Redis
has 16384), edits stay within the types (`EditsAssumption`), configurations
have finitely many keys (`ConfigAssumption`), and there is an ID for the first node of every pod
(`FirstIdAssumption`). The bounds on mishaps, edits, versions and epochs
play no part in the arguments.

| module | theorem | property | when |
|---|---|---|---|
| `ScaleUpProofs` | `TypeCorrect`, `KeysSurvive`, `NoTwoWriters` | `TypeOK`, `NoKeyLost`, `OneWriter` | loss, crashes |
| | `AlwaysCovered`, `ImplementsOwnership` | `SlotCovered`, `HandoverIsAtomic` | crashes |
| `ScaleDownProofs` | `TypeCorrect`, `NoTwoWriters` | `TypeOK`, `OneWriter` | loss, crashes |
| `ScaleDownRefinement` | `AllDispatched`, `OnlyEmptyRemoved`, `KeysSurvive`, `ImplementsOwnership` | `DispatchComplete`, `RemovedIsEmpty`, `NoKeyLost`, `HandoverIsAtomic` | crashes |
| | `AskLeadsOn`, `KeysAlwaysFound` | `AskIsServed`, `KeysStayFound` | while the operator does not crash |
| `AllocationProofs` | `AllocationTypeOK`, `GiversNeverTake`, `AllocSlotsCompletes`, `FillingIsBounded` | `TypeOK`, `NoGiverTakes`, `AllocComplete`, `OverfillBounded` | failing commands |
| | `ReshardTableIsFull`, `RebalancingBalances` | `AssertionHolds`, `Balanced` | until a command fails (the properties say so) |
| | `RebalancingProgresses` | `LoopsProgress` (stated there) | failing commands; the loop over pairs until one fails |
| `BackupProofs` | `TypeCorrect`, `SuccessProved`, `IgnoredProved`, `TerminalProved` | `TypeOK`, `SuccessIsReal`, `IgnoredHasNoJob`, `TerminalIsFinal` | failing calls, crashes |
| | `NotForgottenProved` | `NotForgotten` | crashes |
| `EnsureProofs` | `TypeCorrect`, `NeverForgotten`, `ConfProved`, `ShapeProved`, `OpensProved` | `TypeOK`, `NotForgotten`, `ConfFollows`, `RestoredShape`, `FailoverOpens` | failing calls, crashes, evicted pods, edits |
| | `DataProved` | `DataKept` | the same, with the data on volumes (`Persistent`) |
| `FormingProofs` | `TypeCorrect`, `SlavesStayAtHome`, `HealingSparesNamed` | `TypeOK`, `OwnMaster`, `NamedAreSpared` | pods lost, nodes out of reach, failing calls, refused status writes, crashes, lost FORGETs, changes of size |

"Loss" is `Faulty = TRUE`; where it is not named, the theorem assumes `~Faulty`, and section 3
has the counterexample for the other case. `NoKeyLost` of `ScaleDown` is the
property that `scaledown_lossy` violates: the loss of commands is all that it takes, and
without it no key is lost, crashes or not.

### The inductive invariants

Hardly any of these properties is inductive. Each invariant was checked with TLC first.

**ScaleUp** (`IInv`). A node can lose its keys of a slot by a heartbeat, so `NoKeyLost` needs to
know that a claim which loses has no keys; and it must have been marked as
migrating, or a client could give it one.

* `EpochOK`: no node's epoch exceeds `currentEpoch`, so that a new one is the greatest;
* `ClaimsOK`: of two claims on a slot the one with the smaller epoch is *void*: no keys,
  and marked as migrating, so that none can be created. `OneWriter` follows;
* `GiversOK`: while a plan is carried out, only sources hold void claims, and a
  source's epoch never grows, so that a void claim stays void. This is where it matters
  that no node both gives and takes;
* `PlanOK`: the claims the plan rests on prevail, but for the one just handed over.
  `Consistent` establishes it: when all tables agree, there is one claimant per slot;
* `MoveOK`: what the steps of `moveSlot` have achieved so far: the target imports, the
  source claims and is migrating, and before NODE it is empty.

`CInv`, for the refinement, adds what only arrived commands give: every slot has a prevailing
claim, and in the last step of a move it is the target's.

**ScaleDown**. A lost MIGRATE empties nothing, so that with loss claims need not be void, and
`OneWriter` has another reason (`IInv`):

* `ScopeOK`: masters that stay are never removed, marks redirect only to them, and a removed
  node claims nothing;
* `PairOK`: a batch goes to another master that stays, and those still to be told of the new
  owner are neither its source nor its target;
* `PlanOK`: a claim on a slot still to be dispatched is in the operator's memory, and is the
  only one;
* `BatchOK`: when the target takes the slots of a batch, nobody else serves them: they have
  no other claim than the source's, and the source redirects to the target.

Without loss, `HInv` adds `EpochOK`; `VoidOK` (of two claims the newer one is that of a master
that stays, the other node redirects and has no key); `KeysOK` (a node that does not stay has
keys of its own slots only); `SettledOK` (what is neither to be dispatched nor being
dispatched is claimed by a master that stays, and by nobody else); and `TakenOK` (the
target of a batch imports its slots, then claims them with the newest epoch; the
source is empty before it is told to give them up). `KeysSurvive`, the refinement and the two
properties of the removal follow. While the operator does not crash, `AInv` adds
`SoleOK` (one claimant per slot, but for the batch between its two SETSLOT NODE), `HeldOK`
(what the operator remembers of an owner is true), `MarkOK` (every migrating mark is of the
current batch and leads to its target), `GoneOK` and `KeyFound`. The attempt to prove
`AskServed` with crashes too ended in the counterexample of section 3.

**SlotAllocation**. `GInv` is for `NoGiverTakes`: the two indices of `RebalancedCluster` move
towards each other over a list without repetition, so that who has taken is at or before the one,
who has given at or after the other. The other properties are about sums over all masters. The
prover cannot use the library's induction theorems, so that the sums are reasoned about from
the definition of the fold: `SubsetInduction` is induction over the subsets of a finite set, stated
with a set of sets instead of a predicate and proved from `WFMin`; with it every finite set has
exactly one sum (`SumExists`, `SumUnique`), and the lemmas that follow say what a sum is when one value is
taken out, replaced or moved to another master. The invariant is `SlotsInv`:

* `SyncOK`: a scale down starts with masters that all have slots; without a failed command
  what else starts has none or all of the slots;
* `AllocOK`: `first` is `index - 1` shares, rounded to the nearest number, the masters before
  `index` have all the slots before it, and each of them less than one slot more or less than its
  share. `AllocComplete` follows from the last border, which is exact;
* `BalanceOK`: `node.Slots` in memory is never longer than what the master has, and as long as
  no command has failed a balance is at most the length of it, which is what makes the reshard
  table full. What a balance lacks of count less share has been spread, and balances
  never sum to less than nothing;
* `SettledOK`: the balances sum to zero, the masters that the indices have passed are settled,
  and between them nobody who has too much stands before somebody who has too little. Hence
  the pair at the indices always has opposite signs, one of the two is settled by the
  iteration, and when the indices meet everybody is;
* `FillOK`: the masters before `idNode` are full, those after it have been given nothing, and what
  is planned and what is still to be shared out are all the slots. As the shares,
  rounded up, have room for all slots, the last master has room for whatever comes to it.

`RebalancingProgresses` is what termination of the two loops rests on: a pass of `SpreadRemainder` finds
a master to give a slot to (`SomeShort`: the one that had none), and until a command fails each
iteration over the pairs brings the indices closer.

**BackupController** (`IInv`). A copy with the current version is the current object
(`CopiesOK`), which is what the version check is worth, and `StepOK` says what a Reconcile
knows of its backup at each step. `IgnoredProved` holds with `JobsLag` as well: only a backup in
`missed` can lose the result of its Job. `NotForgotten` needs `KeptOK` as well: whoever is about to
drop the label has finished the backup, or works on a stale copy and will fail.

**EnsureCluster**. `TInv` has the types, with the loops over StatefulSets staying below the size
of the pass's own copy. `CopyOK` says what a pass knows of the stored cluster: a copy
that no edit has overtaken has the stored status and configuration, at the steps that write
the spec it is the stored cluster, and a restore is never overtaken after its first
successful write. The actions are then sorted into fourteen kinds of steps by what they do to
cluster, cache and pass (`StepOf`, `NextOf`), and each property has its own addition: `EventOK`
and `WaitOK` (the spec in the cache differs from the one that the last write leaves, so that
its event queues the cluster), `ConfOK` (the ConfigMap has what the pass's copy asks for;
comparing the numbers of lines and then the lines of one side is enough because no key has
two lines, `UnchangedContent`), `ShapeOK` (a later pass leaves size and image of a restore alone,
because they have their defaults).

`DataKept` (`DInv`) is about what three copies of the cluster, the ConfigMap, the templates and
the volumes have at the same time:

* `TrailOK`: the phase in the cache and in a pass may be behind the stored one, never ahead;
* `LogOK`: the ConfigMap says "appendonly yes" only when everybody has seen the phase
  Succeeded, so that no master that is still to be restored loads an append only file;
* `VolumesOK`: no pod has its data on a volume that goes with it. `Persistent` is used here;
* `TemplateOK`: the init container is in every template until the phase Restart is stored, and
  from then on in those only that the loop over the StatefulSets has not come to;
* `MasterOK`: what a master has in memory, in its dump and in its append only file is the
  backup, or everything that was answered since, whichever the next start reads.

`FailoverOpens` (`OInv`): `SecretOK` (a fresh pass has the stored secret and size, and a restored
cluster has one secret for ever), `PoolOK` (no pods are collected before the reset, and
connections are to collected pods only), `PodsOK` (every pod belongs to a StatefulSet) and
`OpenOK`. Outside of a reset every pod has the secret of its StatefulSet as password and in
its file, and all StatefulSets have the same one (`RestOK`); during a reset the pods are
those that were collected, and each call moves some of them from the old
password to the new one: `BeforeExec`, `BeforeReset` and `BeforeSts` say how far that is
(`ResetOK`). That all StatefulSets are equal is what makes the comparison with the first
one alone (`IsPasswordChanged(op.inst, sts[0])`) enough.

**ClusterForming** (`IInv`). The operator pairs a slave with a master by infos read before it
healed the cluster, pods come back with other nodes meanwhile, and a volume brings an old node
back. `OwnMaster` therefore needs an invariant about all nodes there have ever been: each has
a *home*, a StatefulSet that no later step changes.

* `PlacesOK`: no two pods have, or have on their volumes, the same node, and a pod with a
  volume runs the node that is on it;
* `BornOK`: whatever is known, placed, followed or in the infos is a node that has existed
  (it is in its own nodes.conf), so that a new node has an ID nobody has heard of;
* `HomeOK`: there is a function from IDs to StatefulSets that agrees with pods, volumes, masters,
  the infos and the plan of the pass. A new node extends it; nothing else has to change it.

For `NamedAreSpared`, `GInv` adds `GhostOK`: while healing, no ghost that `Status.Nodes` names has
a pod, nor will one start with it from its volume. A node that is named is listed as a ghost
only when it has no address any more, hence neither pod nor volume; a new node has an ID
that nobody has heard of (`BornOK`), so that a pod never starts with a ghost; and the status
is not written between the read and the end of the healing.

### Only model-checked

* All liveness properties (`NodesAgreeAgain`, `AllAssigned`, `ScalesDown`, `BackupEnds`,
  `PasswordEnds`, `RestoreEnds`, `Settles`): liveness under fairness is beyond the prover. Of
  `AllAssigned`, `LoopsProgress` proves the part that is an action property.

## 6. Not modelled, and the plan

Not modelled: directories other than `23-*` (no program); generated code; rclone and
object store configuration (text for another program); `placement.go`, `FixClusterSplit`,
`CheckRedisMasterNum`, `SetConfigEpoch`, `FlushAndReset` and `ClusterManagerNodeIsEmpty` (dead
code: no caller); start-up and flags. Services and disruption budgets are created once and nothing
modelled depends on them; labels, ports, probes and affinities likewise. `FixTerminatingPods`
deletes pods that are being deleted already, which changes no state here. The text form of slot
ranges (`slot.go`) and the environment and arguments of the backup Job are conversions
whose results no property looks at. Renamed commands (`client.go`) are a
setting of the Redis image.

Left open, most important first:

1. `DecodeSlotRange` and `SlotSlice.String` as operators, checked to be inverse to each other.
2. Resizing or editing a cluster while it is restored.
