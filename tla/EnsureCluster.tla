--------------------------- MODULE EnsureCluster ---------------------------
(***************************************************************************)
(* One Reconcile of a DistributedRedisCluster outside of the clustering    *)
(* proper: ensureCluster with its defaults, restore, ConfigMap, password   *)
(* reset and StatefulSets, waitPodReady, and the two restore steps at the  *)
(* end of Reconcile (pkg/controller/distributedrediscluster, with          *)
(* pkg/controller/manager and the builders of ClusterResources).           *)
(*                                                                         *)
(* The operator reads the cluster from its cache and writes it to the API  *)
(* server, which refuses a copy that is not the newest version; the reply  *)
(* replaces the operator's copy, so that a status write brings back the    *)
(* stored spec.  Kubernetes rolls the pods of each StatefulSet in its own  *)
(* time, a user edits the spec, and the operator may crash between any two *)
(* calls.                                                                  *)
(***************************************************************************)
EXTENDS ClusterResources

CONSTANTS
  Image,         \* the images users ask for
  Secret,        \* the password secrets; each stands for its password
  Config,        \* the configurations users ask for
  MaxSize,       \* bound: StatefulSets are numbered below it
  MaxReplicas,   \* bound on the slaves of a master
  Edits,         \* the changes of the spec users make, as functions of fields
  Webhook,       \* ENABLE_WEBHOOKS
  MaxMishaps,    \* bound on failing calls, crashes and evicted pods, together
  MaxEdits       \* bound on edits

ASSUME MaxSizeAssumption == MaxSize \in Nat \ {0}
ASSUME MaxReplicasAssumption == MaxReplicas \in Nat
ASSUME WebhookAssumption == Webhook \in BOOLEAN
ASSUME SizesAssumption == MinMasterSize <= MaxSize
ASSUME ImageAssumption == NoImage \notin Image
ASSUME ConfigAssumption == \A config \in Config : IsFiniteSet(DOMAIN config)
ASSUME EditsAssumption ==
  \A e \in Edits :
    /\ "size" \in DOMAIN e => e["size"] \in 1 .. MaxSize
    /\ "replicas" \in DOMAIN e => e["replicas"] \in 0 .. MaxReplicas
    /\ "image" \in DOMAIN e => e["image"] \in Image \cup {NoImage}
    /\ "secret" \in DOMAIN e => e["secret"] \in Secret \cup {NoSecret}
    /\ "config" \in DOMAIN e => e["config"] \in Config

VARIABLES
  cr,      \* the cluster on the API server
  cache,   \* what the operator's cache has of it, and whether that is newest
  queued,  \* the cluster waits in the work queue
  backup,  \* the RedisClusterBackup to restore from
  op,      \* the Reconcile under way
  conf,    \* the content of the ConfigMap with redis.conf
  rclone,  \* the secret with the credentials of the object store exists
  sts,     \* sts[i]: StatefulSet i; template is the wanted, current the
           \* completely rolled out pod template
  pods,    \* pods[i][k]: pod k of StatefulSet i; a pod that runs is ready
  data,    \* data[i]: what master i has in memory and on its volume
  torn,    \* history: the sequences of calls that were interrupted
  used     \* how much of each bound is used up

vars == <<cr, cache, queued, backup, op, conf, rclone, sts, pods, data, torn, used>>

Index == 0 .. MaxSize - 1

Ordinal == 0 .. MaxReplicas

NoSts == [replicas |-> 0]

NoPod == [up |-> FALSE]

NoConf == {<<>>}

Pod == Index \X Ordinal

Idle == [pc |-> "idle"]

Exists(i) == sts[i] # NoSts

IsUp(p) == pods[p[1]][p[2]] # NoPod

Up == {p \in Pod : IsUp(p)}

At(p) == pods[p[1]][p[2]]

ReadyReplicas(i) == Cardinality({k \in Ordinal : IsUp(<<i, k>>)})

CurrentReplicas(i) ==
  Cardinality({k \in Ordinal : IsUp(<<i, k>>) /\ pods[i][k].template = sts[i].current})

\* The bounds: kind is one of the fields of used.
Budget(kind, bound) ==
  /\ used[kind] < bound
  /\ used' = [used EXCEPT ![kind] = @ + 1]

-----------------------------------------------------------------------------
(* Writing the cluster.                                                    *)

Stored(new) ==
  /\ cr' = new
  /\ cache' = [cache EXCEPT !.fresh = @ /\ new = cr]

\* UpdateCRStatus: the stored spec stays and comes back with the reply.
StatusOf(c) == [cr EXCEPT !.status = c.status]

\* UpdateCR: the status is not written.
SpecOf(c) == [cr EXCEPT !.spec = c.spec]

\* The pass goes on at pc with the copy c.
Goto(pc, c) == op' = [op EXCEPT !.pc = pc, !.inst = c]

\* The pass ends; the cluster is queued again if again.
Leave(again) ==
  /\ op' = Idle
  /\ queued' = (queued \/ again)

\* updateClusterIfNeed: an error of the write is only logged.
SetState(state) ==
  IF op.fresh THEN Stored([cr EXCEPT !.status = [op.inst.status EXCEPT !.state = state]])
              ELSE UNCHANGED <<cr, cache>>

\* Mutant: an error ends it for good.
GiveUp == SetState("Scaling") /\ Leave(FALSE)

\* ensureCluster or waitPodReady returned an error that is retried.
Requeue == SetState("Scaling") /\ Leave(TRUE)

\* A password reset is under way: some files and nodes have the new password.
Resetting == op.pc \in {"exec", "reset", "sts"} /\ op.podSet # {}

\* The sequences of calls that are not repeated as a whole when interrupted.
Interruption ==
  CASE op.pc = "default" /\ op.initRestore              -> {"init"}
    [] op.pc = "removeInit"                             -> {"restart"}
    [] op.pc = "raise"                                  -> {"succeed"}
    [] Resetting                                        -> {"reset"}
    [] OTHER                                            -> {}

Interrupted == torn' = torn \cup Interruption

\* The admission webhook sees the operator's own writes too.
Admitted(spec) == Webhook => ValidateUpdate(spec, cr)

Kube == <<sts, pods, data>>

-----------------------------------------------------------------------------
(* ensureCluster.                                                          *)

Start ==
  /\ op.pc = "idle"
  /\ queued
  /\ queued' = FALSE
  /\ op' = [pc |-> IF IsRestoreFromBackup(cache.obj) /\ ShouldInitRestorePhase(cache.obj)
                   THEN "init" ELSE "default",
            inst |-> cache.obj, fresh |-> cache.fresh, initRestore |-> FALSE,
            i |-> 0, updated |-> FALSE, podSet |-> {}, pool |-> {}, old |-> NoSecret]
  /\ UNCHANGED <<cr, cache, backup, conf, rclone, Kube, torn, used>>

\* A failing call; validateAndSetDefault gives up unless the error is retryable.
StopRetry ==
  /\ Leave(FALSE)
  /\ torn' = torn \cup Interruption \cup {"stop"}
  /\ UNCHANGED <<cr, cache>>

initRestore ==
  /\ op.pc = "init"
  /\ \/ /\ backup.phase = "Succeeded"
        /\ op.fresh
        /\ LET c == StatusOf([op.inst EXCEPT !.status.phase = "Running",
                                             !.status.backup = TRUE])
           IN  /\ Stored(c)
               /\ op' = [op EXCEPT !.pc = "default", !.inst = c, !.initRestore = TRUE]
        /\ UNCHANGED <<queued, torn>>
     \/ /\ backup.phase # "Succeeded" \/ ~op.fresh
        /\ StopRetry
  /\ UNCHANGED <<backup, conf, rclone, Kube, used>>

Copied == IF op.initRestore THEN CopyFromBackup(op.inst.spec, backup) ELSE op.inst.spec

Masters == OnlyMasters([op.inst EXCEPT !.spec = Copied])

Defaulted == [Masters EXCEPT !.spec = DefaultSpec(@)]

NeedsUpdate == Copied # op.inst.spec \/ Defaulted # Masters

EnsureRedisConfigMap(c) ==
  LET config == dbLoadedFromDiskWhenRestore(c)
  IN  conf' = IF conf = NoConf \/ isRedisConfChanged(conf, config)
              THEN generateRedisConfContent(config) ELSE conf

\* Without an error the ConfigMap is next.
validateAndSetDefault ==
  /\ op.pc = "default"
  /\ IF NeedsUpdate => op.fresh /\ Admitted(Defaulted.spec)
     THEN /\ IF NeedsUpdate THEN Stored(SpecOf(Defaulted)) ELSE UNCHANGED <<cr, cache>>
          /\ EnsureRedisConfigMap(Defaulted)
          /\ Goto("password", Defaulted)
          /\ UNCHANGED <<queued, torn>>
     ELSE StopRetry /\ UNCHANGED conf
  /\ UNCHANGED <<backup, rclone, Kube, used>>

\* Mutant: the master is not counted.
CheckSlaveNum(c) ==
  \A i \in 0 .. c.spec.size - 1 :
    Exists(i) /\ sts[i].replicas = c.spec.replicas /\ ReadyReplicas(i) = c.spec.replicas

CheckRedisNodeNum(c) ==
  \A i \in 0 .. c.spec.size - 1 :
    /\ Exists(i)
    /\ sts[i].replicas = c.spec.replicas + 1
    /\ ReadyReplicas(i) = c.spec.replicas + 1
    /\ CurrentReplicas(i) = c.spec.replicas + 1

SecretDiffers(c) == Exists(0) /\ IsPasswordChanged(c, sts[0])

\* The connections newRedisAdmin gets with a password: nodes that refuse it
\* are left out; without a password none is refused before its first command.
Connections(podSet, password) ==
  {p \in podSet : password = NoSecret \/ At(p).auth = password}

\* Nothing is reset while the pods are not all ready, but the StatefulSets get
\* the new secret all the same; a StatefulSet above the size is left with the
\* old one.  An error of the status write is ignored.
resetClusterPassword ==
  /\ op.pc = "password"
  /\ IF CheckRedisNodeNum(op.inst) /\ IsPasswordChanged(op.inst, sts[0])
     THEN LET c == [op.inst EXCEPT !.status.state = "ResetPassword"]
              old == GetOldRedisClusterPassword(sts[0])
          IN  /\ IF op.fresh THEN Stored(StatusOf(c)) ELSE UNCHANGED <<cr, cache>>
              /\ op' = [op EXCEPT !.pc = "exec", !.podSet = Up, !.old = old,
                                  !.inst = IF op.fresh THEN StatusOf(c) ELSE c,
                                  !.pool = Connections(Up, old)]
              /\ torn' = torn \cup (IF \E i \in Index : Exists(i) /\ i >= op.inst.spec.size
                                    THEN {"skipped"} ELSE {})
     ELSE Goto("sts", op.inst) /\ UNCHANGED <<cr, cache, torn>>
  /\ UNCHANGED <<queued, backup, conf, rclone, Kube, used>>

\* The file the preStop hook reads the password from.
SetFile(ps, password) ==
  pods' = [i \in Index |-> [k \in Ordinal |->
             IF <<i, k>> \in ps /\ IsUp(<<i, k>>)
             THEN [pods[i][k] EXCEPT !.file = password] ELSE pods[i][k]]]

\* Mutant: the file keeps the old password.
SkipFile ==
  /\ op.pc = "exec"
  /\ Goto("reset", op.inst)
  /\ UNCHANGED <<cr, cache, queued, backup, conf, rclone, Kube, torn, used>>

\* One pod after the other, until the command fails on one that is gone.
ExecCommandInPodSet ==
  /\ op.pc = "exec"
  /\ \/ /\ op.podSet \subseteq Up
        /\ SetFile(op.podSet, GetClusterPassword(op.inst))
        /\ Goto("reset", op.inst)
        /\ UNCHANGED <<cr, cache, queued>>
     \/ /\ ~(op.podSet \subseteq Up)
        /\ \E ps \in SUBSET op.podSet : SetFile(ps, GetClusterPassword(op.inst))
        /\ Requeue
  /\ UNCHANGED <<backup, conf, rclone, sts, data, torn, used>>

\* A connection is authenticated with the old password, or not at all.
Accepts(p) == IsUp(p) /\ (op.old = NoSecret => At(p).auth = NoSecret)

\* CONFIG SET masterauth and requirepass on one node after the other.
ResetPassword ==
  /\ op.pc = "reset"
  /\ \/ \E p \in op.pool :
          /\ Accepts(p)
          /\ pods' = [pods EXCEPT ![p[1]][p[2]].auth = GetClusterPassword(op.inst)]
          /\ op' = [op EXCEPT !.pool = @ \ {p},
                              !.pc = IF op.pool = {p} THEN "sts" ELSE "reset"]
          /\ UNCHANGED <<cr, cache, queued>>
     \/ /\ op.pool = {} \/ \E p \in op.pool : ~Accepts(p)
        /\ Requeue
        /\ UNCHANGED pods
  /\ UNCHANGED <<backup, conf, rclone, sts, data, torn, used>>

-----------------------------------------------------------------------------
(* The StatefulSets, one call after the other.                             *)

\* The pods ps of StatefulSet i that ss asks for all have its template.
RolledOut(ss, ps) ==
  \A k \in 0 .. ss.replicas - 1 : ps[k] # NoPod /\ ps[k].template = ss.template

Write(i, ss) ==
  sts' = [sts EXCEPT ![i] =
            [replicas |-> ss.replicas, template |-> ss.template,
             current |-> IF Exists(i) /\ ~RolledOut(ss, pods[i]) THEN sts[i].current
                                                              ELSE ss.template]]

\* A StatefulSet gets a password that has not been reset to.
Skips ==
  /\ op.podSet = {}
  /\ \E i \in Index : Exists(i) /\ sts[i].template.server.secret # redisPassword(op.inst)

ensureRedisStatefulset ==
  /\ op.pc = "sts"
  /\ LET i == op.i
         change == Exists(i) /\ shouldUpdateRedis(op.inst, sts[i])
         last == i + 1 = op.inst.spec.size
         updated == op.updated \/ change
         c == [op.inst EXCEPT !.status.state = "Updating"]
     IN  /\ IF change \/ ~Exists(i) THEN Write(i, NewStatefulSetForCR(op.inst))
                                    ELSE UNCHANGED sts
         /\ IF last /\ updated
            THEN /\ IF op.fresh THEN Stored(StatusOf(c)) ELSE UNCHANGED <<cr, cache>>
                 /\ Goto("wait", IF op.fresh THEN StatusOf(c) ELSE c)
            ELSE /\ op' = [op EXCEPT !.i = IF last THEN 0 ELSE i + 1,
                                     !.updated = updated,
                                     !.pc = IF last THEN "services" ELSE "sts"]
                 /\ UNCHANGED <<cr, cache>>
         /\ torn' = torn \cup (IF change /\ Template(op.inst).init /\ ~IsRestoreRunning(cr)
                               THEN {"stale"} ELSE {})
                         \cup (IF (change \/ ~Exists(i)) /\ Skips THEN {"skipped"} ELSE {})
  /\ UNCHANGED <<queued, backup, conf, rclone, pods, data, used>>

\* The wait ends as soon as one StatefulSet has not the number of ready pods.
waitStatefulSetUpdating ==
  /\ op.pc = "wait"
  /\ \/ /\ \E i \in Index : Exists(i) /\ ReadyReplicas(i) # op.inst.spec.replicas + 1
        /\ Goto("services", op.inst)
        /\ UNCHANGED <<cr, cache, queued>>
     \/ Requeue
  /\ UNCHANGED <<backup, conf, rclone, Kube, torn, used>>

\* The secret is kept once it exists; the services matter to nobody here.
EnsureRedisRCloneSecret ==
  rclone' = (rclone \/ (IsRestoreFromBackup(op.inst) /\ ~IsRestored(op.inst)))

\* The rest of ensureCluster, and the pods.
waitPodReady ==
  /\ op.pc = "services"
  /\ EnsureRedisRCloneSecret
  /\ IF CheckRedisNodeNum(op.inst)
     THEN Goto("restore", op.inst) /\ UNCHANGED <<cr, cache, queued>>
     ELSE Requeue
  /\ UNCHANGED <<backup, conf, Kube, torn, used>>

-----------------------------------------------------------------------------
(* The end of Reconcile: the restore steps, or the configuration, the      *)
(* clustering (left to the other modules) and the final status.            *)

MarkRestart ==
  /\ op.pc = "restore"
  /\ IsRestoreFromBackup(op.inst) /\ IsRestoreRunning(op.inst)
  /\ LET c == StatusOf([op.inst EXCEPT !.status.phase = "Restart"])
     IN  IF op.fresh
         THEN Stored(c) /\ UNCHANGED queued
              /\ op' = [op EXCEPT !.pc = "removeInit", !.inst = c, !.i = 0]
         ELSE Leave(TRUE) /\ UNCHANGED <<cr, cache>>
  /\ UNCHANGED <<backup, conf, rclone, Kube, torn, used>>

\* After the last one the operator waits, and is queued again either way.
UpdateRedisStatefulsets ==
  /\ op.pc = "removeInit"
  /\ Write(op.i, NewStatefulSetForCR(op.inst))
  /\ IF op.i + 1 = op.inst.spec.size
     THEN Leave(TRUE)
     ELSE op' = [op EXCEPT !.i = @ + 1] /\ UNCHANGED queued
  /\ UNCHANGED <<cr, cache, backup, conf, rclone, pods, data, torn, used>>

MarkSucceeded ==
  /\ op.pc = "restore"
  /\ IsRestoreFromBackup(op.inst) /\ IsRestoreRestarting(op.inst)
  /\ LET c == StatusOf([op.inst EXCEPT !.status.phase = "Succeeded"])
     IN  IF op.fresh
         THEN Stored(c) /\ Goto("raise", c) /\ UNCHANGED queued
         ELSE Leave(TRUE) /\ UNCHANGED <<cr, cache>>
  /\ UNCHANGED <<backup, conf, rclone, Kube, torn, used>>

\* The next Reconcile is left to the event of this write.
RaiseReplicas ==
  /\ op.pc = "raise"
  /\ LET c == SpecOf([op.inst EXCEPT !.spec.replicas = backup.replicas])
     IN  IF op.fresh
         THEN /\ Stored(c) /\ Leave(FALSE)
              /\ torn' = torn \cup (IF c = cr THEN {"noevent"} ELSE {})
         ELSE Leave(TRUE) /\ Interrupted /\ UNCHANGED <<cr, cache>>
  /\ UNCHANGED <<backup, conf, rclone, Kube, used>>

\* CONFIG SET appendonly yes writes an append only file with all the data.
SetConfigIfNeed ==
  /\ op.pc = "restore"
  /\ IsRestoreFromBackup(op.inst) => IsRestored(op.inst)
  /\ LET reached == Connections(Up, GetClusterPassword(op.inst))
         aof(p) == IF "appendonly" \in DOMAIN op.inst.spec.config
                   THEN op.inst.spec.config["appendonly"] = "yes" ELSE At(p).aof
     IN  /\ pods' = [i \in Index |-> [k \in Ordinal |->
                       IF <<i, k>> \in reached
                       THEN [pods[i][k] EXCEPT !.aof = aof(<<i, k>>)] ELSE pods[i][k]]]
         /\ data' = [i \in Index |->
                       IF <<i, 0>> \in reached /\ aof(<<i, 0>>)
                       THEN [data[i] EXCEPT !.aof = {data[i].mem}] ELSE data[i]]
  /\ Goto("finish", op.inst)
  /\ UNCHANGED <<cr, cache, queued, backup, conf, rclone, sts, torn, used>>

\* Without any connection no masters are found; with some the outcome is open.
Finish ==
  /\ op.pc = "finish"
  /\ LET reached == Connections(Up, GetClusterPassword(op.inst))
     IN  \/ reached # {} /\ SetState("OK")
         \/ reached # Up /\ SetState("KO")
  /\ Leave(TRUE)
  /\ UNCHANGED <<backup, conf, rclone, Kube, torn, used>>

-----------------------------------------------------------------------------
(* Failures of the operator's calls, and crashes.                          *)

\* A call fails: the pass ends and is repeated, except that CheckRedisNodeNum's
\* error only skips the password reset and that validateAndSetDefault and
\* EnsureRedisRCloneSecret give up unless the error is retryable.
CallFails ==
  /\ op.pc \notin {"idle", "wait"}
  /\ Budget("mishaps", MaxMishaps)
  /\ \/ /\ \/ op.pc = "init"
           \/ op.pc = "default" /\ NeedsUpdate
           \/ op.pc = "services" /\ ~rclone /\ op.inst.spec.restore
        /\ StopRetry
     \/ /\ op.pc \in {"init", "default", "password", "exec", "reset", "sts", "services"}
        /\ Requeue /\ Interrupted
     \/ /\ op.pc = "password"
        /\ Goto("sts", op.inst)
        /\ UNCHANGED <<cr, cache, queued, torn>>
     \/ /\ op.pc \in {"services", "restore", "removeInit", "raise"}
        /\ Leave(TRUE) /\ Interrupted
        /\ UNCHANGED <<cr, cache>>
     \/ /\ op.pc = "finish"
        /\ SetState("KO") /\ Leave(TRUE)
        /\ UNCHANGED torn
  /\ UNCHANGED <<backup, conf, rclone, Kube>>

\* The operator restarts with an empty queue and lists the clusters.
Crash ==
  /\ Budget("mishaps", MaxMishaps)
  /\ op' = Idle
  /\ Interrupted
  /\ cache' = [obj |-> cr, fresh |-> TRUE]
  /\ queued' = TRUE
  /\ UNCHANGED <<cr, backup, conf, rclone, Kube>>

-----------------------------------------------------------------------------
(* The environment: watches, the backup controller, users and clients.     *)

\* An update event queues the cluster only when its generation changed.
UpdateFunc ==
  /\ ~cache.fresh
  /\ cache' = [obj |-> cr, fresh |-> TRUE]
  /\ queued' = (queued \/ cache.obj.spec # cr.spec)
  /\ UNCHANGED <<cr, backup, op, conf, rclone, Kube, torn, used>>

BackupSucceeds ==
  /\ backup.phase = "Running"
  /\ backup' = [backup EXCEPT !.phase = "Succeeded"]
  /\ UNCHANGED <<cr, cache, queued, op, conf, rclone, Kube, torn, used>>

UserEdits ==
  /\ \E e \in Edits :
       LET edit(f, old) == IF f \in DOMAIN e THEN e[f] ELSE old
           new == [cr.spec EXCEPT !.size = edit("size", @), !.replicas = edit("replicas", @),
                                  !.image = edit("image", @), !.secret = edit("secret", @),
                                  !.config = edit("config", @)]
       IN  /\ ~cr.spec.restore
           /\ new # cr.spec
           /\ Admitted(new)
           /\ cr' = [cr EXCEPT !.spec = new]
  /\ Budget("edits", MaxEdits)
  /\ cache' = [cache EXCEPT !.fresh = FALSE]
  /\ op' = IF op.pc = "idle" THEN op ELSE [op EXCEPT !.fresh = FALSE]
  /\ UNCHANGED <<queued, backup, conf, rclone, Kube, torn>>

\* Clients use the cluster once it is restored, all of its masters at a time;
\* acked: a write was answered.
ClientWrites ==
  /\ cr.spec.restore => cr.status.phase = "Succeeded"
  /\ LET written == {i \in Index : IsUp(<<i, 0>>) /\ data[i].mem = "backup"}
     IN  /\ written # {}
         /\ data' = [i \in Index |->
                       IF i \in written
                       THEN [data[i] EXCEPT !.mem = "newer", !.acked = TRUE,
                                            !.aof = IF pods[i][0].aof THEN {"newer"} ELSE @]
                       ELSE data[i]]
  /\ UNCHANGED <<cr, cache, queued, backup, op, conf, rclone, sts, pods, torn, used>>

-----------------------------------------------------------------------------
(* Kubernetes: the StatefulSet controller and the pods.                    *)

\* With appendonly yes Redis loads the append only file, or nothing when there is
\* none.
Load(d, init) ==
  LET v == IF init THEN redisInitContainer(d) ELSE d
      got == IF AppendOnly(conf) THEN (IF v.aof = {} THEN "none" ELSE CHOOSE x \in v.aof : TRUE)
                                 ELSE v.rdb
  IN  [v EXCEPT !.mem = got, !.aof = IF AppendOnly(conf) THEN {got} ELSE @]

\* Of the lowest missing ordinal; the update is complete with the last pod.
StartPod(i, k) ==
  /\ Exists(i) /\ k < sts[i].replicas
  /\ ~IsUp(<<i, k>>)
  /\ \A j \in 0 .. k - 1 : IsUp(<<i, j>>)
  /\ "rcloneconfig" \in sts[i].template.volumes => rclone
  /\ LET t == sts[i].template
     IN  /\ pods' = [pods EXCEPT ![i][k] =
                       [up |-> TRUE, template |-> t, auth |-> getRedisCommand(t),
                        file |-> t.server.secret, aof |-> AppendOnly(conf)]]
         /\ data' = IF k = 0 THEN [data EXCEPT ![i] = Load(@, t.init)] ELSE data
         /\ sts' = IF RolledOut(sts[i], pods'[i]) THEN [sts EXCEPT ![i].current = t] ELSE sts
  /\ torn' = torn \cup (IF k = 0 /\ IsRestored(cr) /\ AppendOnly(conf) /\ data[i].aof = {}
                        THEN {"aof"} ELSE {})
                  \cup (IF Resetting THEN {"reset"} ELSE {})
  /\ UNCHANGED <<cr, cache, queued, backup, op, conf, rclone, used>>

\* A pod is shut down: Redis saves its data; only a volume outlives the pod.
Stop(i, k) ==
  /\ pods' = [pods EXCEPT ![i][k] = NoPod]
  /\ data' = IF k # 0 THEN data
             ELSE [data EXCEPT ![i] =
                     IF "redis-data" \in pods[i][k].template.volumes
                     THEN [@ EXCEPT !.rdb = "none", !.aof = {}]
                     ELSE [@ EXCEPT !.rdb = data[i].mem]]
  /\ torn' = torn \cup (IF Resetting THEN {"reset"} ELSE {})
  /\ UNCHANGED <<cr, cache, queued, backup, op, conf, rclone, sts>>

AllReady(i) == \A k \in 0 .. sts[i].replicas - 1 : IsUp(<<i, k>>)

Surplus(i) == {k \in Ordinal : IsUp(<<i, k>>) /\ k >= sts[i].replicas}

ScaleIn(i) ==
  /\ Exists(i)
  /\ Surplus(i) # {}
  /\ Stop(i, Max(Surplus(i)))
  /\ UNCHANGED used

Outdated(i) == {k \in Ordinal : IsUp(<<i, k>>) /\ pods[i][k].template # sts[i].template}

RollPod(i) ==
  /\ Exists(i)
  /\ AllReady(i) /\ Surplus(i) = {} /\ Outdated(i) # {}
  /\ Stop(i, Max(Outdated(i)))
  /\ UNCHANGED used

Evict(i, k) ==
  /\ IsUp(<<i, k>>)
  /\ Budget("mishaps", MaxMishaps)
  /\ Stop(i, k)

-----------------------------------------------------------------------------
NewSpec == [restore : BOOLEAN, size : 1 .. MaxSize, replicas : Ordinal,
            image : Image \cup {NoImage}, complete : BOOLEAN,
            secret : Secret \cup {NoSecret}, config : Config]

NoData == [rdb |-> "none", aof |-> {}, mem |-> "none", acked |-> FALSE]

SteadySts(c) ==
  [replicas |-> c.spec.replicas + 1, template |-> Template(c), current |-> Template(c)]

SteadyPod(c) ==
  [up |-> TRUE, template |-> Template(c), auth |-> c.spec.secret, file |-> c.spec.secret,
   aof |-> AppendOnly(generateRedisConfContent(c.spec.config))]

\* The cluster has just been created, or it is one that was created without a
\* backup and is running.
Init ==
  /\ \E s \in NewSpec, st \in {"", "OK"} :
       cr = [spec |-> s, status |-> [phase |-> "", backup |-> FALSE, state |-> st]]
  /\ cr.status.state = "OK" =>
       ~cr.spec.restore /\ cr.spec = DefaultSpec(cr.spec)
  /\ cache = [obj |-> cr, fresh |-> TRUE]
  /\ queued = TRUE
  /\ backup \in [phase : {"Running", "Succeeded"}, size : 1 .. MaxSize,
                  replicas : Ordinal, image : Image]
  /\ op = Idle
  /\ rclone = FALSE
  /\ torn = {}
  /\ used = [mishaps |-> 0, edits |-> 0]
  /\ LET run(i, k) == cr.status.state = "OK" /\ i < cr.spec.size /\ k <= cr.spec.replicas
     IN  /\ conf = IF run(0, 0) THEN generateRedisConfContent(cr.spec.config) ELSE NoConf
         /\ sts = [i \in Index |-> IF run(i, 0) THEN SteadySts(cr) ELSE NoSts]
         /\ pods = [i \in Index |-> [k \in Ordinal |->
                      IF run(i, k) THEN SteadyPod(cr) ELSE NoPod]]
         /\ data = [i \in Index |-> NoData]

Reconcile ==
  \/ Start \/ initRestore \/ validateAndSetDefault
  \/ resetClusterPassword \/ ExecCommandInPodSet \/ ResetPassword
  \/ ensureRedisStatefulset \/ waitStatefulSetUpdating
  \/ waitPodReady \/ MarkRestart \/ UpdateRedisStatefulsets \/ MarkSucceeded
  \/ RaiseReplicas \/ SetConfigIfNeed \/ Finish

StatefulSetController(i) == ScaleIn(i) \/ RollPod(i) \/ \E k \in Ordinal : StartPod(i, k)

Next ==
  \/ Reconcile \/ CallFails \/ Crash
  \/ UpdateFunc \/ BackupSucceeds \/ UserEdits \/ ClientWrites
  \/ \E i \in Index :
       \/ StatefulSetController(i)
       \/ \E k \in Ordinal : Evict(i, k)

Spec == Init /\ [][Next]_vars

\* The work queue hands every queued cluster to a worker, watches deliver, and
\* Kubernetes rolls out what it was asked to.
Fairness ==
  /\ WF_vars(Reconcile)
  /\ WF_vars(UpdateFunc)
  /\ \A i \in Index : WF_vars(StatefulSetController(i))

FairSpec == Spec /\ Fairness

-----------------------------------------------------------------------------
(* Properties.                                                             *)

AnyImage == Image \cup {NoImage, DefaultImage}

Password == Secret \cup {NoSecret}

StoredSpec == [restore : BOOLEAN, size : 1 .. MaxSize, replicas : Ordinal, image : AnyImage,
               complete : BOOLEAN, secret : Password, config : Config]

Phase == {"", "Running", "Restart", "Succeeded"}

State == {"", "OK", "KO", "Scaling", "Updating", "ResetPassword"}

StoredStatus == [phase : Phase, backup : BOOLEAN, state : State]

StoredCluster == [spec : StoredSpec, status : StoredStatus]

Torn == {"init", "restart", "stale", "succeed", "reset", "skipped", "aof", "stop", "noevent"}

\* The type of the state: what is stored, cached and running.
TypeOK ==
  /\ cr \in StoredCluster
  /\ cache \in [obj : StoredCluster, fresh : BOOLEAN]
  /\ cache.fresh => cache.obj = cr
  /\ op = Idle \/ op.inst \in StoredCluster
  /\ \A p \in Up : At(p).auth \in Password
  /\ \A i \in Index : Exists(i) => sts[i].replicas \in 1 .. MaxReplicas + 1
  /\ torn \subseteq Torn

\* A cluster is never dropped from the work queue with work left, except where
\* Reconcile gives up (StopRetry) or relies on an event that does not come:
\* every other way out of Reconcile queues it again.
NotForgotten ==
  (op.pc = "idle" /\ ~queued /\ torn \cap {"stop", "noevent"} = {})
    => cache.obj.spec # cr.spec

\* A restore that is called Succeeded has the backup's masters, an image that
\* somebody chose, and the backup's slaves, unless the operator was stopped
\* between the write of the phase and the write of the spec that goes with it
\* (initRestore, and the Restart branch of Reconcile).
RestoredShape ==
  (IsRestoreFromBackup(cr) /\ IsRestored(cr)) =>
    /\ "init" \notin torn => /\ cr.spec.size = Max({backup.size, MinMasterSize})
                             /\ cr.spec.image \in Image
    /\ (op.pc # "raise" /\ "succeed" \notin torn) => cr.spec.replicas = backup.replicas

\* Once the restore has succeeded every master has the restored data and every
\* write that was answered since: no pod is started with the init container or
\* loads an append only file that was never written.  It takes volumes, all
\* StatefulSets rewritten after the phase Restart and none of them again by a
\* Reconcile that read the phase Running from its cache, and no master started between
\* the ConfigMap saying "appendonly yes" and its Redis having been told so.
DataKept ==
  (IsRestoreFromBackup(cr) /\ IsRestored(cr) /\ torn \cap {"init", "restart", "stale", "aof"} = {}) =>
    \A i \in 0 .. backup.size - 1 :
      IsUp(<<i, 0>>) => data[i].mem = IF data[i].acked THEN "newer" ELSE "backup"

\* The ConfigMap has the configuration that the nodes are set to, unless it was
\* written empty: isRedisConfChanged takes one entry for the empty line.
ConfFollows ==
  (op.pc = "finish" /\ conf # {}) => conf = generateRedisConfContent(op.inst.spec.config)

\* When Kubernetes stops a pod, the password that shutdown.sh reads opens the
\* other pods of its StatefulSet, so that a master can hand over to its slave: a
\* password reset reaches all nodes and files before any pod is replaced.  It takes
\* resets that end and during which no pod starts or stops, no StatefulSet
\* above the size, and no secret written to a StatefulSet without a reset.
FailoverOpens ==
  [][\A i \in Index : \A k, j \in Ordinal :
       (/\ IsUp(<<i, k>>) /\ pods'[i][k] = NoPod
        /\ k # j /\ IsUp(<<i, j>>)
        /\ torn' \cap {"reset", "skipped"} = {})
         => shutdown(pods[i][k].file, pods[i][j].auth)]_vars

\* No connection with the StatefulSets' password reaches the nodes any more: all
\* of them have another one, or, from no password, one of them has.
Locked ==
  /\ SecretDiffers(cr) /\ Up # {}
  /\ LET old == GetOldRedisClusterPassword(sts[0])
     IN  IF old = NoSecret THEN \E p \in Up : At(p).auth # NoSecret
                           ELSE \A p \in Up : At(p).auth # old

PasswordSettled == \A p \in Up : At(p).auth = cr.spec.secret

\* A changed password ends up on every node and stays, through failing calls,
\* crashes and evicted pods, unless a Reconcile ends in Locked or gives up.
PasswordEnds ==
  [](/\ op.pc = "idle" => ~Locked
     /\ "stop" \notin torn) => <>[]PasswordSettled

RestoreDone ==
  /\ IsRestored(cr) /\ cr.status.state = "OK"
  /\ \A i \in 0 .. backup.size - 1 :
       /\ Exists(i) /\ ~sts[i].template.init
       /\ ReadyReplicas(i) = backup.replicas + 1

\* A restore whose sequences of calls are not interrupted ends: all pods of the
\* backup's cluster run without the init container and the status is OK.
RestoreEnds ==
  (IsRestoreFromBackup(cr) /\ [](torn = {})) => <>RestoreDone

=============================================================================
