-------------------------- MODULE ClusterResources --------------------------
(***************************************************************************)
(* The objects the operator derives from a DistributedRedisCluster, and    *)
(* the comparisons that decide whether a derived object is written again:  *)
(* defaults (pkg/apis/redis/v1alpha1), StatefulSets and ConfigMaps         *)
(* (pkg/resources), and what the ensurer looks at (pkg/controller/manager).*)
(*                                                                         *)
(* A cluster is [spec, status].  The spec has the number of masters        *)
(* (size), of slaves per master (replicas), the image (which stands for    *)
(* the resources too: both are compared and both replace the pods), the    *)
(* name of the password secret, the Redis configuration (config) and       *)
(* whether the remaining defaults are filled in (complete); restore is     *)
(* Init.BackupSource # nil.  The status has the phase of the restore, the  *)
(* backup that was found and Status.Status (state).                        *)
(***************************************************************************)
EXTENDS Naturals, FiniteSets, FiniteSetsExt

CONSTANTS
  MinMasterSize,  \* minMasterSize, 3 in the code
  DefaultImage,   \* defaultRedisImage
  NoImage,        \* the empty image
  NoSecret,       \* no PasswordSecret; also the empty password
  Persistent      \* Spec.Storage is a PersistentVolumeClaim

ASSUME PersistentAssumption == Persistent \in BOOLEAN
ASSUME MinMasterSizeAssumption == MinMasterSize \in Nat \ {0}

-----------------------------------------------------------------------------
(* The phases of a restore.                                                *)

IsRestoreFromBackup(c) == c.spec.restore

IsRestored(c) == c.status.phase = "Succeeded"

ShouldInitRestorePhase(c) == c.status.phase = ""

IsRestoreRunning(c) == c.status.phase = "Running"

IsRestoreRestarting(c) == c.status.phase = "Restart"

-----------------------------------------------------------------------------
(* Defaults: the name of the service and the resources are one item here.  *)

DefaultSpec(spec) ==
  [spec EXCEPT !.size = Max({@, MinMasterSize}),
               !.image = IF @ = NoImage THEN DefaultImage ELSE @,
               !.complete = TRUE]

\* Mutant: the size is not taken over.
CopyImageFromBackup(spec, backup) ==
  [spec EXCEPT !.image = IF @ = NoImage THEN backup.image ELSE @]

\* The image and the size are taken over from the backup.
CopyFromBackup(spec, backup) ==
  [spec EXCEPT !.image = IF @ = NoImage THEN backup.image ELSE @,
               !.size = backup.size]

\* Slaves are not started before the masters are restored.
OnlyMasters(c) ==
  IF IsRestoreFromBackup(c) /\ (IsRestoreRunning(c) \/ IsRestoreRestarting(c))
  THEN [c EXCEPT !.spec.replicas = 0]
  ELSE c

-----------------------------------------------------------------------------
(* StatefulSets.  A pod template has the image and the secret of the       *)
(* password of its Redis server, whether there is an init container, and   *)
(* the names of the volumes that come with a pod and go with it.           *)

redisPassword(c) == c.spec.secret

redisServerContainer(c, password) == [image |-> c.spec.image, secret |-> password]

\* --requirepass and --masterauth; the postStart hook writes the same to a file.
getRedisCommand(t) == t.server.secret

\* A volume claim is none of the pod's volumes.
redisDataVolume == IF Persistent THEN {} ELSE {"redis-data"}

\* The backup can be, and is to be, pulled.
Restoring(c) == IsRestoreFromBackup(c) /\ IsRestoreRunning(c) /\ c.status.backup

redisVolumes(c) ==
  {"conf"} \cup redisDataVolume \cup (IF Restoring(c) THEN {"rcloneconfig"} ELSE {})

\* Mutant: the init container stays for ever.
TemplateKeepsInit(c) ==
  [server |-> redisServerContainer(c, redisPassword(c)), volumes |-> redisVolumes(c),
   init |-> IsRestoreFromBackup(c) /\ c.status.backup]

Template(c) ==
  [server |-> redisServerContainer(c, redisPassword(c)), volumes |-> redisVolumes(c),
   init |-> Restoring(c)]

\* The init container makes the data directory the same as the backup before
\* Redis starts, each time: REDIS_RESTORE_SUCCEEDED is never set.
redisInitContainer(d) == [d EXCEPT !.rdb = "backup", !.aof = {}]

\* Mutant: the master is not counted.
NewStatefulSetOfSlaves(c) == [replicas |-> c.spec.replicas, template |-> Template(c)]

NewStatefulSetForCR(c) == [replicas |-> c.spec.replicas + 1, template |-> Template(c)]

\* Mutant: a first password is not a change either.
IsOtherPassword(c, ss) ==
  /\ c.spec.secret # NoSecret /\ ss.template.server.secret # NoSecret
  /\ ss.template.server.secret # c.spec.secret

\* Removing the password is not a change.
IsPasswordChanged(c, ss) ==
  /\ c.spec.secret # NoSecret
  /\ ss.template.server.secret # c.spec.secret

GetOldRedisClusterPassword(ss) == ss.template.server.secret

GetClusterPassword(c) == c.spec.secret

\* Of the template only the image, the resources and the secret are compared.
shouldUpdateRedis(c, ss) ==
  \/ c.spec.replicas + 1 # ss.replicas
  \/ c.spec.image # ss.template.server.image
  \/ IsPasswordChanged(c, ss)

-----------------------------------------------------------------------------
(* ConfigMaps.  A configuration is a function from its keys to values; the *)
(* content of redis.conf is the set of its lines, <<key, value>>.          *)

generateRedisConfContent(config) ==
  {<<k, config[k]>> : k \in {k \in DOMAIN config : config[k] # ""}}

\* Mutant: values are not compared.
isRedisConfResized(content, config) ==
  Max({Cardinality(content), 1}) # Cardinality(DOMAIN config)

\* Splitting an empty content yields one empty line, which is only logged.
isRedisConfChanged(content, config) ==
  \/ Max({Cardinality(content), 1}) # Cardinality(DOMAIN config)
  \/ \E line \in content :
       \/ line[1] \notin DOMAIN config
       \/ config[line[1]] # line[2]

\* shutdown.sh, the preStop hook of a master: CLUSTER FAILOVER at its slave, with
\* the password in the file if there is one.  A node without a password lets
\* everybody in.
shutdown(file, auth) == file = auth \/ auth = NoSecret

\* "appendonly no" while a restore is not finished.
dbLoadedFromDiskWhenRestore(c) ==
  IF IsRestoreFromBackup(c) /\ ~IsRestored(c) /\ DOMAIN c.spec.config # {}
  THEN [k \in DOMAIN c.spec.config \cup {"appendonly"} |->
          IF k = "appendonly" THEN "no" ELSE c.spec.config[k]]
  ELSE c.spec.config

\* The content makes Redis keep, and load, an append only file.
AppendOnly(content) == <<"appendonly", "yes">> \in content

-----------------------------------------------------------------------------
(* The admission webhook: what may be changed while the cluster is busy.   *)

compareObj(new, old) ==
  \/ new.size # old.size
  \/ new.image # old.image
  \/ new.secret # old.secret

ValidateUpdate(new, old) ==
  compareObj(new, old.spec) => old.status.state \in {"", "OK"}

=============================================================================
