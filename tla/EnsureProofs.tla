---------------------------- MODULE EnsureProofs ----------------------------
(***************************************************************************)
(* Proofs about EnsureCluster for any number of masters and slaves, any    *)
(* images, secrets and configurations, and any number of failing calls,    *)
(* crashes, evicted pods and edits.                                        *)
(***************************************************************************)
EXTENDS EnsureCluster, FiniteSetTheorems, TLAPS

(***************************************************************************)
(* Types.                                                                  *)
(***************************************************************************)
Mid == {"password", "exec", "reset", "sts", "wait", "services", "restore"}

Step == Mid \cup {"init", "default", "removeInit", "raise", "finish"}

Pass == [pc : Step, inst : StoredCluster, fresh : BOOLEAN, initRestore : BOOLEAN,
         i : Index, updated : BOOLEAN, podSet : SUBSET Pod, pool : SUBSET Pod,
         old : Password]

View == [obj : StoredCluster, fresh : BOOLEAN]

Source == [phase : {"Running", "Succeeded"}, size : 1 .. MaxSize, replicas : Ordinal,
           image : Image]

Server == [image : AnyImage, secret : Password]

Volumes == SUBSET {"conf", "redis-data", "rcloneconfig"}

PodTemplate == [server : Server, volumes : Volumes, init : BOOLEAN]

StatefulSet == [replicas : 1 .. MaxReplicas + 1, template : PodTemplate,
                current : PodTemplate]

MaybeSts == StatefulSet \cup {NoSts}

RunningPod == [up : {TRUE}, template : PodTemplate, auth : Password, file : Password,
               aof : BOOLEAN]

MaybePod == RunningPod \cup {NoPod}

(***************************************************************************)
(* The types, with what the loop over the StatefulSets needs: it stays     *)
(* below the size of the pass's own copy.                                  *)
(***************************************************************************)
ClusterTyped == cr \in StoredCluster /\ cache \in View /\ backup \in Source

OpTyped ==
  /\ op = Idle \/ op \in Pass
  /\ op.pc \in {"init", "default", "password", "exec", "reset"} => op.i = 0
  /\ op.pc \in {"sts", "removeInit"} => op.i < op.inst.spec.size

KubeTyped ==
  /\ sts \in [Index -> MaybeSts]
  /\ pods \in [Index -> [Ordinal -> MaybePod]]

CacheOK == cache.fresh => cache.obj = cr

TInv ==
  /\ ClusterTyped
  /\ OpTyped
  /\ KubeTyped
  /\ torn \subseteq Torn
  /\ CacheOK

-----------------------------------------------------------------------------
(***************************************************************************)
(* What the operators return.                                              *)
(***************************************************************************)
LEMMA MaxOfTwo ==
  ASSUME NEW a \in Nat, NEW b \in Nat
  PROVE  Max({a, b}) = IF a >= b THEN a ELSE b
<1>. DEFINE P(x) == x \in {a, b} /\ \A y \in {a, b} : x >= y
            m == IF a >= b THEN a ELSE b
<1>1. P(m)
  OBVIOUS
<1>2. \A x : P(x) => x = m
  OBVIOUS
<1>3. Max({a, b}) = CHOOSE x : P(x)
  BY DEF Max
<1>. QED
  BY <1>1, <1>2, <1>3

LEMMA IndexFacts ==
  /\ MaxSize \in Nat /\ MaxSize >= 1 /\ 0 \in Index
  /\ \A n \in 1 .. MaxSize : \A i \in Nat : i < n => i \in Index
  /\ \A i \in Index : i \in Nat /\ i < MaxSize
BY MaxSizeAssumption DEF Index

LEMMA StatusTyped ==
  ASSUME cr \in StoredCluster, NEW c \in StoredCluster
  PROVE  /\ StatusOf(c) \in StoredCluster
         /\ StatusOf(c).spec = cr.spec /\ StatusOf(c).status = c.status
BY DEF StatusOf, StoredCluster

LEMMA SpecTyped ==
  ASSUME cr \in StoredCluster, NEW c \in StoredCluster
  PROVE  /\ SpecOf(c) \in StoredCluster
         /\ SpecOf(c).spec = c.spec /\ SpecOf(c).status = cr.status
BY DEF SpecOf, StoredCluster

LEMMA StoredTyped ==
  ASSUME cache \in View, NEW c \in StoredCluster, Stored(c)
  PROVE  /\ cr' = c /\ cache' \in View /\ cache'.obj = cache.obj
         /\ cache'.fresh = (cache.fresh /\ c = cr)
         /\ CacheOK => CacheOK'
BY DEF Stored, View, CacheOK

(***************************************************************************)
(* A status with another phase or state.                                   *)
(***************************************************************************)
LEMMA StateTyped ==
  ASSUME NEW c \in StoredCluster, NEW state \in State
  PROVE  /\ [c EXCEPT !.status.state = state] \in StoredCluster
         /\ [c EXCEPT !.status.state = state].spec = c.spec
         /\ [c EXCEPT !.status.state = state].status.phase = c.status.phase
         /\ [c EXCEPT !.status.state = state].status.backup = c.status.backup
<1>1. c.status \in StoredStatus
  BY DEF StoredCluster
<1>. QED
  BY <1>1 DEF StoredCluster, StoredStatus

LEMMA PhaseTyped ==
  ASSUME NEW c \in StoredCluster, NEW phase \in Phase
  PROVE  /\ [c EXCEPT !.status.phase = phase] \in StoredCluster
         /\ [c EXCEPT !.status.phase = phase].spec = c.spec
         /\ [c EXCEPT !.status.phase = phase].status.phase = phase
         /\ [c EXCEPT !.status.phase = phase].status.backup = c.status.backup
<1>1. c.status \in StoredStatus
  BY DEF StoredCluster
<1>. QED
  BY <1>1 DEF StoredCluster, StoredStatus

LEMMA FoundTyped ==
  ASSUME NEW c \in StoredCluster
  PROVE  LET d == [c EXCEPT !.status.phase = "Running", !.status.backup = TRUE]
         IN  /\ d \in StoredCluster /\ d.spec = c.spec
             /\ d.status.phase = "Running" /\ d.status.backup = TRUE
<1>1. c.status \in StoredStatus
  BY DEF StoredCluster
<1>. QED
  BY <1>1 DEF StoredCluster, StoredStatus, Phase

(***************************************************************************)
(* The write of updateClusterIfNeed.                                       *)
(***************************************************************************)
LEMMA SetStateTyped ==
  ASSUME cr \in StoredCluster, cache \in View, op \in Pass,
         NEW state \in State, SetState(state)
  PROVE  /\ cr' \in StoredCluster /\ cache' \in View /\ cache'.obj = cache.obj
         /\ cr'.spec = cr.spec
         /\ CacheOK => CacheOK'
         /\ op.fresh => /\ cr'.status.phase = op.inst.status.phase
                        /\ cr'.status.backup = op.inst.status.backup
         /\ ~op.fresh => cr' = cr /\ cache' = cache
<1>. DEFINE s == [op.inst.status EXCEPT !.state = state]
            c == [cr EXCEPT !.status = s]
<1>1. /\ s \in StoredStatus /\ s.phase = op.inst.status.phase
      /\ s.backup = op.inst.status.backup
  BY DEF Pass, StoredCluster, StoredStatus
<1>2. /\ c \in StoredCluster /\ c.spec = cr.spec
      /\ c.status.phase = op.inst.status.phase /\ c.status.backup = op.inst.status.backup
  BY <1>1 DEF StoredCluster
<1>3. CASE op.fresh
  <2>1. Stored(c)
    BY <1>3 DEF SetState
  <2>. QED
    BY <1>2, <1>3, <2>1, StoredTyped
<1>4. CASE ~op.fresh
  BY <1>4 DEF SetState, CacheOK
<1>. QED
  BY <1>3, <1>4 DEF Pass

(***************************************************************************)
(* The StatefulSets derived from a cluster.                                *)
(***************************************************************************)
LEMMA TemplateTyped ==
  ASSUME NEW c \in StoredCluster
  PROVE  Template(c) \in PodTemplate
<1>1. c.spec \in StoredSpec
  BY DEF StoredCluster
<1>2. redisServerContainer(c, redisPassword(c)) \in Server
  BY <1>1 DEF redisServerContainer, redisPassword, Server, StoredSpec
<1>3. redisVolumes(c) \in Volumes
  BY DEF redisVolumes, redisDataVolume, Volumes
<1>4. Restoring(c) \in BOOLEAN
  BY DEF Restoring, IsRestoreFromBackup, IsRestoreRunning, StoredCluster, StoredSpec,
         StoredStatus
<1>. QED
  BY <1>2, <1>3, <1>4 DEF Template, PodTemplate

LEMMA NewStsTyped ==
  ASSUME NEW c \in StoredCluster
  PROVE  LET ss == NewStatefulSetForCR(c)
         IN  ss.replicas \in 1 .. MaxReplicas + 1 /\ ss.template \in PodTemplate
<1>1. c.spec.replicas \in 0 .. MaxReplicas
  BY DEF StoredCluster, StoredSpec, Ordinal
<1>2. c.spec.replicas + 1 \in 1 .. MaxReplicas + 1
  BY <1>1, MaxReplicasAssumption
<1>. QED
  BY <1>2, TemplateTyped DEF NewStatefulSetForCR

LEMMA StsTyped ==
  ASSUME sts \in [Index -> MaybeSts], NEW i \in Index, Exists(i)
  PROVE  sts[i] \in StatefulSet
BY DEF MaybeSts, Exists

LEMMA PodTyped ==
  ASSUME pods \in [Index -> [Ordinal -> MaybePod]], NEW i \in Index, NEW k \in Ordinal,
         IsUp(<<i, k>>)
  PROVE  pods[i][k] \in RunningPod
<1>1. pods[i][k] \in MaybePod /\ pods[i][k] # NoPod
  BY DEF IsUp
<1>. QED
  BY <1>1 DEF MaybePod

LEMMA WriteTyped ==
  ASSUME sts \in [Index -> MaybeSts], NEW i \in Index, NEW c \in StoredCluster,
         Write(i, NewStatefulSetForCR(c))
  PROVE  sts' \in [Index -> MaybeSts]
<1>. DEFINE ss == NewStatefulSetForCR(c)
            current == IF Exists(i) /\ ~RolledOut(ss, pods[i]) THEN sts[i].current
                                                           ELSE ss.template
            new == [replicas |-> ss.replicas, template |-> ss.template, current |-> current]
<1>1. ss.replicas \in 1 .. MaxReplicas + 1 /\ ss.template \in PodTemplate
  BY NewStsTyped
<1>2. current \in PodTemplate
  BY <1>1, StsTyped DEF StatefulSet
<1>3. new \in MaybeSts
  BY <1>1, <1>2 DEF MaybeSts, StatefulSet
<1>4. sts' = [sts EXCEPT ![i] = new]
  BY DEF Write
<1>. QED
  BY <1>3, <1>4

(***************************************************************************)
(* The defaults and what is taken over from the backup.                    *)
(***************************************************************************)
LEMMA SizeTyped ==
  ASSUME NEW n \in 1 .. MaxSize
  PROVE  Max({n, MinMasterSize}) \in 1 .. MaxSize
<1>1. n \in Nat /\ MinMasterSize \in Nat /\ MaxSize \in Nat
  BY MaxSizeAssumption, MinMasterSizeAssumption
<1>2. Max({n, MinMasterSize}) = IF n >= MinMasterSize THEN n ELSE MinMasterSize
  BY <1>1, MaxOfTwo
<1>. QED
  BY <1>1, <1>2, SizesAssumption, MinMasterSizeAssumption

LEMMA DefaultTyped ==
  ASSUME NEW s \in StoredSpec
  PROVE  LET d == DefaultSpec(s)
         IN  /\ d \in StoredSpec
             /\ d.restore = s.restore /\ d.replicas = s.replicas
             /\ d.secret = s.secret /\ d.config = s.config
             /\ d.size = Max({s.size, MinMasterSize})
             /\ d.image = IF s.image = NoImage THEN DefaultImage ELSE s.image
             /\ d # s => d.size # s.size \/ d.image # s.image \/ d.complete # s.complete
<1>. DEFINE d == DefaultSpec(s)
            size == Max({s.size, MinMasterSize})
            image == IF s.image = NoImage THEN DefaultImage ELSE s.image
<1>1. size \in 1 .. MaxSize
  BY SizeTyped DEF StoredSpec
<1>2. image \in AnyImage
  BY DEF StoredSpec, AnyImage
<1>3. d = [s EXCEPT !.size = size, !.image = image, !.complete = TRUE]
  BY DEF DefaultSpec
<1>4. d \in StoredSpec
  BY <1>1, <1>2, <1>3 DEF StoredSpec
<1>5. /\ d.restore = s.restore /\ d.replicas = s.replicas
      /\ d.secret = s.secret /\ d.config = s.config
      /\ d.size = size /\ d.image = image
  BY <1>3 DEF StoredSpec
<1>6. (d.size = s.size /\ d.image = s.image /\ d.complete = s.complete) => d = s
  BY <1>4, <1>5 DEF StoredSpec
<1>. QED
  BY <1>4, <1>5, <1>6

LEMMA CopyTyped ==
  ASSUME NEW s \in StoredSpec, backup \in Source
  PROVE  LET d == CopyFromBackup(s, backup)
         IN  /\ d \in StoredSpec
             /\ d.restore = s.restore /\ d.replicas = s.replicas
             /\ d.secret = s.secret /\ d.config = s.config
             /\ d.size = backup.size
             /\ d.image = IF s.image = NoImage THEN backup.image ELSE s.image
<1>. DEFINE d == CopyFromBackup(s, backup)
            image == IF s.image = NoImage THEN backup.image ELSE s.image
<1>1. image \in AnyImage /\ backup.size \in 1 .. MaxSize
  BY DEF StoredSpec, AnyImage, Source
<1>2. d = [s EXCEPT !.image = image, !.size = backup.size]
  BY DEF CopyFromBackup
<1>. QED
  BY <1>1, <1>2 DEF StoredSpec

LEMMA OnlyMastersTyped ==
  ASSUME NEW c \in StoredCluster
  PROVE  LET d == OnlyMasters(c)
         IN  /\ d \in StoredCluster /\ d.status = c.status
             /\ d.spec.restore = c.spec.restore /\ d.spec.config = c.spec.config
             /\ d.spec.secret = c.spec.secret
             /\ d.spec.size = c.spec.size /\ d.spec.image = c.spec.image
             /\ d.spec.complete = c.spec.complete
             /\ c.status.phase \notin {"Running", "Restart"} => d = c
<1>. DEFINE d == [c EXCEPT !.spec.replicas = 0]
<1>1. c.spec \in StoredSpec /\ 0 \in Ordinal
  BY MaxReplicasAssumption DEF StoredCluster, Ordinal
<1>2. d.spec = [c.spec EXCEPT !.replicas = 0] /\ d.status = c.status
  BY DEF StoredCluster
<1>3. d.spec \in StoredSpec
  BY <1>1, <1>2 DEF StoredSpec
<1>4. d \in StoredCluster
  BY <1>2, <1>3 DEF StoredCluster
<1>. QED
  BY <1>1, <1>2, <1>4 DEF OnlyMasters, IsRestoreRunning, IsRestoreRestarting, StoredSpec

LEMMA CopiedFacts ==
  ASSUME op \in Pass, backup \in Source
  PROVE  /\ Copied \in StoredSpec
         /\ Copied.restore = op.inst.spec.restore /\ Copied.config = op.inst.spec.config
         /\ Copied.replicas = op.inst.spec.replicas /\ Copied.secret = op.inst.spec.secret
         /\ ~op.initRestore => Copied = op.inst.spec
         /\ op.initRestore => /\ Copied.size = backup.size
                              /\ Copied.image = IF op.inst.spec.image = NoImage
                                                THEN backup.image ELSE op.inst.spec.image
<1>1. op.inst.spec \in StoredSpec
  BY DEF Pass, StoredCluster
<1>. QED
  BY <1>1, CopyTyped DEF Copied

LEMMA MastersFacts ==
  ASSUME op \in Pass, backup \in Source
  PROVE  /\ Masters \in StoredCluster /\ Masters.status = op.inst.status
         /\ Masters.spec.restore = op.inst.spec.restore
         /\ Masters.spec.config = op.inst.spec.config
         /\ Masters.spec.secret = op.inst.spec.secret
         /\ Masters.spec.size = Copied.size /\ Masters.spec.image = Copied.image
         /\ Masters.spec.complete = Copied.complete
         /\ op.inst.status.phase \notin {"Running", "Restart"} => Masters.spec = Copied
<1>. DEFINE c == [op.inst EXCEPT !.spec = Copied]
<1>1. op.inst \in StoredCluster
  BY DEF Pass
<1>2. c \in StoredCluster /\ c.spec = Copied /\ c.status = op.inst.status
  BY <1>1, CopiedFacts DEF StoredCluster
<1>3. Masters = OnlyMasters(c)
  BY DEF Masters
<1>. HIDE DEF c
<1>4. /\ Masters \in StoredCluster /\ Masters.status = c.status
      /\ Masters.spec.restore = c.spec.restore /\ Masters.spec.config = c.spec.config
      /\ Masters.spec.secret = c.spec.secret
      /\ Masters.spec.size = c.spec.size /\ Masters.spec.image = c.spec.image
      /\ Masters.spec.complete = c.spec.complete
      /\ c.status.phase \notin {"Running", "Restart"} => Masters = c
  BY <1>2, <1>3, OnlyMastersTyped
<1>. QED
  BY <1>2, <1>4, CopiedFacts

LEMMA DefaultedFacts ==
  ASSUME op \in Pass, backup \in Source
  PROVE  /\ Defaulted \in StoredCluster /\ Defaulted.status = op.inst.status
         /\ Defaulted.spec.restore = op.inst.spec.restore
         /\ Defaulted.spec.config = op.inst.spec.config
         /\ Defaulted.spec.secret = op.inst.spec.secret
         /\ Defaulted.spec.size = Max({Copied.size, MinMasterSize})
         /\ Defaulted.spec.image = IF Copied.image = NoImage THEN DefaultImage
                                                             ELSE Copied.image
         /\ op.inst.status.phase \notin {"Running", "Restart"} =>
              Defaulted.spec.replicas = op.inst.spec.replicas
         /\ ~op.initRestore /\ NeedsUpdate =>
              \/ Defaulted.spec.size # op.inst.spec.size
              \/ Defaulted.spec.image # op.inst.spec.image
              \/ Defaulted.spec.complete # op.inst.spec.complete
<1>. DEFINE d == DefaultSpec(Masters.spec)
<1>1. Masters \in StoredCluster /\ Masters.spec \in StoredSpec
  BY MastersFacts DEF StoredCluster
<1>2. Defaulted = [Masters EXCEPT !.spec = d]
  BY DEF Defaulted
<1>3. /\ d \in StoredSpec
      /\ d.restore = Masters.spec.restore /\ d.replicas = Masters.spec.replicas
      /\ d.config = Masters.spec.config /\ d.secret = Masters.spec.secret
      /\ d.size = Max({Masters.spec.size, MinMasterSize})
      /\ d.image = IF Masters.spec.image = NoImage THEN DefaultImage ELSE Masters.spec.image
      /\ d # Masters.spec => \/ d.size # Masters.spec.size
                             \/ d.image # Masters.spec.image
                             \/ d.complete # Masters.spec.complete
  BY <1>1, DefaultTyped
<1>4. /\ Defaulted \in StoredCluster /\ Defaulted.spec = d
      /\ Defaulted.status = Masters.status
      /\ d = Masters.spec => Defaulted = Masters
  BY <1>1, <1>2, <1>3 DEF StoredCluster
<1>5. /\ Defaulted.status = op.inst.status
      /\ Defaulted.spec.restore = op.inst.spec.restore
      /\ Defaulted.spec.config = op.inst.spec.config
      /\ Defaulted.spec.secret = op.inst.spec.secret
      /\ Defaulted.spec.size = Max({Copied.size, MinMasterSize})
      /\ Defaulted.spec.image = IF Copied.image = NoImage THEN DefaultImage ELSE Copied.image
  BY <1>3, <1>4, MastersFacts
<1>6. ASSUME op.inst.status.phase \notin {"Running", "Restart"}
      PROVE  Defaulted.spec.replicas = op.inst.spec.replicas
  BY <1>3, <1>4, <1>6, MastersFacts, CopiedFacts
<1>7. ASSUME ~op.initRestore, NeedsUpdate
      PROVE  \/ Defaulted.spec.size # op.inst.spec.size
             \/ Defaulted.spec.image # op.inst.spec.image
             \/ Defaulted.spec.complete # op.inst.spec.complete
  <2>1. Copied = op.inst.spec /\ Defaulted # Masters
    BY <1>7, CopiedFacts DEF NeedsUpdate
  <2>. QED
    BY <1>3, <1>4, <2>1, MastersFacts
<1>. QED
  BY <1>4, <1>5, <1>6, <1>7

LEMMA InPass ==
  ASSUME OpTyped
  PROVE  /\ op.pc # "idle" <=> op \in Pass
         /\ op.pc # "idle" => op.pc \in Step
         /\ op.pc = "idle" <=> op = Idle
BY DEF OpTyped, Pass, Step, Mid, Idle

-----------------------------------------------------------------------------
(***************************************************************************)
(* Type correctness, one action after the other.  A pass that ends leaves  *)
(* nothing to say of its state.                                            *)
(***************************************************************************)
LEMMA IdleTyped ==
  ASSUME op' = Idle
  PROVE  OpTyped'
BY DEF OpTyped, Idle

LEMMA InterruptionTyped == Interruption \subseteq Torn
BY DEF Interruption, Torn

LEMMA LeaveTInv ==
  ASSUME TInv, op' = Idle, KubeTyped', torn' \subseteq Torn, UNCHANGED backup,
         \/ UNCHANGED <<cr, cache>>
         \/ op \in Pass /\ \E state \in State : SetState(state)
  PROVE  TInv'
<1>1. CASE UNCHANGED <<cr, cache>>
  BY <1>1, IdleTyped DEF TInv, ClusterTyped, CacheOK
<1>2. ASSUME op \in Pass, NEW state \in State, SetState(state)
      PROVE  TInv'
  <2>1. cr' \in StoredCluster /\ cache' \in View /\ CacheOK'
    BY <1>2, SetStateTyped DEF TInv, ClusterTyped
  <2>. QED
    BY <2>1, IdleTyped DEF TInv, ClusterTyped
<1>. QED
  BY <1>1, <1>2

LEMMA StartTInv ==
  ASSUME TInv, Start
  PROVE  TInv'
<1>1. op' \in Pass
  <2>1. cache.obj \in StoredCluster /\ cache.fresh \in BOOLEAN /\ 0 \in Index
        /\ NoSecret \in Password
    BY IndexFacts DEF TInv, ClusterTyped, View, Password
  <2>. QED
    BY <2>1 DEF Start, Pass, Step, Mid
<1>2. op'.pc \in {"init", "default"} /\ op'.i = 0
  BY DEF Start
<1>3. OpTyped'
  BY <1>1, <1>2 DEF OpTyped
<1>. QED
  BY <1>3 DEF TInv, ClusterTyped, KubeTyped, CacheOK, Start, Kube

LEMMA initRestoreTInv ==
  ASSUME TInv, initRestore
  PROVE  TInv'
<1>1. op \in Pass /\ op.i = 0
  BY InPass DEF TInv, OpTyped, initRestore
<1>2. KubeTyped' /\ backup' \in Source
  BY DEF TInv, ClusterTyped, KubeTyped, initRestore, Kube
<1>3. CASE StopRetry
  BY <1>2, <1>3, IdleTyped, InterruptionTyped
     DEF TInv, ClusterTyped, StopRetry, Leave, CacheOK, Torn
<1>4. CASE /\ op.fresh
           /\ LET c == StatusOf([op.inst EXCEPT !.status.phase = "Running",
                                                !.status.backup = TRUE])
              IN  /\ Stored(c)
                  /\ op' = [op EXCEPT !.pc = "default", !.inst = c, !.initRestore = TRUE]
           /\ UNCHANGED <<queued, torn>>
  <2>. DEFINE d == [op.inst EXCEPT !.status.phase = "Running", !.status.backup = TRUE]
              c == StatusOf(d)
  <2>1. c \in StoredCluster
    BY <1>1, FoundTyped, StatusTyped DEF TInv, ClusterTyped, Pass
  <2>2. op' \in Pass /\ op'.pc = "default" /\ op'.i = 0
    BY <1>1, <1>4, <2>1 DEF Pass, Step
  <2>3. OpTyped'
    BY <2>2 DEF OpTyped
  <2>4. cr' \in StoredCluster /\ cache' \in View /\ CacheOK'
    BY <1>4, <2>1, StoredTyped DEF TInv, ClusterTyped
  <2>. QED
    BY <1>2, <1>4, <2>3, <2>4 DEF TInv, ClusterTyped
<1>. QED
  BY <1>3, <1>4 DEF initRestore

LEMMA validateAndSetDefaultTInv ==
  ASSUME TInv, validateAndSetDefault
  PROVE  TInv'
<1>1. op \in Pass /\ op.i = 0 /\ Defaulted \in StoredCluster
  BY InPass, DefaultedFacts DEF TInv, ClusterTyped, OpTyped, validateAndSetDefault
<1>2. KubeTyped' /\ backup' \in Source
  BY DEF TInv, ClusterTyped, KubeTyped, validateAndSetDefault, Kube
<1>3. CASE StopRetry
  BY <1>2, <1>3, IdleTyped, InterruptionTyped
     DEF TInv, ClusterTyped, StopRetry, Leave, CacheOK, Torn
<1>4. CASE /\ IF NeedsUpdate THEN Stored(SpecOf(Defaulted)) ELSE UNCHANGED <<cr, cache>>
           /\ Goto("password", Defaulted)
           /\ UNCHANGED <<queued, torn>>
  <2>1. SpecOf(Defaulted) \in StoredCluster
    BY <1>1, SpecTyped DEF TInv, ClusterTyped
  <2>2. op' \in Pass /\ op'.pc = "password" /\ op'.i = 0
    BY <1>1, <1>4 DEF Goto, Pass, Step, Mid
  <2>3. OpTyped'
    BY <2>2 DEF OpTyped
  <2>4. cr' \in StoredCluster /\ cache' \in View /\ CacheOK'
    BY <1>4, <2>1, StoredTyped DEF TInv, ClusterTyped, CacheOK
  <2>. QED
    BY <1>2, <1>4, <2>3, <2>4 DEF TInv, ClusterTyped
<1>. QED
  BY <1>3, <1>4 DEF validateAndSetDefault

LEMMA SetFileTyped ==
  ASSUME KubeTyped, NEW ps, NEW password \in Password, SetFile(ps, password),
         UNCHANGED sts
  PROVE  KubeTyped'
<1>1. ASSUME NEW i \in Index, NEW k \in Ordinal, IsUp(<<i, k>>)
      PROVE  [pods[i][k] EXCEPT !.file = password] \in MaybePod
  <2>1. pods[i][k] \in RunningPod
    BY <1>1, PodTyped DEF KubeTyped
  <2>2. [pods[i][k] EXCEPT !.file = password] \in RunningPod
    BY <2>1 DEF RunningPod
  <2>. QED
    BY <2>2 DEF MaybePod
<1>. QED
  BY <1>1 DEF KubeTyped, SetFile

LEMMA resetClusterPasswordTInv ==
  ASSUME TInv, resetClusterPassword
  PROVE  TInv'
<1>1. op \in Pass /\ op.i = 0 /\ op.inst \in StoredCluster /\ op.inst.spec.size \in 1 .. MaxSize
  BY InPass DEF TInv, OpTyped, resetClusterPassword, Pass, StoredCluster, StoredSpec
<1>2. KubeTyped' /\ backup' \in Source /\ torn' \subseteq Torn
  BY DEF TInv, ClusterTyped, KubeTyped, resetClusterPassword, Kube, Torn
<1>3. CASE Goto("sts", op.inst) /\ UNCHANGED <<cr, cache>>
  <2>1. op' \in Pass /\ op'.pc = "sts" /\ op'.i = 0 /\ op'.inst = op.inst
    BY <1>1, <1>3 DEF Goto, Pass, Step, Mid
  <2>2. OpTyped'
    BY <1>1, <2>1 DEF OpTyped
  <2>. QED
    BY <1>2, <1>3, <2>2 DEF TInv, ClusterTyped, CacheOK
<1>4. CASE CheckRedisNodeNum(op.inst) /\ IsPasswordChanged(op.inst, sts[0])
  <2>. DEFINE c == [op.inst EXCEPT !.status.state = "ResetPassword"]
              old == GetOldRedisClusterPassword(sts[0])
              inst == IF op.fresh THEN StatusOf(c) ELSE c
  <2>1. c \in StoredCluster /\ StatusOf(c) \in StoredCluster /\ inst \in StoredCluster
    <3>1. "ResetPassword" \in State
      BY DEF State
    <3>2. c \in StoredCluster
      BY <1>1, <3>1, StateTyped
    <3>3. StatusOf(c) \in StoredCluster
      BY <3>2, StatusTyped DEF TInv, ClusterTyped
    <3>. QED
      BY <3>2, <3>3
  <2>2. old \in Password
    <3>1. Exists(0)
      BY <1>1, <1>4 DEF CheckRedisNodeNum
    <3>2. sts[0] \in StatefulSet
      BY <3>1, StsTyped, IndexFacts DEF TInv, KubeTyped
    <3>. QED
      BY <3>2 DEF GetOldRedisClusterPassword, StatefulSet, PodTemplate, Server
  <2>3. Up \in SUBSET Pod /\ Connections(Up, old) \in SUBSET Pod
    BY DEF Up, Connections
  <2>4. op' = [op EXCEPT !.pc = "exec", !.podSet = Up, !.old = old, !.inst = inst,
                         !.pool = Connections(Up, old)]
    BY <1>4 DEF resetClusterPassword
  <2>5. op' \in Pass /\ op'.pc = "exec" /\ op'.i = 0
    BY <1>1, <2>1, <2>2, <2>3, <2>4 DEF Pass, Step, Mid
  <2>6. OpTyped'
    BY <2>5 DEF OpTyped
  <2>7. IF op.fresh THEN Stored(StatusOf(c)) ELSE UNCHANGED <<cr, cache>>
    BY <1>4 DEF resetClusterPassword
  <2>8. cr' \in StoredCluster /\ cache' \in View /\ CacheOK'
    BY <2>1, <2>7, StoredTyped DEF TInv, ClusterTyped, CacheOK
  <2>. QED
    BY <1>2, <2>6, <2>8 DEF TInv, ClusterTyped
<1>. QED
  BY <1>3, <1>4 DEF resetClusterPassword

LEMMA ExecCommandInPodSetTInv ==
  ASSUME TInv, ExecCommandInPodSet
  PROVE  TInv'
<1>1. op \in Pass /\ op.i = 0 /\ op.inst \in StoredCluster
  BY InPass DEF TInv, OpTyped, ExecCommandInPodSet, Pass
<1>2. KubeTyped'
  <2>1. GetClusterPassword(op.inst) \in Password
    BY <1>1 DEF GetClusterPassword, StoredCluster, StoredSpec
  <2>. QED
    BY <2>1, SetFileTyped DEF ExecCommandInPodSet, TInv
<1>3. CASE Requeue
  BY <1>1, <1>2, <1>3, LeaveTInv DEF ExecCommandInPodSet, TInv, Requeue, Leave, State
<1>4. CASE Goto("reset", op.inst) /\ UNCHANGED <<cr, cache, queued>>
  <2>1. op' \in Pass /\ op'.pc = "reset" /\ op'.i = 0
    BY <1>1, <1>4 DEF Goto, Pass, Step, Mid
  <2>2. OpTyped'
    BY <2>1 DEF OpTyped
  <2>. QED
    BY <1>2, <1>4, <2>2 DEF TInv, ClusterTyped, CacheOK, ExecCommandInPodSet
<1>. QED
  BY <1>3, <1>4 DEF ExecCommandInPodSet

LEMMA ResetPasswordTInv ==
  ASSUME TInv, ResetPassword
  PROVE  TInv'
<1>1. /\ op \in Pass /\ op.i = 0 /\ op.inst \in StoredCluster
      /\ op.inst.spec.size \in 1 .. MaxSize
  BY InPass DEF TInv, OpTyped, ResetPassword, Pass, StoredCluster, StoredSpec
<1>2. CASE Requeue /\ UNCHANGED pods
  BY <1>1, <1>2, LeaveTInv DEF ResetPassword, TInv, KubeTyped, Requeue, Leave, State
<1>3. ASSUME NEW p \in op.pool, Accepts(p),
             pods' = [pods EXCEPT ![p[1]][p[2]].auth = GetClusterPassword(op.inst)],
             op' = [op EXCEPT !.pool = @ \ {p},
                              !.pc = IF op.pool = {p} THEN "sts" ELSE "reset"],
             UNCHANGED <<cr, cache, queued>>
      PROVE  TInv'
  <2>1. PICK i \in Index, k \in Ordinal : p = <<i, k>>
    BY <1>1, <1>3 DEF Pass, Pod
  <2>2. pods[i][k] \in RunningPod
    BY <1>3, <2>1, PodTyped DEF TInv, KubeTyped, Accepts
  <2>3. GetClusterPassword(op.inst) \in Password
    BY <1>1 DEF GetClusterPassword, StoredCluster, StoredSpec
  <2>. DEFINE q == [pods[i][k] EXCEPT !.auth = GetClusterPassword(op.inst)]
  <2>4. q \in MaybePod
    BY <2>2, <2>3 DEF RunningPod, MaybePod
  <2>5. pods' = [pods EXCEPT ![i] = [pods[i] EXCEPT ![k] = q]]
    BY <1>3, <2>1 DEF TInv, KubeTyped
  <2>6. KubeTyped'
    <3>1. pods \in [Index -> [Ordinal -> MaybePod]] /\ pods[i] \in [Ordinal -> MaybePod]
      BY DEF TInv, KubeTyped
    <3>2. [pods[i] EXCEPT ![k] = q] \in [Ordinal -> MaybePod]
      BY <2>4, <3>1
    <3>. QED
      BY <2>5, <3>1, <3>2 DEF TInv, KubeTyped, ResetPassword
  <2>7. op' \in Pass /\ op'.pc \in {"sts", "reset"} /\ op'.i = 0 /\ op'.inst = op.inst
    BY <1>1, <1>3 DEF Pass, Step, Mid
  <2>8. OpTyped'
    BY <1>1, <2>7 DEF OpTyped
  <2>. QED
    BY <1>3, <2>6, <2>8 DEF TInv, ClusterTyped, CacheOK, ResetPassword
<1>. QED
  BY <1>2, <1>3 DEF ResetPassword

LEMMA ensureRedisStatefulsetTInv ==
  ASSUME TInv, ensureRedisStatefulset
  PROVE  TInv'
<1>. DEFINE i == op.i
            size == op.inst.spec.size
            change == Exists(i) /\ shouldUpdateRedis(op.inst, sts[i])
            last == i + 1 = size
            updated == op.updated \/ change
            c == [op.inst EXCEPT !.status.state = "Updating"]
            inst == IF op.fresh THEN StatusOf(c) ELSE c
<1>1. /\ op \in Pass /\ i \in Index /\ i < size /\ size \in 1 .. MaxSize
      /\ op.inst \in StoredCluster /\ updated \in BOOLEAN
  BY InPass DEF TInv, OpTyped, ensureRedisStatefulset, Pass, StoredCluster, StoredSpec
<1>2. KubeTyped'
  <2>1. CASE Write(i, NewStatefulSetForCR(op.inst))
    BY <1>1, <2>1, WriteTyped DEF TInv, KubeTyped, ensureRedisStatefulset
  <2>2. CASE UNCHANGED sts
    BY <2>2 DEF TInv, KubeTyped, ensureRedisStatefulset
  <2>. QED
    BY <2>1, <2>2 DEF ensureRedisStatefulset
<1>3. torn' \subseteq Torn /\ backup' \in Source
  BY DEF TInv, ClusterTyped, ensureRedisStatefulset, Torn
<1>4. CASE last /\ updated
  <2>1. c \in StoredCluster /\ StatusOf(c) \in StoredCluster /\ inst \in StoredCluster
    <3>1. "Updating" \in State
      BY DEF State
    <3>2. c \in StoredCluster
      BY <1>1, <3>1, StateTyped
    <3>3. StatusOf(c) \in StoredCluster
      BY <3>2, StatusTyped DEF TInv, ClusterTyped
    <3>. QED
      BY <3>2, <3>3
  <2>2. Goto("wait", inst)
    BY <1>4 DEF ensureRedisStatefulset
  <2>3. op' \in Pass /\ op'.pc = "wait"
    BY <1>1, <2>1, <2>2 DEF Goto, Pass, Step, Mid
  <2>4. OpTyped'
    BY <2>3 DEF OpTyped
  <2>5. IF op.fresh THEN Stored(StatusOf(c)) ELSE UNCHANGED <<cr, cache>>
    BY <1>4 DEF ensureRedisStatefulset
  <2>6. cr' \in StoredCluster /\ cache' \in View /\ CacheOK'
    BY <2>1, <2>5, StoredTyped DEF TInv, ClusterTyped, CacheOK
  <2>. QED
    BY <1>2, <1>3, <2>4, <2>6 DEF TInv, ClusterTyped
<1>5. CASE ~(last /\ updated)
  <2>1. /\ op' = [op EXCEPT !.i = IF last THEN 0 ELSE i + 1, !.updated = updated,
                            !.pc = IF last THEN "services" ELSE "sts"]
        /\ UNCHANGED <<cr, cache>>
    BY <1>5 DEF ensureRedisStatefulset
  <2>2. ~last => i + 1 \in Index /\ i + 1 < size
    BY <1>1, IndexFacts
  <2>3. (IF last THEN 0 ELSE i + 1) \in Index
    BY <2>2, IndexFacts
  <2>4. /\ op' \in Pass /\ op'.inst = op.inst
        /\ op'.pc = IF last THEN "services" ELSE "sts"
        /\ op'.i = IF last THEN 0 ELSE i + 1
    BY <1>1, <2>1, <2>3 DEF Pass, Step, Mid
  <2>5. OpTyped'
    BY <2>2, <2>4 DEF OpTyped
  <2>. QED
    BY <1>2, <1>3, <2>1, <2>5 DEF TInv, ClusterTyped, CacheOK
<1>. QED
  BY <1>4, <1>5

(***************************************************************************)
(* A step of the pass that only moves on, to a pc outside of the loops.    *)
(***************************************************************************)
LEMMA GotoTInv ==
  ASSUME TInv, op \in Pass, NEW pc \in {"services", "restore", "finish"}, Goto(pc, op.inst),
         UNCHANGED <<cr, cache, backup>>, KubeTyped', torn' \subseteq Torn
  PROVE  TInv'
<1>1. op' \in Pass /\ op'.pc = pc
  BY DEF Goto, Pass, Step, Mid
<1>2. OpTyped'
  BY <1>1 DEF OpTyped
<1>. QED
  BY <1>2 DEF TInv, ClusterTyped, CacheOK

LEMMA waitStatefulSetUpdatingTInv ==
  ASSUME TInv, waitStatefulSetUpdating
  PROVE  TInv'
<1>1. op \in Pass /\ KubeTyped' /\ torn' \subseteq Torn /\ UNCHANGED backup
  BY InPass DEF TInv, KubeTyped, waitStatefulSetUpdating, Kube
<1>2. CASE Requeue
  BY <1>1, <1>2, LeaveTInv DEF Requeue, Leave, State
<1>3. CASE Goto("services", op.inst) /\ UNCHANGED <<cr, cache, queued>>
  BY <1>1, <1>3, GotoTInv
<1>. QED
  BY <1>2, <1>3 DEF waitStatefulSetUpdating

LEMMA waitPodReadyTInv ==
  ASSUME TInv, waitPodReady
  PROVE  TInv'
<1>1. op \in Pass /\ KubeTyped' /\ torn' \subseteq Torn /\ UNCHANGED backup
  BY InPass DEF TInv, KubeTyped, waitPodReady, Kube
<1>2. CASE Requeue
  BY <1>1, <1>2, LeaveTInv DEF Requeue, Leave, State
<1>3. CASE Goto("restore", op.inst) /\ UNCHANGED <<cr, cache, queued>>
  BY <1>1, <1>3, GotoTInv
<1>. QED
  BY <1>2, <1>3 DEF waitPodReady

LEMMA MarkRestartTInv ==
  ASSUME TInv, MarkRestart
  PROVE  TInv'
<1>1. op \in Pass /\ KubeTyped' /\ torn' \subseteq Torn /\ UNCHANGED backup
  BY InPass DEF TInv, KubeTyped, MarkRestart, Kube
<1>2. CASE Leave(TRUE) /\ UNCHANGED <<cr, cache>>
  BY <1>1, <1>2, LeaveTInv DEF Leave
<1>3. CASE op.fresh
  <2>. DEFINE c == StatusOf([op.inst EXCEPT !.status.phase = "Restart"])
  <2>1. c \in StoredCluster
    BY <1>1, PhaseTyped, StatusTyped DEF TInv, ClusterTyped, Pass, Phase
  <2>2. Stored(c) /\ op' = [op EXCEPT !.pc = "removeInit", !.inst = c, !.i = 0]
    BY <1>3 DEF MarkRestart
  <2>3. op' \in Pass /\ op'.pc = "removeInit" /\ op'.i = 0 /\ op'.inst = c
    BY <1>1, <2>1, <2>2, IndexFacts DEF Pass, Step
  <2>4. c.spec.size \in 1 .. MaxSize
    BY <2>1 DEF StoredCluster, StoredSpec
  <2>5. OpTyped'
    BY <2>3, <2>4 DEF OpTyped
  <2>6. cr' \in StoredCluster /\ cache' \in View /\ CacheOK'
    BY <2>1, <2>2, StoredTyped DEF TInv, ClusterTyped
  <2>. QED
    BY <1>1, <2>5, <2>6 DEF TInv, ClusterTyped
<1>. QED
  BY <1>2, <1>3 DEF MarkRestart

LEMMA UpdateRedisStatefulsetsTInv ==
  ASSUME TInv, UpdateRedisStatefulsets
  PROVE  TInv'
<1>1. /\ op \in Pass /\ op.i \in Index /\ op.i < op.inst.spec.size
      /\ op.inst.spec.size \in 1 .. MaxSize /\ op.inst \in StoredCluster
  BY InPass DEF TInv, OpTyped, UpdateRedisStatefulsets, Pass, StoredCluster, StoredSpec
<1>2. KubeTyped'
  BY <1>1, WriteTyped DEF TInv, KubeTyped, UpdateRedisStatefulsets
<1>3. CASE Leave(TRUE)
  BY <1>2, <1>3, LeaveTInv DEF TInv, Leave, UpdateRedisStatefulsets
<1>4. CASE op.i + 1 # op.inst.spec.size /\ op' = [op EXCEPT !.i = @ + 1]
  <2>1. op.i + 1 \in Index /\ op.i + 1 < op.inst.spec.size
    BY <1>1, <1>4, IndexFacts
  <2>2. op' \in Pass /\ op'.pc = "removeInit" /\ op'.i = op.i + 1 /\ op'.inst = op.inst
    BY <1>1, <1>4, <2>1 DEF Pass, UpdateRedisStatefulsets
  <2>3. OpTyped'
    BY <2>1, <2>2 DEF OpTyped
  <2>. QED
    BY <1>2, <2>3 DEF TInv, ClusterTyped, CacheOK, UpdateRedisStatefulsets
<1>. QED
  BY <1>3, <1>4 DEF UpdateRedisStatefulsets

LEMMA MarkSucceededTInv ==
  ASSUME TInv, MarkSucceeded
  PROVE  TInv'
<1>1. op \in Pass /\ KubeTyped' /\ torn' \subseteq Torn /\ UNCHANGED backup
  BY InPass DEF TInv, KubeTyped, MarkSucceeded, Kube
<1>2. CASE Leave(TRUE) /\ UNCHANGED <<cr, cache>>
  BY <1>1, <1>2, LeaveTInv DEF Leave
<1>3. CASE op.fresh
  <2>. DEFINE c == StatusOf([op.inst EXCEPT !.status.phase = "Succeeded"])
  <2>1. c \in StoredCluster
    BY <1>1, PhaseTyped, StatusTyped DEF TInv, ClusterTyped, Pass, Phase
  <2>2. Stored(c) /\ Goto("raise", c)
    BY <1>3 DEF MarkSucceeded
  <2>3. op' \in Pass /\ op'.pc = "raise"
    BY <1>1, <2>1, <2>2 DEF Pass, Step, Goto
  <2>4. OpTyped'
    BY <2>3 DEF OpTyped
  <2>5. cr' \in StoredCluster /\ cache' \in View /\ CacheOK'
    BY <2>1, <2>2, StoredTyped DEF TInv, ClusterTyped
  <2>. QED
    BY <1>1, <2>4, <2>5 DEF TInv, ClusterTyped
<1>. QED
  BY <1>2, <1>3 DEF MarkSucceeded

(***************************************************************************)
(* The spec with the slaves of the backup.                                 *)
(***************************************************************************)
LEMMA RaisedTyped ==
  ASSUME cr \in StoredCluster, op \in Pass, backup \in Source
  PROVE  LET c == SpecOf([op.inst EXCEPT !.spec.replicas = backup.replicas])
         IN  /\ c \in StoredCluster /\ c.status = cr.status
             /\ c.spec = [op.inst.spec EXCEPT !.replicas = backup.replicas]
<1>. DEFINE d == [op.inst EXCEPT !.spec.replicas = backup.replicas]
<1>1. op.inst \in StoredCluster /\ op.inst.spec \in StoredSpec /\ backup.replicas \in Ordinal
  BY DEF Pass, StoredCluster, Source
<1>2. d.spec = [op.inst.spec EXCEPT !.replicas = backup.replicas]
      /\ d.status = op.inst.status
  BY <1>1 DEF StoredCluster
<1>3. d.spec \in StoredSpec
  BY <1>1, <1>2 DEF StoredSpec
<1>4. d \in StoredCluster
  BY <1>1, <1>2, <1>3 DEF StoredCluster
<1>. QED
  BY <1>2, <1>4, SpecTyped

LEMMA RaiseReplicasTInv ==
  ASSUME TInv, RaiseReplicas
  PROVE  TInv'
<1>. DEFINE c == SpecOf([op.inst EXCEPT !.spec.replicas = backup.replicas])
<1>1. op \in Pass /\ KubeTyped' /\ UNCHANGED backup
  BY InPass DEF TInv, KubeTyped, RaiseReplicas, Kube
<1>2. CASE Leave(TRUE) /\ Interrupted /\ UNCHANGED <<cr, cache>>
  BY <1>1, <1>2, LeaveTInv, InterruptionTyped DEF TInv, Leave, Interrupted
<1>3. CASE /\ Stored(c) /\ Leave(FALSE)
           /\ torn' = torn \cup (IF c = cr THEN {"noevent"} ELSE {})
  <2>1. c \in StoredCluster
    BY <1>1, RaisedTyped DEF TInv, ClusterTyped
  <2>2. cr' \in StoredCluster /\ cache' \in View /\ CacheOK'
    BY <1>3, <2>1, StoredTyped DEF TInv, ClusterTyped
  <2>. QED
    BY <1>1, <1>3, <2>2, IdleTyped DEF TInv, ClusterTyped, Leave, Torn
<1>. QED
  BY <1>2, <1>3 DEF RaiseReplicas

LEMMA SetConfigIfNeedTInv ==
  ASSUME TInv, SetConfigIfNeed
  PROVE  TInv'
<1>. DEFINE reached == Connections(Up, GetClusterPassword(op.inst))
            aof(p) == IF "appendonly" \in DOMAIN op.inst.spec.config
                      THEN op.inst.spec.config["appendonly"] = "yes" ELSE At(p).aof
<1>1. op \in Pass /\ torn' \subseteq Torn /\ UNCHANGED <<cr, cache, backup>>
  BY InPass DEF TInv, SetConfigIfNeed
<1>2. ASSUME NEW i \in Index, NEW k \in Ordinal, <<i, k>> \in reached
      PROVE  [pods[i][k] EXCEPT !.aof = aof(<<i, k>>)] \in MaybePod
  <2>1. pods[i][k] \in RunningPod
    BY <1>2, PodTyped DEF TInv, KubeTyped, Connections, Up
  <2>2. At(<<i, k>>) = pods[i][k]
    BY DEF At
  <2>3. aof(<<i, k>>) \in BOOLEAN
    BY <2>1, <2>2 DEF RunningPod
  <2>. QED
    BY <2>1, <2>3 DEF RunningPod, MaybePod
<1>3. pods' = [i \in Index |-> [k \in Ordinal |->
                 IF <<i, k>> \in reached
                 THEN [pods[i][k] EXCEPT !.aof = aof(<<i, k>>)] ELSE pods[i][k]]]
  BY DEF SetConfigIfNeed
<1>4. KubeTyped'
  BY <1>2, <1>3 DEF TInv, KubeTyped, SetConfigIfNeed
<1>. QED
  BY <1>1, <1>4, GotoTInv DEF SetConfigIfNeed

LEMMA FinishTInv ==
  ASSUME TInv, Finish
  PROVE  TInv'
<1>1. op \in Pass /\ KubeTyped' /\ torn' \subseteq Torn /\ UNCHANGED backup /\ op' = Idle
  BY InPass DEF TInv, KubeTyped, Finish, Kube, Leave
<1>2. \E state \in State : SetState(state)
  BY DEF Finish, State
<1>. QED
  BY <1>1, <1>2, LeaveTInv

LEMMA CallFailsTInv ==
  ASSUME TInv, CallFails
  PROVE  TInv'
<1>1. /\ op \in Pass /\ op.inst \in StoredCluster /\ op.inst.spec.size \in 1 .. MaxSize
      /\ KubeTyped' /\ UNCHANGED backup
  BY InPass DEF TInv, KubeTyped, CallFails, Kube, Pass, StoredCluster, StoredSpec
<1>2. CASE StopRetry
  BY <1>1, <1>2, LeaveTInv, InterruptionTyped DEF TInv, StopRetry, Leave, Torn
<1>3. CASE Requeue /\ Interrupted
  BY <1>1, <1>3, LeaveTInv, InterruptionTyped DEF TInv, Requeue, Leave, State, Interrupted
<1>4. CASE op.pc = "password" /\ Goto("sts", op.inst) /\ UNCHANGED <<cr, cache, queued, torn>>
  <2>1. op.i = 0
    BY <1>4 DEF TInv, OpTyped
  <2>2. op' \in Pass /\ op'.pc = "sts" /\ op'.i = 0 /\ op'.inst = op.inst
    BY <1>1, <1>4, <2>1 DEF Goto, Pass, Step, Mid
  <2>3. OpTyped'
    BY <1>1, <2>2 DEF OpTyped
  <2>. QED
    BY <1>1, <1>4, <2>3 DEF TInv, ClusterTyped, CacheOK, Torn
<1>5. CASE Leave(TRUE) /\ Interrupted /\ UNCHANGED <<cr, cache>>
  BY <1>1, <1>5, LeaveTInv, InterruptionTyped DEF TInv, Leave, Interrupted
<1>6. CASE SetState("KO") /\ Leave(TRUE) /\ UNCHANGED torn
  BY <1>1, <1>6, LeaveTInv DEF TInv, Leave, State
<1>. QED
  BY <1>2, <1>3, <1>4, <1>5, <1>6 DEF CallFails

LEMMA NewestTyped ==
  ASSUME cr \in StoredCluster, cache' = [obj |-> cr, fresh |-> TRUE], UNCHANGED cr
  PROVE  cache' \in View /\ CacheOK'
BY DEF View, CacheOK

LEMMA CrashTInv ==
  ASSUME TInv, Crash
  PROVE  TInv'
<1>1. cache' \in View /\ CacheOK'
  BY NewestTyped DEF TInv, ClusterTyped, Crash
<1>2. torn' \subseteq Torn
  BY InterruptionTyped DEF TInv, Crash, Interrupted
<1>. QED
  BY <1>1, <1>2, IdleTyped DEF TInv, ClusterTyped, KubeTyped, Crash, Kube

LEMMA UpdateFuncTInv ==
  ASSUME TInv, UpdateFunc
  PROVE  TInv'
<1>1. cache' \in View /\ CacheOK'
  BY NewestTyped DEF TInv, ClusterTyped, UpdateFunc
<1>. QED
  BY <1>1 DEF TInv, ClusterTyped, OpTyped, KubeTyped, UpdateFunc, Kube

LEMMA BackupSucceedsTInv ==
  ASSUME TInv, BackupSucceeds
  PROVE  /\ TInv'
         /\ backup'.size = backup.size /\ backup'.replicas = backup.replicas
<1>1. /\ backup' \in Source
      /\ backup'.size = backup.size /\ backup'.replicas = backup.replicas
  BY DEF TInv, ClusterTyped, Source, BackupSucceeds
<1>. QED
  BY <1>1 DEF TInv, ClusterTyped, OpTyped, KubeTyped, CacheOK, BackupSucceeds, Kube

(***************************************************************************)
(* An edit never touches whether the cluster is restored from a backup.    *)
(***************************************************************************)
LEMMA EditTyped ==
  ASSUME cr \in StoredCluster, UserEdits
  PROVE  /\ cr' \in StoredCluster /\ ~cr.spec.restore
         /\ cr'.spec.restore = cr.spec.restore /\ cr'.status = cr.status
<1>. DEFINE edit(e, f, old) == IF f \in DOMAIN e THEN e[f] ELSE old
            new(e) == [cr.spec EXCEPT
                         !.size = edit(e, "size", cr.spec.size),
                         !.replicas = edit(e, "replicas", cr.spec.replicas),
                         !.image = edit(e, "image", cr.spec.image),
                         !.secret = edit(e, "secret", cr.spec.secret),
                         !.config = edit(e, "config", cr.spec.config)]
<1>1. PICK e \in Edits : ~cr.spec.restore /\ cr' = [cr EXCEPT !.spec = new(e)]
  BY DEF UserEdits
<1>2. cr.spec \in StoredSpec
  BY DEF StoredCluster
<1>3. /\ edit(e, "size", cr.spec.size) \in 1 .. MaxSize
      /\ edit(e, "replicas", cr.spec.replicas) \in Ordinal
      /\ edit(e, "image", cr.spec.image) \in AnyImage
      /\ edit(e, "secret", cr.spec.secret) \in Password
      /\ edit(e, "config", cr.spec.config) \in Config
  BY <1>2, EditsAssumption DEF StoredSpec, Ordinal, AnyImage, Password
<1>. HIDE DEF edit
<1>4. new(e) \in StoredSpec /\ new(e).restore = cr.spec.restore
  BY <1>2, <1>3 DEF StoredSpec
<1>. HIDE DEF new
<1>. QED
  BY <1>1, <1>4 DEF StoredCluster

LEMMA UserEditsTInv ==
  ASSUME TInv, UserEdits
  PROVE  TInv'
<1>1. cr' \in StoredCluster
  BY EditTyped DEF TInv, ClusterTyped
<1>2. cache' \in View /\ CacheOK'
  <2>1. cache' = [cache EXCEPT !.fresh = FALSE]
    BY DEF UserEdits
  <2>. QED
    BY <2>1 DEF TInv, ClusterTyped, View, CacheOK
<1>3. OpTyped'
  <2>1. op' = IF op.pc = "idle" THEN op ELSE [op EXCEPT !.fresh = FALSE]
    BY DEF UserEdits
  <2>2. CASE op.pc = "idle"
    BY <2>1, <2>2 DEF TInv, OpTyped
  <2>3. CASE op.pc # "idle"
    <3>1. op \in Pass
      BY <2>3, InPass DEF TInv
    <3>2. op' \in Pass /\ op'.pc = op.pc /\ op'.i = op.i /\ op'.inst = op.inst
      BY <2>1, <2>3, <3>1 DEF Pass
    <3>. QED
      BY <3>2 DEF TInv, OpTyped
  <2>. QED
    BY <2>2, <2>3
<1>. QED
  BY <1>1, <1>2, <1>3 DEF TInv, ClusterTyped, KubeTyped, UserEdits, Kube

LEMMA StartPodTInv ==
  ASSUME TInv, NEW i \in Index, NEW k \in Ordinal, StartPod(i, k)
  PROVE  TInv'
<1>. DEFINE t == sts[i].template
            p == [up |-> TRUE, template |-> t, auth |-> getRedisCommand(t),
                  file |-> t.server.secret, aof |-> AppendOnly(conf)]
<1>1. sts[i] \in StatefulSet
  BY StsTyped DEF TInv, KubeTyped, StartPod
<1>2. t \in PodTemplate
  BY <1>1 DEF StatefulSet
<1>3. p \in MaybePod
  BY <1>2 DEF MaybePod, RunningPod, PodTemplate, Server, getRedisCommand, AppendOnly
<1>4. /\ pods' = [pods EXCEPT ![i][k] = p]
      /\ sts' = sts \/ sts' = [sts EXCEPT ![i].current = t]
  BY DEF StartPod
<1>5. pods' \in [Index -> [Ordinal -> MaybePod]]
  BY <1>3, <1>4 DEF TInv, KubeTyped
<1>6. [sts[i] EXCEPT !.current = t] \in MaybeSts
  BY <1>1, <1>2 DEF StatefulSet, MaybeSts
<1>7. sts' \in [Index -> MaybeSts]
  BY <1>4, <1>6 DEF TInv, KubeTyped
<1>8. torn' \subseteq Torn
  BY DEF TInv, StartPod, Torn
<1>. QED
  BY <1>5, <1>7, <1>8 DEF TInv, ClusterTyped, OpTyped, KubeTyped, CacheOK, StartPod

LEMMA StopTInv ==
  ASSUME TInv, NEW i \in Index, NEW k, Stop(i, k)
  PROVE  TInv'
<1>1. pods' = [pods EXCEPT ![i][k] = NoPod] /\ NoPod \in MaybePod
  BY DEF Stop, MaybePod
<1>2. pods' \in [Index -> [Ordinal -> MaybePod]]
  BY <1>1 DEF TInv, KubeTyped
<1>3. torn' \subseteq Torn
  BY DEF TInv, Stop, Torn
<1>. QED
  BY <1>2, <1>3 DEF TInv, ClusterTyped, OpTyped, KubeTyped, CacheOK, Stop

LEMMA AppendOnlyTyped == \A content : AppendOnly(content) \in BOOLEAN
BY DEF AppendOnly

LEMMA InitTInv ==
  ASSUME Init
  PROVE  TInv
<1>1. PICK s \in NewSpec, st \in {"", "OK"} :
        cr = [spec |-> s, status |-> [phase |-> "", backup |-> FALSE, state |-> st]]
  BY DEF Init
<1>2. s \in StoredSpec
  BY DEF NewSpec, StoredSpec, AnyImage, Password
<1>3. [phase |-> "", backup |-> FALSE, state |-> st] \in StoredStatus
  BY DEF StoredStatus, Phase, State
<1>4. cr \in StoredCluster
  BY <1>1, <1>2, <1>3 DEF StoredCluster
<1>5. cache \in View /\ CacheOK
  BY <1>4 DEF Init, View, CacheOK
<1>6. backup \in Source
  <2>1. backup \in [phase : {"Running", "Succeeded"}, size : 1 .. MaxSize,
                    replicas : Ordinal, image : Image]
    BY DEF Init
  <2>. QED
    BY <2>1 DEF Source
<1>7. OpTyped /\ torn \subseteq Torn
  BY DEF Init, OpTyped, Idle
<1>. DEFINE run(i, k) == cr.status.state = "OK" /\ i < cr.spec.size /\ k <= cr.spec.replicas
<1>8. sts \in [Index -> MaybeSts]
  <2>1. SteadySts(cr) \in StatefulSet
    BY <1>4, TemplateTyped, NewStsTyped DEF SteadySts, StatefulSet, NewStatefulSetForCR
  <2>2. sts = [i \in Index |-> IF run(i, 0) THEN SteadySts(cr) ELSE NoSts]
    BY DEF Init
  <2>. QED
    BY <2>1, <2>2 DEF MaybeSts
<1>9. pods \in [Index -> [Ordinal -> MaybePod]]
  <2>1. SteadyPod(cr) \in RunningPod
    <3>1. cr.spec.secret \in Password
      BY <1>4 DEF StoredCluster, StoredSpec
    <3>2. AppendOnly(generateRedisConfContent(cr.spec.config)) \in BOOLEAN
      BY AppendOnlyTyped
    <3>. QED
      BY <1>4, <3>1, <3>2, TemplateTyped DEF SteadyPod, RunningPod
  <2>2. pods = [i \in Index |-> [k \in Ordinal |->
                  IF run(i, k) THEN SteadyPod(cr) ELSE NoPod]]
    BY DEF Init
  <2>. QED
    BY <2>1, <2>2 DEF MaybePod
<1>. QED
  BY <1>4, <1>5, <1>6, <1>7, <1>8, <1>9 DEF TInv, ClusterTyped, KubeTyped

LEMMA NextTInv ==
  ASSUME TInv, [Next]_vars
  PROVE  TInv'
<1>1. CASE Reconcile
  BY <1>1, StartTInv, initRestoreTInv, validateAndSetDefaultTInv, resetClusterPasswordTInv,
     ExecCommandInPodSetTInv, ResetPasswordTInv, ensureRedisStatefulsetTInv,
     waitStatefulSetUpdatingTInv, waitPodReadyTInv, MarkRestartTInv,
     UpdateRedisStatefulsetsTInv, MarkSucceededTInv, RaiseReplicasTInv, SetConfigIfNeedTInv,
     FinishTInv
     DEF Reconcile
<1>2. CASE CallFails \/ Crash \/ UpdateFunc \/ BackupSucceeds \/ UserEdits
  BY <1>2, CallFailsTInv, CrashTInv, UpdateFuncTInv, BackupSucceedsTInv, UserEditsTInv
<1>3. CASE ClientWrites
  BY <1>3 DEF ClientWrites, TInv, ClusterTyped, OpTyped, KubeTyped, CacheOK
<1>4. ASSUME NEW i \in Index, StatefulSetController(i)
      PROVE  TInv'
  BY <1>4, StartPodTInv, StopTInv DEF StatefulSetController, ScaleIn, RollPod
<1>5. ASSUME NEW i \in Index, NEW k \in Ordinal, Evict(i, k)
      PROVE  TInv'
  BY <1>5, StopTInv DEF Evict
<1>6. CASE UNCHANGED vars
  BY <1>6 DEF vars, TInv, ClusterTyped, OpTyped, KubeTyped, CacheOK
<1>. QED
  BY <1>1, <1>2, <1>3, <1>4, <1>5, <1>6 DEF Next

LEMMA TInvTypeOK ==
  ASSUME TInv
  PROVE  TypeOK
<1>1. op = Idle \/ op.inst \in StoredCluster
  BY DEF TInv, OpTyped, Pass
<1>2. ASSUME NEW p \in Up
      PROVE  At(p).auth \in Password
  <2>1. PICK i \in Index, k \in Ordinal : p = <<i, k>>
    BY <1>2 DEF Up, Pod
  <2>2. pods[i][k] \in RunningPod
    BY <1>2, <2>1, PodTyped DEF TInv, KubeTyped, Up
  <2>. QED
    BY <2>1, <2>2 DEF At, RunningPod
<1>3. ASSUME NEW i \in Index, Exists(i)
      PROVE  sts[i].replicas \in 1 .. MaxReplicas + 1
  BY <1>3, StsTyped DEF TInv, KubeTyped, StatefulSet
<1>4. cr \in StoredCluster /\ cache \in [obj : StoredCluster, fresh : BOOLEAN]
  BY DEF TInv, ClusterTyped, View
<1>. QED
  BY <1>1, <1>2, <1>3, <1>4 DEF TypeOK, TInv, CacheOK

(***************************************************************************)
(* What is stored, cached and running has its type: every write of the     *)
(* operator and every edit leaves a spec within the bounds, every          *)
(* StatefulSet has at least its master and no pod runs with a password     *)
(* that is nobody's.                                                       *)
(***************************************************************************)
THEOREM TypeCorrect == Spec => []TypeOK
<1>1. Spec => []TInv
  BY InitTInv, NextTInv, PTL DEF Spec
<1>2. TInv => TypeOK
  BY TInvTypeOK
<1>. QED
  BY <1>1, <1>2, PTL

-----------------------------------------------------------------------------
(***************************************************************************)
(* What a pass knows of the stored cluster.  Without an edit of a user     *)
(* behind its back (fresh) its copy has the stored status and the stored   *)
(* configuration, and at the steps that write the spec it is the stored    *)
(* cluster.  A cluster restored from a backup is never edited, so that the *)
(* steps that only a fresh pass takes are taken with a fresh copy.         *)
(***************************************************************************)
CopyOK ==
  /\ cache.obj.spec.restore = cr.spec.restore
  /\ op.pc # "idle" =>
       /\ op.inst.spec.restore = cr.spec.restore
       /\ op.fresh => /\ op.inst.status = cr.status
                      /\ op.inst.spec.config = cr.spec.config
       /\ op.fresh /\ op.pc \in {"init", "default", "raise"} => op.inst = cr
       /\ op.fresh /\ op.pc \in {"init", "default"} => cache.obj.spec = cr.spec
  /\ op.pc = "init" => cr.spec.restore /\ op.inst.status.phase = ""
  /\ op.pc = "default" /\ op.initRestore =>
       cr.spec.restore /\ op.fresh /\ op.inst.status.phase = "Running"
  /\ op.pc \in {"removeInit", "raise"} => cr.spec.restore /\ op.fresh
  /\ op.pc = "raise" => cr.status.phase = "Succeeded"
  /\ op.pc \notin {"idle", "init"} /\ cr.spec.restore => op.inst.status.phase # ""

KInv == TInv /\ CopyOK

(***************************************************************************)
(* The steps, by what they do to the cluster, the cache and the pass.      *)
(***************************************************************************)
Quiet == UNCHANGED <<cr, cache, op, queued, conf>>

Keeps == op' \in Pass /\ op'.fresh = op.fresh /\ UNCHANGED conf

\* The next call of ensureCluster, with or without a write of the state.
Moves ==
  /\ op \in Pass /\ op.pc \in Mid /\ op'.pc \in Mid /\ Keeps
  /\ op'.inst.status.phase = op.inst.status.phase
  /\ op'.inst.status.backup = op.inst.status.backup
  /\ \/ /\ UNCHANGED <<cr, cache>>
        /\ op'.inst.spec = op.inst.spec
        /\ op.fresh => op'.inst = op.inst
     \/ /\ op.fresh /\ op'.inst = cr' /\ cr'.spec = cr.spec
        /\ cache'.obj = cache.obj

\* The pass ends and the cluster is queued again.
Ends ==
  /\ op' = Idle /\ queued' /\ UNCHANGED conf
  /\ cr'.spec = cr.spec /\ cr'.status.phase = cr.status.phase
  /\ cr'.status.backup = cr.status.backup
  /\ cache'.obj \in {cache.obj, cr}
  /\ op.pc = "default" /\ op.initRestore => "init" \in torn'
  /\ op.pc = "raise" => "succeed" \in torn'

\* The pass ends and the cluster is not queued.
GivesUp ==
  /\ op' = Idle /\ UNCHANGED <<cr, cache, conf>>
  /\ "stop" \in torn'
  /\ op.pc # "raise"
  /\ op.pc = "default" /\ op.initRestore => "init" \in torn'

Begins ==
  /\ op.pc = "idle" /\ UNCHANGED <<cr, cache, conf>>
  /\ op' \in Pass /\ op'.inst = cache.obj /\ op'.fresh = cache.fresh
  /\ op'.initRestore = FALSE
  /\ op'.pc = IF cache.obj.spec.restore /\ cache.obj.status.phase = ""
              THEN "init" ELSE "default"

\* A write of the phase of the restore.
Marks(from, old, to, new) ==
  /\ op \in Pass /\ op.pc = from /\ op'.pc = to /\ Keeps /\ op.fresh
  /\ op.inst.spec.restore /\ op.inst.status.phase = old
  /\ cr'.spec = cr.spec /\ cr'.status.phase = new
  /\ cr'.status.backup = op.inst.status.backup
  /\ op'.inst = cr' /\ cache'.obj = cache.obj
  /\ to = "removeInit" => op'.i = 0

Finds ==
  /\ op \in Pass /\ op.pc = "init" /\ op'.pc = "default" /\ Keeps /\ op.fresh
  /\ cr'.spec = cr.spec /\ cr'.status.phase = "Running" /\ cr'.status.backup = TRUE
  /\ op'.inst = cr' /\ cache'.obj = cache.obj
  /\ op'.initRestore

Defaults ==
  /\ op \in Pass /\ op.pc = "default" /\ op'.pc = "password"
  /\ op' \in Pass /\ op'.fresh = op.fresh /\ UNCHANGED torn
  /\ op'.inst = Defaulted /\ cache'.obj = cache.obj
  /\ IF NeedsUpdate
     THEN op.fresh /\ cr'.spec = Defaulted.spec /\ cr'.status = cr.status
     ELSE UNCHANGED cr
  /\ EnsureRedisConfigMap(Defaulted)

Rewrites ==
  /\ op \in Pass /\ op.pc = "removeInit" /\ op'.pc = "removeInit" /\ Keeps
  /\ op'.inst = op.inst /\ UNCHANGED <<cr, cache>>

Raises ==
  /\ op \in Pass /\ op.pc = "raise" /\ op.fresh
  /\ op' = Idle /\ UNCHANGED conf
  /\ cr'.spec = [op.inst.spec EXCEPT !.replicas = backup.replicas]
  /\ cr'.status = cr.status /\ cache'.obj = cache.obj
  /\ cr' = cr => "noevent" \in torn'

Sets ==
  /\ op \in Pass /\ op.pc = "restore" /\ op'.pc = "finish" /\ Keeps
  /\ op'.inst = op.inst /\ UNCHANGED <<cr, cache>>
  /\ op.inst.spec.restore => op.inst.status.phase = "Succeeded"

Delivers ==
  /\ cache'.obj = cr /\ UNCHANGED <<cr, op, conf>>
  /\ queued \/ cache.obj.spec # cr.spec => queued'

Edited ==
  /\ ~cr.spec.restore /\ cr'.spec.restore = cr.spec.restore
  /\ cache'.obj = cache.obj /\ UNCHANGED <<queued, conf>>
  /\ IF op.pc = "idle" THEN op' = op
     ELSE op' \in Pass /\ ~op'.fresh /\ op'.pc = op.pc /\ op'.inst = op.inst
          /\ op'.initRestore = op.initRestore

Always ==
  /\ torn \subseteq torn'
  /\ backup'.size = backup.size /\ backup'.replicas = backup.replicas

StepOf ==
  /\ Always
  /\ \/ Quiet \/ Moves \/ Ends \/ GivesUp \/ Begins \/ Finds \/ Defaults
     \/ Marks("restore", "Running", "removeInit", "Restart")
     \/ Marks("restore", "Restart", "raise", "Succeeded")
     \/ Rewrites \/ Raises \/ Sets \/ Delivers \/ Edited

LEMMA EndsOf ==
  ASSUME KInv, op' = Idle, queued', UNCHANGED conf,
         op.pc = "default" /\ op.initRestore => "init" \in torn',
         op.pc = "raise" => "succeed" \in torn',
         \/ UNCHANGED <<cr, cache>>
         \/ op \in Pass /\ \E state \in State : SetState(state)
  PROVE  Ends
<1>1. CASE UNCHANGED <<cr, cache>>
  BY <1>1 DEF Ends
<1>2. ASSUME op \in Pass, NEW state \in State, SetState(state)
      PROVE  Ends
  <2>1. /\ cache'.obj = cache.obj /\ cr'.spec = cr.spec
        /\ op.fresh => /\ cr'.status.phase = op.inst.status.phase
                       /\ cr'.status.backup = op.inst.status.backup
        /\ ~op.fresh => cr' = cr
    BY <1>2, SetStateTyped DEF KInv, TInv, ClusterTyped
  <2>2. op.fresh => op.inst.status = cr.status
    BY <1>2, InPass DEF KInv, TInv, CopyOK
  <2>3. cr'.status.phase = cr.status.phase /\ cr'.status.backup = cr.status.backup
    BY <1>2, <2>1, <2>2 DEF Pass
  <2>. QED
    BY <2>1, <2>3 DEF Ends
<1>. QED
  BY <1>1, <1>2

LEMMA InterruptionFacts ==
  /\ op.pc = "default" /\ op.initRestore => "init" \in Interruption
  /\ op.pc = "raise" => "succeed" \in Interruption
BY DEF Interruption, Resetting

LEMMA GivesUpOf ==
  ASSUME StopRetry, UNCHANGED conf, op.pc # "raise"
  PROVE  GivesUp
BY InterruptionFacts DEF StopRetry, Leave, GivesUp

LEMMA InPassNext ==
  ASSUME TInv', op'.pc # "idle"
  PROVE  op' \in Pass
BY DEF TInv, OpTyped, Idle

LEMMA StartOf ==
  ASSUME KInv, Start
  PROVE  Begins /\ Always
<1>1. op' \in Pass
  BY StartTInv, InPassNext DEF KInv, Start
<1>2. /\ op.pc = "idle" /\ UNCHANGED <<cr, cache, conf>>
      /\ op'.inst = cache.obj /\ op'.fresh = cache.fresh /\ op'.initRestore = FALSE
      /\ op'.pc = IF cache.obj.spec.restore /\ cache.obj.status.phase = ""
                  THEN "init" ELSE "default"
  BY DEF Start, IsRestoreFromBackup, ShouldInitRestorePhase
<1>3. Always
  BY DEF Start, Always
<1>. QED
  BY <1>1, <1>2, <1>3 DEF Begins

LEMMA initRestoreOf ==
  ASSUME KInv, initRestore
  PROVE  (Finds \/ GivesUp) /\ Always
<1>1. op \in Pass /\ op.inst \in StoredCluster /\ cr \in StoredCluster /\ cache \in View
  BY InPass DEF KInv, TInv, ClusterTyped, initRestore, Pass
<1>2. CASE StopRetry
  BY <1>2, GivesUpOf DEF initRestore, Always, StopRetry
<1>3. CASE /\ op.fresh
           /\ LET c == StatusOf([op.inst EXCEPT !.status.phase = "Running",
                                                !.status.backup = TRUE])
              IN  /\ Stored(c)
                  /\ op' = [op EXCEPT !.pc = "default", !.inst = c, !.initRestore = TRUE]
           /\ UNCHANGED <<queued, torn>>
  <2>. DEFINE d == [op.inst EXCEPT !.status.phase = "Running", !.status.backup = TRUE]
              c == StatusOf(d)
  <2>1. /\ c \in StoredCluster /\ c.spec = cr.spec
        /\ c.status.phase = "Running" /\ c.status.backup = TRUE
    <3>1. d \in StoredCluster /\ d.status.phase = "Running" /\ d.status.backup = TRUE
      BY <1>1, FoundTyped
    <3>. QED
      BY <1>1, <3>1, StatusTyped
  <2>2. cr' = c /\ cache'.obj = cache.obj
    BY <1>1, <1>3, <2>1, StoredTyped
  <2>3. op' \in Pass /\ op'.fresh = op.fresh /\ op'.initRestore /\ op'.inst = c
        /\ op'.pc = "default"
    BY <1>1, <1>3, <2>1 DEF Pass, Step
  <2>. QED
    BY <1>1, <1>3, <2>1, <2>2, <2>3 DEF Finds, Keeps, Always, initRestore
<1>. QED
  BY <1>2, <1>3 DEF initRestore

LEMMA validateAndSetDefaultOf ==
  ASSUME KInv, validateAndSetDefault
  PROVE  (Defaults \/ GivesUp) /\ Always
<1>1. op \in Pass /\ cr \in StoredCluster /\ cache \in View /\ Defaulted \in StoredCluster
  BY InPass, DefaultedFacts DEF KInv, TInv, ClusterTyped, validateAndSetDefault
<1>2. CASE StopRetry /\ UNCHANGED conf
  BY <1>2, GivesUpOf DEF validateAndSetDefault, Always, StopRetry
<1>3. CASE /\ NeedsUpdate => op.fresh
           /\ IF NeedsUpdate THEN Stored(SpecOf(Defaulted)) ELSE UNCHANGED <<cr, cache>>
           /\ EnsureRedisConfigMap(Defaulted)
           /\ Goto("password", Defaulted)
           /\ UNCHANGED <<queued, torn>>
  <2>1. /\ SpecOf(Defaulted) \in StoredCluster
        /\ SpecOf(Defaulted).spec = Defaulted.spec /\ SpecOf(Defaulted).status = cr.status
    BY <1>1, SpecTyped
  <2>2. /\ cache'.obj = cache.obj
        /\ IF NeedsUpdate THEN op.fresh /\ cr'.spec = Defaulted.spec /\ cr'.status = cr.status
                          ELSE UNCHANGED cr
    BY <1>1, <1>3, <2>1, StoredTyped
  <2>3. op' \in Pass /\ op'.fresh = op.fresh /\ op'.inst = Defaulted /\ op'.pc = "password"
    BY <1>1, <1>3 DEF Goto, Pass, Step, Mid
  <2>. QED
    BY <1>1, <1>3, <2>2, <2>3 DEF Defaults, Always, validateAndSetDefault
<1>. QED
  BY <1>2, <1>3 DEF validateAndSetDefault

LEMMA resetClusterPasswordOf ==
  ASSUME KInv, resetClusterPassword
  PROVE  Moves /\ Always
<1>1. /\ op \in Pass /\ op.inst \in StoredCluster /\ cr \in StoredCluster /\ cache \in View
      /\ op.pc \in Mid /\ UNCHANGED conf /\ Always
  BY InPass DEF KInv, TInv, ClusterTyped, resetClusterPassword, Pass, Mid, Always
<1>2. CASE Goto("sts", op.inst) /\ UNCHANGED <<cr, cache>>
  <2>1. op' \in Pass /\ op'.pc = "sts" /\ op'.inst = op.inst /\ op'.fresh = op.fresh
    BY <1>1, <1>2 DEF Goto, Pass, Step, Mid
  <2>. QED
    BY <1>1, <1>2, <2>1 DEF Moves, Keeps, Mid
<1>3. CASE CheckRedisNodeNum(op.inst) /\ IsPasswordChanged(op.inst, sts[0])
  <2>. DEFINE c == [op.inst EXCEPT !.status.state = "ResetPassword"]
              old == GetOldRedisClusterPassword(sts[0])
              inst == IF op.fresh THEN StatusOf(c) ELSE c
  <2>1. /\ op' = [op EXCEPT !.pc = "exec", !.podSet = Up, !.old = old, !.inst = inst,
                            !.pool = Connections(Up, old)]
        /\ IF op.fresh THEN Stored(StatusOf(c)) ELSE UNCHANGED <<cr, cache>>
    BY <1>3 DEF resetClusterPassword
  <2>2. /\ c \in StoredCluster /\ c.spec = op.inst.spec
        /\ c.status.phase = op.inst.status.phase
        /\ c.status.backup = op.inst.status.backup
    BY <1>1, StateTyped DEF State
  <2>3. /\ StatusOf(c) \in StoredCluster /\ StatusOf(c).spec = cr.spec
        /\ StatusOf(c).status.phase = op.inst.status.phase
        /\ StatusOf(c).status.backup = op.inst.status.backup
    BY <1>1, <2>2, StatusTyped
  <2>4. op'.pc = "exec" /\ op'.inst = inst /\ op'.fresh = op.fresh
    BY <1>1, <2>1 DEF Pass
  <2>5. op' \in Pass
    BY <2>4, resetClusterPasswordTInv, InPassNext DEF KInv
  <2>6. op.fresh => cr' = StatusOf(c) /\ cache'.obj = cache.obj
    BY <1>1, <2>1, <2>3, StoredTyped
  <2>. QED
    BY <1>1, <2>1, <2>2, <2>3, <2>4, <2>5, <2>6 DEF Moves, Keeps, Mid
<1>. QED
  BY <1>1, <1>2, <1>3 DEF resetClusterPassword

LEMMA ensureRedisStatefulsetOf ==
  ASSUME KInv, ensureRedisStatefulset
  PROVE  Moves /\ Always
<1>. DEFINE i == op.i
            change == Exists(i) /\ shouldUpdateRedis(op.inst, sts[i])
            last == i + 1 = op.inst.spec.size
            updated == op.updated \/ change
            c == [op.inst EXCEPT !.status.state = "Updating"]
            inst == IF op.fresh THEN StatusOf(c) ELSE c
<1>1. /\ op \in Pass /\ op.inst \in StoredCluster /\ cr \in StoredCluster /\ cache \in View
      /\ op.pc \in Mid /\ UNCHANGED conf
  BY InPass DEF KInv, TInv, ClusterTyped, ensureRedisStatefulset, Pass, Mid
<1>2. Always
  BY DEF ensureRedisStatefulset, Always
<1>3. CASE last /\ updated
  <2>1. /\ Goto("wait", inst)
        /\ IF op.fresh THEN Stored(StatusOf(c)) ELSE UNCHANGED <<cr, cache>>
    BY <1>3 DEF ensureRedisStatefulset
  <2>2. /\ c \in StoredCluster /\ c.spec = op.inst.spec
        /\ c.status.phase = op.inst.status.phase
        /\ c.status.backup = op.inst.status.backup
    BY <1>1, StateTyped DEF State
  <2>3. /\ StatusOf(c) \in StoredCluster /\ StatusOf(c).spec = cr.spec
        /\ StatusOf(c).status.phase = op.inst.status.phase
        /\ StatusOf(c).status.backup = op.inst.status.backup
    BY <1>1, <2>2, StatusTyped
  <2>4. op'.pc = "wait" /\ op'.inst = inst /\ op'.fresh = op.fresh
    BY <1>1, <2>1 DEF Pass, Goto
  <2>5. op' \in Pass
    BY <2>4, ensureRedisStatefulsetTInv, InPassNext DEF KInv
  <2>6. op.fresh => cr' = StatusOf(c) /\ cache'.obj = cache.obj
    BY <1>1, <2>1, <2>3, StoredTyped
  <2>. QED
    BY <1>1, <1>2, <2>1, <2>2, <2>3, <2>4, <2>5, <2>6 DEF Moves, Keeps, Mid
<1>4. CASE ~(last /\ updated)
  <2>1. /\ op' = [op EXCEPT !.i = IF last THEN 0 ELSE i + 1, !.updated = updated,
                            !.pc = IF last THEN "services" ELSE "sts"]
        /\ UNCHANGED <<cr, cache>>
    BY <1>4 DEF ensureRedisStatefulset
  <2>2. op'.pc \in {"services", "sts"} /\ op'.inst = op.inst /\ op'.fresh = op.fresh
    BY <1>1, <2>1 DEF Pass
  <2>3. op' \in Pass
    BY <2>2, ensureRedisStatefulsetTInv, InPassNext DEF KInv
  <2>. QED
    BY <1>1, <1>2, <2>1, <2>2, <2>3 DEF Moves, Keeps, Mid
<1>. QED
  BY <1>3, <1>4

(***************************************************************************)
(* The remaining steps of a pass.                                          *)
(***************************************************************************)
LEMMA RequeueOf ==
  ASSUME KInv, op \in Pass, Requeue, UNCHANGED conf, torn \subseteq torn',
         op.pc = "default" /\ op.initRestore => "init" \in torn', op.pc # "raise"
  PROVE  Ends
<1>1. op' = Idle /\ queued' /\ \E state \in State : SetState(state)
  BY DEF Requeue, Leave, State
<1>. QED
  BY <1>1, EndsOf

LEMMA GotoOf ==
  ASSUME KInv, op \in Pass, op.pc \in Mid, NEW pc \in Mid, Goto(pc, op.inst),
         UNCHANGED <<cr, cache, conf>>
  PROVE  Moves
<1>1. op' \in Pass /\ op'.pc = pc /\ op'.inst = op.inst /\ op'.fresh = op.fresh
  BY DEF Goto, Pass, Step
<1>. QED
  BY <1>1 DEF Moves, Keeps

LEMMA PasswordOf ==
  ASSUME KInv, ExecCommandInPodSet \/ ResetPassword
  PROVE  (Moves \/ Ends) /\ Always
<1>1. op \in Pass /\ op.pc \in {"exec", "reset"} /\ op.pc \in Mid /\ UNCHANGED conf
  BY InPass DEF KInv, TInv, ExecCommandInPodSet, ResetPassword, Mid
<1>2. Always
  BY DEF ExecCommandInPodSet, ResetPassword, Always
<1>3. CASE Requeue
  BY <1>1, <1>2, <1>3, RequeueOf DEF Always
<1>4. CASE Goto("reset", op.inst) /\ UNCHANGED <<cr, cache, queued>>
  BY <1>1, <1>2, <1>4, GotoOf DEF Mid
<1>5. ASSUME NEW p \in op.pool,
             op' = [op EXCEPT !.pool = @ \ {p},
                              !.pc = IF op.pool = {p} THEN "sts" ELSE "reset"],
             UNCHANGED <<cr, cache, queued>>
      PROVE  Moves
  <2>1. /\ op' \in Pass /\ op'.pc \in {"sts", "reset"} /\ op'.inst = op.inst
        /\ op'.fresh = op.fresh
    BY <1>1, <1>5 DEF Pass, Step, Mid
  <2>. QED
    BY <1>1, <1>5, <2>1 DEF Moves, Keeps, Mid
<1>. QED
  BY <1>2, <1>3, <1>4, <1>5 DEF ExecCommandInPodSet, ResetPassword

LEMMA WaitOf ==
  ASSUME KInv, waitStatefulSetUpdating \/ waitPodReady
  PROVE  (Moves \/ Ends) /\ Always
<1>1. op \in Pass /\ op.pc \in {"wait", "services"} /\ op.pc \in Mid /\ UNCHANGED conf
  BY InPass DEF KInv, TInv, waitStatefulSetUpdating, waitPodReady, Mid
<1>2. Always
  BY DEF waitStatefulSetUpdating, waitPodReady, Always
<1>3. CASE Requeue
  BY <1>1, <1>2, <1>3, RequeueOf DEF Always
<1>4. ASSUME NEW pc \in {"services", "restore"}, Goto(pc, op.inst),
             UNCHANGED <<cr, cache, queued>>
      PROVE  Moves
  BY <1>1, <1>2, <1>4, GotoOf DEF Mid
<1>. QED
  BY <1>2, <1>3, <1>4 DEF waitStatefulSetUpdating, waitPodReady

LEMMA MarkRestartOf ==
  ASSUME KInv, MarkRestart
  PROVE  (Marks("restore", "Running", "removeInit", "Restart") \/ Ends) /\ Always
<1>1. /\ op \in Pass /\ op.inst \in StoredCluster /\ cr \in StoredCluster /\ cache \in View
      /\ op.pc = "restore" /\ UNCHANGED conf /\ Always
      /\ op.inst.spec.restore /\ op.inst.status.phase = "Running"
  BY InPass DEF KInv, TInv, ClusterTyped, MarkRestart, Pass, Always, IsRestoreFromBackup,
     IsRestoreRunning
<1>2. CASE Leave(TRUE) /\ UNCHANGED <<cr, cache>>
  BY <1>1, <1>2, EndsOf DEF Leave
<1>3. CASE op.fresh
  <2>. DEFINE d == [op.inst EXCEPT !.status.phase = "Restart"]
              c == StatusOf(d)
  <2>1. /\ d \in StoredCluster /\ d.status.phase = "Restart"
        /\ d.status.backup = op.inst.status.backup
    BY <1>1, PhaseTyped DEF Phase
  <2>2. /\ c \in StoredCluster /\ c.spec = cr.spec /\ c.status.phase = "Restart"
        /\ c.status.backup = op.inst.status.backup
    BY <1>1, <2>1, StatusTyped
  <2>3. Stored(c) /\ op' = [op EXCEPT !.pc = "removeInit", !.inst = c, !.i = 0]
    BY <1>3 DEF MarkRestart
  <2>4. cr' = c /\ cache'.obj = cache.obj
    BY <1>1, <2>2, <2>3, StoredTyped
  <2>5. op'.pc = "removeInit" /\ op'.inst = c /\ op'.fresh = op.fresh /\ op'.i = 0
    BY <1>1, <2>3 DEF Pass
  <2>6. op' \in Pass
    BY <2>5, MarkRestartTInv, InPassNext DEF KInv
  <2>. QED
    BY <1>1, <1>3, <2>2, <2>4, <2>5, <2>6 DEF Marks, Keeps
<1>. QED
  BY <1>1, <1>2, <1>3 DEF MarkRestart

LEMMA MarkSucceededOf ==
  ASSUME KInv, MarkSucceeded
  PROVE  (Marks("restore", "Restart", "raise", "Succeeded") \/ Ends) /\ Always
<1>1. /\ op \in Pass /\ op.inst \in StoredCluster /\ cr \in StoredCluster /\ cache \in View
      /\ op.pc = "restore" /\ UNCHANGED conf /\ Always
      /\ op.inst.spec.restore /\ op.inst.status.phase = "Restart"
  BY InPass DEF KInv, TInv, ClusterTyped, MarkSucceeded, Pass, Always, IsRestoreFromBackup,
     IsRestoreRestarting
<1>2. CASE Leave(TRUE) /\ UNCHANGED <<cr, cache>>
  BY <1>1, <1>2, EndsOf DEF Leave
<1>3. CASE op.fresh
  <2>. DEFINE d == [op.inst EXCEPT !.status.phase = "Succeeded"]
              c == StatusOf(d)
  <2>1. /\ d \in StoredCluster /\ d.status.phase = "Succeeded"
        /\ d.status.backup = op.inst.status.backup
    BY <1>1, PhaseTyped DEF Phase
  <2>2. /\ c \in StoredCluster /\ c.spec = cr.spec /\ c.status.phase = "Succeeded"
        /\ c.status.backup = op.inst.status.backup
    BY <1>1, <2>1, StatusTyped
  <2>3. Stored(c) /\ Goto("raise", c)
    BY <1>3 DEF MarkSucceeded
  <2>4. cr' = c /\ cache'.obj = cache.obj
    BY <1>1, <2>2, <2>3, StoredTyped
  <2>5. op'.pc = "raise" /\ op'.inst = c /\ op'.fresh = op.fresh
    BY <1>1, <2>3 DEF Pass, Goto
  <2>6. op' \in Pass
    BY <2>5, MarkSucceededTInv, InPassNext DEF KInv
  <2>. QED
    BY <1>1, <1>3, <2>2, <2>4, <2>5, <2>6 DEF Marks, Keeps
<1>. QED
  BY <1>1, <1>2, <1>3 DEF MarkSucceeded

LEMMA UpdateRedisStatefulsetsOf ==
  ASSUME KInv, UpdateRedisStatefulsets
  PROVE  (Rewrites \/ Ends) /\ Always
<1>1. op \in Pass /\ op.pc = "removeInit" /\ UNCHANGED <<cr, cache, conf>> /\ Always
  BY InPass DEF KInv, TInv, UpdateRedisStatefulsets, Always
<1>2. CASE Leave(TRUE)
  BY <1>1, <1>2, EndsOf DEF Leave
<1>3. CASE op' = [op EXCEPT !.i = @ + 1]
  <2>1. op'.pc = "removeInit" /\ op'.inst = op.inst /\ op'.fresh = op.fresh
    BY <1>1, <1>3 DEF Pass
  <2>2. op' \in Pass
    BY <2>1, UpdateRedisStatefulsetsTInv, InPassNext DEF KInv
  <2>. QED
    BY <1>1, <2>1, <2>2 DEF Rewrites, Keeps
<1>. QED
  BY <1>1, <1>2, <1>3 DEF UpdateRedisStatefulsets

LEMMA RaiseReplicasOf ==
  ASSUME KInv, RaiseReplicas
  PROVE  (Raises \/ Ends) /\ Always
<1>. DEFINE c == SpecOf([op.inst EXCEPT !.spec.replicas = backup.replicas])
<1>1. /\ op \in Pass /\ op.pc = "raise" /\ UNCHANGED conf
      /\ cr \in StoredCluster /\ cache \in View /\ backup \in Source
  BY InPass DEF KInv, TInv, ClusterTyped, RaiseReplicas
<1>2. CASE Leave(TRUE) /\ Interrupted /\ UNCHANGED <<cr, cache>>
  <2>1. op' = Idle /\ queued' /\ "succeed" \in torn'
    BY <1>1, <1>2, InterruptionFacts DEF Leave, Interrupted
  <2>2. Ends
    BY <1>1, <1>2, <2>1, EndsOf
  <2>. QED
    BY <1>2, <2>2 DEF Always, Interrupted, RaiseReplicas
<1>3. CASE /\ op.fresh
           /\ Stored(c) /\ Leave(FALSE)
           /\ torn' = torn \cup (IF c = cr THEN {"noevent"} ELSE {})
  <2>1. /\ c \in StoredCluster /\ c.status = cr.status
        /\ c.spec = [op.inst.spec EXCEPT !.replicas = backup.replicas]
    BY <1>1, RaisedTyped
  <2>2. cr' = c /\ cache'.obj = cache.obj
    BY <1>1, <1>3, <2>1, StoredTyped
  <2>. QED
    BY <1>1, <1>3, <2>1, <2>2 DEF Raises, Leave, Always, RaiseReplicas
<1>. QED
  BY <1>2, <1>3 DEF RaiseReplicas

LEMMA SetConfigIfNeedOf ==
  ASSUME KInv, SetConfigIfNeed
  PROVE  Sets /\ Always
<1>1. /\ op \in Pass /\ op.pc = "restore" /\ UNCHANGED <<cr, cache, conf>> /\ Always
      /\ op.inst.spec.restore => op.inst.status.phase = "Succeeded"
      /\ Goto("finish", op.inst)
  BY InPass DEF KInv, TInv, SetConfigIfNeed, Always, IsRestoreFromBackup, IsRestored
<1>2. op' \in Pass /\ op'.pc = "finish" /\ op'.inst = op.inst /\ op'.fresh = op.fresh
  BY <1>1 DEF Goto, Pass, Step
<1>. QED
  BY <1>1, <1>2 DEF Sets, Keeps

LEMMA FinishOf ==
  ASSUME KInv, Finish
  PROVE  Ends /\ Always
<1>1. op \in Pass /\ op.pc = "finish" /\ UNCHANGED conf /\ Always /\ op' = Idle /\ queued'
  BY InPass DEF KInv, TInv, Finish, Always, Leave
<1>2. \E state \in State : SetState(state)
  BY DEF Finish, State
<1>. QED
  BY <1>1, <1>2, EndsOf

(***************************************************************************)
(* Failing calls, crashes and the environment.                             *)
(***************************************************************************)
LEMMA CallFailsOf ==
  ASSUME KInv, CallFails
  PROVE  (Moves \/ Ends \/ GivesUp) /\ Always
<1>1. op \in Pass /\ UNCHANGED <<conf, backup>>
  BY InPass DEF KInv, TInv, CallFails
<1>2. CASE StopRetry /\ op.pc \in {"init", "default", "services"}
  BY <1>1, <1>2, GivesUpOf DEF Always, StopRetry
<1>3. CASE Requeue /\ Interrupted /\ op.pc # "raise"
  BY <1>1, <1>3, RequeueOf, InterruptionFacts DEF Interrupted, Always
<1>4. CASE /\ op.pc = "password" /\ Goto("sts", op.inst)
           /\ torn \subseteq torn' /\ UNCHANGED <<cr, cache, queued>>
  BY <1>1, <1>4, GotoOf DEF Mid, Always
<1>5. CASE Leave(TRUE) /\ Interrupted /\ UNCHANGED <<cr, cache>>
  BY <1>1, <1>5, EndsOf, InterruptionFacts DEF Leave, Interrupted, Always
<1>6. CASE op.pc = "finish" /\ SetState("KO") /\ Leave(TRUE) /\ UNCHANGED torn
  BY <1>1, <1>6, EndsOf DEF Leave, State, Always
<1>. QED
  BY <1>2, <1>3, <1>4, <1>5, <1>6 DEF CallFails

LEMMA CrashOf ==
  ASSUME Crash
  PROVE  Ends /\ Always
BY InterruptionFacts DEF Crash, Interrupted, Ends, Always

LEMMA UpdateFuncOf ==
  ASSUME UpdateFunc
  PROVE  Delivers /\ Always
BY DEF UpdateFunc, Delivers, Always

LEMMA UserEditsOf ==
  ASSUME KInv, UserEdits
  PROVE  Edited /\ Always
<1>1. ~cr.spec.restore /\ cr'.spec.restore = cr.spec.restore
  BY EditTyped DEF KInv, TInv, ClusterTyped
<1>2. cache'.obj = cache.obj
  BY DEF KInv, TInv, ClusterTyped, View, UserEdits
<1>3. IF op.pc = "idle" THEN op' = op
      ELSE op' \in Pass /\ ~op'.fresh /\ op'.pc = op.pc /\ op'.inst = op.inst
           /\ op'.initRestore = op.initRestore
  <2>1. op.pc # "idle" => op \in Pass
    BY InPass DEF KInv, TInv
  <2>2. op' = IF op.pc = "idle" THEN op ELSE [op EXCEPT !.fresh = FALSE]
    BY DEF UserEdits
  <2>. QED
    BY <2>1, <2>2 DEF Pass
<1>4. Always /\ UNCHANGED <<queued, conf>>
  BY DEF UserEdits, Always
<1>. QED
  BY <1>1, <1>2, <1>3, <1>4 DEF Edited

LEMMA NextOf ==
  ASSUME KInv, [Next]_vars
  PROVE  StepOf
<1>1. CASE Reconcile
  BY <1>1, StartOf, initRestoreOf, validateAndSetDefaultOf, resetClusterPasswordOf,
     PasswordOf, ensureRedisStatefulsetOf, WaitOf, MarkRestartOf, UpdateRedisStatefulsetsOf,
     MarkSucceededOf, RaiseReplicasOf, SetConfigIfNeedOf, FinishOf
     DEF Reconcile, StepOf
<1>2. CASE CallFails \/ Crash \/ UpdateFunc \/ UserEdits
  BY <1>2, CallFailsOf, CrashOf, UpdateFuncOf, UserEditsOf DEF StepOf
<1>3. CASE BackupSucceeds
  <2>1. Quiet
    BY <1>3 DEF BackupSucceeds, Quiet
  <2>2. Always
    BY <1>3, BackupSucceedsTInv DEF KInv, BackupSucceeds, Always
  <2>. QED
    BY <2>1, <2>2 DEF StepOf
<1>4. CASE ClientWrites \/ UNCHANGED vars
  BY <1>4 DEF ClientWrites, vars, StepOf, Quiet, Always
<1>5. ASSUME NEW i \in Index, StatefulSetController(i) \/ \E k \in Ordinal : Evict(i, k)
      PROVE  StepOf
  <2>1. Quiet
    BY <1>5 DEF StatefulSetController, ScaleIn, RollPod, Evict, StartPod, Stop, Quiet
  <2>2. Always
    BY <1>5 DEF StatefulSetController, ScaleIn, RollPod, Evict, StartPod, Stop, Always
  <2>. QED
    BY <2>1, <2>2 DEF StepOf
<1>. QED
  BY <1>1, <1>2, <1>3, <1>4, <1>5 DEF Next

-----------------------------------------------------------------------------
LEMMA NextCopyOK ==
  ASSUME KInv, [Next]_vars
  PROVE  CopyOK'
<1>1. /\ StepOf /\ CacheOK
      /\ op.pc # "idle" => op \in Pass
      /\ cr \in StoredCluster /\ cache \in View /\ backup \in Source
  BY NextOf, InPass DEF KInv, TInv, ClusterTyped
<1>2. CASE Quiet
  BY <1>2 DEF KInv, CopyOK, Quiet
<1>3. CASE Moves
  BY <1>3 DEF KInv, CopyOK, Moves, Keeps, Mid
<1>4. CASE Ends
  BY <1>4 DEF KInv, CopyOK, Ends, Idle
<1>5. CASE GivesUp
  BY <1>5 DEF KInv, CopyOK, GivesUp, Idle
<1>6. CASE Begins
  <2>1. /\ cache.fresh \in BOOLEAN /\ cache.obj.spec.restore \in BOOLEAN
        /\ cr.spec.restore \in BOOLEAN
    BY <1>1 DEF View, StoredCluster, StoredSpec
  <2>2. op'.fresh => cache.obj = cr
    BY <1>1, <1>6, <2>1 DEF Begins, CacheOK
  <2>3. cache.obj.spec.restore = cr.spec.restore
    BY DEF KInv, CopyOK
  <2>4. /\ UNCHANGED <<cr, cache>> /\ op'.inst = cache.obj /\ ~op'.initRestore
        /\ op'.pc = IF cache.obj.spec.restore /\ cache.obj.status.phase = ""
                    THEN "init" ELSE "default"
    BY <1>6 DEF Begins
  <2>. QED
    BY <2>1, <2>2, <2>3, <2>4 DEF CopyOK
<1>7. CASE Finds
  BY <1>7 DEF KInv, CopyOK, Finds, Keeps
<1>8. CASE Defaults
  <2>1. /\ Defaulted.status = op.inst.status
        /\ Defaulted.spec.restore = op.inst.spec.restore
        /\ Defaulted.spec.config = op.inst.spec.config
    BY <1>1, <1>8, DefaultedFacts DEF Defaults
  <2>. QED
    BY <1>8, <2>1 DEF KInv, CopyOK, Defaults
<1>9. CASE \/ Marks("restore", "Running", "removeInit", "Restart")
           \/ Marks("restore", "Restart", "raise", "Succeeded")
  BY <1>9 DEF KInv, CopyOK, Marks, Keeps
<1>10. CASE Rewrites
  BY <1>10 DEF KInv, CopyOK, Rewrites, Keeps
<1>11. CASE Raises
  <2>1. cr'.spec.restore = op.inst.spec.restore
    BY <1>11 DEF Raises, Pass, StoredCluster, StoredSpec
  <2>. QED
    BY <1>11, <2>1 DEF KInv, CopyOK, Raises, Idle
<1>12. CASE Sets
  BY <1>12 DEF KInv, CopyOK, Sets, Keeps
<1>13. CASE Delivers
  BY <1>13 DEF KInv, CopyOK, Delivers
<1>14. CASE Edited
  BY <1>1, <1>14 DEF KInv, CopyOK, Edited
<1>15. StepOf
  BY <1>1
<1>. QED
  BY <1>2, <1>3, <1>4, <1>5, <1>6, <1>7, <1>8, <1>9, <1>10, <1>11, <1>12, <1>13,
     <1>14, <1>15
     DEF StepOf

LEMMA AlwaysKInv == Spec => []KInv
<1>1. ASSUME Init
      PROVE  KInv
  <2>1. op = Idle /\ cache.obj = cr
    BY <1>1 DEF Init
  <2>2. CopyOK
    BY <2>1 DEF CopyOK, Idle
  <2>. QED
    BY <1>1, <2>2, InitTInv DEF KInv
<1>2. KInv /\ [Next]_vars => KInv'
  BY NextTInv, NextCopyOK DEF KInv
<1>. QED
  BY <1>1, <1>2, PTL DEF Spec

-----------------------------------------------------------------------------
(***************************************************************************)
(* No cluster is forgotten.  The write that raises the replicas is the one *)
(* place where a pass ends without queuing the cluster and without giving  *)
(* up: the event of that write has to find another spec in the cache.  It  *)
(* does, since a pass of the phase Restart writes the spec before only if  *)
(* defaults are missing, and those the last write does not take back.      *)
(***************************************************************************)
NewerSpec(old, new) ==
  \/ old = new
  \/ old.size # new.size \/ old.image # new.image \/ old.complete # new.complete

EventOK ==
  (/\ op.pc \in Mid \cup {"raise"} /\ op.fresh /\ cr.spec.restore
   /\ op.inst.status.phase = "Restart" \/ op.pc = "raise")
    => NewerSpec(cache.obj.spec, cr.spec)

WaitOK ==
  (op.pc = "idle" /\ ~queued /\ torn \cap {"stop", "noevent"} = {})
    => cr.spec.restore /\ cache.obj.spec # cr.spec

WInv == KInv /\ EventOK /\ WaitOK

LEMMA NextWInv ==
  ASSUME WInv, [Next]_vars
  PROVE  EventOK' /\ WaitOK'
<1>1. /\ KInv /\ StepOf /\ Always
      /\ op.pc # "idle" => op \in Pass
      /\ cr \in StoredCluster /\ cr' \in StoredCluster /\ backup \in Source
  BY NextOf, NextTInv, InPass DEF WInv, KInv, TInv, ClusterTyped, StepOf
<1>2. torn' \cap {"stop", "noevent"} = {} => torn \cap {"stop", "noevent"} = {}
  BY <1>1 DEF Always
<1>3. CASE Quiet
  BY <1>2, <1>3 DEF WInv, EventOK, WaitOK, Quiet
<1>4. CASE Moves
  BY <1>4 DEF WInv, EventOK, WaitOK, Moves, Keeps, Mid
<1>5. CASE Ends \/ GivesUp
  BY <1>5 DEF EventOK, WaitOK, Ends, GivesUp, Idle, Mid
<1>6. CASE Begins \/ Finds \/ Rewrites \/ Sets
  BY <1>6 DEF EventOK, WaitOK, Begins, Finds, Rewrites, Sets, Mid
<1>7. CASE Defaults
  <2>1. op'.pc = "password" /\ WaitOK'
    BY <1>7 DEF Defaults, WaitOK
  <2>2. SUFFICES ASSUME op'.fresh, cr'.spec.restore, op'.inst.status.phase = "Restart"
                 PROVE  NewerSpec(cache'.obj.spec, cr'.spec)
    BY <2>1 DEF EventOK
  <2>3. op.fresh /\ op.inst.status.phase = "Restart"
    BY <1>1, <1>7, <2>2, DefaultedFacts DEF Defaults
  <2>4. op.inst = cr /\ cache.obj.spec = cr.spec /\ ~op.initRestore
    BY <1>1, <1>7, <2>3 DEF KInv, CopyOK, Defaults
  <2>5. CASE NeedsUpdate
    <3>1. \/ Defaulted.spec.size # cr.spec.size
          \/ Defaulted.spec.image # cr.spec.image
          \/ Defaulted.spec.complete # cr.spec.complete
      BY <1>1, <1>7, <2>4, <2>5, DefaultedFacts DEF Defaults
    <3>. QED
      BY <1>7, <2>4, <2>5, <3>1 DEF Defaults, NewerSpec
  <2>6. CASE ~NeedsUpdate
    BY <1>7, <2>4, <2>6 DEF Defaults, NewerSpec
  <2>. QED
    BY <2>5, <2>6
<1>8. CASE \/ Marks("restore", "Running", "removeInit", "Restart")
           \/ Marks("restore", "Restart", "raise", "Succeeded")
  <2>1. /\ op.pc = "restore" /\ op'.pc \in {"removeInit", "raise"} /\ op.fresh
        /\ cr'.spec = cr.spec /\ cache'.obj = cache.obj
        /\ op'.pc = "raise" => op.inst.status.phase = "Restart"
    BY <1>8 DEF Marks
  <2>. QED
    BY <2>1 DEF WInv, EventOK, WaitOK, Mid
<1>9. CASE Raises
  <2>1. /\ op.inst = cr /\ cr.spec.restore /\ NewerSpec(cache.obj.spec, cr.spec)
        /\ op'.pc = "idle"
    BY <1>9 DEF WInv, KInv, CopyOK, EventOK, Raises, Idle
  <2>2. /\ cr'.spec.size = cr.spec.size /\ cr'.spec.image = cr.spec.image
        /\ cr'.spec.complete = cr.spec.complete /\ cr'.spec.restore
    BY <1>1, <1>9, <2>1 DEF Raises, StoredCluster, StoredSpec
  <2>3. cr'.spec = cr.spec => cr' = cr
    BY <1>1, <1>9 DEF Raises, StoredCluster
  <2>4. cr' = cr \/ cache.obj.spec # cr'.spec
    BY <2>1, <2>2, <2>3 DEF NewerSpec
  <2>5. EventOK'
    BY <2>1 DEF EventOK, Mid
  <2>6. WaitOK'
    BY <1>9, <2>2, <2>4 DEF WaitOK, Raises
  <2>. QED
    BY <2>5, <2>6
<1>10. CASE Delivers
  BY <1>2, <1>10 DEF WInv, EventOK, WaitOK, NewerSpec, Delivers
<1>11. CASE Edited
  BY <1>1, <1>2, <1>11 DEF WInv, EventOK, WaitOK, Edited
<1>. QED
  BY <1>1, <1>3, <1>4, <1>5, <1>6, <1>7, <1>8, <1>9, <1>10, <1>11 DEF StepOf

(***************************************************************************)
(* A cluster is not dropped from the work queue with work left, whatever   *)
(* calls fail and however often the operator restarts, unless Reconcile    *)
(* gives up or its last write changes nothing.                             *)
(***************************************************************************)
THEOREM NeverForgotten == Spec => []NotForgotten
<1>1. ASSUME Init
      PROVE  EventOK /\ WaitOK
  <2>1. op = Idle /\ queued
    BY <1>1 DEF Init
  <2>. QED
    BY <2>1 DEF EventOK, WaitOK, Idle, Mid
<1>2. WInv /\ [Next]_vars => EventOK' /\ WaitOK'
  BY NextWInv
<1>3. WInv => NotForgotten
  BY DEF WInv, WaitOK, NotForgotten
<1>. QED
  BY <1>1, <1>2, <1>3, AlwaysKInv, PTL DEF Spec, WInv

-----------------------------------------------------------------------------
(***************************************************************************)
(* The ConfigMap.  isRedisConfChanged compares numbers of lines and then   *)
(* the lines of the content only; that is enough because no key occurs on  *)
(* two lines of a content that was generated.                              *)
(***************************************************************************)
IsContent(content) ==
  /\ IsFiniteSet(content)
  /\ \A l \in content : l = <<l[1], l[2]>> /\ l[2] # ""
  /\ \A l, m \in content : l[1] = m[1] => l = m

LEMMA GeneratedIsContent ==
  ASSUME NEW config, IsFiniteSet(DOMAIN config)
  PROVE  IsContent(generateRedisConfContent(config))
<1>. DEFINE D == {k \in DOMAIN config : config[k] # ""}
            content == generateRedisConfContent(config)
            f == [k \in D |-> <<k, config[k]>>]
<1>1. content = {<<k, config[k]>> : k \in D}
  BY DEF generateRedisConfContent
<1>2. IsFiniteSet(D)
  BY FS_Subset
<1>3. f \in Surjection(D, content)
  BY <1>1 DEF Surjection
<1>4. IsFiniteSet(content)
  BY <1>2, <1>3, FS_Surjection
<1>5. \A l \in content : \E k \in D : l = <<k, config[k]>>
  BY <1>1
<1>. HIDE DEF content
<1>6. ASSUME NEW l \in content
      PROVE  l = <<l[1], l[2]>> /\ l[2] # "" /\ l = <<l[1], config[l[1]]>>
  <2>1. PICK k \in D : l = <<k, config[k]>>
    BY <1>5
  <2>2. l[1] = k /\ l[2] = config[k] /\ config[k] # ""
    BY <2>1
  <2>. QED
    BY <2>1, <2>2
<1>7. ASSUME NEW l \in content, NEW m \in content, l[1] = m[1]
      PROVE  l = m
  <2>1. l = <<l[1], config[l[1]]>> /\ m = <<m[1], config[m[1]]>>
    BY <1>6
  <2>2. <<l[1], config[l[1]]>> = <<m[1], config[m[1]]>>
    BY <1>7
  <2>. QED
    BY <2>1, <2>2
<1>. QED
  BY <1>4, <1>6, <1>7 DEF IsContent, content

LEMMA UnchangedContent ==
  ASSUME NEW config, IsFiniteSet(DOMAIN config),
         NEW content, IsContent(content), content # {},
         ~isRedisConfChanged(content, config)
  PROVE  content = generateRedisConfContent(config)
<1>. DEFINE f == [l \in content |-> l[1]]
<1>1. IsFiniteSet(content) /\ Cardinality(content) \in Nat /\ Cardinality(content) # 0
  BY FS_CardinalityType, FS_EmptySet DEF IsContent
<1>2. Max({Cardinality(content), 1}) = Cardinality(content)
  BY <1>1, MaxOfTwo
<1>3. Cardinality(content) = Cardinality(DOMAIN config)
  BY <1>2 DEF isRedisConfChanged
<1>4. \A l \in content : l[1] \in DOMAIN config /\ config[l[1]] = l[2]
  BY DEF isRedisConfChanged
<1>5. f \in Injection(content, DOMAIN config)
  BY <1>4 DEF Injection, IsInjective, IsContent
<1>6. f \in Surjection(content, DOMAIN config)
  BY <1>3, <1>5, FS_Injection
<1>7. \A k \in DOMAIN config : \E l \in content : l[1] = k
  BY <1>6 DEF Surjection
<1>8. \A l \in content : l = <<l[1], config[l[1]]>> /\ config[l[1]] # ""
  BY <1>4 DEF IsContent
<1>9. \A k \in DOMAIN config : <<k, config[k]>> \in content /\ config[k] # ""
  BY <1>7, <1>8
<1>10. content \subseteq generateRedisConfContent(config)
  BY <1>4, <1>8 DEF generateRedisConfContent
<1>11. generateRedisConfContent(config) \subseteq content
  BY <1>9 DEF generateRedisConfContent
<1>. QED
  BY <1>10, <1>11

LEMMA LoadedConfig ==
  ASSUME NEW c \in StoredCluster
  PROVE  /\ IsFiniteSet(DOMAIN dbLoadedFromDiskWhenRestore(c))
         /\ (c.spec.restore => c.status.phase = "Succeeded") =>
              dbLoadedFromDiskWhenRestore(c) = c.spec.config
         /\ \A d : (/\ d.spec.restore = c.spec.restore /\ d.spec.config = c.spec.config
                     /\ d.status.phase = c.status.phase) =>
                dbLoadedFromDiskWhenRestore(d) = dbLoadedFromDiskWhenRestore(c)
<1>1. IsFiniteSet(DOMAIN c.spec.config)
  BY ConfigAssumption DEF StoredCluster, StoredSpec
<1>2. IsFiniteSet(DOMAIN c.spec.config \cup {"appendonly"})
  BY <1>1, FS_AddElement
<1>3. IsFiniteSet(DOMAIN dbLoadedFromDiskWhenRestore(c))
  BY <1>1, <1>2 DEF dbLoadedFromDiskWhenRestore
<1>4. (c.spec.restore => c.status.phase = "Succeeded") =>
        dbLoadedFromDiskWhenRestore(c) = c.spec.config
  BY DEF dbLoadedFromDiskWhenRestore, IsRestoreFromBackup, IsRestored
<1>5. \A d : (/\ d.spec.restore = c.spec.restore /\ d.spec.config = c.spec.config
              /\ d.status.phase = c.status.phase) =>
         dbLoadedFromDiskWhenRestore(d) = dbLoadedFromDiskWhenRestore(c)
  BY DEF dbLoadedFromDiskWhenRestore, IsRestoreFromBackup, IsRestored
<1>. QED
  BY <1>3, <1>4, <1>5

(***************************************************************************)
(* After the defaults the ConfigMap has, until the pass ends, what the     *)
(* pass's copy asks for, or is empty.                                      *)
(***************************************************************************)
Wanted(c) == generateRedisConfContent(dbLoadedFromDiskWhenRestore(c))

ConfOK ==
  /\ conf = NoConf \/ IsContent(conf)
  /\ op.pc \in Mid => conf \in {{}, Wanted(op.inst)}
  /\ ConfFollows

FInv == KInv /\ ConfOK

LEMMA NextFInv ==
  ASSUME FInv, [Next]_vars
  PROVE  ConfOK'
<1>1. /\ KInv /\ StepOf
      /\ op.pc # "idle" => op \in Pass
      /\ cr \in StoredCluster /\ cr' \in StoredCluster /\ backup \in Source
  BY NextOf, NextTInv, InPass DEF FInv, KInv, TInv, ClusterTyped
<1>2. CASE Quiet \/ Delivers
  BY <1>2 DEF FInv, ConfOK, ConfFollows, Quiet, Delivers
<1>3. CASE Moves
  <2>1. /\ op' \in Pass /\ op.inst.spec.restore = op'.inst.spec.restore
        /\ op.inst.spec.config = op'.inst.spec.config
        /\ op.inst.status.phase = op'.inst.status.phase
    BY <1>1, <1>3, InPass DEF KInv, TInv, CopyOK, Moves, Keeps
  <2>2. op'.inst \in StoredCluster
    BY <2>1 DEF Pass
  <2>3. Wanted(op'.inst) = Wanted(op.inst)
    BY <2>1, <2>2, LoadedConfig DEF Wanted
  <2>. QED
    BY <1>3, <2>3 DEF FInv, ConfOK, ConfFollows, Moves, Keeps, Mid
<1>4. CASE Ends \/ GivesUp \/ Raises
  BY <1>4 DEF FInv, ConfOK, ConfFollows, Ends, GivesUp, Raises, Idle, Mid
<1>5. CASE Begins \/ Finds \/ Rewrites
  BY <1>5 DEF FInv, ConfOK, ConfFollows, Begins, Finds, Rewrites, Keeps, Mid
<1>6. CASE \/ Marks("restore", "Running", "removeInit", "Restart")
           \/ Marks("restore", "Restart", "raise", "Succeeded")
  BY <1>6 DEF FInv, ConfOK, ConfFollows, Marks, Keeps, Mid
<1>7. CASE Defaults
  <2>. DEFINE config == dbLoadedFromDiskWhenRestore(Defaulted)
  <2>1. Defaulted \in StoredCluster
    BY <1>1, <1>7, DefaultedFacts DEF Defaults
  <2>2. IsFiniteSet(DOMAIN config)
    BY <2>1, LoadedConfig
  <2>3. conf' = IF conf = NoConf \/ isRedisConfChanged(conf, config)
                THEN generateRedisConfContent(config) ELSE conf
    BY <1>7 DEF Defaults, EnsureRedisConfigMap
  <2>. HIDE DEF config
  <2>4. IsContent(conf')
    BY <2>2, <2>3, GeneratedIsContent DEF FInv, ConfOK
  <2>5. conf' \in {{}, generateRedisConfContent(config)}
    BY <2>2, <2>3, UnchangedContent DEF FInv, ConfOK
  <2>6. conf' \in {{}, Wanted(op'.inst)}
    BY <1>7, <2>5 DEF Defaults, Wanted, config
  <2>. QED
    BY <1>7, <2>4, <2>6 DEF Defaults, ConfOK, ConfFollows
<1>8. CASE Sets
  <2>1. op.inst \in StoredCluster
    BY <1>8 DEF Sets, Pass
  <2>2. Wanted(op.inst) = generateRedisConfContent(op.inst.spec.config)
    BY <1>8, <2>1, LoadedConfig DEF Sets, Wanted
  <2>3. conf \in {{}, Wanted(op.inst)}
    BY <1>8 DEF FInv, ConfOK, Sets, Mid
  <2>. QED
    BY <1>8, <2>2, <2>3 DEF FInv, Sets, Keeps, ConfOK, ConfFollows, Mid
<1>9. CASE Edited
  BY <1>9 DEF FInv, Edited, ConfOK, ConfFollows
<1>. QED
  BY <1>1, <1>2, <1>3, <1>4, <1>5, <1>6, <1>7, <1>8, <1>9 DEF StepOf

LEMMA AlwaysFInv == Spec => []FInv
<1>1. ASSUME Init
      PROVE  ConfOK
  <2>1. op = Idle
    BY <1>1 DEF Init
  <2>2. cr \in StoredCluster
    BY <1>1, InitTInv DEF TInv, ClusterTyped
  <2>3. conf = NoConf \/ conf = generateRedisConfContent(cr.spec.config)
    BY <1>1 DEF Init
  <2>4. IsFiniteSet(DOMAIN cr.spec.config)
    BY <2>2, ConfigAssumption DEF StoredCluster, StoredSpec
  <2>5. conf = NoConf \/ IsContent(conf)
    BY <2>3, <2>4, GeneratedIsContent
  <2>. QED
    BY <2>1, <2>5 DEF ConfOK, ConfFollows, Idle, Mid
<1>2. FInv /\ [Next]_vars => ConfOK'
  BY NextFInv
<1>. QED
  BY <1>1, <1>2, AlwaysKInv, PTL DEF Spec, FInv

(***************************************************************************)
(* When a pass sets the nodes to a configuration, the ConfigMap that their *)
(* successors will start from has the same one, unless it is empty; also   *)
(* when the configuration is edited during the pass, or the pass before    *)
(* was cut short.                                                          *)
(***************************************************************************)
THEOREM ConfProved == Spec => []ConfFollows
<1>1. FInv => ConfFollows
  BY DEF FInv, ConfOK
<1>. QED
  BY <1>1, AlwaysFInv, PTL

-----------------------------------------------------------------------------
(***************************************************************************)
(* The shape of a restored cluster.  It is written, with the first of two  *)
(* writes, right after the phase has been set to Running; later passes     *)
(* leave it alone because it has its defaults.  The backup's replicas come *)
(* with the write after the phase has been set to Succeeded.               *)
(***************************************************************************)
Given == Image \cup {NoImage}

Shaped(spec) == spec.size = Max({backup.size, MinMasterSize}) /\ spec.image \in Image

ShapeOK ==
  cr.spec.restore =>
    /\ cr.status.phase = "" => cr.spec.image \in Given
    /\ cr.status.phase # "" /\ "init" \notin torn =>
         \/ Shaped(cr.spec)
         \/ op.pc = "default" /\ op.initRestore /\ cr.spec.image \in Given
    /\ cr.status.phase = "Succeeded" /\ "succeed" \notin torn =>
         op.pc = "raise" \/ cr.spec.replicas = backup.replicas

SInv == KInv /\ ShapeOK

LEMMA ShapedByDefault ==
  ASSUME KInv, Defaults, cr.spec.restore,
         Shaped(cr.spec) \/ (op.initRestore /\ cr.spec.image \in Given)
  PROVE  /\ cr'.spec.size = Max({backup.size, MinMasterSize})
         /\ cr'.spec.image \in Image
<1>1. /\ op \in Pass /\ op.pc = "default" /\ backup \in Source /\ cr \in StoredCluster
      /\ backup.image \in Image /\ backup.size \in Nat /\ MinMasterSize \in Nat
  BY MinMasterSizeAssumption DEF KInv, TInv, ClusterTyped, Defaults, Source
<1>. DEFINE size == Max({backup.size, MinMasterSize})
<1>2. /\ size = (IF backup.size >= MinMasterSize THEN backup.size ELSE MinMasterSize)
      /\ size \in Nat
  BY <1>1, MaxOfTwo
<1>3. Max({size, MinMasterSize}) = size
  BY <1>1, <1>2, MaxOfTwo
<1>. HIDE DEF size
<1>4. CASE ~op.fresh
  <2>1. ~op.initRestore /\ UNCHANGED cr
    BY <1>1, <1>4 DEF KInv, CopyOK, Defaults
  <2>. QED
    BY <2>1 DEF Shaped, size
<1>5. CASE op.fresh
  <2>1. op.inst = cr
    BY <1>1, <1>5 DEF KInv, CopyOK
  <2>2. Copied.size \in {backup.size, size} /\ Copied.image \in Image
    <3>1. CASE op.initRestore
      BY <1>1, <2>1, <3>1, CopiedFacts DEF Shaped, Given
    <3>2. CASE ~op.initRestore
      BY <1>1, <2>1, <3>2, CopiedFacts DEF Shaped, size
    <3>. QED
      BY <3>1, <3>2
  <2>3. Max({Copied.size, MinMasterSize}) = size
    BY <1>3, <2>2 DEF size
  <2>4. Defaulted.spec.size = size /\ Defaulted.spec.image \in Image
    BY <1>1, <2>2, <2>3, DefaultedFacts, ImageAssumption
  <2>5. CASE NeedsUpdate
    BY <2>4, <2>5 DEF Defaults, size
  <2>6. CASE ~NeedsUpdate
    <3>1. Copied = cr.spec /\ Defaulted = Masters /\ UNCHANGED cr
      BY <2>1, <2>6 DEF NeedsUpdate, Defaults
    <3>2. Masters.spec.size = Copied.size /\ Masters.spec.image = Copied.image
      BY <1>1, MastersFacts
    <3>. QED
      BY <2>4, <3>1, <3>2 DEF size
  <2>. QED
    BY <2>5, <2>6
<1>. QED
  BY <1>4, <1>5

LEMMA NextSInv ==
  ASSUME SInv, [Next]_vars
  PROVE  ShapeOK'
<1>1. /\ KInv /\ StepOf /\ Always /\ ShapeOK
      /\ cr \in StoredCluster /\ backup \in Source
  BY NextOf DEF SInv, KInv, TInv, ClusterTyped, StepOf
<1>2. /\ "init" \notin torn' => "init" \notin torn
      /\ "succeed" \notin torn' => "succeed" \notin torn
      /\ backup'.size = backup.size /\ backup'.replicas = backup.replicas
  BY <1>1 DEF Always
<1>3. CASE Quiet \/ Delivers
  BY <1>1, <1>2, <1>3 DEF ShapeOK, Shaped, Quiet, Delivers
<1>4. CASE Moves
  <2>1. /\ op.pc \notin {"default", "raise"}
        /\ cr'.spec = cr.spec /\ cr'.status.phase = cr.status.phase
    BY <1>1, <1>4 DEF KInv, CopyOK, Moves, Mid
  <2>. QED
    BY <1>1, <1>2, <2>1 DEF ShapeOK, Shaped
<1>5. CASE Ends \/ GivesUp
  BY <1>1, <1>2, <1>5 DEF ShapeOK, Shaped, Ends, GivesUp
<1>6. CASE Begins \/ Rewrites \/ Sets
  BY <1>1, <1>2, <1>6 DEF ShapeOK, Shaped, Begins, Rewrites, Sets
<1>7. CASE Finds
  <2>1. cr.status.phase = ""
    BY <1>1, <1>7 DEF KInv, CopyOK, Finds
  <2>. QED
    BY <1>1, <1>7, <2>1 DEF ShapeOK, Finds
<1>8. CASE Defaults
  <2>1. SUFFICES ASSUME cr'.spec.restore
                 PROVE  ShapeOK'
    BY DEF ShapeOK
  <2>2. /\ cr.spec.restore /\ op.inst.status.phase # "" /\ cr'.status = cr.status
        /\ op.fresh => op.inst = cr
    <3>1. Defaulted.spec.restore = op.inst.spec.restore
      BY <1>1, <1>8, DefaultedFacts DEF Defaults
    <3>2. op.inst.spec.restore = cr.spec.restore
      BY <1>1, <1>8 DEF KInv, CopyOK, Defaults
    <3>3. cr.spec.restore
      BY <1>8, <2>1, <3>1, <3>2 DEF Defaults
    <3>. QED
      BY <1>1, <1>8, <3>3 DEF KInv, CopyOK, Defaults
  <2>3. cr.status.phase = "" => cr'.spec.image \in Given
    BY <1>1, <1>8, <2>2 DEF Defaults, ShapeOK
  <2>4. ASSUME cr.status.phase # "", "init" \notin torn'
        PROVE  cr'.spec.size = Max({backup.size, MinMasterSize}) /\ cr'.spec.image \in Image
    BY <1>1, <1>2, <1>8, <2>2, <2>4, ShapedByDefault DEF ShapeOK
  <2>5. ASSUME cr.status.phase = "Succeeded", "succeed" \notin torn'
        PROVE  cr'.spec.replicas = backup.replicas
    <3>1. cr.spec.replicas = backup.replicas
      BY <1>1, <1>2, <1>8, <2>2, <2>5 DEF ShapeOK, Defaults
    <3>2. op.fresh => Defaulted.spec.replicas = cr.spec.replicas
      BY <1>1, <1>8, <2>2, <2>5, DefaultedFacts DEF Defaults
    <3>. QED
      BY <1>8, <3>1, <3>2 DEF Defaults
  <2>. QED
    BY <1>2, <2>2, <2>3, <2>4, <2>5 DEF ShapeOK, Shaped
<1>9. CASE \/ Marks("restore", "Running", "removeInit", "Restart")
           \/ Marks("restore", "Restart", "raise", "Succeeded")
  <2>1. /\ op.pc = "restore" /\ cr.status.phase \in {"Running", "Restart"}
        /\ cr'.spec = cr.spec /\ cr'.status.phase \in {"Restart", "Succeeded"}
        /\ cr'.status.phase = "Succeeded" => op'.pc = "raise"
    BY <1>1, <1>9 DEF KInv, CopyOK, Marks
  <2>. QED
    BY <1>1, <1>2, <2>1 DEF ShapeOK, Shaped
<1>10. CASE Raises
  <2>1. /\ op.inst = cr /\ cr'.status.phase = "Succeeded" /\ cr.status.phase = "Succeeded"
        /\ cr.spec.restore
    BY <1>1, <1>10 DEF KInv, CopyOK, Raises
  <2>2. /\ cr'.spec.size = cr.spec.size /\ cr'.spec.image = cr.spec.image
        /\ cr'.spec.replicas = backup.replicas
    BY <1>1, <1>10, <2>1 DEF Raises, StoredCluster, StoredSpec
  <2>. QED
    BY <1>1, <1>2, <1>10, <2>1, <2>2 DEF ShapeOK, Shaped, Raises
<1>11. CASE Edited
  BY <1>11 DEF ShapeOK, Edited
<1>. QED
  BY <1>1, <1>3, <1>4, <1>5, <1>6, <1>7, <1>8, <1>9, <1>10, <1>11 DEF StepOf

LEMMA AlwaysSInv == Spec => []SInv
<1>1. ASSUME Init
      PROVE  ShapeOK
  <2>1. PICK s \in NewSpec, st \in {"", "OK"} :
          cr = [spec |-> s, status |-> [phase |-> "", backup |-> FALSE, state |-> st]]
    BY <1>1 DEF Init
  <2>2. cr.status.phase = "" /\ cr.spec.image \in Given
    BY <2>1 DEF NewSpec, Given
  <2>. QED
    BY <2>2 DEF ShapeOK
<1>2. SInv /\ [Next]_vars => ShapeOK'
  BY NextSInv
<1>. QED
  BY <1>1, <1>2, AlwaysKInv, PTL DEF Spec, SInv

(***************************************************************************)
(* A restore that is called Succeeded has the backup's masters, an image   *)
(* that somebody chose and the backup's slaves, unless one of its two      *)
(* pairs of writes was cut in two: whatever else fails, stale caches and   *)
(* refused writes included.                                                *)
(***************************************************************************)
THEOREM ShapeProved == Spec => []RestoredShape
<1>1. SInv => RestoredShape
  <2>1. SInv => (op.pc = "default" /\ op.initRestore => cr.status.phase # "Succeeded")
    BY DEF SInv, KInv, CopyOK
  <2>. QED
    BY <2>1 DEF SInv, ShapeOK, Shaped, RestoredShape, IsRestoreFromBackup, IsRestored
<1>. QED
  BY <1>1, AlwaysSInv, PTL

-----------------------------------------------------------------------------
(***************************************************************************)
(* A restore: a pass and the cache may be behind the stored cluster, but   *)
(* never ahead of it.                                                      *)
(***************************************************************************)
Behind(old, new) ==
  \/ old = new
  \/ old = ""
  \/ old = "Running" /\ new \in {"Restart", "Succeeded"}
  \/ old = "Restart" /\ new = "Succeeded"

Trails(c) ==
  /\ c.spec.config = cr.spec.config
  /\ Behind(c.status.phase, cr.status.phase)
  /\ c.status.phase # "" => c.status.backup

TrailOK ==
  cr.spec.restore =>
    /\ Trails(cr) /\ Trails(cache.obj)
    /\ op.pc # "idle" => Trails(op.inst)
    /\ op.pc \in Mid \cup {"removeInit"} /\ op.fresh => op.inst.spec.size = cr.spec.size
    /\ op.pc = "removeInit" => op.inst.status.phase = "Restart"
    /\ op.pc = "default" /\ op.inst.status.phase = "Succeeded" =>
         cache.obj.status.phase = "Succeeded"

LEMMA NextTrailOK ==
  ASSUME KInv, TrailOK, [Next]_vars
  PROVE  TrailOK'
<1>1. /\ StepOf /\ CopyOK /\ CacheOK
      /\ op.pc # "idle" => op \in Pass
      /\ cr \in StoredCluster /\ cache \in View /\ backup \in Source
  BY NextOf, InPass DEF KInv, TInv, ClusterTyped
<1>. SUFFICES ASSUME cr'.spec.restore
              PROVE  TrailOK'
  BY DEF TrailOK
<1>2. CASE Quiet
  BY <1>2 DEF TrailOK, Trails, Quiet
<1>3. CASE Moves
  <2>1. /\ cr.spec.restore /\ Trails(op.inst) /\ Trails(cr) /\ Trails(cache.obj)
        /\ cr'.spec = cr.spec /\ cr'.status.phase = cr.status.phase
        /\ cr'.status.backup = cr.status.backup /\ cache'.obj = cache.obj
        /\ op'.inst.spec.config = cr.spec.config
        /\ op.fresh => op'.inst.spec.size = cr.spec.size
    BY <1>1, <1>3 DEF TrailOK, Trails, CopyOK, Moves, Mid
  <2>. QED
    BY <1>3, <2>1 DEF TrailOK, Trails, Moves, Keeps, Mid
<1>4. CASE Ends \/ GivesUp
  <2>1. /\ cr'.spec = cr.spec /\ cr'.status.phase = cr.status.phase
        /\ cr'.status.backup = cr.status.backup /\ op'.pc = "idle"
        /\ cache'.obj = cache.obj \/ cache'.obj = cr
    BY <1>4 DEF Ends, GivesUp, Idle
  <2>2. Trails(cr) /\ Trails(cache.obj)
    BY <2>1 DEF TrailOK
  <2>3. Trails(cr)' /\ Trails(cache.obj)'
    BY <2>1, <2>2 DEF Trails
  <2>. QED
    BY <2>1, <2>3 DEF TrailOK, Mid
<1>5. CASE Begins
  BY <1>1, <1>5 DEF TrailOK, Trails, Begins, Mid
<1>6. CASE Finds
  <2>1. /\ cr.spec.restore /\ Trails(cr) /\ Trails(cache.obj)
        /\ cr.status.phase = ""
    BY <1>1, <1>6 DEF TrailOK, CopyOK, Finds
  <2>2. cache.obj.status.phase = ""
    BY <2>1 DEF Trails, Behind
  <2>. QED
    BY <1>6, <2>1, <2>2 DEF TrailOK, Trails, Behind, Finds, Keeps, Mid
<1>7. CASE Defaults
  <2>1. /\ Defaulted.status = op.inst.status
        /\ Defaulted.spec.restore = op.inst.spec.restore
        /\ Defaulted.spec.config = op.inst.spec.config
    BY <1>1, <1>7, DefaultedFacts DEF Defaults
  <2>2. ASSUME op.fresh
        PROVE  Defaulted.spec.size = cr'.spec.size
    <3>1. CASE NeedsUpdate
      BY <1>7, <3>1 DEF Defaults
    <3>2. CASE ~NeedsUpdate
      <4>1. Copied = op.inst.spec /\ Defaulted = Masters /\ cr' = cr /\ op.inst = cr
        BY <1>1, <1>7, <2>2, <3>2 DEF NeedsUpdate, Defaults, CopyOK
      <4>2. Masters.spec.size = Copied.size
        BY <1>1, <1>7, MastersFacts DEF Defaults
      <4>. QED
        BY <4>1, <4>2
    <3>. QED
      BY <3>1, <3>2
  <2>3. /\ cr.spec.restore /\ cr'.spec.config = cr.spec.config /\ cr'.status = cr.status
        /\ Trails(op.inst) /\ Trails(cr) /\ Trails(cache.obj)
    BY <1>1, <1>7, <2>1 DEF TrailOK, CopyOK, Defaults, Trails
  <2>. QED
    BY <1>7, <2>1, <2>2, <2>3 DEF TrailOK, Trails, Defaults, Mid
<1>8. CASE Marks("restore", "Running", "removeInit", "Restart")
  <2>1. /\ cr.spec.restore /\ Trails(cr) /\ Trails(cache.obj) /\ Trails(op.inst)
        /\ cr.status.phase = "Running"
    BY <1>1, <1>8 DEF TrailOK, CopyOK, Marks
  <2>. QED
    BY <1>8, <2>1 DEF TrailOK, Trails, Behind, Marks, Keeps, Mid
<1>9. CASE Marks("restore", "Restart", "raise", "Succeeded")
  <2>1. /\ cr.spec.restore /\ Trails(cr) /\ Trails(cache.obj) /\ Trails(op.inst)
        /\ cr.status.phase = "Restart"
    BY <1>1, <1>9 DEF TrailOK, CopyOK, Marks
  <2>. QED
    BY <1>9, <2>1 DEF TrailOK, Trails, Behind, Marks, Keeps, Mid
<1>10. CASE Rewrites \/ Sets
  BY <1>10 DEF TrailOK, Trails, Rewrites, Sets, Keeps, Mid
<1>11. CASE Raises
  <2>1. /\ cr.spec.restore /\ Trails(cr) /\ Trails(cache.obj)
        /\ cr'.spec.config = op.inst.spec.config /\ op.inst = cr
    BY <1>1, <1>11 DEF TrailOK, CopyOK, Raises, Pass, StoredCluster, StoredSpec
  <2>. QED
    BY <1>11, <2>1 DEF TrailOK, Trails, Raises, Idle, Mid
<1>12. CASE Delivers
  <2>1. cr.spec.restore /\ Trails(cr) /\ (Trails(op.inst) \/ op.pc = "idle")
    BY <1>12 DEF TrailOK, Delivers
  <2>. QED
    BY <1>12, <2>1 DEF TrailOK, Trails, Behind, Delivers
<1>13. CASE Edited
  BY <1>1, <1>13 DEF Edited, StoredCluster, StoredSpec
<1>14. StepOf
  BY <1>1
<1>. QED
  BY <1>2, <1>3, <1>4, <1>5, <1>6, <1>7, <1>8, <1>9, <1>10, <1>11, <1>12, <1>13, <1>14
     DEF StepOf

(***************************************************************************)
(* The append only file.  The ConfigMap asks for one only once the restore *)
(* has succeeded, and from then on always: the pass that writes it has     *)
(* read Succeeded from the cache, so that no later pass reads less.        *)
(***************************************************************************)
WantsLog(config) == "appendonly" \in DOMAIN config /\ config["appendonly"] = "yes"

LogOK ==
  cr.spec.restore =>
    /\ WantsLog(cr.spec.config) => conf # {}
    /\ AppendOnly(conf) =>
         /\ WantsLog(cr.spec.config)
         /\ cr.status.phase = "Succeeded" /\ cache.obj.status.phase = "Succeeded"
         /\ op.pc # "idle" => op.inst.status.phase = "Succeeded"

LEMMA GeneratedLog ==
  ASSUME NEW config
  PROVE  /\ AppendOnly(generateRedisConfContent(config)) <=> WantsLog(config)
         /\ ("appendonly" \in DOMAIN config /\ config["appendonly"] # "") =>
              generateRedisConfContent(config) # {}
<1>1. ASSUME AppendOnly(generateRedisConfContent(config))
      PROVE  WantsLog(config)
  <2>1. PICK k \in DOMAIN config : <<"appendonly", "yes">> = <<k, config[k]>>
    BY <1>1 DEF AppendOnly, generateRedisConfContent
  <2>2. k = "appendonly" /\ config[k] = "yes"
    BY <2>1
  <2>. QED
    BY <2>2 DEF WantsLog
<1>2. ASSUME WantsLog(config)
      PROVE  AppendOnly(generateRedisConfContent(config))
  BY <1>2 DEF AppendOnly, generateRedisConfContent, WantsLog
<1>3. ASSUME "appendonly" \in DOMAIN config, config["appendonly"] # ""
      PROVE  <<"appendonly", config["appendonly"]>> \in generateRedisConfContent(config)
  BY <1>3 DEF generateRedisConfContent
<1>. QED
  BY <1>1, <1>2, <1>3

LEMMA WantedLog ==
  ASSUME NEW c, c.spec.restore
  PROVE  /\ WantsLog(c.spec.config) => Wanted(c) # {}
         /\ AppendOnly(Wanted(c)) <=>
              (WantsLog(c.spec.config) /\ c.status.phase = "Succeeded")
<1>. DEFINE config == dbLoadedFromDiskWhenRestore(c)
<1>1. CASE c.status.phase = "Succeeded" \/ DOMAIN c.spec.config = {}
  <2>1. config = c.spec.config
    BY <1>1 DEF dbLoadedFromDiskWhenRestore, IsRestored
  <2>2. WantsLog(c.spec.config) =>
          /\ c.status.phase = "Succeeded" /\ "appendonly" \in DOMAIN c.spec.config
          /\ c.spec.config["appendonly"] # ""
    BY <1>1 DEF WantsLog
  <2>. QED
    BY <2>1, <2>2, GeneratedLog DEF Wanted
<1>2. CASE c.status.phase # "Succeeded" /\ DOMAIN c.spec.config # {}
  <2>1. config = [k \in DOMAIN c.spec.config \cup {"appendonly"} |->
                    IF k = "appendonly" THEN "no" ELSE c.spec.config[k]]
    BY <1>2 DEF dbLoadedFromDiskWhenRestore, IsRestored, IsRestoreFromBackup
  <2>2. "appendonly" \in DOMAIN config /\ config["appendonly"] = "no"
    BY <2>1
  <2>3. ~WantsLog(config)
    BY <2>2 DEF WantsLog
  <2>. HIDE DEF config
  <2>4. generateRedisConfContent(config) # {} /\ ~AppendOnly(generateRedisConfContent(config))
    BY <2>2, <2>3, GeneratedLog
  <2>. QED
    BY <1>2, <2>4 DEF Wanted, config
<1>. QED
  BY <1>1, <1>2

LEMMA NextLogOK ==
  ASSUME KInv, TrailOK, LogOK, [Next]_vars
  PROVE  LogOK'
<1>1. /\ StepOf /\ CopyOK
      /\ op.pc # "idle" => op \in Pass
      /\ cr \in StoredCluster /\ backup \in Source
  BY NextOf, InPass DEF KInv, TInv, ClusterTyped
<1>. SUFFICES ASSUME cr'.spec.restore
              PROVE  LogOK'
  BY DEF LogOK
<1>2. CASE Quiet
  BY <1>2 DEF LogOK, Quiet
<1>3. CASE Moves
  <2>1. /\ cr.spec.restore /\ cr'.spec = cr.spec /\ cr'.status.phase = cr.status.phase
        /\ cache'.obj = cache.obj /\ conf' = conf /\ op.pc # "idle"
        /\ op'.inst.status.phase = op.inst.status.phase
    BY <1>1, <1>3 DEF CopyOK, Moves, Keeps, Mid
  <2>. QED
    BY <2>1 DEF LogOK
<1>4. CASE Ends \/ GivesUp
  <2>1. /\ cr'.spec = cr.spec /\ cr'.status.phase = cr.status.phase
        /\ op'.pc = "idle" /\ conf' = conf
        /\ cache'.obj = cache.obj \/ cache'.obj = cr
    BY <1>4 DEF Ends, GivesUp, Idle
  <2>. QED
    BY <2>1 DEF LogOK
<1>5. CASE Begins
  BY <1>5 DEF LogOK, Begins
<1>6. CASE Finds
  <2>1. ~AppendOnly(conf) /\ cr.spec.restore
    BY <1>1, <1>6 DEF LogOK, Finds, CopyOK
  <2>. QED
    BY <1>6, <2>1 DEF LogOK, Finds, Keeps
<1>7. CASE Marks("restore", "Running", "removeInit", "Restart")
  <2>1. ~AppendOnly(conf) /\ cr.spec.restore
    BY <1>1, <1>7 DEF LogOK, Marks, CopyOK
  <2>. QED
    BY <1>7, <2>1 DEF LogOK, Marks, Keeps
<1>8. CASE Marks("restore", "Restart", "raise", "Succeeded")
  <2>1. ~AppendOnly(conf) /\ cr.spec.restore
    BY <1>1, <1>8 DEF LogOK, Marks, CopyOK
  <2>. QED
    BY <1>8, <2>1 DEF LogOK, Marks, Keeps
<1>9. CASE Rewrites \/ Sets
  BY <1>9 DEF LogOK, Rewrites, Sets, Keeps
<1>10. CASE Raises
  <2>1. cr'.spec.config = cr.spec.config /\ cr.spec.restore
    BY <1>1, <1>10 DEF CopyOK, Raises, Pass, StoredCluster, StoredSpec
  <2>. QED
    BY <1>10, <2>1 DEF LogOK, Raises, Idle
<1>11. CASE Delivers
  BY <1>11 DEF LogOK, Delivers
<1>12. CASE Edited
  BY <1>1, <1>12 DEF Edited, StoredCluster, StoredSpec
<1>13. CASE Defaults
  <2>1. /\ Defaulted.status = op.inst.status
        /\ Defaulted.spec.restore = op.inst.spec.restore
        /\ Defaulted.spec.config = op.inst.spec.config
    BY <1>1, <1>13, DefaultedFacts DEF Defaults
  <2>2. /\ cr.spec.restore /\ op.inst.spec.restore /\ op.inst.spec.config = cr.spec.config
        /\ cr'.spec.config = cr.spec.config /\ cr'.status = cr.status
        /\ Behind(op.inst.status.phase, cr.status.phase)
        /\ op.inst.status.phase = "Succeeded" => cache.obj.status.phase = "Succeeded"
    BY <1>1, <1>13, <2>1 DEF TrailOK, Trails, CopyOK, Defaults
  <2>3. conf' = Wanted(Defaulted) \/ conf' = conf
    BY <1>13 DEF Defaults, EnsureRedisConfigMap, Wanted
  <2>4. /\ op'.inst.status.phase = op.inst.status.phase /\ cache'.obj = cache.obj
        /\ op.pc # "idle"
    BY <1>13, <2>1 DEF Defaults
  <2>5. CASE conf' = conf
    BY <2>2, <2>4, <2>5 DEF LogOK
  <2>6. CASE conf' = Wanted(Defaulted)
    <3>1. /\ WantsLog(cr.spec.config) => conf' # {}
          /\ AppendOnly(conf') =>
               WantsLog(cr.spec.config) /\ op.inst.status.phase = "Succeeded"
      BY <2>1, <2>2, <2>6, WantedLog
    <3>. QED
      BY <2>2, <2>4, <3>1 DEF LogOK, Behind
  <2>. QED
    BY <2>3, <2>5, <2>6
<1>14. StepOf
  BY <1>1
<1>. QED
  BY <1>2, <1>3, <1>4, <1>5, <1>6, <1>7, <1>8, <1>9, <1>10, <1>11, <1>12, <1>13, <1>14
     DEF StepOf

(***************************************************************************)
(* What a step does to the pods and their data.  Passwords and files apart *)
(* the operator leaves the pods alone, but for SetConfigIfNeed.            *)
(***************************************************************************)
Content == {"none", "backup", "newer"}

Data == [rdb : Content, aof : SUBSET Content, mem : Content, acked : BOOLEAN]

SamePods ==
  /\ UNCHANGED data
  /\ \A i \in Index : \A k \in Ordinal :
       /\ pods'[i][k] = NoPod <=> pods[i][k] = NoPod
       /\ pods[i][k] # NoPod => /\ pods'[i][k].template = pods[i][k].template
                                /\ pods'[i][k].aof = pods[i][k].aof

Stops == \E i \in Index : \E k \in Ordinal : IsUp(<<i, k>>) /\ Stop(i, k)

Starts == \E i \in Index : \E k \in Ordinal : StartPod(i, k)

LEMMA FileSame ==
  ASSUME KubeTyped, NEW ps, NEW password, SetFile(ps, password), UNCHANGED data
  PROVE  SamePods
<1>1. ASSUME NEW i \in Index, NEW k \in Ordinal
      PROVE  /\ pods'[i][k] = NoPod <=> pods[i][k] = NoPod
             /\ pods[i][k] # NoPod => /\ pods'[i][k].template = pods[i][k].template
                                      /\ pods'[i][k].aof = pods[i][k].aof
  <2>1. pods'[i][k] = IF <<i, k>> \in ps /\ IsUp(<<i, k>>)
                      THEN [pods[i][k] EXCEPT !.file = password] ELSE pods[i][k]
    BY DEF SetFile
  <2>2. CASE IsUp(<<i, k>>)
    <3>1. pods[i][k] \in RunningPod /\ pods[i][k] # NoPod
      BY <2>2, PodTyped DEF KubeTyped, IsUp
    <3>2. /\ [pods[i][k] EXCEPT !.file = password].up = TRUE
          /\ [pods[i][k] EXCEPT !.file = password].template = pods[i][k].template
          /\ [pods[i][k] EXCEPT !.file = password].aof = pods[i][k].aof
      BY <3>1 DEF RunningPod
    <3>3. [pods[i][k] EXCEPT !.file = password] # NoPod
      BY <3>2 DEF NoPod
    <3>. QED
      BY <2>1, <3>1, <3>2, <3>3
  <2>3. CASE ~IsUp(<<i, k>>)
    BY <2>1, <2>3
  <2>. QED
    BY <2>2, <2>3
<1>. QED
  BY <1>1 DEF SamePods

LEMMA PasswordSame ==
  ASSUME TInv, ResetPassword
  PROVE  SamePods
<1>1. op \in Pass /\ UNCHANGED data
  BY InPass DEF TInv, ResetPassword
<1>2. CASE UNCHANGED pods
  BY <1>1, <1>2 DEF SamePods
<1>3. ASSUME NEW p \in op.pool, Accepts(p),
             pods' = [pods EXCEPT ![p[1]][p[2]].auth = GetClusterPassword(op.inst)]
      PROVE  SamePods
  <2>1. PICK j \in Index, n \in Ordinal : p = <<j, n>>
    BY <1>1, <1>3 DEF Pass, Pod
  <2>. DEFINE new == [pods[j][n] EXCEPT !.auth = GetClusterPassword(op.inst)]
  <2>2. pods' = [pods EXCEPT ![j] = [pods[j] EXCEPT ![n] = new]]
    BY <1>3, <2>1
  <2>3. pods[j][n] \in RunningPod /\ pods[j][n] # NoPod
    BY <1>3, <2>1, PodTyped DEF TInv, KubeTyped, Accepts, IsUp
  <2>4. new.up = TRUE /\ new.template = pods[j][n].template /\ new.aof = pods[j][n].aof
    BY <2>3 DEF RunningPod
  <2>5. new # NoPod
    BY <2>4 DEF NoPod
  <2>. HIDE DEF new
  <2>6. \A i \in Index : \A k \in Ordinal :
          pods'[i][k] = IF i = j /\ k = n THEN new ELSE pods[i][k]
    BY <2>2 DEF TInv, KubeTyped
  <2>. QED
    BY <1>1, <2>3, <2>4, <2>5, <2>6 DEF SamePods
<1>. QED
  BY <1>2, <1>3 DEF ResetPassword

(***************************************************************************)
(* The pod to be stopped is one of those that may be: above the greatest   *)
(* ordinal there are the fewest.                                           *)
(***************************************************************************)
LEMMA MaxOfOrdinals ==
  ASSUME NEW S \in SUBSET Ordinal, S # {}
  PROVE  Max(S) \in S
<1>. DEFINE Above(n) == {m \in S : m > n}
            R == StrictSubsetOrdering(Ordinal)
            T == {Above(n) : n \in S}
<1>1. IsFiniteSet(Ordinal) /\ S \subseteq Int
  BY FS_Interval, MaxReplicasAssumption DEF Ordinal
<1>2. FiniteSubsetsOf(Ordinal) = SUBSET Ordinal
  BY <1>1, FS_FiniteSubsetsOfFinite
<1>3. IsWellFoundedOn(R, SUBSET Ordinal)
  BY <1>2, FS_StrictSubsetOrderingWellFounded
<1>4. T \subseteq SUBSET Ordinal /\ T # {}
  OBVIOUS
<1>5. PICK x \in T : \A y \in T : <<y, x>> \notin R
  <2>. HIDE DEF R, T
  <2>1. \E x \in T : \A y \in T : ~(<<y, x>> \in R)
    BY <1>3, <1>4, WFMin
  <2>. QED
    BY <2>1
<1>6. PICK n \in S : x = Above(n)
  BY <1>5
<1>7. \A m \in S : n >= m
  <2>. SUFFICES ASSUME NEW m \in S, m > n PROVE FALSE
    BY <1>1
  <2>1. m \in Above(n) /\ m \notin Above(m)
    BY <1>1
  <2>2. \A l \in S : l > m => l > n
    BY <1>1
  <2>3. <<Above(m), Above(n)>> \in R
    BY <2>1, <2>2 DEF StrictSubsetOrdering
  <2>. QED
    BY <1>5, <1>6, <2>3
<1>. QED
  BY <1>7 DEF Max

LEMMA ControllerSteps ==
  ASSUME NEW i \in Index, StatefulSetController(i) \/ \E k \in Ordinal : Evict(i, k)
  PROVE  Stops \/ Starts
<1>1. CASE \E k \in Ordinal : StartPod(i, k)
  BY <1>1 DEF Starts
<1>2. CASE \E k \in Ordinal : Evict(i, k)
  BY <1>2 DEF Stops, Evict
<1>3. \A S \in SUBSET Ordinal : S # {} => Max(S) \in S
  BY MaxOfOrdinals
<1>4. CASE ScaleIn(i)
  <2>1. Max(Surplus(i)) \in Surplus(i)
    BY <1>3, <1>4 DEF ScaleIn, Surplus
  <2>. QED
    BY <1>4, <2>1 DEF ScaleIn, Stops, Surplus
<1>5. CASE RollPod(i)
  <2>1. Max(Outdated(i)) \in Outdated(i)
    BY <1>3, <1>5 DEF RollPod, Outdated
  <2>. QED
    BY <1>5, <2>1 DEF RollPod, Stops, Outdated
<1>. QED
  BY <1>1, <1>2, <1>4, <1>5 DEF StatefulSetController

LEMMA PodSteps ==
  ASSUME TInv, [Next]_vars
  PROVE  SamePods \/ Stops \/ Starts \/ SetConfigIfNeed \/ ClientWrites
<1>. DEFINE same == UNCHANGED <<pods, data>>
<1>1. same => SamePods
  BY DEF SamePods
<1>2. CASE Reconcile
  <2>1. CASE ExecCommandInPodSet
    <3>1. UNCHANGED data /\ \E ps, password : SetFile(ps, password)
      BY <2>1 DEF ExecCommandInPodSet
    <3>. QED
      BY <3>1, FileSame DEF TInv
  <2>2. CASE ResetPassword
    BY <2>2, PasswordSame
  <2>3. CASE \/ Start \/ initRestore \/ validateAndSetDefault \/ resetClusterPassword
             \/ ensureRedisStatefulset \/ waitStatefulSetUpdating \/ waitPodReady
    BY <1>1, <2>3 DEF Start, initRestore, validateAndSetDefault, resetClusterPassword,
       ensureRedisStatefulset, waitStatefulSetUpdating, waitPodReady, Kube
  <2>4. CASE \/ MarkRestart \/ UpdateRedisStatefulsets \/ MarkSucceeded \/ RaiseReplicas
             \/ Finish
    BY <1>1, <2>4 DEF MarkRestart, UpdateRedisStatefulsets, MarkSucceeded, RaiseReplicas,
       Finish, Kube
  <2>. QED
    BY <1>2, <2>1, <2>2, <2>3, <2>4 DEF Reconcile
<1>3. CASE CallFails \/ Crash \/ UpdateFunc \/ BackupSucceeds \/ UserEdits \/ UNCHANGED vars
  BY <1>1, <1>3 DEF CallFails, Crash, UpdateFunc, BackupSucceeds, UserEdits, vars, Kube
<1>4. ASSUME NEW i \in Index, StatefulSetController(i) \/ \E k \in Ordinal : Evict(i, k)
      PROVE  Stops \/ Starts
  BY <1>4, ControllerSteps
<1>. QED
  BY <1>2, <1>3, <1>4 DEF Next

LEMMA StopFacts ==
  ASSUME TInv, NEW i \in Index, NEW k \in Ordinal, IsUp(<<i, k>>), Stop(i, k)
  PROVE  /\ \A j \in Index : \A n \in Ordinal :
              pods'[j][n] = IF j = i /\ n = k THEN NoPod ELSE pods[j][n]
         /\ UNCHANGED <<cr, cache, queued, op, conf, sts>>
<1>1. pods' = [pods EXCEPT ![i] = [pods[i] EXCEPT ![k] = NoPod]]
  BY DEF Stop
<1>. QED
  BY <1>1 DEF Stop, TInv, KubeTyped

Started(i) ==
  [up |-> TRUE, template |-> sts[i].template, auth |-> getRedisCommand(sts[i].template),
   file |-> sts[i].template.server.secret, aof |-> AppendOnly(conf)]

LEMMA StartKube ==
  ASSUME TInv, NEW i \in Index, NEW k \in Ordinal, StartPod(i, k)
  PROVE  /\ Started(i) # NoPod /\ Exists(i)
         /\ \A j \in Index : \A n \in Ordinal :
              pods'[j][n] = IF j = i /\ n = k THEN Started(i) ELSE pods[j][n]
         /\ \A j \in Index : /\ Exists(j)' <=> Exists(j)
                             /\ Exists(j) => sts'[j].template = sts[j].template
<1>1. Started(i).up /\ ~NoPod.up
  BY DEF Started, NoPod
<1>2. pods' = [pods EXCEPT ![i] = [pods[i] EXCEPT ![k] = Started(i)]]
  BY DEF StartPod, Started
<1>3. sts[i] \in StatefulSet
  BY StsTyped DEF TInv, KubeTyped, StartPod
<1>. DEFINE new == [sts[i] EXCEPT !.current = sts[i].template]
<1>4. new.template = sts[i].template /\ DOMAIN new = {"replicas", "template", "current"}
  BY <1>3 DEF StatefulSet
<1>5. DOMAIN NoSts = {"replicas"}
  BY DEF NoSts
<1>6. new # NoSts
  BY <1>4, <1>5
<1>7. sts' = sts \/ sts' = [sts EXCEPT ![i] = new]
  BY DEF StartPod
<1>. HIDE DEF new
<1>8. \A j \in Index : /\ sts'[j] # NoSts <=> sts[j] # NoSts
                       /\ sts[j] # NoSts => sts'[j].template = sts[j].template
  BY <1>4, <1>6, <1>7 DEF TInv, KubeTyped, StartPod, Exists
<1>9. \A j \in Index : \A n \in Ordinal :
        pods'[j][n] = IF j = i /\ n = k THEN Started(i) ELSE pods[j][n]
  BY <1>2 DEF TInv, KubeTyped
<1>. QED
  BY <1>1, <1>8, <1>9 DEF StartPod, Exists

LEMMA StartFacts ==
  ASSUME TInv, NEW i \in Index, NEW k \in Ordinal, StartPod(i, k)
  PROVE  /\ Started(i) # NoPod /\ ~IsUp(<<i, k>>) /\ Exists(i)
         /\ \A j \in 0 .. k - 1 : IsUp(<<i, j>>)
         /\ \A j \in Index : \A n \in Ordinal :
              pods'[j][n] = IF j = i /\ n = k THEN Started(i) ELSE pods[j][n]
         /\ \A j \in Index : /\ Exists(j)' <=> Exists(j)
                             /\ Exists(j) => sts'[j].template = sts[j].template
         /\ data' = IF k = 0 THEN [data EXCEPT ![i] = Load(@, sts[i].template.init)] ELSE data
         /\ UNCHANGED <<cr, cache, queued, op, conf, backup>>
BY StartKube DEF StartPod

LEMMA StartsOf ==
  ASSUME TInv, Starts
  PROVE  \E i \in Index : \E k \in Ordinal :
           /\ Started(i) # NoPod /\ Exists(i)
           /\ \A j \in Index : \A n \in Ordinal :
                pods'[j][n] = IF j = i /\ n = k THEN Started(i) ELSE pods[j][n]
           /\ \A j \in Index : /\ Exists(j)' <=> Exists(j)
                               /\ Exists(j) => sts'[j].template = sts[j].template
BY StartKube DEF Starts

(***************************************************************************)
(* The operator writes one StatefulSet at a time.                          *)
(***************************************************************************)
WritesSts(i) ==
  /\ op \in Pass /\ i = op.i /\ op.pc \in {"sts", "removeInit"} /\ UNCHANGED <<pods, data>>
  /\ Exists(i)' /\ sts'[i].template = Template(op.inst)
  /\ \A j \in Index \ {i} : sts'[j] = sts[j]
  /\ (op.pc = "sts" /\ Exists(i) /\ Template(op.inst).init /\ ~IsRestoreRunning(cr)) =>
       "stale" \in torn'

SameSts ==
  \A j \in Index : /\ Exists(j)' <=> Exists(j)
                   /\ Exists(j) => sts'[j].template = sts[j].template

LEMMA WrittenSts ==
  ASSUME TInv, NEW i \in Index, Write(i, NewStatefulSetForCR(op.inst))
  PROVE  /\ Exists(i)' /\ sts'[i].template = Template(op.inst)
         /\ \A j \in Index \ {i} : sts'[j] = sts[j]
<1>. DEFINE ss == NewStatefulSetForCR(op.inst)
            current == IF Exists(i) /\ ~RolledOut(ss, pods[i]) THEN sts[i].current
                                                           ELSE ss.template
            new == [replicas |-> ss.replicas, template |-> ss.template, current |-> current]
<1>1. sts' = [sts EXCEPT ![i] = new]
  BY DEF Write
<1>2. ss.template = Template(op.inst)
  BY DEF NewStatefulSetForCR
<1>3. new.template = ss.template /\ DOMAIN new = {"replicas", "template", "current"}
  OBVIOUS
<1>4. DOMAIN NoSts = {"replicas"}
  BY DEF NoSts
<1>5. new # NoSts
  BY <1>3, <1>4
<1>. HIDE DEF new, ss
<1>. QED
  BY <1>1, <1>2, <1>3, <1>5 DEF TInv, KubeTyped, Exists

LEMMA StsSteps ==
  ASSUME TInv, [Next]_vars
  PROVE  \/ SameSts
         \/ \E i \in Index :
              WritesSts(i) /\ (ensureRedisStatefulset \/ UpdateRedisStatefulsets)
<1>1. UNCHANGED sts => SameSts
  BY DEF SameSts, Exists
<1>2. CASE Reconcile
  <2>1. CASE ensureRedisStatefulset
    <3>1. PICK i \in Index : i = op.i
      BY <2>1, InPass DEF TInv, ensureRedisStatefulset, Pass
    <3>2. op \in Pass /\ op.pc = "sts" /\ UNCHANGED <<pods, data>>
      BY <2>1, InPass DEF TInv, ensureRedisStatefulset
    <3>3. CASE /\ Write(i, NewStatefulSetForCR(op.inst))
               /\ ~Exists(i) \/ shouldUpdateRedis(op.inst, sts[i])
      <4>1. (Exists(i) /\ Template(op.inst).init /\ ~IsRestoreRunning(cr)) =>
               "stale" \in torn'
        BY <2>1, <3>1, <3>3 DEF ensureRedisStatefulset
      <4>2. WritesSts(i)
        BY <3>1, <3>2, <3>3, <4>1, WrittenSts DEF WritesSts
      <4>. QED
        BY <2>1, <4>2
    <3>4. CASE UNCHANGED sts
      BY <1>1, <3>4
    <3>. QED
      BY <2>1, <3>1, <3>3, <3>4 DEF ensureRedisStatefulset
  <2>2. CASE UpdateRedisStatefulsets
    <3>1. PICK i \in Index : i = op.i
      BY <2>2, InPass DEF TInv, UpdateRedisStatefulsets, Pass
    <3>2. op \in Pass /\ op.pc = "removeInit" /\ UNCHANGED <<pods, data>>
      BY <2>2, InPass DEF TInv, UpdateRedisStatefulsets
    <3>3. Write(i, NewStatefulSetForCR(op.inst))
      BY <2>2, <3>1 DEF UpdateRedisStatefulsets
    <3>4. WritesSts(i)
      BY <3>1, <3>2, <3>3, WrittenSts DEF WritesSts
    <3>. QED
      BY <2>2, <3>4
  <2>3. CASE \/ Start \/ initRestore \/ validateAndSetDefault \/ resetClusterPassword
             \/ ExecCommandInPodSet \/ ResetPassword \/ waitStatefulSetUpdating
    BY <1>1, <2>3 DEF Start, initRestore, validateAndSetDefault, resetClusterPassword,
       ExecCommandInPodSet, ResetPassword, waitStatefulSetUpdating, Kube
  <2>4. CASE waitPodReady \/ MarkRestart \/ MarkSucceeded \/ RaiseReplicas \/ SetConfigIfNeed
             \/ Finish
    BY <1>1, <2>4 DEF waitPodReady, MarkRestart, MarkSucceeded, RaiseReplicas,
       SetConfigIfNeed, Finish, Kube
  <2>. QED
    BY <1>2, <2>1, <2>2, <2>3, <2>4 DEF Reconcile
<1>3. CASE CallFails \/ Crash \/ UpdateFunc \/ BackupSucceeds \/ UserEdits \/ ClientWrites
           \/ UNCHANGED vars
  BY <1>1, <1>3 DEF CallFails, Crash, UpdateFunc, BackupSucceeds, UserEdits, ClientWrites,
     vars, Kube
<1>4. ASSUME NEW i \in Index, StatefulSetController(i) \/ \E k \in Ordinal : Evict(i, k)
      PROVE  SameSts
  <2>1. ASSUME NEW k \in Ordinal, StartPod(i, k)
        PROVE  SameSts
    BY <2>1, StartFacts DEF SameSts
  <2>2. (\E k : Stop(i, k)) => UNCHANGED sts
    BY DEF Stop
  <2>. QED
    BY <1>1, <1>4, <2>1, <2>2 DEF StatefulSetController, ScaleIn, RollPod, Evict
<1>. QED
  BY <1>2, <1>3, <1>4 DEF Next

LEMMA LoadFacts ==
  ASSUME NEW d \in Data, NEW init \in BOOLEAN
  PROVE  LET v == Load(d, init)
         IN  /\ v \in Data /\ v.acked = d.acked
             /\ ~AppendOnly(conf) => /\ v.mem = IF init THEN "backup" ELSE d.rdb
                                     /\ v.aof = IF init THEN {} ELSE d.aof
             /\ AppendOnly(conf) => v.aof = {v.mem}
             /\ AppendOnly(conf) /\ ~init => \A x : d.aof = {x} => v.mem = x
<1>. DEFINE w == IF init THEN redisInitContainer(d) ELSE d
            got == IF AppendOnly(conf)
                   THEN (IF w.aof = {} THEN "none" ELSE CHOOSE x \in w.aof : TRUE)
                   ELSE w.rdb
            v == [w EXCEPT !.mem = got, !.aof = IF AppendOnly(conf) THEN {got} ELSE @]
<1>1. /\ w \in Data /\ w.acked = d.acked
      /\ w.rdb = IF init THEN "backup" ELSE d.rdb
      /\ w.aof = IF init THEN {} ELSE d.aof
  BY DEF redisInitContainer, Data, Content
<1>. HIDE DEF w
<1>2. got \in Content
  <2>1. w.rdb \in Content /\ w.aof \subseteq Content
    BY <1>1 DEF Data
  <2>2. w.aof # {} => (CHOOSE x \in w.aof : TRUE) \in w.aof
    OBVIOUS
  <2>. QED
    BY <2>1, <2>2 DEF Content
<1>3. \A x : w.aof = {x} /\ AppendOnly(conf) => got = x
  OBVIOUS
<1>4. ~AppendOnly(conf) => got = w.rdb
  OBVIOUS
<1>. HIDE DEF got
<1>5. /\ v \in Data /\ v.acked = w.acked /\ v.mem = got
      /\ v.aof = IF AppendOnly(conf) THEN {got} ELSE w.aof
  BY <1>1, <1>2 DEF Data
<1>6. Load(d, init) = v
  BY DEF Load, v, got, w
<1>. HIDE DEF v
<1>. QED
  BY <1>1, <1>3, <1>4, <1>5, <1>6

LEMMA InitOf ==
  ASSUME TInv, NEW i \in Index, Exists(i)
  PROVE  sts[i].template.init \in BOOLEAN
BY StsTyped DEF TInv, KubeTyped, StatefulSet, PodTemplate

\* Whether pod k of StatefulSet i keeps an append only file after SetConfigIfNeed.
Logs(i, k) ==
  IF "appendonly" \in DOMAIN op.inst.spec.config
  THEN op.inst.spec.config["appendonly"] = "yes" ELSE pods[i][k].aof

LEMMA SetConfigFacts ==
  ASSUME TInv, SetConfigIfNeed
  PROVE  /\ op \in Pass /\ op.pc = "restore"
         /\ op.inst.spec.restore => op.inst.status.phase = "Succeeded"
         /\ UNCHANGED <<cr, cache, conf, sts>>
         /\ \A i \in Index : \A k \in Ordinal :
              /\ pods'[i][k] = NoPod <=> pods[i][k] = NoPod
              /\ pods[i][k] # NoPod => /\ pods'[i][k].template = pods[i][k].template
                                       /\ pods'[i][k].auth = pods[i][k].auth
                                       /\ pods'[i][k].file = pods[i][k].file
         /\ \A i \in Index :
              \/ data'[i] = data[i] /\ pods'[i][0] = pods[i][0]
              \/ /\ pods[i][0] # NoPod /\ pods'[i][0].aof = Logs(i, 0)
                 /\ data'[i] = IF Logs(i, 0) THEN [data[i] EXCEPT !.aof = {data[i].mem}]
                                             ELSE data[i]
<1>. DEFINE reached == Connections(Up, GetClusterPassword(op.inst))
            new(i, k) == [pods[i][k] EXCEPT !.aof = Logs(i, k)]
<1>1. /\ op \in Pass /\ op.pc = "restore"
      /\ op.inst.spec.restore => op.inst.status.phase = "Succeeded"
      /\ UNCHANGED <<cr, cache, conf, sts>>
  BY InPass DEF TInv, SetConfigIfNeed, IsRestoreFromBackup, IsRestored
<1>2. /\ pods' = [i \in Index |-> [k \in Ordinal |->
                    IF <<i, k>> \in reached THEN new(i, k) ELSE pods[i][k]]]
      /\ data' = [i \in Index |->
                    IF <<i, 0>> \in reached /\ Logs(i, 0)
                    THEN [data[i] EXCEPT !.aof = {data[i].mem}] ELSE data[i]]
  BY DEF SetConfigIfNeed, Logs, At
<1>3. ASSUME NEW i \in Index, NEW k \in Ordinal, <<i, k>> \in reached
      PROVE  /\ pods[i][k] # NoPod /\ new(i, k) # NoPod
             /\ new(i, k).template = pods[i][k].template /\ new(i, k).aof = Logs(i, k)
             /\ new(i, k).auth = pods[i][k].auth /\ new(i, k).file = pods[i][k].file
  <2>1. IsUp(<<i, k>>)
    BY <1>3 DEF Connections, Up
  <2>2. pods[i][k] \in RunningPod /\ pods[i][k] # NoPod
    BY <2>1, PodTyped DEF TInv, KubeTyped, IsUp
  <2>3. /\ new(i, k).up = TRUE /\ new(i, k).aof = Logs(i, k)
        /\ new(i, k).template = pods[i][k].template
        /\ new(i, k).auth = pods[i][k].auth /\ new(i, k).file = pods[i][k].file
    BY <2>2 DEF RunningPod
  <2>. QED
    BY <2>2, <2>3 DEF NoPod
<1>4. 0 \in Ordinal
  BY MaxReplicasAssumption DEF Ordinal
<1>. HIDE DEF reached, new
<1>5. \A i \in Index : \A k \in Ordinal :
        /\ pods'[i][k] = NoPod <=> pods[i][k] = NoPod
        /\ pods[i][k] # NoPod => /\ pods'[i][k].template = pods[i][k].template
                                 /\ pods'[i][k].auth = pods[i][k].auth
                                 /\ pods'[i][k].file = pods[i][k].file
  BY <1>2, <1>3
<1>6. ASSUME NEW i \in Index
      PROVE  \/ data'[i] = data[i] /\ pods'[i][0] = pods[i][0]
             \/ /\ pods[i][0] # NoPod /\ pods'[i][0].aof = Logs(i, 0)
                /\ data'[i] = IF Logs(i, 0) THEN [data[i] EXCEPT !.aof = {data[i].mem}]
                                            ELSE data[i]
  BY <1>2, <1>3, <1>4
<1>. QED
  BY <1>1, <1>5, <1>6

(***************************************************************************)
(* What a master has in memory outlives its pod when it is on a volume.    *)
(***************************************************************************)
VolumesOK ==
  Persistent =>
    /\ \A i \in Index : Exists(i) => "redis-data" \notin sts[i].template.volumes
    /\ \A i \in Index : \A k \in Ordinal :
         IsUp(<<i, k>>) => "redis-data" \notin pods[i][k].template.volumes

DataTyped == data \in [Index -> Data]

LEMMA NextDataTyped ==
  ASSUME TInv, DataTyped, [Next]_vars
  PROVE  DataTyped'
<1>1. CASE SamePods
  BY <1>1 DEF SamePods, DataTyped
<1>2. CASE Stops
  <2>1. PICK i \in Index, k \in Ordinal : IsUp(<<i, k>>) /\ Stop(i, k)
    BY <1>2 DEF Stops
  <2>2. data[i] \in Data /\ data[i].mem \in Content
    BY DEF DataTyped, Data
  <2>3. /\ [data[i] EXCEPT !.rdb = "none", !.aof = {}] \in Data
        /\ [data[i] EXCEPT !.rdb = data[i].mem] \in Data
    BY <2>2 DEF Data, Content
  <2>. QED
    BY <2>1, <2>3 DEF Stop, DataTyped
<1>3. CASE Starts
  <2>1. PICK i \in Index, k \in Ordinal : StartPod(i, k)
    BY <1>3 DEF Starts
  <2>2. Exists(i) /\ data[i] \in Data
    BY <2>1, StartFacts DEF DataTyped
  <2>3. Load(data[i], sts[i].template.init) \in Data
    BY <2>2, InitOf, LoadFacts
  <2>4. data' = IF k = 0 THEN [data EXCEPT ![i] = Load(data[i], sts[i].template.init)]
                ELSE data
    BY <2>1, StartFacts
  <2>. QED
    BY <2>3, <2>4 DEF DataTyped
<1>4. CASE SetConfigIfNeed
  <2>1. \A i \in Index : [data[i] EXCEPT !.aof = {data[i].mem}] \in Data
    BY DEF DataTyped, Data
  <2>. QED
    BY <1>4, <2>1 DEF SetConfigIfNeed, DataTyped
<1>5. CASE ClientWrites
  <2>. DEFINE aof(i) == IF pods[i][0].aof THEN {"newer"} ELSE data[i].aof
  <2>1. \A i \in Index :
          [data[i] EXCEPT !.mem = "newer", !.acked = TRUE, !.aof = aof(i)] \in Data
    BY DEF DataTyped, Data, Content
  <2>. QED
    BY <1>5, <2>1 DEF ClientWrites, DataTyped
<1>. QED
  BY <1>1, <1>2, <1>3, <1>4, <1>5, PodSteps

LEMMA NextVolumesOK ==
  ASSUME TInv, VolumesOK, [Next]_vars
  PROVE  VolumesOK'
<1>. SUFFICES ASSUME Persistent
              PROVE  VolumesOK'
  BY DEF VolumesOK
<1>1. ASSUME NEW i \in Index, Exists(i)'
      PROVE  "redis-data" \notin sts'[i].template.volumes
  <2>1. CASE SameSts
    BY <1>1, <2>1 DEF SameSts, VolumesOK
  <2>2. ASSUME NEW j \in Index, WritesSts(j)
        PROVE  "redis-data" \notin sts'[i].template.volumes
    <3>1. "redis-data" \notin Template(op.inst).volumes
      BY DEF Template, redisVolumes, redisDataVolume
    <3>. QED
      BY <1>1, <2>2, <3>1 DEF WritesSts, VolumesOK, Exists
  <2>. QED
    BY <2>1, <2>2, StsSteps
<1>2. ASSUME NEW i \in Index, NEW k \in Ordinal, pods'[i][k] # NoPod
      PROVE  "redis-data" \notin pods'[i][k].template.volumes
  <2>0. pods[i][k] # NoPod => "redis-data" \notin pods[i][k].template.volumes
    BY DEF VolumesOK, IsUp
  <2>1. CASE SamePods
    BY <1>2, <2>0, <2>1 DEF SamePods
  <2>2. CASE Stops
    <3>1. PICK j \in Index, n \in Ordinal : IsUp(<<j, n>>) /\ Stop(j, n)
      BY <2>2 DEF Stops
    <3>. QED
      BY <1>2, <2>0, <3>1, StopFacts
  <2>3. CASE Starts
    <3>1. PICK j \in Index, n \in Ordinal : StartPod(j, n)
      BY <2>3 DEF Starts
    <3>2. Started(j).template = sts[j].template
      BY DEF Started
    <3>3. /\ Exists(j)
          /\ pods'[i][k] = IF i = j /\ k = n THEN Started(j) ELSE pods[i][k]
      <4>1. /\ Exists(j)
            /\ \A x \in Index : \A y \in Ordinal :
                 pods'[x][y] = IF x = j /\ y = n THEN Started(j) ELSE pods[x][y]
        BY <3>1, StartFacts
      <4>. QED
        BY <4>1
    <3>4. "redis-data" \notin sts[j].template.volumes
      BY <3>3 DEF VolumesOK
    <3>5. CASE i = j /\ k = n
      <4>1. pods'[i][k].template = sts[j].template
        BY <3>2, <3>3, <3>5
      <4>. QED
        BY <3>4, <4>1
    <3>6. CASE ~(i = j /\ k = n)
      <4>1. pods'[i][k] = pods[i][k]
        BY <3>3, <3>6
      <4>. QED
        BY <1>2, <2>0, <4>1
    <3>. QED
      BY <3>5, <3>6
  <2>4. CASE SetConfigIfNeed
    BY <1>2, <2>0, <2>4, SetConfigFacts
  <2>5. CASE ClientWrites
    BY <1>2, <2>0, <2>5 DEF ClientWrites
  <2>. QED
    BY <2>1, <2>2, <2>3, <2>4, <2>5, PodSteps
<1>. QED
  BY <1>1, <1>2 DEF VolumesOK, IsUp

-----------------------------------------------------------------------------
(***************************************************************************)
(* The data of a restore.  While the init containers are there every       *)
(* master that starts has the backup's data; the phase Restart is stored   *)
(* when all of them have been started once, and from then on memory, dump  *)
(* and append only file agree with what clients were told.                 *)
(***************************************************************************)
Early == cr.status.phase \in {"", "Running"}

\* The masters have all been filled from the backup.
AllFilled == ~Early \/ (op.pc = "restore" /\ op.fresh)

Right(i) == IF data[i].acked THEN "newer" ELSE "backup"

\* What the next Redis of master i finds is there already, or in memory.
Filled(i) == IsUp(<<i, 0>>) \/ data[i].rdb = Right(i)

TemplateOK(i) ==
  /\ AllFilled => Exists(i)
  /\ Exists(i) /\ Early => sts[i].template.init
  /\ Exists(i) /\ ~Early /\ sts[i].template.init =>
       cr.status.phase = "Restart" /\ op.pc = "removeInit" /\ op.i <= i

MasterOK(i) ==
  /\ data[i].aof \subseteq {Right(i)}
  /\ data[i].aof # {} => AppendOnly(conf)
  /\ IsUp(<<i, 0>>) =>
       /\ data[i].mem = Right(i)
       /\ data[i].aof = IF pods[i][0].aof THEN {Right(i)} ELSE {}
  /\ cr.status.phase # "Succeeded" => ~data[i].acked
  /\ AllFilled \/ (\E k \in Ordinal : IsUp(<<i, k>>)) => Filled(i)

Cut == {"init", "restart", "stale", "aof"}

DataOK ==
  (cr.spec.restore /\ torn \cap Cut = {}) =>
    \A i \in 0 .. backup.size - 1 : TemplateOK(i) /\ MasterOK(i)

LEMMA PhaseSteps ==
  ASSUME KInv, TrailOK, [Next]_vars, cr'.spec.restore
  PROVE  /\ cr.spec.restore
         /\ \/ cr'.status.phase = cr.status.phase
            \/ cr.status.phase = "" /\ cr'.status.phase = "Running"
            \/ /\ cr.status.phase = "Running" /\ cr'.status.phase = "Restart"
               /\ op.pc = "restore" /\ op.fresh /\ op'.pc = "removeInit" /\ op'.i = 0
            \/ /\ cr.status.phase = "Restart" /\ cr'.status.phase = "Succeeded"
               /\ op.pc = "restore"
<1>1. StepOf /\ CopyOK /\ cr \in StoredCluster /\ backup \in Source
  BY NextOf DEF KInv, TInv, ClusterTyped
<1>2. CASE Quiet \/ Ends \/ GivesUp \/ Begins \/ Rewrites \/ Sets \/ Delivers
  BY <1>2 DEF Quiet, Ends, GivesUp, Begins, Rewrites, Sets, Delivers
<1>3. CASE Moves
  BY <1>1, <1>3 DEF CopyOK, Moves, Mid
<1>4. CASE Finds
  BY <1>1, <1>4 DEF CopyOK, Finds
<1>5. CASE Marks("restore", "Running", "removeInit", "Restart")
  BY <1>1, <1>5 DEF CopyOK, Marks
<1>6. CASE Marks("restore", "Restart", "raise", "Succeeded")
  BY <1>1, <1>6 DEF CopyOK, Marks
<1>7. CASE Raises
  BY <1>1, <1>7 DEF CopyOK, Raises
<1>8. CASE Defaults
  <2>1. Defaulted.spec.restore = op.inst.spec.restore
    BY <1>1, <1>8, DefaultedFacts DEF Defaults
  <2>. QED
    BY <1>1, <1>8, <2>1 DEF CopyOK, Defaults
<1>9. CASE Edited
  BY <1>1, <1>9 DEF Edited, StoredCluster, StoredSpec
<1>. QED
  BY <1>1, <1>2, <1>3, <1>4, <1>5, <1>6, <1>7, <1>8, <1>9 DEF StepOf

LEMMA LogStays ==
  ASSUME KInv, TrailOK, LogOK, cr.spec.restore, AppendOnly(conf), [Next]_vars
  PROVE  AppendOnly(conf)'
<1>1. StepOf /\ CopyOK /\ cr \in StoredCluster /\ backup \in Source
  BY NextOf DEF KInv, TInv, ClusterTyped
<1>2. CASE Defaults
  <2>1. op \in Pass /\ op.pc = "default" /\ (conf' = Wanted(Defaulted) \/ conf' = conf)
    BY <1>2 DEF Defaults, EnsureRedisConfigMap, Wanted
  <2>2. /\ Defaulted.status = op.inst.status
        /\ Defaulted.spec.restore = op.inst.spec.restore
        /\ Defaulted.spec.config = op.inst.spec.config
    BY <1>1, <2>1, DefaultedFacts
  <2>3. op.inst.status.phase = "Succeeded" /\ WantsLog(cr.spec.config)
    BY <2>1 DEF LogOK
  <2>4. op.inst.spec.restore
    BY <1>1, <2>1 DEF CopyOK
  <2>5. Defaulted.spec.config = cr.spec.config => AppendOnly(Wanted(Defaulted))
    BY <2>2, <2>3, <2>4, WantedLog
  <2>6. op.inst.spec.config = cr.spec.config
    BY <2>1 DEF TrailOK, Trails
  <2>. QED
    BY <2>1, <2>2, <2>5, <2>6
<1>3. CASE ~Defaults
  <2>1. conf' = conf
    BY <1>1, <1>3 DEF StepOf, Quiet, Moves, Ends, GivesUp, Begins, Finds, Marks, Rewrites,
       Raises, Sets, Delivers, Edited, Keeps
  <2>. QED
    BY <2>1
<1>. QED
  BY <1>2, <1>3

(***************************************************************************)
(* Only waitPodReady leads to the restore steps, and the loop that removes *)
(* the init containers is left at its end or interrupted.                  *)
(***************************************************************************)
LEMMA RestoreEntered ==
  ASSUME TInv, [Next]_vars, op'.pc = "restore", op.pc # "restore"
  PROVE  waitPodReady /\ op' = [op EXCEPT !.pc = "restore", !.inst = op.inst]
<1>1. Idle.pc # "restore" /\ (op.pc # "idle" => op \in Pass)
  BY DEF TInv, OpTyped, Idle
<1>2. CASE Reconcile
  <2>1. CASE Start \/ initRestore \/ validateAndSetDefault
    <3>1. Start => op'.pc \in {"init", "default"}
      BY DEF Start
    <3>2. initRestore => op'.pc \in {"default", Idle.pc}
      BY <1>1 DEF initRestore, StopRetry, Leave, Pass
    <3>3. validateAndSetDefault => op'.pc \in {"password", Idle.pc}
      BY <1>1 DEF validateAndSetDefault, StopRetry, Leave, Goto, Pass
    <3>. QED
      BY <1>1, <2>1, <3>1, <3>2, <3>3
  <2>2. CASE resetClusterPassword \/ ExecCommandInPodSet \/ ResetPassword
    BY <1>1, <2>2 DEF resetClusterPassword, ExecCommandInPodSet, ResetPassword, Requeue,
       Leave, Goto, Pass
  <2>3. CASE ensureRedisStatefulset \/ waitStatefulSetUpdating
    BY <1>1, <2>3 DEF ensureRedisStatefulset, waitStatefulSetUpdating, Requeue, Leave, Goto,
       Pass
  <2>4. CASE waitPodReady
    BY <1>1, <2>4 DEF waitPodReady, Requeue, Leave, Goto
  <2>5. CASE MarkRestart \/ UpdateRedisStatefulsets \/ MarkSucceeded
    BY <1>1, <2>5 DEF MarkRestart, UpdateRedisStatefulsets, MarkSucceeded, Leave, Goto, Pass
  <2>6. CASE RaiseReplicas \/ SetConfigIfNeed \/ Finish
    BY <1>1, <2>6 DEF RaiseReplicas, SetConfigIfNeed, Finish, Leave, Goto, Pass
  <2>. QED
    BY <1>2, <2>1, <2>2, <2>3, <2>4, <2>5, <2>6 DEF Reconcile
<1>3. CASE CallFails
  BY <1>1, <1>3 DEF CallFails, StopRetry, Requeue, Leave, Goto, Pass
<1>4. CASE Crash \/ UpdateFunc \/ BackupSucceeds \/ ClientWrites \/ UNCHANGED vars
  BY <1>1, <1>4 DEF Crash, UpdateFunc, BackupSucceeds, ClientWrites, vars
<1>5. CASE UserEdits
  BY <1>1, <1>5 DEF UserEdits, Pass
<1>6. ASSUME NEW i \in Index, StatefulSetController(i) \/ \E k \in Ordinal : Evict(i, k)
      PROVE  op' = op
  BY <1>6 DEF StatefulSetController, ScaleIn, RollPod, Evict, Stop, StartPod
<1>. QED
  BY <1>2, <1>3, <1>4, <1>5, <1>6 DEF Next

LEMMA RemovalKept ==
  ASSUME TInv, [Next]_vars, op.pc = "removeInit", "restart" \notin torn', cr.spec.restore
  PROVE  UpdateRedisStatefulsets \/ op' = op
<1>1. Interruption = {"restart"}
  BY DEF Interruption, Resetting
<1>2. CASE Reconcile
  BY <1>2 DEF Reconcile, Start, initRestore, validateAndSetDefault, resetClusterPassword,
     ExecCommandInPodSet, ResetPassword, ensureRedisStatefulset, waitStatefulSetUpdating,
     waitPodReady, MarkRestart, MarkSucceeded, RaiseReplicas, SetConfigIfNeed, Finish
<1>3. CASE CallFails
  BY <1>1, <1>3 DEF CallFails, Interrupted
<1>4. CASE Crash
  BY <1>1, <1>4 DEF Crash, Interrupted
<1>5. CASE UpdateFunc \/ BackupSucceeds \/ ClientWrites \/ UserEdits \/ UNCHANGED vars
  BY <1>5 DEF UpdateFunc, BackupSucceeds, ClientWrites, UserEdits, vars
<1>6. ASSUME NEW i \in Index, StatefulSetController(i) \/ \E k \in Ordinal : Evict(i, k)
      PROVE  op' = op
  BY <1>6 DEF StatefulSetController, ScaleIn, RollPod, Evict, Stop, StartPod
<1>. QED
  BY <1>2, <1>3, <1>4, <1>5, <1>6 DEF Next

LEMMA RewrittenSts ==
  ASSUME TInv, UpdateRedisStatefulsets
  PROVE  \E i \in Index : WritesSts(i)
<1>1. PICK i \in Index : i = op.i
  BY InPass DEF TInv, UpdateRedisStatefulsets, Pass
<1>2. op \in Pass /\ op.pc = "removeInit" /\ UNCHANGED <<pods, data>>
  BY InPass DEF TInv, UpdateRedisStatefulsets
<1>3. Write(i, NewStatefulSetForCR(op.inst))
  BY <1>1 DEF UpdateRedisStatefulsets
<1>. QED
  BY <1>1, <1>2, <1>3, WrittenSts DEF WritesSts

LEMMA ShardsCovered ==
  ASSUME SInv, TrailOK, cr.spec.restore, "init" \notin torn, op.fresh,
         op.pc \in Mid \cup {"removeInit"}
  PROVE  /\ backup.size \in Nat /\ op.inst.spec.size \in Nat
         /\ backup.size <= op.inst.spec.size
<1>1. /\ op \in Pass /\ cr \in StoredCluster /\ backup \in Source
      /\ op.inst.status.phase # "" /\ op.inst.status = cr.status
      /\ op.inst.spec.size = cr.spec.size
  BY InPass DEF SInv, KInv, TInv, ClusterTyped, CopyOK, TrailOK, Mid
<1>2. Shaped(cr.spec)
  BY <1>1 DEF SInv, ShapeOK, Mid
<1>. DEFINE size == Max({backup.size, MinMasterSize})
<1>3. backup.size \in Nat /\ MinMasterSize \in Nat
  <2>1. backup.size \in 1 .. MaxSize
    BY <1>1 DEF Source
  <2>2. MaxSize \in Nat
    BY MaxSizeAssumption
  <2>. QED
    BY <2>1, <2>2, MinMasterSizeAssumption
<1>4. size = IF backup.size >= MinMasterSize THEN backup.size ELSE MinMasterSize
  BY <1>3, MaxOfTwo
<1>5. op.inst.spec.size = size
  BY <1>1, <1>2 DEF Shaped
<1>. HIDE DEF size
<1>. QED
  BY <1>3, <1>4, <1>5

(***************************************************************************)
(* All masters are filled when waitPodReady has seen their pods.           *)
(***************************************************************************)
LEMMA FilledSteps ==
  ASSUME SInv, TrailOK, [Next]_vars, cr'.spec.restore, torn' \cap Cut = {}, AllFilled',
         NEW i \in Index, i < backup.size
  PROVE  \/ AllFilled
         \/ Exists(i) /\ \E k \in Ordinal : IsUp(<<i, k>>)
<1>1. /\ StepOf /\ CopyOK /\ TInv /\ KInv
      /\ cr \in StoredCluster /\ backup \in Source
  BY NextOf DEF SInv, KInv, TInv, ClusterTyped
<1>2. cr.spec.restore /\ (~Early' => AllFilled)
  BY <1>1, PhaseSteps DEF Early, AllFilled
<1>3. "init" \notin torn
  BY <1>1 DEF StepOf, Always, Cut
<1>. SUFFICES ASSUME op'.pc = "restore", op'.fresh, ~AllFilled
              PROVE  Exists(i) /\ \E k \in Ordinal : IsUp(<<i, k>>)
  BY <1>2 DEF AllFilled
<1>4. ASSUME op.pc = "restore"
      PROVE  FALSE
  <2>1. op'.fresh = op.fresh
    <3>1. CASE Quiet \/ Delivers \/ Edited
      BY <1>2, <3>1 DEF Quiet, Delivers, Edited
    <3>2. CASE Moves
      BY <3>2 DEF Moves, Keeps
    <3>3. CASE Ends \/ GivesUp \/ Raises
      BY <3>3 DEF Ends, GivesUp, Raises, Idle
    <3>4. ~(Begins \/ Finds \/ Defaults \/ Rewrites)
      BY <1>4 DEF Begins, Finds, Defaults, Rewrites
    <3>5. ~Sets /\ \A old, to, new : Marks("restore", old, to, new) => op'.pc = to
      BY DEF Sets, Marks
    <3>. QED
      BY <1>1, <3>1, <3>2, <3>3, <3>4, <3>5 DEF StepOf
  <2>. QED
    BY <1>4, <2>1 DEF AllFilled
<1>5. waitPodReady /\ op' = [op EXCEPT !.pc = "restore", !.inst = op.inst]
  BY <1>1, <1>4, RestoreEntered
<1>6. op.pc = "services" /\ op \in Pass
  BY <1>1, <1>5 DEF waitPodReady, TInv, OpTyped, Idle
<1>7. op.fresh
  BY <1>5, <1>6 DEF Pass
<1>8. CheckRedisNodeNum(op.inst)
  BY <1>5 DEF waitPodReady, Requeue, Leave, Idle
<1>9. backup.size <= op.inst.spec.size /\ backup.size \in Nat /\ op.inst.spec.size \in Nat
  BY <1>2, <1>3, <1>6, <1>7, ShardsCovered DEF Mid
<1>10. i \in 0 .. op.inst.spec.size - 1
  BY <1>9, IndexFacts
<1>11. Exists(i) /\ ReadyReplicas(i) = op.inst.spec.replicas + 1
  BY <1>8, <1>10 DEF CheckRedisNodeNum
<1>12. op.inst.spec.replicas \in 0 .. MaxReplicas
  BY <1>6 DEF Pass, StoredCluster, StoredSpec, Ordinal
<1>13. ReadyReplicas(i) # 0
  BY <1>11, <1>12, MaxReplicasAssumption
<1>14. {k \in Ordinal : IsUp(<<i, k>>)} # {}
  BY <1>13, FS_EmptySet DEF ReadyReplicas
<1>. QED
  BY <1>11, <1>14

LEMMA ExistsStays ==
  ASSUME TInv, [Next]_vars, NEW i \in Index, Exists(i)
  PROVE  Exists(i)'
<1>1. CASE SameSts
  BY <1>1 DEF SameSts
<1>2. ASSUME NEW j \in Index, WritesSts(j)
      PROVE  Exists(i)'
  BY <1>2 DEF WritesSts, Exists
<1>. QED
  BY <1>1, <1>2, StsSteps

(***************************************************************************)
(* A pass that is at the StatefulSets has a copy with the phase Running or *)
(* a later one.                                                            *)
(***************************************************************************)
LEMMA TemplateOfPass ==
  ASSUME KInv, TrailOK, cr.spec.restore, op \in Pass, op.pc = "sts", Early
  PROVE  Template(op.inst).init
<1>1. op.inst.spec.restore /\ op.inst.status.phase # ""
  BY DEF KInv, CopyOK
<1>2. Behind(op.inst.status.phase, cr.status.phase) /\ op.inst.status.backup
  BY <1>1 DEF TrailOK, Trails
<1>3. op.inst.status.phase = "Running"
  BY <1>1, <1>2 DEF Behind, Early
<1>. QED
  BY <1>1, <1>2, <1>3 DEF Template, Restoring, IsRestoreFromBackup, IsRestoreRunning

LEMMA NextTemplateOK ==
  ASSUME SInv, TrailOK, [Next]_vars, cr'.spec.restore, torn' \cap Cut = {},
         NEW i \in Index, i < backup.size, TemplateOK(i)
  PROVE  TemplateOK(i)'
<1>1. /\ StepOf /\ CopyOK /\ TInv /\ KInv /\ backup \in Source
      /\ op.pc # "idle" => op \in Pass
  BY NextOf DEF SInv, KInv, TInv, ClusterTyped, OpTyped, Idle
<1>2. /\ cr.spec.restore
      /\ \/ cr'.status.phase = cr.status.phase
         \/ cr.status.phase = "" /\ cr'.status.phase = "Running"
         \/ /\ cr.status.phase = "Running" /\ cr'.status.phase = "Restart"
            /\ op.pc = "restore" /\ op'.pc = "removeInit" /\ op'.i = 0
         \/ /\ cr.status.phase = "Restart" /\ cr'.status.phase = "Succeeded"
            /\ op.pc = "restore"
  BY <1>1, PhaseSteps
<1>3. torn \cap Cut = {} /\ "restart" \notin torn' /\ "stale" \notin torn' /\ "init" \notin torn
  BY <1>1 DEF StepOf, Always, Cut
<1>4. Exists(i) => Exists(i)'
  BY <1>1, ExistsStays
<1>5. AllFilled' => Exists(i)'
  BY <1>4, FilledSteps DEF TemplateOK
<1>6. Early' => Early
  BY <1>2 DEF Early
<1>7. i \in Nat
  BY IndexFacts
<1>8. ASSUME ~UpdateRedisStatefulsets,
             Exists(i)' => Exists(i) /\ sts'[i].template = sts[i].template
      PROVE  TemplateOK(i)'
  <2>1. Exists(i)' /\ Early' => sts'[i].template.init
    BY <1>6, <1>8 DEF TemplateOK
  <2>2. ASSUME Exists(i)', ~Early', sts'[i].template.init
        PROVE  cr'.status.phase = "Restart" /\ op'.pc = "removeInit" /\ op'.i <= i
    <3>1. CASE Early
      <4>1. cr'.status.phase = "Restart" /\ op'.pc = "removeInit" /\ op'.i = 0
        BY <1>2, <2>2, <3>1 DEF Early
      <4>. QED
        BY <1>7, <4>1
    <3>2. CASE ~Early
      <4>1. cr.status.phase = "Restart" /\ op.pc = "removeInit" /\ op.i <= i
        BY <1>8, <2>2, <3>2 DEF TemplateOK
      <4>2. op' = op
        BY <1>1, <1>2, <1>3, <1>8, <4>1, RemovalKept
      <4>. QED
        BY <1>2, <4>1, <4>2
    <3>. QED
      BY <3>1, <3>2
  <2>. QED
    BY <1>5, <2>1, <2>2 DEF TemplateOK
<1>9. ASSUME NEW j \in Index, WritesSts(j), op.pc = "sts"
      PROVE  TemplateOK(i)'
  <2>1. Early' <=> Early
    BY <1>2, <1>9 DEF Early
  <2>2. ~(Exists(i) /\ ~Early /\ sts[i].template.init)
    BY <1>9 DEF TemplateOK
  <2>3. CASE i # j
    <3>1. sts'[i] = sts[i]
      BY <1>9, <2>3 DEF WritesSts
    <3>. QED
      BY <1>5, <2>1, <2>2, <3>1 DEF TemplateOK, Exists
  <2>4. CASE i = j
    <3>1. sts'[i].template = Template(op.inst) /\ op \in Pass
      BY <1>9, <2>4 DEF WritesSts
    <3>2. Early => sts'[i].template.init
      BY <1>1, <1>2, <1>9, <3>1, TemplateOfPass
    <3>3. ASSUME ~Early, Template(op.inst).init
          PROVE  FALSE
      <4>1. Exists(i) /\ ~IsRestoreRunning(cr)
        BY <3>3 DEF TemplateOK, AllFilled, Early, IsRestoreRunning
      <4>. QED
        BY <1>3, <1>9, <2>4, <3>3, <4>1 DEF WritesSts
    <3>. QED
      BY <1>5, <2>1, <3>1, <3>2, <3>3 DEF TemplateOK
  <2>. QED
    BY <2>3, <2>4
<1>10. CASE UpdateRedisStatefulsets
  <2>1. PICK j \in Index : WritesSts(j)
    BY <1>1, <1>10, RewrittenSts
  <2>2. op.pc = "removeInit" /\ op \in Pass /\ UNCHANGED cr /\ j = op.i
    BY <1>1, <1>10, <2>1 DEF UpdateRedisStatefulsets, WritesSts
  <2>3. op.inst.status.phase = "Restart" /\ Behind(op.inst.status.phase, cr.status.phase)
    BY <1>2, <2>2 DEF TrailOK, Trails
  <2>4. ~Early /\ ~Early'
    BY <2>2, <2>3 DEF Behind, Early
  <2>5. ~Template(op.inst).init
    BY <2>3 DEF Template, Restoring, IsRestoreRunning
  <2>6. ASSUME Exists(i)', sts'[i].template.init
        PROVE  cr'.status.phase = "Restart" /\ op'.pc = "removeInit" /\ op'.i <= i
    <3>1. i # op.i /\ sts'[i] = sts[i]
      BY <2>1, <2>2, <2>5, <2>6 DEF WritesSts
    <3>2. cr.status.phase = "Restart" /\ op.i <= i
      BY <2>4, <2>6, <3>1 DEF TemplateOK, Exists
    <3>3. op.fresh
      BY <1>1, <2>2 DEF CopyOK
    <3>4. backup.size <= op.inst.spec.size /\ backup.size \in Nat /\ op.inst.spec.size \in Nat
      BY <1>2, <1>3, <2>2, <3>3, ShardsCovered
    <3>5. op.i \in Nat
      BY <2>1, <2>2, IndexFacts
    <3>6. op.i + 1 # op.inst.spec.size /\ op.i + 1 <= i
      BY <1>7, <3>1, <3>2, <3>4, <3>5
    <3>7. op' = [op EXCEPT !.i = @ + 1]
      BY <1>10, <3>6 DEF UpdateRedisStatefulsets
    <3>8. op'.pc = op.pc /\ op'.i = op.i + 1
      BY <2>2, <3>7 DEF Pass
    <3>. QED
      BY <2>2, <3>2, <3>6, <3>8
  <2>. QED
    BY <1>5, <2>4, <2>6 DEF TemplateOK
<1>. QED
  <2>1. CASE SameSts /\ ~UpdateRedisStatefulsets
    BY <1>8, <2>1 DEF SameSts
  <2>2. ASSUME NEW j \in Index, WritesSts(j), ensureRedisStatefulset
        PROVE  TemplateOK(i)'
    BY <1>9, <2>2 DEF ensureRedisStatefulset
  <2>. QED
    BY <1>1, <1>10, <2>1, <2>2, StsSteps

(***************************************************************************)
(* What can happen to a master of the restore, by what happens to its pod. *)
(***************************************************************************)
LEMMA StaysOK ==
  ASSUME TInv, NEW i \in Index, MasterOK(i),
         data'[i] = data[i],
         pods'[i][0] = NoPod <=> pods[i][0] = NoPod,
         pods[i][0] # NoPod => pods'[i][0].aof = pods[i][0].aof,
         AppendOnly(conf) => AppendOnly(conf)',
         cr.status.phase = "Succeeded" => cr'.status.phase = "Succeeded",
         AllFilled' \/ (\E k \in Ordinal : pods'[i][k] # NoPod) =>
           AllFilled \/ (\E k \in Ordinal : pods[i][k] # NoPod)
  PROVE  MasterOK(i)'
<1>1. Right(i)' = Right(i)
  BY DEF Right
<1>2. /\ data'[i].aof \subseteq {Right(i)'}
      /\ data'[i].aof # {} => AppendOnly(conf)'
      /\ cr'.status.phase # "Succeeded" => ~data'[i].acked
  BY <1>1 DEF MasterOK
<1>3. pods'[i][0] # NoPod =>
        /\ data'[i].mem = Right(i)'
        /\ data'[i].aof = IF pods'[i][0].aof THEN {Right(i)'} ELSE {}
  BY <1>1 DEF MasterOK, IsUp
<1>4. Filled(i) => Filled(i)'
  BY <1>1 DEF Filled, IsUp
<1>5. AllFilled' \/ (\E k \in Ordinal : pods'[i][k] # NoPod) => Filled(i)
  BY DEF MasterOK, IsUp
<1>. QED
  BY <1>2, <1>3, <1>4, <1>5 DEF MasterOK, IsUp

LEMMA StopsOK ==
  ASSUME TInv, VolumesOK, DataTyped, Persistent,
         NEW i \in Index, MasterOK(i), NEW n \in Ordinal, IsUp(<<i, n>>), Stop(i, n)
  PROVE  MasterOK(i)'
<1>1. /\ \A k \in Ordinal : pods'[i][k] = IF k = n THEN NoPod ELSE pods[i][k]
      /\ UNCHANGED <<cr, op, conf>>
  BY StopFacts
<1>2. 0 \in Ordinal /\ AllFilled' = AllFilled
  BY <1>1, MaxReplicasAssumption DEF Ordinal, AllFilled, Early
<1>3. CASE n # 0
  <2>1. UNCHANGED data
    BY <1>3 DEF Stop
  <2>2. pods'[i][0] = pods[i][0]
    BY <1>1, <1>2, <1>3
  <2>3. \A k \in Ordinal : pods'[i][k] # NoPod => pods[i][k] # NoPod
    BY <1>1
  <2>. QED
    BY <1>1, <1>2, <2>1, <2>2, <2>3, StaysOK
<1>4. CASE n = 0
  <2>1. "redis-data" \notin pods[i][n].template.volumes
    BY DEF VolumesOK
  <2>2. data'[i] = [data[i] EXCEPT !.rdb = data[i].mem]
    BY <1>4, <2>1 DEF Stop, DataTyped
  <2>3. /\ data'[i].rdb = data[i].mem /\ data'[i].aof = data[i].aof
        /\ data'[i].acked = data[i].acked
    BY <2>2 DEF DataTyped, Data
  <2>4. Right(i)' = Right(i) /\ data[i].mem = Right(i)
    BY <1>4, <2>3 DEF Right, MasterOK
  <2>5. pods'[i][0] = NoPod /\ Filled(i)'
    BY <1>1, <1>2, <1>4, <2>3, <2>4 DEF Filled
  <2>. QED
    BY <1>1, <2>3, <2>4, <2>5 DEF MasterOK, IsUp
<1>. QED
  BY <1>3, <1>4

LEMMA StartsOK ==
  ASSUME TInv, LogOK, DataTyped, cr.spec.restore, torn' \cap Cut = {},
         NEW i \in Index, TemplateOK(i), MasterOK(i), NEW n \in Ordinal, StartPod(i, n)
  PROVE  MasterOK(i)'
<1>1. /\ ~IsUp(<<i, n>>) /\ Exists(i)
      /\ \A k \in 0 .. n - 1 : IsUp(<<i, k>>)
      /\ \A k \in Ordinal : pods'[i][k] = IF k = n THEN Started(i) ELSE pods[i][k]
      /\ data' = IF n = 0 THEN [data EXCEPT ![i] = Load(@, sts[i].template.init)] ELSE data
      /\ UNCHANGED <<cr, op, conf>> /\ Started(i) # NoPod
  BY StartFacts
<1>2. 0 \in Ordinal /\ AllFilled' = AllFilled
  BY <1>1, MaxReplicasAssumption DEF Ordinal, AllFilled, Early
<1>3. CASE n # 0
  <2>1. 0 \in 0 .. n - 1
    BY <1>3, MaxReplicasAssumption DEF Ordinal
  <2>2. pods[i][0] # NoPod /\ pods'[i][0] = pods[i][0]
    BY <1>1, <1>2, <1>3, <2>1 DEF IsUp
  <2>. QED
    BY <1>1, <1>2, <1>3, <2>2, StaysOK
<1>4. CASE n = 0
  <2>. DEFINE init == sts[i].template.init
              v == Load(data[i], init)
  <2>1. data'[i] = v /\ pods'[i][0] = Started(i) /\ init \in BOOLEAN /\ data[i] \in Data
    BY <1>1, <1>2, <1>4, InitOf DEF DataTyped
  <2>2. /\ v.acked = data[i].acked
        /\ ~AppendOnly(conf) => /\ v.mem = IF init THEN "backup" ELSE data[i].rdb
                                /\ v.aof = IF init THEN {} ELSE data[i].aof
        /\ AppendOnly(conf) => v.aof = {v.mem}
        /\ AppendOnly(conf) /\ ~init => \A x : data[i].aof = {x} => v.mem = x
    BY <2>1, LoadFacts
  <2>. HIDE DEF v
  <2>3. Right(i)' = Right(i) /\ Started(i).aof = AppendOnly(conf)
    BY <2>1, <2>2 DEF Right, Started
  <2>4. init => cr.status.phase # "Succeeded"
    BY <1>1 DEF TemplateOK, Early
  <2>5. CASE AppendOnly(conf)
    <3>1. cr.status.phase = "Succeeded" /\ ~init
      BY <2>4, <2>5 DEF LogOK
    <3>2. data[i].aof # {}
      BY <1>4, <2>5, <3>1 DEF StartPod, IsRestored, Cut
    <3>3. data[i].aof = {Right(i)}
      BY <3>2 DEF MasterOK
    <3>4. v.mem = Right(i) /\ v.aof = {Right(i)}
      BY <2>2, <2>5, <3>1, <3>3
    <3>. QED
      BY <1>1, <2>1, <2>3, <2>5, <3>1, <3>4 DEF MasterOK, Filled, IsUp
  <2>6. CASE ~AppendOnly(conf)
    <3>1. data[i].aof = {} /\ v.aof = {}
      BY <2>1, <2>2, <2>6 DEF MasterOK
    <3>2. v.mem = Right(i)
      <4>1. CASE init
        BY <2>2, <2>4, <2>6, <4>1 DEF Right, MasterOK
      <4>2. CASE ~init
        <5>1. AllFilled
          BY <1>1, <4>2 DEF TemplateOK, AllFilled
        <5>2. data[i].rdb = Right(i)
          BY <1>1, <1>4, <5>1 DEF MasterOK, Filled
        <5>. QED
          BY <2>2, <2>6, <4>2, <5>2
      <4>. QED
        BY <4>1, <4>2
    <3>. QED
      BY <1>1, <2>1, <2>2, <2>3, <2>6, <3>1, <3>2 DEF MasterOK, Filled, IsUp
  <2>. QED
    BY <2>5, <2>6
<1>. QED
  BY <1>3, <1>4

(***************************************************************************)
(* A master is told to keep an append only file only when the ConfigMap    *)
(* says so already.                                                        *)
(***************************************************************************)
LEMMA SetsOK ==
  ASSUME KInv, ConfOK, TrailOK, LogOK, DataTyped, cr.spec.restore,
         NEW i \in Index, MasterOK(i), SetConfigIfNeed
  PROVE  MasterOK(i)'
<1>1. /\ op \in Pass /\ op.pc = "restore" /\ op.inst.spec.restore
      /\ op.inst.status.phase = "Succeeded"
      /\ UNCHANGED <<cr, conf>>
      /\ \A k \in Ordinal : pods'[i][k] = NoPod <=> pods[i][k] = NoPod
      /\ \/ data'[i] = data[i] /\ pods'[i][0] = pods[i][0]
         \/ /\ pods[i][0] # NoPod /\ pods'[i][0].aof = Logs(i, 0)
            /\ data'[i] = IF Logs(i, 0) THEN [data[i] EXCEPT !.aof = {data[i].mem}]
                                        ELSE data[i]
  BY SetConfigFacts DEF KInv, TInv, CopyOK
<1>2. /\ cr.status.phase = "Succeeded" /\ AllFilled
      /\ op.inst.spec.config = cr.spec.config
  BY <1>1 DEF TrailOK, Trails, Behind, AllFilled, Early
<1>3. 0 \in Ordinal
  BY MaxReplicasAssumption DEF Ordinal
<1>4. CASE data'[i] = data[i] /\ pods'[i][0] = pods[i][0]
  BY <1>1, <1>2, <1>4, StaysOK DEF KInv
<1>5. CASE /\ pods[i][0] # NoPod /\ pods'[i][0].aof = Logs(i, 0)
           /\ data'[i] = IF Logs(i, 0) THEN [data[i] EXCEPT !.aof = {data[i].mem}]
                                       ELSE data[i]
  <2>1. /\ data[i].mem = Right(i) /\ pods'[i][0] # NoPod
        /\ data[i].aof = IF pods[i][0].aof THEN {Right(i)} ELSE {}
    BY <1>1, <1>3, <1>5 DEF MasterOK, IsUp
  <2>2. pods[i][0].aof => AppendOnly(conf)
    BY <2>1 DEF MasterOK
  <2>3. ASSUME WantsLog(cr.spec.config)
        PROVE  AppendOnly(conf)
    <3>1. conf = Wanted(op.inst)
      BY <1>1, <2>3 DEF LogOK, ConfOK, Mid
    <3>. QED
      BY <1>1, <1>2, <2>3, <3>1, WantedLog
  <2>4. AppendOnly(conf) => WantsLog(cr.spec.config)
    BY DEF LogOK
  <2>5. Logs(i, 0) => AppendOnly(conf)
    BY <1>2, <2>2, <2>3 DEF Logs, WantsLog
  <2>6. ~Logs(i, 0) => ~pods[i][0].aof
    BY <1>2, <2>2, <2>4 DEF Logs, WantsLog
  <2>7. /\ data'[i].aof = IF Logs(i, 0) THEN {Right(i)} ELSE {}
        /\ data'[i].mem = Right(i) /\ data'[i].acked = data[i].acked
    BY <1>5, <2>1, <2>6 DEF DataTyped, Data
  <2>8. Right(i)' = Right(i)
    BY <2>7 DEF Right
  <2>. QED
    BY <1>1, <1>2, <1>5, <2>1, <2>5, <2>7, <2>8 DEF MasterOK, Filled, IsUp
<1>. QED
  BY <1>1, <1>4, <1>5

LEMMA WritesOK ==
  ASSUME TInv, DataTyped, cr.spec.restore,
         NEW i \in Index, MasterOK(i), ClientWrites
  PROVE  MasterOK(i)'
<1>1. cr.status.phase = "Succeeded" /\ UNCHANGED <<cr, op, conf, pods>>
  BY DEF ClientWrites
<1>2. AllFilled' = AllFilled
  BY <1>1 DEF AllFilled, Early
<1>3. CASE ~(IsUp(<<i, 0>>) /\ data[i].mem = "backup")
  <2>1. data'[i] = data[i]
    BY <1>3 DEF ClientWrites
  <2>. QED
    BY <1>1, <1>2, <2>1, StaysOK
<1>4. CASE IsUp(<<i, 0>>) /\ data[i].mem = "backup"
  <2>. DEFINE aof == IF pods[i][0].aof THEN {"newer"} ELSE data[i].aof
  <2>1. data'[i] = [data[i] EXCEPT !.mem = "newer", !.acked = TRUE, !.aof = aof]
    BY <1>4 DEF ClientWrites
  <2>2. data'[i].mem = "newer" /\ data'[i].acked = TRUE /\ data'[i].aof = aof
    BY <2>1 DEF DataTyped, Data
  <2>3. data[i].aof = IF pods[i][0].aof THEN {Right(i)} ELSE {}
    BY <1>4 DEF MasterOK
  <2>4. aof = (IF pods[i][0].aof THEN {"newer"} ELSE {}) /\ Right(i)' = "newer"
    BY <2>2, <2>3 DEF Right
  <2>5. data'[i].aof # {} => AppendOnly(conf)
    BY <2>2, <2>3, <2>4 DEF MasterOK
  <2>. QED
    BY <1>1, <1>4, <2>2, <2>4, <2>5 DEF MasterOK, Filled, IsUp
<1>. QED
  BY <1>3, <1>4

DInv == TrailOK /\ LogOK /\ VolumesOK /\ DataTyped /\ DataOK

LEMMA NextMasterOK ==
  ASSUME SInv, ConfOK, TrailOK, LogOK, VolumesOK, DataTyped, Persistent, [Next]_vars,
         cr'.spec.restore, torn' \cap Cut = {},
         NEW i \in Index, i < backup.size, TemplateOK(i), MasterOK(i)
  PROVE  MasterOK(i)'
<1>1. KInv /\ TInv /\ 0 \in Ordinal
  BY MaxReplicasAssumption DEF SInv, KInv, Ordinal
<1>2. /\ cr.spec.restore
      /\ cr.status.phase = "Succeeded" => cr'.status.phase = "Succeeded"
  BY <1>1, PhaseSteps
<1>3. AllFilled' => AllFilled \/ \E k \in Ordinal : IsUp(<<i, k>>)
  BY FilledSteps
<1>4. AppendOnly(conf) => AppendOnly(conf)'
  BY <1>1, <1>2, LogStays
<1>5. CASE SamePods
  BY <1>1, <1>2, <1>3, <1>4, <1>5, StaysOK DEF SamePods, IsUp
<1>6. CASE Stops
  <2>1. PICK j \in Index, n \in Ordinal : IsUp(<<j, n>>) /\ Stop(j, n)
    BY <1>6 DEF Stops
  <2>2. CASE i = j
    BY <1>1, <2>1, <2>2, StopsOK
  <2>3. CASE i # j
    <3>1. \A k \in Ordinal : pods'[i][k] = pods[i][k]
      BY <1>1, <2>1, <2>3, StopFacts
    <3>2. data'[i] = data[i]
      BY <2>1, <2>3 DEF Stop, DataTyped
    <3>. QED
      BY <1>1, <1>2, <1>3, <1>4, <3>1, <3>2, StaysOK DEF IsUp
  <2>. QED
    BY <2>2, <2>3
<1>7. CASE Starts
  <2>1. PICK j \in Index, n \in Ordinal : StartPod(j, n)
    BY <1>7 DEF Starts
  <2>2. CASE i = j
    BY <1>1, <1>2, <2>1, <2>2, StartsOK
  <2>3. CASE i # j
    <3>1. \A k \in Ordinal : pods'[i][k] = pods[i][k]
      <4>1. \A x \in Index : \A y \in Ordinal :
              pods'[x][y] = IF x = j /\ y = n THEN Started(j) ELSE pods[x][y]
        BY <1>1, <2>1, StartFacts
      <4>. QED
        BY <2>3, <4>1
    <3>2. data'[i] = data[i]
      BY <2>1, <2>3 DEF StartPod, DataTyped
    <3>. QED
      BY <1>1, <1>2, <1>3, <1>4, <3>1, <3>2, StaysOK DEF IsUp
  <2>. QED
    BY <2>2, <2>3
<1>8. CASE SetConfigIfNeed
  BY <1>1, <1>2, <1>8, SetsOK
<1>9. CASE ClientWrites
  BY <1>1, <1>2, <1>9, WritesOK
<1>. QED
  BY <1>1, <1>5, <1>6, <1>7, <1>8, <1>9, PodSteps

LEMMA NextDInv ==
  ASSUME SInv, ConfOK, DInv, Persistent, [Next]_vars
  PROVE  DInv'
<1>1. /\ KInv /\ TInv /\ Always /\ backup \in Source
  BY NextOf DEF SInv, KInv, TInv, ClusterTyped, StepOf
<1>2. TrailOK' /\ LogOK' /\ VolumesOK' /\ DataTyped'
  BY <1>1, NextTrailOK, NextLogOK, NextVolumesOK, NextDataTyped DEF DInv
<1>3. ASSUME cr'.spec.restore, torn' \cap Cut = {}, NEW i \in 0 .. backup'.size - 1
      PROVE  TemplateOK(i)' /\ MasterOK(i)'
  <2>1. cr.spec.restore /\ torn \cap Cut = {} /\ i \in 0 .. backup.size - 1
    BY <1>1, <1>3, PhaseSteps DEF DInv, Always
  <2>2. TemplateOK(i) /\ MasterOK(i)
    BY <2>1 DEF DInv, DataOK
  <2>3. backup.size \in 1 .. MaxSize /\ MaxSize \in Nat
    BY <1>1, MaxSizeAssumption DEF Source
  <2>4. i \in Index /\ i < backup.size
    BY <2>1, <2>3 DEF Index
  <2>. QED
    BY <1>3, <2>2, <2>4, NextTemplateOK, NextMasterOK DEF DInv
<1>. QED
  BY <1>2, <1>3 DEF DInv, DataOK

LEMMA InitDInv ==
  ASSUME Init
  PROVE  DInv
<1>0. 0 \in Ordinal /\ \A i \in 0 .. backup.size - 1 : i \in Index
  <2>1. backup.size \in 1 .. MaxSize /\ MaxSize \in Nat
    BY InitTInv, MaxSizeAssumption DEF TInv, ClusterTyped, Source
  <2>. QED
    BY <2>1, MaxReplicasAssumption DEF Index, Ordinal
<1>1. PICK s \in NewSpec, st \in {"", "OK"} :
        cr = [spec |-> s, status |-> [phase |-> "", backup |-> FALSE, state |-> st]]
  BY DEF Init
<1>2. /\ cr.status.phase = "" /\ cache.obj = cr /\ op = Idle
      /\ data = [i \in Index |-> NoData]
      /\ cr.spec.restore => cr.status.state # "OK"
  BY <1>1 DEF Init
<1>. DEFINE run(i, k) == cr.status.state = "OK" /\ i < cr.spec.size /\ k <= cr.spec.replicas
<1>3. /\ conf = IF run(0, 0) THEN generateRedisConfContent(cr.spec.config) ELSE NoConf
      /\ sts = [i \in Index |-> IF run(i, 0) THEN SteadySts(cr) ELSE NoSts]
      /\ pods = [i \in Index |-> [k \in Ordinal |->
                   IF run(i, k) THEN SteadyPod(cr) ELSE NoPod]]
  BY DEF Init
<1>. HIDE DEF run
<1>4. TrailOK
  BY <1>2 DEF TrailOK, Trails, Behind, Idle, Mid
<1>5. LogOK
  <2>1. NoConf # {}
    BY DEF NoConf
  <2>2. <<"appendonly", "yes">> # <<>>
    OBVIOUS
  <2>3. ~AppendOnly(NoConf)
    BY <2>2 DEF AppendOnly, NoConf
  <2>. QED
    BY <1>2, <1>3, <2>1, <2>3 DEF LogOK, run
<1>6. VolumesOK
  <2>1. Persistent => "redis-data" \notin Template(cr).volumes
    BY DEF Template, redisVolumes, redisDataVolume
  <2>2. SteadySts(cr).template = Template(cr) /\ SteadyPod(cr).template = Template(cr)
    BY DEF SteadySts, SteadyPod
  <2>. QED
    BY <1>3, <2>1, <2>2 DEF VolumesOK, Exists, IsUp
<1>7. DataTyped /\ \A i \in Index : data[i] = NoData /\ NoData.aof = {} /\ ~NoData.acked
  BY <1>2 DEF DataTyped, NoData, Data, Content
<1>8. ASSUME cr.spec.restore, NEW i \in 0 .. backup.size - 1
      PROVE  TemplateOK(i) /\ MasterOK(i)
  <2>1. i \in Index
    BY <1>0, <1>8
  <2>2. ~Exists(i) /\ \A k \in Ordinal : ~IsUp(<<i, k>>)
    BY <1>2, <1>3, <1>8, <2>1 DEF Exists, IsUp, run
  <2>3. Early /\ op.pc = "idle"
    BY <1>2 DEF Early, Idle
  <2>4. ~AllFilled
    BY <2>3 DEF AllFilled
  <2>. QED
    BY <1>0, <1>7, <2>1, <2>2, <2>3, <2>4 DEF TemplateOK, MasterOK
<1>. QED
  BY <1>4, <1>5, <1>6, <1>7, <1>8 DEF DInv, DataOK

(***************************************************************************)
(* With its data on volumes a restore that is called Succeeded has lost    *)
(* nothing: every master that runs has the data of the backup, or that and *)
(* every write answered since, however often its pod was stopped, evicted  *)
(* or rolled, and whatever else failed.  What can break it is one of four  *)
(* interrupted or overtaken sequences: the two writes at the beginning of  *)
(* the restore, the loop that removes the init containers, a StatefulSet   *)
(* rewritten from a stale copy, and a Redis that was started with          *)
(* "appendonly yes" before it was told so.                                 *)
(***************************************************************************)
THEOREM DataProved == Persistent => (Spec => []DataKept)
<1>. SUFFICES ASSUME Persistent
              PROVE  Spec => []DataKept
  OBVIOUS
<1>1. Init => DInv
  BY InitDInv
<1>2. SInv /\ FInv /\ DInv /\ [Next]_vars => DInv'
  BY NextDInv DEF FInv
<1>3. SInv /\ DInv => DataKept
  <2>. SUFFICES ASSUME SInv, DInv, cr.spec.restore, torn \cap Cut = {},
                       NEW i \in 0 .. backup.size - 1, IsUp(<<i, 0>>)
                PROVE  data[i].mem = IF data[i].acked THEN "newer" ELSE "backup"
    BY DEF DataKept, IsRestoreFromBackup, Cut
  <2>. QED
    BY DEF DInv, DataOK, MasterOK, Right
<1>. QED
  BY <1>1, <1>2, <1>3, AlwaysSInv, AlwaysFInv, PTL DEF Spec

-----------------------------------------------------------------------------
(***************************************************************************)
(* Passwords.  A pass that no edit has overtaken has the stored secret and *)
(* size, and whatever belongs to a restore has always the same secret.     *)
(***************************************************************************)
SecretOf(i) == sts[i].template.server.secret

SecretOK ==
  /\ op.pc # "idle" /\ op.fresh =>
       op.inst.spec.secret = cr.spec.secret /\ op.inst.spec.size = cr.spec.size
  /\ cr.spec.restore =>
       /\ cache.obj.spec.secret = cr.spec.secret
       /\ op.pc # "idle" => op.inst.spec.secret = cr.spec.secret
       /\ \A i \in Index : Exists(i) => SecretOf(i) = cr.spec.secret

LEMMA CopyStays ==
  ASSUME KInv, SecretOK, [Next]_vars
  PROVE  /\ op'.pc # "idle" /\ op'.fresh =>
              op'.inst.spec.secret = cr'.spec.secret /\ op'.inst.spec.size = cr'.spec.size
         /\ cr'.spec.restore =>
              /\ cr.spec.restore /\ cr'.spec.secret = cr.spec.secret
              /\ cache'.obj.spec.secret = cr'.spec.secret
              /\ op'.pc # "idle" => op'.inst.spec.secret = cr'.spec.secret
<1>1. /\ StepOf /\ CopyOK /\ CacheOK
      /\ cr \in StoredCluster /\ cache \in View /\ backup \in Source
  BY NextOf DEF KInv, TInv, ClusterTyped
<1>2. CASE Quiet \/ Delivers
  BY <1>2 DEF SecretOK, Quiet, Delivers
<1>3. CASE Moves
  BY <1>1, <1>3 DEF SecretOK, CopyOK, Moves, Keeps, Mid
<1>4. CASE Ends \/ GivesUp
  BY <1>4 DEF SecretOK, Ends, GivesUp, Idle
<1>5. CASE Begins
  BY <1>1, <1>5 DEF SecretOK, Begins, CacheOK
<1>6. CASE Finds
  BY <1>1, <1>6 DEF SecretOK, CopyOK, Finds, Keeps
<1>7. CASE \/ Marks("restore", "Running", "removeInit", "Restart")
           \/ Marks("restore", "Restart", "raise", "Succeeded")
  BY <1>1, <1>7 DEF SecretOK, CopyOK, Marks, Keeps
<1>8. CASE Defaults
  <2>1. op \in Pass /\ op.pc = "default" /\ op'.inst = Defaulted
        /\ op'.fresh = op.fresh /\ cache'.obj = cache.obj
    BY <1>8 DEF Defaults
  <2>2. /\ Defaulted.spec.restore = op.inst.spec.restore
        /\ Defaulted.spec.secret = op.inst.spec.secret
    BY <1>1, <2>1, DefaultedFacts
  <2>3. CASE NeedsUpdate
    <3>1. op.fresh /\ cr'.spec = Defaulted.spec
      BY <1>8, <2>3 DEF Defaults
    <3>. QED
      BY <1>1, <2>1, <2>2, <3>1 DEF SecretOK, CopyOK
  <2>4. CASE ~NeedsUpdate
    <3>1. cr' = cr
      BY <1>8, <2>4 DEF Defaults
    <3>2. Copied = op.inst.spec /\ Defaulted = Masters
      BY <2>4 DEF NeedsUpdate
    <3>3. Defaulted.spec.size = op.inst.spec.size
      BY <1>1, <2>1, <3>2, MastersFacts
    <3>. QED
      BY <2>1, <2>2, <3>1, <3>3 DEF SecretOK
  <2>. QED
    BY <2>3, <2>4
<1>9. CASE Rewrites \/ Sets
  BY <1>9 DEF SecretOK, Rewrites, Sets, Keeps
<1>10. CASE Raises
  <2>1. /\ op.inst = cr /\ cr.spec \in StoredSpec /\ op'.pc = "idle"
        /\ cr'.spec = [op.inst.spec EXCEPT !.replicas = backup.replicas]
        /\ cache'.obj = cache.obj
    BY <1>1, <1>10 DEF CopyOK, Raises, Idle, StoredCluster
  <2>2. cr'.spec.secret = cr.spec.secret /\ cr'.spec.restore = cr.spec.restore
    BY <2>1 DEF StoredSpec
  <2>. QED
    BY <2>1, <2>2 DEF SecretOK
<1>11. CASE Edited
  BY <1>1, <1>11 DEF SecretOK, Edited
<1>. QED
  BY <1>1, <1>2, <1>3, <1>4, <1>5, <1>6, <1>7, <1>8, <1>9, <1>10, <1>11 DEF StepOf

LEMMA SecretOfTemplate == \A c : Template(c).server.secret = c.spec.secret
BY DEF Template, redisServerContainer, redisPassword

LEMMA NextSecretOK ==
  ASSUME KInv, SecretOK, [Next]_vars
  PROVE  SecretOK'
<1>1. /\ op'.pc # "idle" /\ op'.fresh =>
           op'.inst.spec.secret = cr'.spec.secret /\ op'.inst.spec.size = cr'.spec.size
      /\ cr'.spec.restore =>
           /\ cr.spec.restore /\ cr'.spec.secret = cr.spec.secret
           /\ cache'.obj.spec.secret = cr'.spec.secret
           /\ op'.pc # "idle" => op'.inst.spec.secret = cr'.spec.secret
  BY CopyStays
<1>2. ASSUME cr'.spec.restore, NEW i \in Index, Exists(i)'
      PROVE  sts'[i].template.server.secret = cr'.spec.secret
  <2>1. cr.spec.restore /\ cr'.spec.secret = cr.spec.secret
    BY <1>1, <1>2
  <2>2. CASE SameSts
    BY <1>2, <2>1, <2>2 DEF SameSts, SecretOK, SecretOf
  <2>3. ASSUME NEW j \in Index, WritesSts(j)
        PROVE  sts'[i].template.server.secret = cr'.spec.secret
    <3>1. op.pc # "idle" /\ sts'[j].template = Template(op.inst)
      BY <2>3 DEF WritesSts
    <3>2. sts'[j].template.server.secret = cr'.spec.secret
      BY <2>1, <3>1, SecretOfTemplate DEF SecretOK
    <3>3. i # j => sts'[i] = sts[i]
      BY <2>3 DEF WritesSts
    <3>. QED
      BY <1>2, <2>1, <3>2, <3>3 DEF SecretOK, SecretOf, Exists
  <2>. QED
    BY <2>2, <2>3, StsSteps DEF KInv
<1>. QED
  BY <1>1, <1>2 DEF SecretOK, SecretOf

(***************************************************************************)
(* A password reset: the pods of a pass, and what becomes of it.           *)
(***************************************************************************)
PoolOK ==
  /\ op.pc \in {"init", "default", "password"} => op.podSet = {}
  /\ op.pc \in {"exec", "reset"} => op.pool \subseteq op.podSet

SameAuth ==
  \A i \in Index : \A k \in Ordinal :
    /\ pods'[i][k] = NoPod <=> pods[i][k] = NoPod
    /\ pods[i][k] # NoPod => /\ pods'[i][k].auth = pods[i][k].auth
                             /\ pods'[i][k].file = pods[i][k].file

SameReset ==
  /\ op'.pc = op.pc /\ op'.inst = op.inst /\ op'.podSet = op.podSet
  /\ op'.pool = op.pool /\ op'.old = op.old /\ op'.i = op.i

LEMMA ResetFacts ==
  ASSUME TInv, ResetPassword
  PROVE  /\ op \in Pass /\ op.pc = "reset" /\ UNCHANGED sts
         /\ \/ /\ op' = Idle /\ UNCHANGED pods
               /\ op.pool = {} \/ \E p \in op.pool : ~Accepts(p)
            \/ \E j \in Index : \E n \in Ordinal :
                 /\ <<j, n>> \in op.pool
                 /\ op'.pool = op.pool \ {<<j, n>>}
                 /\ op'.pc = IF op.pool = {<<j, n>>} THEN "sts" ELSE "reset"
                 /\ op'.inst = op.inst /\ op'.podSet = op.podSet /\ op'.i = op.i
                 /\ op'.old = op.old
                 /\ \A i \in Index : \A k \in Ordinal :
                      /\ pods'[i][k] = NoPod <=> pods[i][k] = NoPod
                      /\ pods[i][k] # NoPod =>
                           /\ pods'[i][k].file = pods[i][k].file
                           /\ pods'[i][k].auth = IF i = j /\ k = n THEN op.inst.spec.secret
                                                                  ELSE pods[i][k].auth
<1>1. op \in Pass /\ op.pc = "reset" /\ UNCHANGED sts
  BY InPass DEF TInv, ResetPassword
<1>2. \/ op' = Idle /\ UNCHANGED pods /\ (op.pool = {} \/ \E p \in op.pool : ~Accepts(p))
      \/ \E p \in op.pool :
           /\ Accepts(p)
           /\ pods' = [pods EXCEPT ![p[1]][p[2]].auth = GetClusterPassword(op.inst)]
           /\ op' = [op EXCEPT !.pool = @ \ {p},
                              !.pc = IF op.pool = {p} THEN "sts" ELSE "reset"]
  BY DEF ResetPassword, Requeue, Leave
<1>3. ASSUME NEW p \in op.pool, Accepts(p),
             pods' = [pods EXCEPT ![p[1]][p[2]].auth = GetClusterPassword(op.inst)],
             op' = [op EXCEPT !.pool = @ \ {p},
                              !.pc = IF op.pool = {p} THEN "sts" ELSE "reset"]
      PROVE  \E j \in Index : \E n \in Ordinal :
               /\ <<j, n>> \in op.pool
               /\ op'.pool = op.pool \ {<<j, n>>}
               /\ op'.pc = IF op.pool = {<<j, n>>} THEN "sts" ELSE "reset"
               /\ op'.inst = op.inst /\ op'.podSet = op.podSet /\ op'.i = op.i
               /\ op'.old = op.old
               /\ \A i \in Index : \A k \in Ordinal :
                    /\ pods'[i][k] = NoPod <=> pods[i][k] = NoPod
                    /\ pods[i][k] # NoPod =>
                         /\ pods'[i][k].file = pods[i][k].file
                         /\ pods'[i][k].auth = IF i = j /\ k = n THEN op.inst.spec.secret
                                                                ELSE pods[i][k].auth
  <2>1. PICK j \in Index, n \in Ordinal : p = <<j, n>>
    BY <1>1, <1>3 DEF Pass, Pod
  <2>. DEFINE new == [pods[j][n] EXCEPT !.auth = GetClusterPassword(op.inst)]
  <2>2. pods' = [pods EXCEPT ![j] = [pods[j] EXCEPT ![n] = new]]
    BY <1>3, <2>1
  <2>3. pods[j][n] \in RunningPod /\ pods[j][n] # NoPod
    BY <1>3, <2>1, PodTyped DEF TInv, KubeTyped, Accepts, IsUp
  <2>4. new.up = TRUE /\ new.auth = op.inst.spec.secret /\ new.file = pods[j][n].file
    BY <2>3 DEF RunningPod, GetClusterPassword
  <2>5. new # NoPod
    BY <2>4 DEF NoPod
  <2>. HIDE DEF new
  <2>6. \A i \in Index : \A k \in Ordinal :
          pods'[i][k] = IF i = j /\ k = n THEN new ELSE pods[i][k]
    BY <2>2 DEF TInv, KubeTyped
  <2>7. /\ op'.pool = op.pool \ {p} /\ op'.inst = op.inst /\ op'.podSet = op.podSet
        /\ op'.i = op.i /\ op'.old = op.old
    BY <1>1, <1>3 DEF Pass
  <2>8. op'.pc = IF op.pool = {p} THEN "sts" ELSE "reset"
    BY <1>1, <1>3 DEF Pass
  <2>9. ASSUME NEW i \in Index, NEW k \in Ordinal
        PROVE  /\ pods'[i][k] = NoPod <=> pods[i][k] = NoPod
               /\ pods[i][k] # NoPod =>
                    /\ pods'[i][k].file = pods[i][k].file
                    /\ pods'[i][k].auth = IF i = j /\ k = n THEN op.inst.spec.secret
                                                           ELSE pods[i][k].auth
    <3>1. CASE i = j /\ k = n
      BY <2>3, <2>4, <2>5, <2>6, <3>1
    <3>2. CASE ~(i = j /\ k = n)
      <4>1. pods'[i][k] = pods[i][k]
        BY <2>6, <3>2
      <4>. QED
        BY <3>2, <4>1
    <3>. QED
      BY <3>1, <3>2
  <2>10. <<j, n>> \in op.pool
    BY <1>3, <2>1
  <2>11. /\ op'.pool = op.pool \ {<<j, n>>}
         /\ op'.pc = IF op.pool = {<<j, n>>} THEN "sts" ELSE "reset"
         /\ op'.inst = op.inst /\ op'.podSet = op.podSet /\ op'.i = op.i
         /\ op'.old = op.old
    BY <2>1, <2>7, <2>8
  <2>. QED
    BY <2>9, <2>10, <2>11
<1>. QED
  BY <1>1, <1>2, <1>3

LEMMA PoolOfReconcile ==
  ASSUME TInv, PoolOK, Reconcile
  PROVE  PoolOK'
<1>1. op.pc # "idle" => op \in Pass
  BY InPass DEF TInv
<1>2. op' = Idle => PoolOK'
  BY DEF PoolOK, Idle
<1>3. CASE Start
  BY <1>3 DEF Start, PoolOK
<1>4. CASE initRestore \/ validateAndSetDefault
  <2>1. op \in Pass /\ op.podSet = {}
    BY <1>1, <1>4 DEF initRestore, validateAndSetDefault, PoolOK
  <2>2. op' = Idle \/ (op'.podSet = op.podSet /\ op'.pc \in {"default", "password"})
    <3>1. initRestore => op' = Idle \/ (op'.podSet = op.podSet /\ op'.pc = "default")
      BY <2>1 DEF initRestore, StopRetry, Leave, Pass
    <3>2. validateAndSetDefault => op' = Idle \/ (op'.podSet = op.podSet /\ op'.pc = "password")
      BY <2>1 DEF validateAndSetDefault, StopRetry, Leave, Goto, Pass
    <3>. QED
      BY <1>4, <3>1, <3>2
  <2>. QED
    BY <1>2, <2>1, <2>2 DEF PoolOK
<1>5. CASE resetClusterPassword
  <2>1. op \in Pass
    BY <1>1, <1>5 DEF resetClusterPassword
  <2>2. \/ op'.pc = "sts"
        \/ op'.pc = "exec" /\ op'.podSet = Up /\ \E old : op'.pool = Connections(Up, old)
    BY <1>5, <2>1 DEF resetClusterPassword, Goto, Pass
  <2>3. \A old : Connections(Up, old) \subseteq Up
    BY DEF Connections
  <2>. QED
    BY <2>2, <2>3 DEF PoolOK
<1>6. CASE ExecCommandInPodSet
  <2>1. op \in Pass /\ op.pc = "exec"
    BY <1>1, <1>6 DEF ExecCommandInPodSet
  <2>2. op' = Idle \/ (op'.pc = "reset" /\ op'.pool = op.pool /\ op'.podSet = op.podSet)
    BY <1>6, <2>1 DEF ExecCommandInPodSet, Requeue, Leave, Goto, Pass
  <2>. QED
    BY <1>2, <2>1, <2>2 DEF PoolOK
<1>7. CASE ResetPassword
  <2>1. op \in Pass /\ op.pc = "reset"
    BY <1>1, <1>7 DEF ResetPassword
  <2>2. \/ op' = Idle
        \/ /\ op'.pc \in {"reset", "sts"} /\ op'.podSet = op.podSet
           /\ op'.pool \subseteq op.pool
    BY <1>7, ResetFacts
  <2>. QED
    BY <1>2, <2>1, <2>2 DEF PoolOK
<1>8. CASE ensureRedisStatefulset \/ waitStatefulSetUpdating \/ waitPodReady
  <2>1. op \in Pass
    BY <1>1, <1>8 DEF ensureRedisStatefulset, waitStatefulSetUpdating, waitPodReady
  <2>2. op' = Idle \/ op'.pc \in {"sts", "wait", "services", "restore"}
    BY <1>8, <2>1 DEF ensureRedisStatefulset, waitStatefulSetUpdating, waitPodReady, Requeue,
       Leave, Goto, Pass
  <2>. QED
    BY <1>2, <2>2 DEF PoolOK
<1>9. CASE \/ MarkRestart \/ UpdateRedisStatefulsets \/ MarkSucceeded \/ RaiseReplicas
           \/ SetConfigIfNeed \/ Finish
  <2>1. op \in Pass /\ op.pc \in {"restore", "removeInit", "raise", "finish"}
    BY <1>1, <1>9 DEF MarkRestart, UpdateRedisStatefulsets, MarkSucceeded, RaiseReplicas,
       SetConfigIfNeed, Finish
  <2>2. op' = Idle \/ op'.pc \in {"removeInit", "raise", "finish"}
    BY <1>9, <2>1 DEF MarkRestart, UpdateRedisStatefulsets, MarkSucceeded, RaiseReplicas,
       SetConfigIfNeed, Finish, Leave, Goto, Pass
  <2>. QED
    BY <1>2, <2>2 DEF PoolOK
<1>. QED
  BY <1>3, <1>4, <1>5, <1>6, <1>7, <1>8, <1>9 DEF Reconcile

LEMMA NextPoolOK ==
  ASSUME TInv, PoolOK, [Next]_vars
  PROVE  PoolOK'
<1>1. op.pc # "idle" => op \in Pass
  BY InPass DEF TInv
<1>2. op' = Idle => PoolOK'
  BY DEF PoolOK, Idle
<1>3. op' = op => PoolOK'
  BY DEF PoolOK
<1>4. CASE CallFails
  <2>1. op' = Idle \/ op'.pc = "sts"
    BY <1>1, <1>4 DEF CallFails, StopRetry, Requeue, Leave, Goto, Pass
  <2>. QED
    BY <1>2, <2>1 DEF PoolOK
<1>5. CASE Crash
  BY <1>2, <1>5 DEF Crash
<1>6. CASE UpdateFunc \/ BackupSucceeds \/ ClientWrites \/ UNCHANGED vars
  BY <1>3, <1>6 DEF UpdateFunc, BackupSucceeds, ClientWrites, vars
<1>7. CASE UserEdits
  <2>1. op' = op \/ (op \in Pass /\ op' = [op EXCEPT !.fresh = FALSE])
    BY <1>1, <1>7 DEF UserEdits
  <2>2. op' = op \/ SameReset
    BY <2>1 DEF SameReset, Pass
  <2>. QED
    BY <1>3, <2>2 DEF PoolOK, SameReset
<1>8. ASSUME NEW i \in Index, StatefulSetController(i) \/ \E k \in Ordinal : Evict(i, k)
      PROVE  op' = op
  BY <1>8 DEF StatefulSetController, ScaleIn, RollPod, Evict, Stop, StartPod
<1>. QED
  BY <1>3, <1>4, <1>5, <1>6, <1>7, <1>8, PoolOfReconcile DEF Next

(***************************************************************************)
(* Outside of a reset every pod answers to the password of its StatefulSet *)
(* and has it in its file, and all StatefulSets have the same.  During one *)
(* the pods are between the old password and the pass's new one.           *)
(***************************************************************************)
Secure == torn \cap {"reset", "skipped"} = {}

Has(i, k, file, auth) == pods[i][k].file = file /\ pods[i][k].auth = auth

PodsOK == \A i \in Index : \A k \in Ordinal : IsUp(<<i, k>>) => Exists(i)

RestOK ==
  /\ \A i \in Index : \A k \in Ordinal :
       IsUp(<<i, k>>) => Has(i, k, SecretOf(i), SecretOf(i))
  /\ \A i, j \in Index : Exists(i) /\ Exists(j) => SecretOf(i) = SecretOf(j)

AllHave(file, auth) ==
  \A i \in Index : \A k \in Ordinal : IsUp(<<i, k>>) => Has(i, k, file, auth)

BeforeExec ==
  /\ op.pool = Up /\ AllHave(op.old, op.old)
  /\ \A i \in Index : Exists(i) => SecretOf(i) = op.old

BeforeReset ==
  /\ op.pool # {}
  /\ \A i \in Index : \A k \in Ordinal :
       IsUp(<<i, k>>) => Has(i, k, op.inst.spec.secret,
                             IF <<i, k>> \in op.pool THEN op.old ELSE op.inst.spec.secret)
  /\ \A i \in Index : Exists(i) => SecretOf(i) = op.old

BeforeSts ==
  /\ AllHave(op.inst.spec.secret, op.inst.spec.secret)
  /\ \A i \in Index : Exists(i) /\ i < op.i => SecretOf(i) = op.inst.spec.secret

ResetOK ==
  /\ op.inst.spec.secret # NoSecret /\ op.podSet = Up
  /\ \A i \in Index : Exists(i) => i < op.inst.spec.size
  /\ op.pc = "exec" => BeforeExec
  /\ op.pc = "reset" => BeforeReset
  /\ op.pc = "sts" => BeforeSts

OpenOK == Secure => IF Resetting THEN ResetOK ELSE RestOK

LEMMA NextPodsOK ==
  ASSUME TInv, PodsOK, [Next]_vars
  PROVE  PodsOK'
<1>. SUFFICES ASSUME NEW i \in Index, NEW k \in Ordinal, pods'[i][k] # NoPod
              PROVE  Exists(i)'
  BY DEF PodsOK, IsUp
<1>1. CASE IsUp(<<i, k>>)
  BY <1>1, ExistsStays DEF PodsOK
<1>2. CASE Exists(i)
  BY <1>2, ExistsStays
<1>3. SamePods \/ SetConfigIfNeed => IsUp(<<i, k>>)
  BY SetConfigFacts DEF SamePods, IsUp
<1>4. ClientWrites => IsUp(<<i, k>>)
  BY DEF ClientWrites, IsUp
<1>5. Stops => IsUp(<<i, k>>)
  BY StopFacts DEF Stops, IsUp
<1>6. Starts => Exists(i) \/ IsUp(<<i, k>>)
  <2>. SUFFICES ASSUME Starts PROVE Exists(i) \/ IsUp(<<i, k>>)
    OBVIOUS
  <2>1. PICK j \in Index, n \in Ordinal :
          /\ Exists(j)
          /\ \A a \in Index : \A b \in Ordinal :
               pods'[a][b] = IF a = j /\ b = n THEN Started(j) ELSE pods[a][b]
    BY StartsOf
  <2>. QED
    BY <2>1 DEF IsUp, Exists
<1>. QED
  BY <1>1, <1>2, <1>3, <1>4, <1>5, <1>6, PodSteps

(***************************************************************************)
(* The calls of a reset.                                                   *)
(***************************************************************************)
LEMMA ExecFacts ==
  ASSUME TInv, ExecCommandInPodSet
  PROVE  /\ op \in Pass /\ op.pc = "exec" /\ UNCHANGED sts
         /\ \/ op' = Idle /\ ~(op.podSet \subseteq Up)
            \/ /\ op'.pc = "reset" /\ op'.inst = op.inst /\ op'.podSet = op.podSet
               /\ op'.pool = op.pool /\ op'.old = op.old /\ op'.i = op.i
               /\ op.podSet \subseteq Up
               /\ \A i \in Index : \A k \in Ordinal :
                    /\ pods'[i][k] = NoPod <=> pods[i][k] = NoPod
                    /\ pods[i][k] # NoPod =>
                         /\ pods'[i][k].auth = pods[i][k].auth
                         /\ pods'[i][k].file = IF <<i, k>> \in op.podSet
                                               THEN op.inst.spec.secret ELSE pods[i][k].file
<1>1. op \in Pass /\ op.pc = "exec" /\ UNCHANGED sts
  BY InPass DEF TInv, ExecCommandInPodSet
<1>2. \/ op' = Idle /\ ~(op.podSet \subseteq Up)
      \/ /\ op.podSet \subseteq Up /\ Goto("reset", op.inst)
         /\ SetFile(op.podSet, GetClusterPassword(op.inst))
  BY DEF ExecCommandInPodSet, Requeue, Leave
<1>3. Goto("reset", op.inst) =>
        /\ op'.pc = "reset" /\ op'.inst = op.inst /\ op'.podSet = op.podSet
        /\ op'.pool = op.pool /\ op'.old = op.old /\ op'.i = op.i
  BY <1>1 DEF Goto, Pass
<1>4. ASSUME SetFile(op.podSet, GetClusterPassword(op.inst)),
             NEW i \in Index, NEW k \in Ordinal
      PROVE  /\ pods'[i][k] = NoPod <=> pods[i][k] = NoPod
             /\ pods[i][k] # NoPod =>
                  /\ pods'[i][k].auth = pods[i][k].auth
                  /\ pods'[i][k].file = IF <<i, k>> \in op.podSet
                                        THEN op.inst.spec.secret ELSE pods[i][k].file
  <2>1. pods'[i][k] = IF <<i, k>> \in op.podSet /\ IsUp(<<i, k>>)
                      THEN [pods[i][k] EXCEPT !.file = op.inst.spec.secret] ELSE pods[i][k]
    BY <1>4 DEF SetFile, GetClusterPassword
  <2>2. CASE IsUp(<<i, k>>)
    <3>1. pods[i][k] \in RunningPod /\ pods[i][k] # NoPod
      BY <2>2, PodTyped DEF TInv, KubeTyped, IsUp
    <3>. DEFINE new == [pods[i][k] EXCEPT !.file = op.inst.spec.secret]
    <3>2. /\ new.up = TRUE /\ new.auth = pods[i][k].auth
          /\ new.file = op.inst.spec.secret
      BY <3>1 DEF RunningPod
    <3>3. new # NoPod
      BY <3>2 DEF NoPod
    <3>. HIDE DEF new
    <3>4. CASE <<i, k>> \in op.podSet
      <4>1. pods'[i][k] = new
        BY <2>1, <2>2, <3>4 DEF new
      <4>. QED
        BY <3>1, <3>2, <3>3, <3>4, <4>1
    <3>5. CASE <<i, k>> \notin op.podSet
      <4>1. pods'[i][k] = pods[i][k]
        BY <2>1, <3>5
      <4>. QED
        BY <3>5, <4>1
    <3>. QED
      BY <3>4, <3>5
  <2>3. CASE ~IsUp(<<i, k>>)
    <3>1. pods'[i][k] = pods[i][k] /\ pods[i][k] = NoPod
      BY <2>1, <2>3 DEF IsUp
    <3>. QED
      BY <3>1
  <2>. QED
    BY <2>2, <2>3
<1>. QED
  BY <1>1, <1>2, <1>3, <1>4

LEMMA PasswordFacts ==
  ASSUME KInv, SecretOK, PoolOK, resetClusterPassword
  PROVE  /\ op \in Pass /\ op.pc = "password" /\ op.podSet = {} /\ UNCHANGED <<sts, pods>>
         /\ \/ op'.pc = "sts" /\ op'.podSet = {}
            \/ /\ op'.pc = "exec" /\ op'.podSet = Up /\ op'.old = SecretOf(0)
               /\ op'.pool = Connections(Up, SecretOf(0)) /\ Exists(0) /\ 0 \in Index
               /\ op'.inst.spec.secret = op.inst.spec.secret
               /\ op'.inst.spec.size = op.inst.spec.size
               /\ op.inst.spec.secret # NoSecret
               /\ (\E i \in Index : Exists(i) /\ i >= op.inst.spec.size) => "skipped" \in torn'
<1>1. /\ op \in Pass /\ op.pc = "password" /\ op.podSet = {} /\ UNCHANGED <<sts, pods>>
      /\ op.inst \in StoredCluster
  BY InPass DEF KInv, TInv, resetClusterPassword, PoolOK, Kube, Pass
<1>2. CASE Goto("sts", op.inst)
  BY <1>1, <1>2 DEF Goto, Pass
<1>3. CASE CheckRedisNodeNum(op.inst) /\ IsPasswordChanged(op.inst, sts[0])
  <2>. DEFINE c == [op.inst EXCEPT !.status.state = "ResetPassword"]
              old == GetOldRedisClusterPassword(sts[0])
              inst == IF op.fresh THEN StatusOf(c) ELSE c
  <2>1. op' = [op EXCEPT !.pc = "exec", !.podSet = Up, !.old = old, !.inst = inst,
                         !.pool = Connections(Up, old)]
    BY <1>3 DEF resetClusterPassword
  <2>2. (\E i \in Index : Exists(i) /\ i >= op.inst.spec.size) => "skipped" \in torn'
    BY <1>3 DEF resetClusterPassword
  <2>3. c \in StoredCluster /\ c.spec = op.inst.spec
    BY <1>1, StateTyped DEF State
  <2>4. StatusOf(c).spec = cr.spec
    BY <2>3, StatusTyped DEF KInv, TInv, ClusterTyped
  <2>5. /\ inst.spec.secret = op.inst.spec.secret
        /\ inst.spec.size = op.inst.spec.size
    BY <1>1, <2>3, <2>4 DEF SecretOK
  <2>6. old = SecretOf(0) /\ op.inst.spec.secret # NoSecret
    BY <1>3 DEF GetOldRedisClusterPassword, SecretOf, IsPasswordChanged
  <2>7. Exists(0) /\ 0 \in Index
    <3>1. op.inst.spec.size \in 1 .. MaxSize
      BY <1>1 DEF StoredCluster, StoredSpec
    <3>. QED
      BY <1>3, <3>1, IndexFacts DEF CheckRedisNodeNum
  <2>. HIDE DEF c, old, inst
  <2>8. /\ op'.pc = "exec" /\ op'.podSet = Up /\ op'.old = old /\ op'.inst = inst
        /\ op'.pool = Connections(Up, old)
    BY <1>1, <2>1 DEF Pass
  <2>. QED
    BY <1>1, <2>2, <2>5, <2>6, <2>7, <2>8
<1>. QED
  BY <1>2, <1>3 DEF resetClusterPassword

(***************************************************************************)
(* What a step does to a reset, as long as none is disturbed.              *)
(***************************************************************************)
Calm == SameSts /\ SameAuth /\ ~Resetting /\ ~Resetting'

Unmoved == SameSts /\ SameAuth /\ SameReset

Replaces ==
  /\ ~Resetting /\ ~Resetting'
  /\ ensureRedisStatefulset \/ UpdateRedisStatefulsets \/ Stops \/ Starts

OpenStep ==
  \/ Calm \/ Unmoved
  \/ resetClusterPassword /\ Resetting'
  \/ Resetting /\ (ExecCommandInPodSet \/ ResetPassword \/ ensureRedisStatefulset)
  \/ Replaces

LEMMA SameKube ==
  /\ UNCHANGED sts => SameSts
  /\ UNCHANGED pods => SameAuth
BY DEF SameSts, SameAuth, Exists

LEMMA OpenOfReconcile ==
  ASSUME KInv, SecretOK, PoolOK, Reconcile
  PROVE  OpenStep
<1>1. op.pc # "idle" => op \in Pass
  BY InPass DEF KInv, TInv
<1>2. op' = Idle => ~Resetting'
  BY DEF Resetting, Idle
<1>3. ~Resetting /\ ~Resetting' /\ UNCHANGED <<sts, pods>> => Calm
  BY SameKube DEF Calm
<1>4. CASE Start
  BY <1>3, <1>4 DEF Start, Resetting, Kube, OpenStep
<1>5. CASE initRestore \/ validateAndSetDefault
  <2>1. /\ op \in Pass /\ op.pc \in {"init", "default"} /\ UNCHANGED <<sts, pods>>
    BY <1>1, <1>5 DEF initRestore, validateAndSetDefault, Kube
  <2>2. op' = Idle \/ op'.pc \in {"default", "password"}
    <3>1. initRestore => op' = Idle \/ op'.pc = "default"
      BY <2>1 DEF initRestore, StopRetry, Leave, Pass
    <3>2. validateAndSetDefault => op' = Idle \/ op'.pc = "password"
      BY <2>1 DEF validateAndSetDefault, StopRetry, Leave, Goto, Pass
    <3>. QED
      BY <1>5, <3>1, <3>2
  <2>. QED
    BY <1>2, <1>3, <2>1, <2>2 DEF Resetting, OpenStep
<1>6. CASE resetClusterPassword
  <2>1. op.pc = "password" /\ UNCHANGED <<sts, pods>>
    BY <1>6, PasswordFacts
  <2>. QED
    BY <1>3, <1>6, <2>1 DEF Resetting, OpenStep
<1>7. CASE ExecCommandInPodSet
  <2>1. CASE Resetting
    BY <1>7, <2>1 DEF OpenStep
  <2>2. CASE ~Resetting
    <3>1. op.podSet = {} /\ UNCHANGED sts
      BY <1>7, <2>2, ExecFacts DEF KInv, Resetting
    <3>2. /\ op'.pc = "reset" /\ op'.podSet = op.podSet
          /\ \A i \in Index : \A k \in Ordinal :
               /\ pods'[i][k] = NoPod <=> pods[i][k] = NoPod
               /\ pods[i][k] # NoPod =>
                    /\ pods'[i][k].auth = pods[i][k].auth
                    /\ pods'[i][k].file = IF <<i, k>> \in op.podSet
                                          THEN op.inst.spec.secret ELSE pods[i][k].file
      BY <1>7, <3>1, ExecFacts DEF KInv
    <3>3. SameAuth
      BY <3>1, <3>2 DEF SameAuth
    <3>4. ~Resetting'
      BY <3>1, <3>2 DEF Resetting
    <3>. QED
      BY <2>2, <3>1, <3>3, <3>4, SameKube DEF Calm, OpenStep
  <2>. QED
    BY <2>1, <2>2
<1>8. CASE ResetPassword
  <2>1. CASE Resetting
    BY <1>8, <2>1 DEF OpenStep
  <2>2. CASE ~Resetting
    <3>1. op.podSet = {} /\ op.pool = {} /\ UNCHANGED sts
      BY <1>8, <2>2, ResetFacts DEF KInv, Resetting, PoolOK
    <3>2. op' = Idle /\ UNCHANGED pods
      BY <1>8, <3>1, ResetFacts DEF KInv
    <3>. QED
      BY <1>2, <1>3, <2>2, <3>1, <3>2 DEF OpenStep
  <2>. QED
    BY <2>1, <2>2
<1>9. CASE ensureRedisStatefulset
  <2>1. CASE Resetting
    BY <1>9, <2>1 DEF OpenStep
  <2>2. CASE ~Resetting
    <3>1. op \in Pass /\ op.pc = "sts"
      BY <1>1, <1>9 DEF ensureRedisStatefulset
    <3>2. op'.podSet = op.podSet
      BY <1>9, <3>1 DEF ensureRedisStatefulset, Goto, Pass
    <3>3. ~Resetting'
      BY <2>2, <3>1, <3>2 DEF Resetting
    <3>. QED
      BY <1>9, <2>2, <3>3 DEF Replaces, OpenStep
  <2>. QED
    BY <2>1, <2>2
<1>10. CASE UpdateRedisStatefulsets
  <2>1. op \in Pass /\ op.pc = "removeInit"
    BY <1>1, <1>10 DEF UpdateRedisStatefulsets
  <2>2. op' = Idle \/ op'.pc = "removeInit"
    BY <1>10, <2>1 DEF UpdateRedisStatefulsets, Leave, Pass
  <2>. QED
    BY <1>2, <1>10, <2>1, <2>2 DEF Resetting, Replaces, OpenStep
<1>11. CASE waitStatefulSetUpdating \/ waitPodReady
  <2>1. op \in Pass /\ op.pc \in {"wait", "services"} /\ UNCHANGED <<sts, pods>>
    BY <1>1, <1>11 DEF waitStatefulSetUpdating, waitPodReady, Kube
  <2>2. op' = Idle \/ op'.pc \in {"services", "restore"}
    BY <1>11, <2>1 DEF waitStatefulSetUpdating, waitPodReady, Requeue, Leave, Goto, Pass
  <2>. QED
    BY <1>2, <1>3, <2>1, <2>2 DEF Resetting, OpenStep
<1>12. CASE MarkRestart \/ MarkSucceeded \/ RaiseReplicas \/ Finish
  <2>1. /\ op \in Pass /\ op.pc \in {"restore", "raise", "finish"}
        /\ UNCHANGED <<sts, pods>>
    BY <1>1, <1>12 DEF MarkRestart, MarkSucceeded, RaiseReplicas, Finish, Kube
  <2>2. op' = Idle \/ op'.pc \in {"removeInit", "raise"}
    BY <1>12, <2>1 DEF MarkRestart, MarkSucceeded, RaiseReplicas, Finish, Leave, Goto, Pass
  <2>. QED
    BY <1>2, <1>3, <2>1, <2>2 DEF Resetting, OpenStep
<1>13. CASE SetConfigIfNeed
  <2>1. op \in Pass /\ op.pc = "restore" /\ UNCHANGED sts /\ SameAuth
    BY <1>13, SetConfigFacts DEF KInv, SameAuth
  <2>2. op'.pc = "finish"
    BY <1>13, <2>1 DEF SetConfigIfNeed, Goto, Pass
  <2>. QED
    BY <2>1, <2>2, SameKube DEF Resetting, Calm, OpenStep
<1>. QED
  BY <1>4, <1>5, <1>6, <1>7, <1>8, <1>9, <1>10, <1>11, <1>12, <1>13 DEF Reconcile

LEMMA OpenSteps ==
  ASSUME KInv, SecretOK, PoolOK, [Next]_vars, Secure'
  PROVE  OpenStep
<1>1. op.pc # "idle" => op \in Pass
  BY InPass DEF KInv, TInv
<1>2. op' = Idle => ~Resetting'
  BY DEF Resetting, Idle
<1>3. UNCHANGED <<sts, pods>> => SameSts /\ SameAuth
  BY SameKube
<1>4. op' = op => SameReset
  BY DEF SameReset
<1>5. Interrupted => ~Resetting
  BY DEF Interrupted, Interruption, Resetting, Secure
<1>6. CASE CallFails
  <2>1. UNCHANGED <<sts, pods>> /\ op.pc # "idle" /\ op \in Pass
    BY <1>1, <1>6 DEF CallFails, Kube
  <2>2. CASE Interrupted /\ (Requeue \/ Leave(TRUE))
    BY <1>2, <1>3, <1>5, <2>1, <2>2 DEF Requeue, Leave, Calm, OpenStep
  <2>3. CASE op.pc \in {"init", "default", "services"} /\ StopRetry
    BY <1>2, <1>3, <2>1, <2>3 DEF StopRetry, Leave, Resetting, Calm, OpenStep
  <2>4. CASE op.pc = "password" /\ Goto("sts", op.inst)
    <3>1. op.podSet = {} /\ op'.podSet = op.podSet
      BY <2>1, <2>4 DEF PoolOK, Goto, Pass
    <3>. QED
      BY <1>3, <2>1, <3>1 DEF Resetting, Calm, OpenStep
  <2>5. CASE op.pc = "finish" /\ Leave(TRUE)
    BY <1>2, <1>3, <2>1, <2>5 DEF Leave, Resetting, Calm, OpenStep
  <2>. QED
    BY <1>6, <2>2, <2>3, <2>4, <2>5 DEF CallFails
<1>7. CASE Crash
  BY <1>2, <1>3, <1>5, <1>7 DEF Crash, Kube, Calm, OpenStep
<1>8. CASE UpdateFunc \/ BackupSucceeds \/ ClientWrites \/ UNCHANGED vars
  BY <1>3, <1>4, <1>8 DEF UpdateFunc, BackupSucceeds, ClientWrites, vars, Kube, Unmoved, OpenStep
<1>9. CASE UserEdits
  <2>1. op' = op \/ (op \in Pass /\ op' = [op EXCEPT !.fresh = FALSE])
    BY <1>1, <1>9 DEF UserEdits
  <2>2. SameReset
    BY <1>4, <2>1 DEF SameReset, Pass
  <2>. QED
    BY <1>3, <1>9, <2>2 DEF UserEdits, Kube, Unmoved, OpenStep
<1>10. ASSUME NEW i \in Index, StatefulSetController(i) \/ \E k \in Ordinal : Evict(i, k)
       PROVE  OpenStep
  <2>1. Stops \/ Starts
    BY <1>10, ControllerSteps
  <2>2. op' = op /\ (Resetting => "reset" \in torn')
    BY <2>1 DEF Stops, Starts, Stop, StartPod
  <2>3. ~Resetting /\ ~Resetting'
    BY <2>2 DEF Secure, Resetting
  <2>. QED
    BY <2>1, <2>3 DEF Replaces, OpenStep
<1>. QED
  BY <1>6, <1>7, <1>8, <1>9, <1>10, OpenOfReconcile DEF Next

(***************************************************************************)
(* Every kind of step keeps the passwords together.                        *)
(***************************************************************************)
LEMMA RestStays ==
  ASSUME RestOK, PodsOK, SameSts, SameAuth
  PROVE  RestOK'
<1>1. ASSUME NEW i \in Index, NEW k \in Ordinal, pods'[i][k] # NoPod
      PROVE  /\ pods'[i][k].file = sts'[i].template.server.secret
             /\ pods'[i][k].auth = sts'[i].template.server.secret
  <2>1. /\ pods[i][k] # NoPod /\ pods'[i][k].auth = pods[i][k].auth
        /\ pods'[i][k].file = pods[i][k].file
    BY <1>1 DEF SameAuth
  <2>2. Exists(i)
    BY <1>1, <2>1 DEF PodsOK, IsUp
  <2>3. sts'[i].template = sts[i].template
    BY <1>1, <2>2 DEF SameSts
  <2>. QED
    BY <1>1, <2>1, <2>3 DEF RestOK, Has, IsUp, SecretOf
<1>2. ASSUME NEW i \in Index, NEW j \in Index, Exists(i)', Exists(j)'
      PROVE  sts'[i].template.server.secret = sts'[j].template.server.secret
  <2>1. Exists(i) /\ Exists(j) /\ sts'[i].template = sts[i].template
        /\ sts'[j].template = sts[j].template
    BY <1>2 DEF SameSts
  <2>. QED
    BY <1>2, <2>1 DEF RestOK, SecretOf
<1>. QED
  BY <1>1, <1>2 DEF RestOK, Has, IsUp, SecretOf

LEMMA UpStays ==
  ASSUME SameAuth
  PROVE  Up' = Up
BY DEF SameAuth, Up, IsUp, Pod

LEMMA ResetStays ==
  ASSUME ResetOK, SameSts, SameAuth, SameReset
  PROVE  ResetOK'
<1>1. Up' = Up
  BY UpStays
<1>2. \A i \in Index : \A k \in Ordinal :
        pods'[i][k] # NoPod => /\ pods[i][k] # NoPod
                               /\ pods'[i][k].auth = pods[i][k].auth
                               /\ pods'[i][k].file = pods[i][k].file
  BY DEF SameAuth
<1>3. \A i \in Index : Exists(i)' => Exists(i) /\ sts'[i].template = sts[i].template
  BY DEF SameSts
<1>4. /\ op'.pc = op.pc /\ op'.inst = op.inst /\ op'.podSet = op.podSet
      /\ op'.pool = op.pool /\ op'.old = op.old /\ op'.i = op.i
  BY DEF SameReset
<1>5. op.pc = "exec" => BeforeExec'
  BY <1>1, <1>2, <1>3, <1>4 DEF ResetOK, BeforeExec, AllHave, Has, IsUp, SecretOf
<1>6. op.pc = "reset" => BeforeReset'
  BY <1>2, <1>3, <1>4 DEF ResetOK, BeforeReset, Has, IsUp, SecretOf
<1>7. op.pc = "sts" => BeforeSts'
  BY <1>2, <1>3, <1>4 DEF ResetOK, BeforeSts, AllHave, Has, IsUp, SecretOf
<1>. QED
  BY <1>1, <1>3, <1>4, <1>5, <1>6, <1>7 DEF ResetOK

LEMMA ResetBegins ==
  ASSUME KInv, SecretOK, PoolOK, PodsOK, RestOK, resetClusterPassword, Resetting', Secure'
  PROVE  ResetOK'
<1>1. /\ UNCHANGED <<sts, pods>> /\ op'.pc = "exec" /\ op'.podSet = Up
      /\ op'.old = SecretOf(0) /\ op'.pool = Connections(Up, SecretOf(0))
      /\ Exists(0) /\ 0 \in Index
      /\ op'.inst.spec.secret = op.inst.spec.secret
      /\ op'.inst.spec.size = op.inst.spec.size
      /\ op.inst.spec.secret # NoSecret
      /\ (\E i \in Index : Exists(i) /\ i >= op.inst.spec.size) => "skipped" \in torn'
  BY PasswordFacts DEF Resetting
<1>2. \A i \in Index : Exists(i) => SecretOf(i) = SecretOf(0)
  BY <1>1 DEF RestOK
<1>3. AllHave(SecretOf(0), SecretOf(0))
  BY <1>2 DEF AllHave, RestOK, PodsOK, Has
<1>4. Connections(Up, SecretOf(0)) = Up
  <2>. SUFFICES ASSUME NEW i \in Index, NEW k \in Ordinal, IsUp(<<i, k>>)
                PROVE  At(<<i, k>>).auth = SecretOf(0)
    BY DEF Connections, Up, Pod
  <2>. QED
    BY <1>3 DEF AllHave, Has, At
<1>5. Up' = Up
  BY <1>1 DEF Up, IsUp
<1>6. BeforeExec'
  BY <1>1, <1>2, <1>3, <1>4, <1>5 DEF BeforeExec, AllHave, Has, IsUp, SecretOf, Exists
<1>7. \A i \in Index : Exists(i) => i < op.inst.spec.size
  <2>1. op.inst.spec.size \in Nat
    BY PasswordFacts, MaxSizeAssumption DEF Pass, StoredCluster, StoredSpec
  <2>2. \A i \in Index : Exists(i) => ~(i >= op.inst.spec.size)
    BY <1>1 DEF Secure
  <2>. QED
    BY <2>1, <2>2, IndexFacts
<1>. QED
  BY <1>1, <1>5, <1>6, <1>7 DEF ResetOK, Exists

LEMMA ResetExecs ==
  ASSUME KInv, Resetting, ResetOK, ExecCommandInPodSet
  PROVE  Resetting' /\ ResetOK'
<1>1. op \in Pass /\ op.pc = "exec" /\ UNCHANGED sts /\ op.podSet = Up /\ Up # {}
      /\ op.inst.spec.secret # NoSecret
      /\ (\A i \in Index : Exists(i) => i < op.inst.spec.size)
  BY ExecFacts DEF KInv, ResetOK, Resetting
<1>2. /\ op'.pc = "reset" /\ op'.inst = op.inst /\ op'.podSet = op.podSet
      /\ op'.pool = op.pool /\ op'.old = op.old
      /\ \A i \in Index : \A k \in Ordinal :
           /\ pods'[i][k] = NoPod <=> pods[i][k] = NoPod
           /\ pods[i][k] # NoPod =>
                /\ pods'[i][k].auth = pods[i][k].auth
                /\ pods'[i][k].file = IF <<i, k>> \in op.podSet
                                      THEN op.inst.spec.secret ELSE pods[i][k].file
  BY <1>1, ExecFacts DEF KInv
<1>3. Up' = Up
  BY <1>2 DEF Up, IsUp, Pod
<1>4. op.pool = Up /\ AllHave(op.old, op.old)
      /\ (\A i \in Index : Exists(i) => SecretOf(i) = op.old)
  BY <1>1 DEF ResetOK, BeforeExec
<1>5. ASSUME NEW i \in Index, NEW k \in Ordinal, pods'[i][k] # NoPod
      PROVE  /\ pods'[i][k].file = op.inst.spec.secret
             /\ pods'[i][k].auth = op.old /\ <<i, k>> \in op.pool
  <2>1. IsUp(<<i, k>>) /\ pods[i][k] # NoPod
    BY <1>2, <1>5 DEF IsUp
  <2>2. <<i, k>> \in Up
    BY <1>5, <2>1 DEF Up, Pod
  <2>3. pods[i][k].auth = op.old
    BY <1>4, <1>5, <2>1 DEF AllHave, Has
  <2>. QED
    BY <1>1, <1>2, <1>4, <1>5, <2>1, <2>2, <2>3
<1>6. BeforeReset'
  BY <1>1, <1>2, <1>4, <1>5 DEF BeforeReset, Has, IsUp, SecretOf, Exists
<1>. QED
  BY <1>1, <1>2, <1>3, <1>6 DEF ResetOK, Resetting, Exists

LEMMA ResetResets ==
  ASSUME KInv, PoolOK, Resetting, ResetOK, ResetPassword
  PROVE  Resetting' /\ ResetOK'
<1>1. op \in Pass /\ op.pc = "reset" /\ UNCHANGED sts /\ op.podSet = Up /\ Up # {}
      /\ op.inst.spec.secret # NoSecret /\ op.i = 0
      /\ (\A i \in Index : Exists(i) => i < op.inst.spec.size)
  BY ResetFacts DEF KInv, TInv, OpTyped, ResetOK, Resetting
<1>2. BeforeReset
  BY <1>1 DEF ResetOK
<1>3. op.pool # {} /\ \A p \in op.pool : Accepts(p)
  <2>1. op.pool \subseteq Up
    BY <1>1 DEF PoolOK
  <2>. SUFFICES ASSUME NEW i \in Index, NEW k \in Ordinal, <<i, k>> \in op.pool
                PROVE  Accepts(<<i, k>>)
    BY <1>2, <2>1 DEF BeforeReset, Up, Pod
  <2>2. IsUp(<<i, k>>)
    BY <2>1 DEF Up
  <2>3. pods[i][k].auth = op.old
    BY <1>2, <2>2 DEF BeforeReset, Has
  <2>. QED
    BY <2>2, <2>3 DEF Accepts, At
<1>4. PICK j \in Index, n \in Ordinal :
        /\ <<j, n>> \in op.pool
        /\ op'.pool = op.pool \ {<<j, n>>}
        /\ op'.pc = IF op.pool = {<<j, n>>} THEN "sts" ELSE "reset"
        /\ op'.inst = op.inst /\ op'.podSet = op.podSet /\ op'.i = op.i
        /\ op'.old = op.old
        /\ \A i \in Index : \A k \in Ordinal :
             /\ pods'[i][k] = NoPod <=> pods[i][k] = NoPod
             /\ pods[i][k] # NoPod =>
                  /\ pods'[i][k].file = pods[i][k].file
                  /\ pods'[i][k].auth = IF i = j /\ k = n THEN op.inst.spec.secret
                                                         ELSE pods[i][k].auth
  BY <1>3, ResetFacts DEF KInv
<1>5. Up' = Up
  BY <1>4 DEF Up, IsUp, Pod
<1>6. ASSUME NEW i \in Index, NEW k \in Ordinal, pods'[i][k] # NoPod
      PROVE  /\ pods'[i][k].file = op.inst.spec.secret
             /\ pods'[i][k].auth = IF <<i, k>> \in op'.pool THEN op.old
                                                           ELSE op.inst.spec.secret
  <2>1. IsUp(<<i, k>>) /\ pods[i][k] # NoPod
    BY <1>4, <1>6 DEF IsUp
  <2>2. /\ pods[i][k].file = op.inst.spec.secret
        /\ pods[i][k].auth = IF <<i, k>> \in op.pool THEN op.old ELSE op.inst.spec.secret
    BY <1>2, <1>6, <2>1 DEF BeforeReset, Has
  <2>3. <<i, k>> \in op'.pool <=> <<i, k>> \in op.pool /\ ~(i = j /\ k = n)
    BY <1>4
  <2>. QED
    BY <1>4, <1>6, <2>1, <2>2, <2>3
<1>7. op'.pc = "reset" => BeforeReset'
  <2>1. op'.pc = "reset" => op'.pool # {}
    BY <1>4
  <2>. QED
    BY <1>1, <1>2, <1>4, <1>6, <2>1 DEF BeforeReset, Has, IsUp, SecretOf, Exists
<1>8. op'.pc = "sts" => BeforeSts'
  <2>1. op'.pc = "sts" => op'.pool = {}
    BY <1>4
  <2>2. \A i \in Index : ~(i < 0)
    BY IndexFacts
  <2>3. ASSUME op'.pool = {}
        PROVE  AllHave(op.inst.spec.secret, op.inst.spec.secret)'
    <3>1. op'.inst = op.inst
      BY <1>4
    <3>2. ASSUME NEW i \in Index, NEW k \in Ordinal, pods'[i][k] # NoPod
          PROVE  /\ pods'[i][k].file = op.inst.spec.secret
                 /\ pods'[i][k].auth = op.inst.spec.secret
      <4>1. <<i, k>> \notin op'.pool
        BY <2>3
      <4>. QED
        BY <1>6, <3>2, <4>1
    <3>. QED
      BY <3>1, <3>2 DEF AllHave, Has, IsUp
  <2>4. \A i \in Index : ~(i < op'.i)
    BY <1>1, <1>4, <2>2
  <2>. QED
    BY <1>4, <2>1, <2>3, <2>4 DEF BeforeSts, AllHave
<1>9. op'.pc \in {"reset", "sts"}
  BY <1>4
<1>. QED
  BY <1>1, <1>4, <1>5, <1>7, <1>8, <1>9 DEF ResetOK, Resetting, Exists

LEMMA EnsuredSts ==
  ASSUME TInv, ensureRedisStatefulset
  PROVE  /\ op \in Pass /\ op.pc = "sts" /\ UNCHANGED pods /\ op'.podSet = op.podSet
         /\ \E i \in Index :
              /\ i = op.i /\ i < op.inst.spec.size
              /\ \A j \in Index \ {i} : sts'[j] = sts[j]
              /\ Exists(i)'
              /\ \/ sts'[i].template = Template(op.inst) /\ (Skips => "skipped" \in torn')
                 \/ sts'[i] = sts[i] /\ ~IsPasswordChanged(op.inst, sts[i])
              /\ \/ i + 1 = op.inst.spec.size /\ op'.pc \in {"wait", "services"}
                 \/ /\ i + 1 # op.inst.spec.size
                    /\ op'.pc = "sts" /\ op'.i = i + 1 /\ op'.inst = op.inst
<1>1. op \in Pass /\ op.pc = "sts" /\ UNCHANGED pods /\ op.i < op.inst.spec.size
  BY InPass DEF TInv, OpTyped, ensureRedisStatefulset
<1>2. PICK i \in Index : i = op.i
  BY <1>1 DEF Pass
<1>. DEFINE change == Exists(i) /\ shouldUpdateRedis(op.inst, sts[i])
            last == i + 1 = op.inst.spec.size
            updated == op.updated \/ change
            c == [op.inst EXCEPT !.status.state = "Updating"]
            inst == IF op.fresh THEN StatusOf(c) ELSE c
<1>3. \/ /\ change \/ ~Exists(i)
         /\ Write(i, NewStatefulSetForCR(op.inst))
         /\ Skips => "skipped" \in torn'
      \/ ~(change \/ ~Exists(i)) /\ UNCHANGED sts
  BY <1>2 DEF ensureRedisStatefulset
<1>4. /\ \A j \in Index \ {i} : sts'[j] = sts[j]
      /\ Exists(i)'
      /\ \/ sts'[i].template = Template(op.inst) /\ (Skips => "skipped" \in torn')
         \/ sts'[i] = sts[i] /\ ~IsPasswordChanged(op.inst, sts[i])
  <2>1. CASE Write(i, NewStatefulSetForCR(op.inst)) /\ (Skips => "skipped" \in torn')
    BY <2>1, WrittenSts
  <2>2. CASE ~(change \/ ~Exists(i)) /\ UNCHANGED sts
    BY <2>2 DEF shouldUpdateRedis, Exists
  <2>. QED
    BY <1>3, <2>1, <2>2
<1>5. CASE last /\ updated
  <2>1. Goto("wait", inst)
    BY <1>2, <1>5 DEF ensureRedisStatefulset
  <2>2. op'.pc = "wait" /\ op'.podSet = op.podSet
    BY <1>1, <2>1 DEF Goto, Pass
  <2>. QED
    BY <1>1, <1>2, <1>4, <1>5, <2>2
<1>6. CASE ~(last /\ updated)
  <2>1. op' = [op EXCEPT !.i = IF last THEN 0 ELSE i + 1, !.updated = updated,
                         !.pc = IF last THEN "services" ELSE "sts"]
    BY <1>2, <1>6 DEF ensureRedisStatefulset
  <2>. HIDE DEF last, updated
  <2>2. /\ op'.pc = (IF last THEN "services" ELSE "sts") /\ op'.podSet = op.podSet
        /\ op'.i = (IF last THEN 0 ELSE i + 1) /\ op'.inst = op.inst
    BY <1>1, <2>1 DEF Pass
  <2>3. \/ i + 1 = op.inst.spec.size /\ op'.pc \in {"wait", "services"}
        \/ /\ i + 1 # op.inst.spec.size
           /\ op'.pc = "sts" /\ op'.i = i + 1 /\ op'.inst = op.inst
    BY <2>2 DEF last
  <2>. QED
    BY <1>1, <1>2, <1>4, <2>2, <2>3
<1>. QED
  BY <1>5, <1>6

\* All StatefulSets have the password that all pods have.
LEMMA RestOf ==
  ASSUME PodsOK', NEW secret,
         \A i \in Index : Exists(i)' => sts'[i].template.server.secret = secret,
         \A i \in Index : \A k \in Ordinal :
           pods'[i][k] # NoPod => pods'[i][k].file = secret /\ pods'[i][k].auth = secret
  PROVE  RestOK'
<1>1. \A i \in Index : \A k \in Ordinal : pods'[i][k] # NoPod => Exists(i)'
  BY DEF IsUp, PodsOK
<1>. QED
  BY <1>1 DEF RestOK, Has, IsUp, SecretOf

LEMMA ResetWrites ==
  ASSUME KInv, PodsOK', Resetting, ResetOK, ensureRedisStatefulset
  PROVE  IF Resetting' THEN ResetOK' ELSE RestOK'
<1>. DEFINE new == op.inst.spec.secret
            size == op.inst.spec.size
<1>1. /\ op \in Pass /\ op.pc = "sts" /\ UNCHANGED pods /\ op'.podSet = op.podSet
      /\ op.podSet # {} /\ size \in Nat
  BY EnsuredSts DEF KInv, Resetting, Pass, StoredCluster, StoredSpec
<1>2. /\ new # NoSecret /\ op.podSet = Up /\ AllHave(new, new)
      /\ \A i \in Index : Exists(i) => i < size
      /\ \A i \in Index : Exists(i) /\ i < op.i => SecretOf(i) = new
  BY <1>1 DEF ResetOK, BeforeSts
<1>3. PICK i \in Index :
        /\ i = op.i /\ i < size
        /\ \A j \in Index \ {i} : sts'[j] = sts[j]
        /\ Exists(i)'
        /\ \/ sts'[i].template = Template(op.inst)
           \/ sts'[i] = sts[i] /\ ~IsPasswordChanged(op.inst, sts[i])
        /\ \/ i + 1 = size /\ op'.pc \in {"wait", "services"}
           \/ /\ i + 1 # size
              /\ op'.pc = "sts" /\ op'.i = i + 1 /\ op'.inst = op.inst
  BY EnsuredSts DEF KInv
<1>4. sts'[i].template.server.secret = new
  BY <1>2, <1>3, SecretOfTemplate DEF IsPasswordChanged
<1>5. ASSUME NEW j \in Index, Exists(j)'
      PROVE  /\ j < size
             /\ j < i + 1 => sts'[j].template.server.secret = new
  <2>1. CASE j = i
    BY <1>3, <1>4, <2>1
  <2>2. CASE j # i
    <3>1. sts'[j] = sts[j] /\ Exists(j)
      BY <1>3, <1>5, <2>2 DEF Exists
    <3>2. j < i + 1 => j < op.i
      BY <1>3, <2>2, IndexFacts
    <3>. QED
      BY <1>2, <1>5, <3>1, <3>2 DEF SecretOf
  <2>. QED
    BY <2>1, <2>2
<1>6. \A j \in Index : \A k \in Ordinal :
        pods'[j][k] # NoPod => pods'[j][k].file = new /\ pods'[j][k].auth = new
  BY <1>1, <1>2 DEF AllHave, Has, IsUp
<1>7. CASE i + 1 = size /\ op'.pc \in {"wait", "services"}
  <2>1. \A j \in Index : Exists(j)' => sts'[j].template.server.secret = new
    BY <1>5, <1>7
  <2>2. ~Resetting'
    BY <1>7 DEF Resetting
  <2>. HIDE DEF new
  <2>. QED
    BY <1>6, <2>1, <2>2, RestOf
<1>8. CASE op'.pc = "sts" /\ op'.i = i + 1 /\ op'.inst = op.inst
  <2>1. Resetting' /\ Up' = Up
    BY <1>1, <1>8 DEF Resetting, Up, IsUp
  <2>2. AllHave(op.inst.spec.secret, op.inst.spec.secret)'
    BY <1>6, <1>8 DEF AllHave, Has, IsUp
  <2>3. BeforeSts'
    BY <1>5, <1>8, <2>2 DEF BeforeSts, SecretOf
  <2>4. \A j \in Index : Exists(j)' => j < op'.inst.spec.size
    BY <1>5, <1>8
  <2>. QED
    BY <1>1, <1>2, <1>8, <2>1, <2>3, <2>4 DEF ResetOK
<1>. QED
  BY <1>3, <1>7, <1>8

LEMMA WritesRest ==
  ASSUME KInv, PodsOK, PodsOK', RestOK, ~Resetting, Secure', ensureRedisStatefulset
  PROVE  RestOK'
<1>. DEFINE new == op.inst.spec.secret
<1>1. op \in Pass /\ op.pc = "sts" /\ UNCHANGED pods /\ op.podSet = {}
  BY EnsuredSts DEF KInv, Resetting
<1>2. PICK i \in Index :
        /\ \A j \in Index \ {i} : sts'[j] = sts[j]
        /\ Exists(i)'
        /\ \/ sts'[i].template = Template(op.inst) /\ ~Skips
           \/ sts'[i] = sts[i]
  BY EnsuredSts DEF KInv, Secure
<1>3. CASE sts'[i] = sts[i]
  <2>1. \A j \in Index : sts'[j] = sts[j]
    BY <1>2, <1>3
  <2>2. SameSts
    BY <2>1 DEF SameSts, Exists
  <2>. QED
    BY <1>1, <2>2, RestStays, SameKube
<1>4. CASE sts'[i].template = Template(op.inst) /\ ~Skips
  <2>1. \A j \in Index : Exists(j) => SecretOf(j) = new
    BY <1>1, <1>4 DEF Skips, redisPassword, SecretOf
  <2>2. sts'[i].template.server.secret = new
    BY <1>4, SecretOfTemplate
  <2>3. \A j \in Index : Exists(j)' => sts'[j].template.server.secret = new
    BY <1>2, <2>1, <2>2 DEF Exists, SecretOf
  <2>4. \A j \in Index : \A k \in Ordinal :
          pods'[j][k] # NoPod => pods'[j][k].file = new /\ pods'[j][k].auth = new
    BY <1>1, <2>1 DEF RestOK, PodsOK, Has, IsUp
  <2>. HIDE DEF new
  <2>. QED
    BY <2>3, <2>4, RestOf
<1>. QED
  BY <1>2, <1>3, <1>4

LEMMA RemovesRest ==
  ASSUME KInv, SecretOK, PodsOK, PodsOK', RestOK, UpdateRedisStatefulsets
  PROVE  RestOK'
<1>. DEFINE new == op.inst.spec.secret
<1>1. /\ op \in Pass /\ op.pc = "removeInit" /\ UNCHANGED pods
      /\ Write(op.i, NewStatefulSetForCR(op.inst))
  BY InPass DEF KInv, TInv, UpdateRedisStatefulsets
<1>2. \A j \in Index : Exists(j) => SecretOf(j) = new
  BY <1>1 DEF KInv, CopyOK, SecretOK
<1>3. PICK i \in Index : i = op.i
  BY <1>1 DEF Pass
<1>4. sts'[i].template = Template(op.inst) /\ \A j \in Index \ {i} : sts'[j] = sts[j]
  BY <1>1, <1>3, WrittenSts DEF KInv
<1>5. sts'[i].template.server.secret = new
  BY <1>4, SecretOfTemplate
<1>6. \A j \in Index : Exists(j)' => sts'[j].template.server.secret = new
  BY <1>2, <1>4, <1>5 DEF Exists, SecretOf
<1>7. \A j \in Index : \A k \in Ordinal :
        pods'[j][k] # NoPod => pods'[j][k].file = new /\ pods'[j][k].auth = new
  BY <1>1, <1>2 DEF RestOK, PodsOK, Has, IsUp
<1>. HIDE DEF new
<1>. QED
  BY <1>6, <1>7, RestOf

LEMMA PodsRest ==
  ASSUME TInv, PodsOK, RestOK, Stops \/ Starts
  PROVE  RestOK'
<1>1. CASE Stops
  <2>1. PICK i \in Index, k \in Ordinal : IsUp(<<i, k>>) /\ Stop(i, k)
    BY <1>1 DEF Stops
  <2>2. /\ \A j \in Index : \A n \in Ordinal :
             pods'[j][n] = IF j = i /\ n = k THEN NoPod ELSE pods[j][n]
        /\ sts' = sts
    BY <2>1, StopFacts
  <2>. QED
    BY <2>2 DEF RestOK, Has, IsUp, SecretOf, Exists
<1>2. CASE Starts
  <2>1. PICK i \in Index, k \in Ordinal :
          /\ Exists(i)
          /\ \A j \in Index : \A n \in Ordinal :
               pods'[j][n] = IF j = i /\ n = k THEN Started(i) ELSE pods[j][n]
          /\ \A j \in Index : /\ Exists(j)' <=> Exists(j)
                              /\ Exists(j) => sts'[j].template = sts[j].template
    BY <1>2, StartsOf
  <2>2. Started(i).file = SecretOf(i) /\ Started(i).auth = SecretOf(i)
    BY DEF Started, getRedisCommand, SecretOf
  <2>3. ASSUME NEW j \in Index, NEW n \in Ordinal, pods'[j][n] # NoPod
        PROVE  /\ pods'[j][n].file = sts'[j].template.server.secret
               /\ pods'[j][n].auth = sts'[j].template.server.secret
    <3>1. CASE j = i /\ n = k
      BY <2>1, <2>2, <3>1 DEF SecretOf
    <3>2. CASE ~(j = i /\ n = k)
      <4>1. pods'[j][n] = pods[j][n] /\ IsUp(<<j, n>>)
        BY <2>1, <2>3, <3>2 DEF IsUp
      <4>2. Exists(j)
        BY <2>3, <4>1 DEF PodsOK
      <4>. QED
        BY <2>1, <2>3, <4>1, <4>2 DEF RestOK, Has, SecretOf
    <3>. QED
      BY <3>1, <3>2
  <2>. QED
    BY <2>1, <2>3 DEF RestOK, Has, IsUp, SecretOf
<1>. QED
  BY <1>1, <1>2

(***************************************************************************)
(* All of it, from the beginning on.                                       *)
(***************************************************************************)
OInv == SecretOK /\ PoolOK /\ PodsOK /\ OpenOK

LEMMA InitOInv ==
  ASSUME Init
  PROVE  OInv
<1>1. cr.spec.restore => cr.status.state # "OK"
  BY DEF Init
<1>2. cache.obj = cr /\ op.pc = "idle"
  BY DEF Init, Idle
<1>. DEFINE run(i, k) == cr.status.state = "OK" /\ i < cr.spec.size /\ k <= cr.spec.replicas
<1>3. /\ sts = [i \in Index |-> IF run(i, 0) THEN SteadySts(cr) ELSE NoSts]
      /\ pods = [i \in Index |-> [k \in Ordinal |->
                   IF run(i, k) THEN SteadyPod(cr) ELSE NoPod]]
  BY DEF Init
<1>4. cr.spec.replicas \in Nat /\ \A k \in Ordinal : k \in Nat
  <2>1. cr.spec.replicas \in Ordinal
    BY InitTInv DEF TInv, ClusterTyped, StoredCluster, StoredSpec
  <2>. QED
    BY <2>1, MaxReplicasAssumption DEF Ordinal
<1>5. ASSUME NEW i \in Index, NEW k \in Ordinal, IsUp(<<i, k>>)
      PROVE  /\ run(i, 0) /\ pods[i][k] = SteadyPod(cr)
  <2>1. pods[i][k] = IF run(i, k) THEN SteadyPod(cr) ELSE NoPod
    BY <1>3, <1>5
  <2>2. run(i, k)
    BY <1>5, <2>1 DEF IsUp
  <2>. QED
    BY <1>4, <2>1, <2>2
<1>6. ASSUME NEW i \in Index
      PROVE  /\ Exists(i) => run(i, 0) /\ SecretOf(i) = cr.spec.secret
             /\ run(i, 0) => Exists(i)
  <2>1. /\ DOMAIN SteadySts(cr) = {"replicas", "template", "current"}
        /\ DOMAIN NoSts = {"replicas"}
    BY DEF SteadySts, NoSts
  <2>2. SteadySts(cr) # NoSts
    BY <2>1
  <2>3. SteadySts(cr).template.server.secret = cr.spec.secret
    BY SecretOfTemplate DEF SteadySts
  <2>4. sts[i] = IF run(i, 0) THEN SteadySts(cr) ELSE NoSts
    BY <1>3, <1>6
  <2>. HIDE DEF run
  <2>. QED
    BY <2>2, <2>3, <2>4 DEF Exists, SecretOf
<1>7. SteadyPod(cr).auth = cr.spec.secret /\ SteadyPod(cr).file = cr.spec.secret
  BY DEF SteadyPod
<1>8. SecretOK
  BY <1>1, <1>2, <1>6 DEF SecretOK, run
<1>9. PoolOK
  BY <1>2 DEF PoolOK
<1>. HIDE DEF run
<1>10. PodsOK
  BY <1>5, <1>6 DEF PodsOK
<1>11. RestOK
  BY <1>5, <1>6, <1>7 DEF RestOK, Has
<1>. QED
  BY <1>2, <1>8, <1>9, <1>10, <1>11 DEF OInv, OpenOK, Resetting

LEMMA NextOInv ==
  ASSUME KInv, OInv, [Next]_vars
  PROVE  OInv'
<1>1. SecretOK' /\ PoolOK' /\ PodsOK'
  BY NextSecretOK, NextPoolOK, NextPodsOK DEF OInv, KInv
<1>2. ASSUME Secure'
      PROVE  IF Resetting' THEN ResetOK' ELSE RestOK'
  <2>1. Secure
    BY <1>2, NextOf DEF Secure, StepOf, Always
  <2>2. IF Resetting THEN ResetOK ELSE RestOK
    BY <2>1 DEF OInv, OpenOK
  <2>3. CASE Calm
    BY <2>2, <2>3, RestStays DEF OInv, Calm
  <2>4. CASE Unmoved
    <3>1. Resetting' <=> Resetting
      BY <2>4 DEF Unmoved, SameReset, Resetting
    <3>. QED
      BY <2>2, <2>4, <3>1, RestStays, ResetStays DEF OInv, Unmoved
  <2>5. CASE resetClusterPassword /\ Resetting'
    <3>1. ~Resetting
      BY <2>5 DEF resetClusterPassword, Resetting
    <3>. QED
      BY <1>2, <2>2, <2>5, <3>1, ResetBegins DEF OInv
  <2>6. CASE Resetting /\ (ExecCommandInPodSet \/ ResetPassword \/ ensureRedisStatefulset)
    BY <1>1, <2>2, <2>6, ResetExecs, ResetResets, ResetWrites DEF OInv
  <2>7. CASE Replaces
    BY <1>1, <1>2, <2>2, <2>7, WritesRest, RemovesRest, PodsRest DEF OInv, KInv, Replaces
  <2>. QED
    BY <1>2, <2>3, <2>4, <2>5, <2>6, <2>7, OpenSteps DEF OInv, OpenStep
<1>. QED
  BY <1>1, <1>2 DEF OInv, OpenOK

LEMMA AlwaysOInv == Spec => []OInv
<1>1. Init => OInv
  BY InitOInv
<1>2. KInv /\ OInv /\ [Next]_vars => OInv'
  BY NextOInv
<1>. QED
  BY <1>1, <1>2, AlwaysKInv, PTL DEF Spec

LEMMA StopOpens ==
  ASSUME KInv, OInv, [Next]_vars,
         NEW i \in Index, NEW k \in Ordinal, NEW j \in Ordinal,
         IsUp(<<i, k>>), pods'[i][k] = NoPod, IsUp(<<i, j>>), Secure'
  PROVE  shutdown(pods[i][k].file, pods[i][j].auth)
<1>1. pods[i][k] # NoPod
  BY DEF IsUp
<1>2. ~SamePods /\ ~SetConfigIfNeed
  BY <1>1, SetConfigFacts DEF SamePods, KInv
<1>3. ~ClientWrites
  BY <1>1 DEF ClientWrites
<1>4. ~Starts
  <2>. SUFFICES ASSUME Starts PROVE FALSE
    OBVIOUS
  <2>1. PICK a \in Index, b \in Ordinal :
          /\ Started(a) # NoPod
          /\ \A c \in Index : \A d \in Ordinal :
               pods'[c][d] = IF c = a /\ d = b THEN Started(a) ELSE pods[c][d]
    BY StartsOf DEF KInv
  <2>. QED
    BY <1>1, <2>1
<1>5. Stops
  BY <1>2, <1>3, <1>4, PodSteps DEF KInv
<1>6. ~Resetting
  BY <1>5 DEF Stops, Stop, Secure
<1>7. Secure
  BY NextOf DEF Secure, StepOf, Always
<1>8. RestOK
  BY <1>6, <1>7 DEF OInv, OpenOK
<1>9. pods[i][k].file = SecretOf(i) /\ pods[i][j].auth = SecretOf(i)
  BY <1>8 DEF RestOK, Has
<1>. QED
  BY <1>9 DEF shutdown

(***************************************************************************)
(* Whenever Kubernetes stops a pod, the password that its shutdown.sh      *)
(* reads opens every other pod of its StatefulSet: a master can hand over  *)
(* to its slave.  However many passwords follow each other, resets fail    *)
(* and pods are replaced, this breaks only after a reset that was cut off  *)
(* or saw its pods replaced, or a StatefulSet that got a password without  *)
(* a reset.                                                                *)
(***************************************************************************)
THEOREM OpensProved == Spec => FailoverOpens
<1>1. KInv /\ OInv /\ [Next]_vars =>
        [\A i \in Index : \A k, j \in Ordinal :
           (/\ IsUp(<<i, k>>) /\ pods'[i][k] = NoPod
            /\ k # j /\ IsUp(<<i, j>>)
            /\ torn' \cap {"reset", "skipped"} = {})
             => shutdown(pods[i][k].file, pods[i][j].auth)]_vars
  BY StopOpens DEF Secure
<1>. QED
  BY <1>1, AlwaysKInv, AlwaysOInv, PTL DEF Spec, FailoverOpens

=============================================================================
