-------------------------- MODULE BackupController --------------------------
(***************************************************************************)
(* The RedisClusterBackup controller                                       *)
(* (pkg/controller/redisclusterbackup): the backups of one cluster, each   *)
(* reconciled by one of several workers, which runs a Kubernetes Job per   *)
(* backup and follows it.  Backups are read from the controller's cache    *)
(* and written to the API server, which refuses a write made from an old   *)
(* version; Jobs are read from the API server directly.  A request that    *)
(* ends in an error is queued again; one that ends without is not.         *)
(***************************************************************************)
EXTENDS Naturals, FiniteSets

CONSTANTS
  Backup,         \* the RedisClusterBackups of one cluster
  MaxConcurrent,  \* backupctr-maxconcurrent, the number of workers
  Faulty,         \* TRUE when API calls and prerequisites may fail
  Crashing,       \* TRUE when the operator may crash
  JobsLag,        \* TRUE when a Job may not be obtainable yet while it runs
  MaxVersion      \* bound: no Reconcile starts on a later version

ASSUME BackupAssumption == IsFiniteSet(Backup)
ASSUME MaxConcurrentAssumption == MaxConcurrent \in Nat \ {0}
ASSUME MaxVersionAssumption == MaxVersion \in Nat
ASSUME FaultyAssumption == Faulty \in BOOLEAN
ASSUME CrashingAssumption == Crashing \in BOOLEAN
ASSUME JobsLagAssumption == JobsLag \in BOOLEAN

VARIABLES
  obj,   \* obj[b]: b on the API server; version 0 before it is created
  cache, \* cache[b]: b in the controller's cache
  job,   \* job[b]: the Job of b
  queue, \* the requests waiting for a worker
  pc,    \* pc[b]: the next step of the Reconcile of b
  mem,   \* mem[b]: Reconcile's copy of b
  seen,  \* seen[b]: whether b's Reconcile listed a running backup
  missed \* history: the backups ignored because GetJob missed their Job

vars == <<obj, cache, job, queue, pc, mem, seen, missed>>

Terminal == {"Succeeded", "Failed", "Ignored"}

Phase == Terminal \cup {"", "Running"}

Object == [phase : Phase, label : BOOLEAN,
           started : BOOLEAN, version : Nat]

Steps == {"idle", "start", "phase", "list", "jobs", "prepare", "label",
          "create", "handle", "finish", "ignore", "miss", "unlabel"}

TypeOK ==
  /\ obj \in [Backup -> Object]
  /\ cache \in [Backup -> Object]
  /\ job \in [Backup -> {"none", "active", "complete", "failed"}]
  /\ queue \in SUBSET {b \in Backup : obj[b].version > 0}
  /\ pc \in [Backup -> Steps]
  /\ mem \in [Backup -> Object]
  /\ seen \in [Backup -> BOOLEAN]
  /\ missed \subseteq Backup
  /\ \A b \in Backup :
       /\ cache[b].version <= obj[b].version
       /\ mem[b].version <= obj[b].version
  /\ Cardinality({b \in Backup : pc[b] # "idle"}) <= MaxConcurrent

Absent == [phase |-> "", label |-> FALSE, started |-> FALSE, version |-> 0]

Init ==
  /\ obj = [b \in Backup |-> Absent]
  /\ cache = [b \in Backup |-> Absent]
  /\ job = [b \in Backup |-> "none"]
  /\ queue = {}
  /\ pc = [b \in Backup |-> "idle"]
  /\ mem = [b \in Backup |-> Absent]
  /\ seen = [b \in Backup |-> FALSE]
  /\ missed = {}

-----------------------------------------------------------------------------
(***************************************************************************)
(* The API server.  ok is what the caller is told; with Faulty a write may *)
(* fail before or after it took effect.  A write that changes nothing      *)
(* keeps the version.  The reply replaces the caller's copy.               *)
(***************************************************************************)
Save(b, new, ok) ==
  \/ /\ mem[b].version = obj[b].version
     /\ ok \/ Faulty
     /\ obj' = [obj EXCEPT ![b] = IF new = obj[b] THEN new
                                   ELSE [new EXCEPT !.version = @ + 1]]
  \/ /\ mem[b].version # obj[b].version \/ Faulty
     /\ ~ok
     /\ UNCHANGED obj

UpdateCRStatus(b, phase, ok) ==
  Save(b, [obj[b] EXCEPT !.phase = phase, !.started = TRUE], ok)

UpdateCR(b, label, ok) == Save(b, [obj[b] EXCEPT !.label = label], ok)

-----------------------------------------------------------------------------
(***************************************************************************)
(* One Reconcile.                                                          *)
(***************************************************************************)
Goto(b, step, copy) ==
  /\ pc' = [pc EXCEPT ![b] = step]
  /\ mem' = [mem EXCEPT ![b] = copy]
  /\ UNCHANGED queue

\* Reconcile returns nil: the request leaves the queue.
Done(b) == Goto(b, "idle", Absent)

\* Reconcile returns an error: the request is queued again.
Fail(b) ==
  /\ pc' = [pc EXCEPT ![b] = "idle"]
  /\ mem' = [mem EXCEPT ![b] = Absent]
  /\ queue' = queue \cup {b}

Start(b) ==
  /\ b \in queue
  /\ pc[b] = "idle"
  /\ Cardinality({c \in Backup : pc[c] # "idle"}) < MaxConcurrent
  /\ obj[b].version < MaxVersion
  /\ queue' = queue \ {b}
  /\ pc' = [pc EXCEPT ![b] = "start"]
  /\ mem' = [mem EXCEPT ![b] = cache[b]]
  /\ UNCHANGED <<obj, cache, job, seen, missed>>

SetStartTime(b) ==
  /\ pc[b] = "start"
  /\ \/ /\ mem[b].started
        /\ Goto(b, "phase", mem[b])
        /\ UNCHANGED obj
     \/ /\ ~mem[b].started
        /\ \E ok \in BOOLEAN :
             /\ UpdateCRStatus(b, mem[b].phase, ok)
             /\ IF ok THEN Goto(b, "phase", obj'[b]) ELSE Fail(b)
  /\ UNCHANGED <<cache, job, seen, missed>>

\* Mutant: only the label is looked at, not the phase.
CheckPhaseByLabel(b) ==
  /\ pc[b] = "phase"
  /\ Goto(b, IF mem[b].label THEN "handle" ELSE "list", mem[b])
  /\ UNCHANGED <<obj, cache, job, seen, missed>>

\* A completed backup only loses its label.
CheckPhase(b) ==
  /\ pc[b] = "phase"
  /\ \/ /\ mem[b].phase \in Terminal
        /\ \E ok \in BOOLEAN :
             UpdateCR(b, FALSE, ok) /\ IF ok THEN Done(b) ELSE Fail(b)
     \/ /\ mem[b].phase \notin Terminal
        /\ Goto(b, "list", mem[b])
        /\ UNCHANGED obj
  /\ UNCHANGED <<cache, job, seen, missed>>

\* ValidateBackup, NewRcloneSecret, CheckBucketAccess or getBackupJob says no:
\* the backup is marked as failed; only after getBackupJob is an error of that
\* returned, and so retried.
Reject(b) ==
  /\ Faulty
  /\ \/ pc[b] = "phase" /\ mem[b].phase \notin Terminal
     \/ pc[b] = "prepare"
  /\ \E ok \in BOOLEAN :
       /\ UpdateCRStatus(b, "Failed", ok)
       /\ \/ Done(b)
          \/ pc[b] = "prepare" /\ ~ok /\ Fail(b)
  /\ UNCHANGED <<cache, job, seen, missed>>

\* A read, or getBackupJob, fails in a way that is worth a retry.
Retry(b) ==
  /\ Faulty
  /\ pc[b] \in {"phase", "list", "jobs", "prepare", "handle"}
  /\ Fail(b)
  /\ UNCHANGED <<obj, cache, job, seen, missed>>

\* A read of Jobs may not find one that has been created but has not finished.
Lags(b) == JobsLag /\ job[b] = "active"

\* isBackupRunning: the backups of the cluster labelled as running, cached.
ListRunning(b) ==
  /\ pc[b] = "list"
  /\ seen' = [seen EXCEPT ![b] = \E c \in Backup : cache[c].label]
  /\ Goto(b, "jobs", mem[b])
  /\ UNCHANGED <<obj, cache, job, missed>>

\* isBackupRunning: and any backup Job of the cluster, finished or not.
ListJobs(b) ==
  /\ pc[b] = "jobs"
  /\ \E found \in SUBSET {c \in Backup : job[c] # "none"} :
       /\ \A c \in Backup \ found : job[c] = "none" \/ Lags(c)
       /\ Goto(b, IF seen[b] /\ found # {} THEN "handle" ELSE "prepare", mem[b])
  /\ UNCHANGED <<obj, cache, job, seen, missed>>

\* The Job is put together and the backup announced as running.
SetRunning(b) ==
  /\ pc[b] = "prepare"
  /\ \E ok \in BOOLEAN :
       /\ UpdateCRStatus(b, "Running", ok)
       /\ IF ok THEN Goto(b, "label", obj'[b]) ELSE Fail(b)
  /\ UNCHANGED <<cache, job, seen, missed>>

SetLabel(b) ==
  /\ pc[b] = "label"
  /\ \E ok \in BOOLEAN :
       /\ UpdateCR(b, TRUE, ok)
       /\ IF ok THEN Goto(b, "create", obj'[b]) ELSE Fail(b)
  /\ UNCHANGED <<cache, job, seen, missed>>

CreateJob(b) ==
  /\ pc[b] = "create"
  /\ \E ok, done \in BOOLEAN :
       /\ ok => done
       /\ done => job[b] = "none"
       /\ ~Faulty => ok = done /\ done = (job[b] = "none")
       /\ job' = IF done THEN [job EXCEPT ![b] = "active"] ELSE job
       /\ IF ok THEN Done(b) ELSE Fail(b)
  /\ UNCHANGED <<obj, cache, seen, missed>>

\* Mutant: a Job that has not finished is reported as well.
HandleJobEarly(b) ==
  /\ pc[b] = "handle"
  /\ Goto(b, IF job[b] = "none" THEN "ignore" ELSE "finish", mem[b])
  /\ UNCHANGED <<obj, cache, job, seen, missed>>

\* Mutant: a Job that failed is not taken for a finished one.
HandleJobHopeful(b) ==
  /\ pc[b] = "handle"
  /\ CASE job[b] = "none" -> Goto(b, "ignore", mem[b])
       [] job[b] \in {"active", "failed"} -> Fail(b)
       [] OTHER -> Goto(b, "finish", mem[b])
  /\ UNCHANGED <<obj, cache, job, seen, missed>>

\* Mutant: a Job that failed has been cleaned up before the backup is told.
HandleJobCleaned(b) ==
  /\ pc[b] = "handle"
  /\ CASE job[b] \in {"none", "failed"} -> Goto(b, "ignore", mem[b])
       [] job[b] = "active" -> Fail(b)
       [] OTHER -> Goto(b, "finish", mem[b])
  /\ UNCHANGED <<obj, cache, job, seen, missed>>

\* handleBackupJob: not to find a Job of its own is taken to mean that another
\* backup is running; an unfinished Job is waited for by failing.
HandleJob(b) ==
  /\ pc[b] = "handle"
  /\ \/ job[b] = "none" /\ Goto(b, "ignore", mem[b])
     \/ Lags(b) /\ Goto(b, "miss", mem[b])
     \/ job[b] = "active" /\ Fail(b)
     \/ job[b] \in {"complete", "failed"} /\ Goto(b, "finish", mem[b])
  /\ UNCHANGED <<obj, cache, job, seen, missed>>

\* Mutant: an error is not returned, so that nothing retries.
FinishBackupOnce(b) ==
  /\ pc[b] = "finish"
  /\ \E ok \in BOOLEAN :
       /\ UpdateCRStatus(b, IF job[b] = "failed" THEN "Failed" ELSE "Succeeded", ok)
       /\ IF ok THEN Goto(b, "unlabel", obj'[b]) ELSE Done(b)
  /\ UNCHANGED <<cache, job, seen, missed>>

FinishBackup(b) ==
  /\ pc[b] = "finish"
  /\ \E ok \in BOOLEAN :
       /\ UpdateCRStatus(b, IF job[b] = "failed" THEN "Failed" ELSE "Succeeded", ok)
       /\ IF ok THEN Goto(b, "unlabel", obj'[b]) ELSE Fail(b)
  /\ UNCHANGED <<cache, job, seen, missed>>

\* markAsIgnoredBackup: an error is dropped.
IgnoreBackup(b) ==
  /\ pc[b] \in {"ignore", "miss"}
  /\ \E ok \in BOOLEAN :
       /\ UpdateCRStatus(b, "Ignored", ok)
       /\ Goto(b, "unlabel", IF ok THEN obj'[b] ELSE [mem[b] EXCEPT !.phase = "Ignored"])
  /\ missed' = missed \cup {c \in {b} : pc[c] = "miss" /\ obj'[c].phase = "Ignored"}
  /\ UNCHANGED <<cache, job, seen>>

DropLabel(b) ==
  /\ pc[b] = "unlabel"
  /\ \E ok \in BOOLEAN :
       UpdateCR(b, FALSE, ok) /\ IF ok THEN Done(b) ELSE Fail(b)
  /\ UNCHANGED <<cache, job, seen, missed>>

Reconcile(b) ==
  \/ SetStartTime(b)
  \/ CheckPhase(b)
  \/ Reject(b)
  \/ Retry(b)
  \/ ListRunning(b)
  \/ ListJobs(b)
  \/ SetRunning(b)
  \/ SetLabel(b)
  \/ CreateJob(b)
  \/ HandleJob(b)
  \/ FinishBackup(b)
  \/ IgnoreBackup(b)
  \/ DropLabel(b)

-----------------------------------------------------------------------------
(***************************************************************************)
(* The user, the Job controller, the cache and crashes.                    *)
(***************************************************************************)
CreateBackup(b) ==
  /\ obj[b].version = 0
  /\ obj' = [obj EXCEPT ![b].version = 1]
  /\ cache' = [cache EXCEPT ![b] = obj'[b]]
  /\ queue' = queue \cup {b}
  /\ UNCHANGED <<job, pc, mem, seen, missed>>

\* The controller watches Jobs and queues the owner of one that finishes.
FinishJob(b) ==
  /\ job[b] = "active"
  /\ \E end \in {"complete", "failed"} : job' = [job EXCEPT ![b] = end]
  /\ queue' = queue \cup {b}
  /\ UNCHANGED <<obj, cache, pc, mem, seen, missed>>

\* A watch event of b: its status and labels are no reason to queue it.
SyncCache(b) ==
  /\ cache[b] # obj[b]
  /\ cache' = [cache EXCEPT ![b] = obj[b]]
  /\ UNCHANGED <<obj, job, queue, pc, mem, seen, missed>>

\* Mutant: backups that do not exist are queued as well.
CrashQueuesAll ==
  /\ Crashing
  /\ \E b \in Backup : pc[b] # "idle"
  /\ cache' = obj
  /\ queue' = Backup
  /\ pc' = [b \in Backup |-> "idle"]
  /\ mem' = [b \in Backup |-> Absent]
  /\ UNCHANGED <<obj, job, seen, missed>>

\* The operator crashes and starts again with a fresh cache, which queues
\* every backup.
Crash ==
  /\ Crashing
  /\ \E b \in Backup : pc[b] # "idle"
  /\ cache' = obj
  /\ queue' = {b \in Backup : obj[b].version > 0}
  /\ pc' = [b \in Backup |-> "idle"]
  /\ mem' = [b \in Backup |-> Absent]
  /\ UNCHANGED <<obj, job, seen, missed>>

Next ==
  \/ \E b \in Backup :
       \/ Start(b)
       \/ Reconcile(b)
       \/ CreateBackup(b)
       \/ FinishJob(b)
       \/ SyncCache(b)
  \/ Crash

Spec == Init /\ [][Next]_vars

(***************************************************************************)
(* Workers and the cache make progress, and Jobs end (a Job has a retry    *)
(* limit).  Users need not create a backup.                                *)
(***************************************************************************)
Fairness ==
  \A b \in Backup :
    /\ SF_vars(Start(b))
    /\ WF_vars(Reconcile(b))
    /\ WF_vars(FinishJob(b))
    /\ WF_vars(SyncCache(b))

FairSpec == Spec /\ Fairness

-----------------------------------------------------------------------------
(***************************************************************************)
(* A backup that succeeded, failed or was ignored stays so, although a     *)
(* Reconcile may work on a stale copy: the API server refuses its writes.  *)
(***************************************************************************)
TerminalIsFinal ==
  [][\A b \in Backup :
       obj[b].phase \in Terminal => obj'[b].phase = obj[b].phase]_vars

(***************************************************************************)
(* A backup is reported as Succeeded only once its own Job is complete.    *)
(***************************************************************************)
SuccessIsReal ==
  \A b \in Backup : obj[b].phase = "Succeeded" => job[b] = "complete"

(***************************************************************************)
(* A backup that no worker has and no request is queued for is finished,   *)
(* without its running label, or waits for its active Job: nothing else    *)
(* would wake the controller up for it.                                    *)
(***************************************************************************)
NotForgotten ==
  \A b \in Backup :
    (obj[b].version > 0 /\ pc[b] = "idle" /\ b \notin queue) =>
      \/ obj[b].phase \in Terminal /\ ~obj[b].label
      \/ job[b] = "active"

(***************************************************************************)
(* Once the operator stops crashing, every backup ends.                    *)
(***************************************************************************)
BackupEnds ==
  <>[][~Crash]_vars =>
    \A b \in Backup : obj[b].version > 0 ~> obj[b].phase \in Terminal

(***************************************************************************)
(* One backup of a cluster runs at a time.                                 *)
(***************************************************************************)
OneActiveJob == Cardinality({b \in Backup : job[b] = "active"}) <= 1

(***************************************************************************)
(* A backup is ignored only when it never had a Job of its own, or when    *)
(* GetJob did not find its Job at the moment it was asked: the result of a *)
(* Job is not thrown away otherwise, although any other Job of the cluster *)
(* makes isBackupRunning true and the Job may end at any time.             *)
(***************************************************************************)
IgnoredHasNoJob ==
  \A b \in Backup : obj[b].phase = "Ignored" => job[b] = "none" \/ b \in missed

=============================================================================
