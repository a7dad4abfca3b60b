---------------------------- MODULE BackupProofs ----------------------------
(***************************************************************************)
(* Proofs about BackupController for any finite set of backups and any     *)
(* number of workers.                                                      *)
(***************************************************************************)
EXTENDS BackupController, FiniteSetTheorems, TLAPS

(***************************************************************************)
(* A copy with the version of the object is the object: what the API       *)
(* server's check of the version is worth.  A Reconcile that failed to     *)
(* mark its backup as ignored is the exception: it goes on with a copy it  *)
(* has changed itself.                                                     *)
(***************************************************************************)
CopiesOK(b) ==
  /\ cache[b].version = obj[b].version => cache[b] = obj[b]
  /\ pc[b] \notin {"idle", "unlabel"} =>
       (mem[b].version = obj[b].version => mem[b] = obj[b])

(***************************************************************************)
(* What a Reconcile knows of its backup at each step.                      *)
(***************************************************************************)
StepOK(b) ==
  /\ pc[b] # "idle" \/ job[b] # "none" => obj[b].version > 0
  /\ pc[b] \in Steps \ {"idle", "start", "phase", "unlabel"} =>
       mem[b].phase \notin Terminal
  /\ pc[b] \in {"label", "create"} => obj[b].phase \notin Terminal
  /\ pc[b] = "finish" => job[b] \in {"complete", "failed"}
  /\ pc[b] = "ignore" => job[b] = "none"

IInv ==
  /\ TypeOK
  /\ \A b \in Backup : CopiesOK(b) /\ StepOK(b)
  /\ SuccessIsReal
  /\ IgnoredHasNoJob

(***************************************************************************)
(* Without faults a Reconcile that is about to drop the label has finished *)
(* its backup, or works on a stale copy and will fail; and no backup is    *)
(* forgotten.                                                              *)
(***************************************************************************)
KeptOK(b) ==
  /\ pc[b] = "unlabel" =>
       obj[b].phase \in Terminal \/ mem[b].version # obj[b].version
  /\ obj[b].version > 0 /\ pc[b] = "idle" /\ b \notin queue =>
       \/ obj[b].phase \in Terminal /\ ~obj[b].label
       \/ job[b] = "active"

NInv == IInv /\ \A b \in Backup : KeptOK(b)

-----------------------------------------------------------------------------
(***************************************************************************)
(* What a write leaves on the API server: it takes effect from the current *)
(* version only, and moves the version on whenever it changes anything.    *)
(***************************************************************************)
Written(b, phase, label, ok) ==
  /\ obj' \in [Backup -> Object]
  /\ \A c \in Backup \ {b} : obj'[c] = obj[c]
  /\ obj'[b].version >= obj[b].version
  /\ obj'[b].version = obj[b].version => obj'[b] = obj[b]
  /\ \/ obj'[b] = obj[b]
     \/ /\ mem[b].version = obj[b].version
        /\ obj'[b].phase = phase /\ obj'[b].label = label
  /\ ok => /\ mem[b].version = obj[b].version
           /\ obj'[b].phase = phase /\ obj'[b].label = label

LEMMA SaveWrites ==
  ASSUME obj \in [Backup -> Object], NEW b \in Backup, NEW new \in Object,
         new.version = obj[b].version, NEW ok \in BOOLEAN, Save(b, new, ok)
  PROVE  Written(b, new.phase, new.label, ok)
<1>1. CASE /\ mem[b].version = obj[b].version
           /\ ok \/ Faulty
           /\ obj' = [obj EXCEPT ![b] = IF new = obj[b] THEN new
                                         ELSE [new EXCEPT !.version = @ + 1]]
  <2>1. [new EXCEPT !.version = @ + 1] \in Object
    BY DEF Object
  <2>2. CASE new = obj[b]
    BY <1>1, <2>2 DEF Written, Object
  <2>3. CASE new # obj[b]
    <3>1. obj'[b] = [new EXCEPT !.version = @ + 1]
      BY <1>1, <2>3
    <3>2. /\ obj'[b].version = obj[b].version + 1
          /\ obj'[b].phase = new.phase /\ obj'[b].label = new.label
      BY <3>1 DEF Object
    <3>. QED
      BY <1>1, <2>1, <2>3, <3>1, <3>2 DEF Written, Object
  <2>. QED
    BY <2>2, <2>3
<1>2. CASE /\ mem[b].version # obj[b].version \/ Faulty
           /\ ~ok
           /\ UNCHANGED obj
  BY <1>2 DEF Written, Object
<1>. QED
  BY <1>1, <1>2 DEF Save

LEMMA StatusWrites ==
  ASSUME obj \in [Backup -> Object], NEW b \in Backup,
         NEW phase \in Phase, NEW ok \in BOOLEAN,
         UpdateCRStatus(b, phase, ok)
  PROVE  Written(b, phase, obj[b].label, ok)
<1>. DEFINE new == [obj[b] EXCEPT !.phase = phase, !.started = TRUE]
<1>1. /\ new \in Object /\ new.version = obj[b].version
      /\ new.phase = phase /\ new.label = obj[b].label
  BY DEF Object
<1>2. Written(b, new.phase, new.label, ok)
  BY <1>1, SaveWrites DEF UpdateCRStatus
<1>. QED
  BY <1>1, <1>2

LEMMA LabelWrites ==
  ASSUME obj \in [Backup -> Object], NEW b \in Backup,
         NEW label \in BOOLEAN, NEW ok \in BOOLEAN, UpdateCR(b, label, ok)
  PROVE  Written(b, obj[b].phase, label, ok)
<1>. DEFINE new == [obj[b] EXCEPT !.label = label]
<1>1. /\ new \in Object /\ new.version = obj[b].version
      /\ new.phase = obj[b].phase /\ new.label = label
  BY DEF Object
<1>2. Written(b, new.phase, new.label, ok)
  BY <1>1, SaveWrites DEF UpdateCR
<1>. QED
  BY <1>1, <1>2

-----------------------------------------------------------------------------
(***************************************************************************)
(* A step of the Reconcile of b touches b only; with Moves it leaves b at  *)
(* step with the copy it goes on with, or idle.                            *)
(***************************************************************************)
Typed ==
  /\ obj \in [Backup -> Object]
  /\ cache \in [Backup -> Object]
  /\ job \in [Backup -> {"none", "active", "complete", "failed"}]
  /\ queue \in SUBSET {b \in Backup : obj[b].version > 0}
  /\ pc \in [Backup -> Steps]
  /\ mem \in [Backup -> Object]
  /\ seen \in [Backup -> BOOLEAN]
  /\ missed \subseteq Backup
  /\ \A b \in Backup :
       /\ cache[b].version <= obj[b].version
       /\ mem[b].version <= obj[b].version

Busy == {b \in Backup : pc[b] # "idle"}

LEMMA TypeOKParts == TypeOK <=> Typed /\ Cardinality(Busy) <= MaxConcurrent
BY DEF TypeOK, Typed, Busy

LEMMA AbsentObject == Absent \in Object /\ Absent.version = 0
BY DEF Absent, Object, Phase

LEMMA GotoMoves ==
  ASSUME Typed, NEW b \in Backup, NEW step, NEW copy, Goto(b, step, copy)
  PROVE  /\ pc'[b] = step /\ mem'[b] = copy
         /\ \A c \in Backup \ {b} : pc'[c] = pc[c] /\ mem'[c] = mem[c]
         /\ queue' = queue
         /\ step \in Steps => pc' \in [Backup -> Steps]
         /\ copy \in Object => mem' \in [Backup -> Object]
BY DEF Goto, Typed

LEMMA FailMoves ==
  ASSUME Typed, NEW b \in Backup, Fail(b)
  PROVE  /\ pc'[b] = "idle" /\ mem'[b] = Absent
         /\ \A c \in Backup \ {b} : pc'[c] = pc[c] /\ mem'[c] = mem[c]
         /\ queue' = queue \cup {b}
         /\ pc' \in [Backup -> Steps] /\ mem' \in [Backup -> Object]
BY AbsentObject DEF Fail, Typed, Steps

LEMMA DoneMoves ==
  ASSUME Typed, NEW b \in Backup, Done(b)
  PROVE  /\ pc'[b] = "idle" /\ mem'[b] = Absent
         /\ \A c \in Backup \ {b} : pc'[c] = pc[c] /\ mem'[c] = mem[c]
         /\ queue' = queue
         /\ pc' \in [Backup -> Steps] /\ mem' \in [Backup -> Object]
BY AbsentObject, GotoMoves DEF Done, Steps

-----------------------------------------------------------------------------
(***************************************************************************)
(* The invariant of one backup, and what a step of its Reconcile leaves    *)
(* alone.                                                                  *)
(***************************************************************************)
LocalOK(b) ==
  /\ mem[b].version <= obj[b].version
  /\ CopiesOK(b)
  /\ StepOK(b)
  /\ obj[b].phase = "Succeeded" => job[b] = "complete"
  /\ obj[b].phase = "Ignored" => job[b] = "none" \/ b \in missed

Turn(b) ==
  /\ obj' \in [Backup -> Object]
  /\ pc' \in [Backup -> Steps]
  /\ mem' \in [Backup -> Object]
  /\ job' \in [Backup -> {"none", "active", "complete", "failed"}]
  /\ seen' \in [Backup -> BOOLEAN]
  /\ missed \subseteq missed' /\ missed' \subseteq Backup
  /\ cache' = cache
  /\ queue' = queue \/ queue' = queue \cup {b}
  /\ pc[b] # "idle"
  /\ obj'[b].version >= obj[b].version
  /\ obj'[b].version = obj[b].version => obj'[b] = obj[b]
  /\ obj[b].phase \in Terminal => obj'[b].phase = obj[b].phase
  /\ \A c \in Backup \ {b} :
       /\ obj'[c] = obj[c] /\ pc'[c] = pc[c]
       /\ mem'[c] = mem[c] /\ job'[c] = job[c]

(***************************************************************************)
(* The three ways a step of a Reconcile ends: it reads only and goes on,   *)
(* it writes and goes on with the reply, or it returns.                    *)
(***************************************************************************)
LEMMA ReadTurn ==
  ASSUME IInv, NEW b \in Backup, pc[b] \notin {"idle", "unlabel"},
         NEW step \in Steps \ {"idle", "start", "label", "create", "unlabel"},
         Goto(b, step, mem[b]),
         UNCHANGED <<obj, cache, job, missed>>, seen' \in [Backup -> BOOLEAN],
         step # "phase" => mem[b].phase \notin Terminal,
         step = "finish" => job[b] \in {"complete", "failed"},
         step = "ignore" => job[b] = "none"
  PROVE  Turn(b) /\ LocalOK(b)'
<1>1. Typed
  BY TypeOKParts DEF IInv
<1>2. pc'[b] = step /\ mem'[b] = mem[b] /\ queue' = queue
  BY <1>1, GotoMoves
<1>3. Turn(b)
  BY <1>1, <1>2, GotoMoves DEF Turn, Typed, Object
<1>4. LocalOK(b)'
  BY <1>1, <1>2
     DEF IInv, LocalOK, CopiesOK, StepOK, Typed, SuccessIsReal, IgnoredHasNoJob
<1>. QED
  BY <1>3, <1>4

\* What a Reconcile may write as the phase of its backup.
MayReport(b, phase) ==
  /\ obj[b].phase \in Terminal => phase = obj[b].phase
  /\ phase = "Succeeded" => job[b] = "complete"
  /\ phase = "Ignored" => job[b] = "none" \/ b \in missed'

LEMMA WriteTurn ==
  ASSUME IInv, NEW b \in Backup, pc[b] # "idle",
         NEW step \in {"phase", "label", "create", "unlabel"},
         NEW phase \in Phase, NEW label \in BOOLEAN, Written(b, phase, label, TRUE),
         Goto(b, step, obj'[b]), UNCHANGED <<cache, job, seen>>,
         missed \subseteq missed', missed' \subseteq Backup,
         MayReport(b, phase),
         step \in {"label", "create"} => phase \notin Terminal
  PROVE  Turn(b) /\ LocalOK(b)'
<1>1. Typed
  BY TypeOKParts DEF IInv
<1>2. pc'[b] = step /\ mem'[b] = obj'[b] /\ queue' = queue
  BY <1>1, GotoMoves
<1>3. obj'[b] \in Object /\ obj'[b].phase = phase
  BY DEF Written
<1>4. Turn(b)
  BY <1>1, <1>2, <1>3, GotoMoves
     DEF Turn, Typed, Object, Written, MayReport, Steps
<1>5. LocalOK(b)'
  BY <1>1, <1>2, <1>3
     DEF IInv, LocalOK, CopiesOK, StepOK, Typed, Object, Written, MayReport, Steps
<1>. QED
  BY <1>4, <1>5

LEMMA ReturnTurn ==
  ASSUME IInv, NEW b \in Backup, pc[b] # "idle",
         NEW phase \in Phase, NEW label \in BOOLEAN, NEW ok \in BOOLEAN,
         Written(b, phase, label, ok), Done(b) \/ Fail(b),
         UNCHANGED <<cache, job, seen, missed>>,
         mem[b].version = obj[b].version => MayReport(b, phase)
  PROVE  Turn(b) /\ LocalOK(b)'
<1>1. Typed
  BY TypeOKParts DEF IInv
<1>2. /\ pc'[b] = "idle" /\ mem'[b] = Absent
      /\ queue' = queue \/ queue' = queue \cup {b}
      /\ pc' \in [Backup -> Steps] /\ mem' \in [Backup -> Object]
      /\ \A c \in Backup \ {b} : pc'[c] = pc[c] /\ mem'[c] = mem[c]
  BY <1>1, DoneMoves, FailMoves
<1>3. obj'[b] \in Object /\ (obj'[b] = obj[b] \/ obj'[b].phase = phase)
  BY DEF Written
<1>4. Turn(b)
  BY <1>1, <1>2, <1>3 DEF Turn, Typed, Object, Written, MayReport
<1>5. LocalOK(b)'
  <2>1. mem'[b].version <= obj'[b].version
    BY <1>2, <1>3, AbsentObject DEF Object
  <2>2. CopiesOK(b)'
    <3>1. /\ cache[b].version \in Nat /\ obj[b].version \in Nat
          /\ obj'[b].version \in Nat /\ cache[b].version <= obj[b].version
      BY <1>1, <1>3 DEF Typed, Object
    <3>2. cache[b].version = obj[b].version => cache[b] = obj[b]
      BY DEF IInv, CopiesOK
    <3>3. cache[b].version = obj'[b].version => cache[b] = obj'[b]
      BY <3>1, <3>2 DEF Written
    <3>. QED
      BY <1>2, <3>3 DEF CopiesOK
  <2>3. StepOK(b)'
    BY <1>1, <1>2, <1>3 DEF IInv, StepOK, Typed, Object, Written
  <2>4. /\ obj'[b].phase = "Succeeded" => job[b] = "complete"
        /\ obj'[b].phase = "Ignored" => job[b] = "none" \/ b \in missed'
    BY DEF IInv, Written, MayReport, SuccessIsReal, IgnoredHasNoJob
  <2>. QED
    BY <2>1, <2>2, <2>3, <2>4 DEF LocalOK
<1>. QED
  BY <1>4, <1>5

LEMMA SameReport ==
  ASSUME IInv, NEW b \in Backup, UNCHANGED <<cache, job, seen, missed>>
  PROVE  MayReport(b, obj[b].phase)
BY DEF IInv, MayReport, SuccessIsReal, IgnoredHasNoJob

\* A Reconcile that returns without having written anything.
LEMMA PlainReturnTurn ==
  ASSUME IInv, NEW b \in Backup, pc[b] # "idle", Done(b) \/ Fail(b),
         UNCHANGED <<obj, cache, job, seen, missed>>
  PROVE  Turn(b) /\ LocalOK(b)'
<1>1. obj \in [Backup -> Object]
  BY DEF IInv, TypeOK
<1>2. obj[b].phase \in Phase /\ obj[b].label \in BOOLEAN
  BY <1>1 DEF Object
<1>3. Written(b, obj[b].phase, obj[b].label, FALSE)
  BY <1>1 DEF Written, Object
<1>4. UNCHANGED <<cache, job, seen, missed>> /\ MayReport(b, obj[b].phase)
  BY SameReport
<1>. QED
  BY <1>2, <1>3, <1>4, ReturnTurn

(***************************************************************************)
(* A step that reports a phase and goes on when that worked.               *)
(***************************************************************************)
LEMMA ReportTurn ==
  ASSUME IInv, NEW b \in Backup, pc[b] # "idle",
         NEW step \in {"phase", "label", "create", "unlabel"},
         NEW phase \in Phase, NEW label \in BOOLEAN, NEW ok \in BOOLEAN,
         Written(b, phase, label, ok),
         IF ok THEN Goto(b, step, obj'[b]) ELSE Fail(b),
         UNCHANGED <<cache, job, seen, missed>>,
         mem[b].version = obj[b].version => MayReport(b, phase),
         step \in {"label", "create"} => phase \notin Terminal
  PROVE  Turn(b) /\ LocalOK(b)'
<1>1. CASE ok
  <2>1. Written(b, phase, label, TRUE)
    BY <1>1
  <2>2. MayReport(b, phase)
    BY <2>1 DEF Written
  <2>3. Goto(b, step, obj'[b])
    BY <1>1
  <2>4. missed \subseteq missed' /\ missed' \subseteq Backup
    BY DEF IInv, TypeOK
  <2>. QED
    BY <2>1, <2>2, <2>3, <2>4, WriteTurn
<1>2. CASE ~ok
  BY <1>2, ReturnTurn
<1>. QED
  BY <1>1, <1>2

-----------------------------------------------------------------------------
(***************************************************************************)
(* The steps of a Reconcile, one by one.  Where a step reports a phase,    *)
(* the version tells that the object still has the phase the Reconcile     *)
(* has read.                                                               *)
(***************************************************************************)
LEMMA Fresh ==
  ASSUME IInv, NEW b \in Backup, pc[b] \notin {"idle", "unlabel"},
         mem[b].version = obj[b].version
  PROVE  mem[b] = obj[b]
BY DEF IInv, CopiesOK

LEMMA SetStartTimeTurn ==
  ASSUME IInv, NEW b \in Backup, SetStartTime(b)
  PROVE  Turn(b) /\ LocalOK(b)'
<1>0. Typed /\ mem[b].phase \in Phase /\ obj[b].label \in BOOLEAN
  BY TypeOKParts DEF IInv, Typed, Object
<1>1. UNCHANGED <<cache, job, seen, missed>> /\ pc[b] = "start"
  BY DEF SetStartTime
<1>2. CASE Goto(b, "phase", mem[b]) /\ UNCHANGED obj
  BY <1>0, <1>1, <1>2, ReadTurn DEF Typed, Steps
<1>3. ASSUME NEW ok \in BOOLEAN, UpdateCRStatus(b, mem[b].phase, ok),
             IF ok THEN Goto(b, "phase", obj'[b]) ELSE Fail(b)
      PROVE  Turn(b) /\ LocalOK(b)'
  <2>1. Written(b, mem[b].phase, obj[b].label, ok)
    BY <1>0, <1>3, StatusWrites DEF Typed
  <2>2. mem[b].version = obj[b].version => MayReport(b, mem[b].phase)
    BY <1>1, Fresh, SameReport
  <2>. QED
    BY <1>0, <1>1, <1>3, <2>1, <2>2, ReportTurn
<1>. QED
  BY <1>2, <1>3 DEF SetStartTime

LEMMA CheckPhaseTurn ==
  ASSUME IInv, NEW b \in Backup, CheckPhase(b)
  PROVE  Turn(b) /\ LocalOK(b)'
<1>0. Typed /\ obj[b].phase \in Phase
  BY TypeOKParts DEF IInv, Typed, Object
<1>1. UNCHANGED <<cache, job, seen, missed>> /\ pc[b] = "phase"
  BY DEF CheckPhase
<1>2. ASSUME NEW ok \in BOOLEAN, UpdateCR(b, FALSE, ok),
             IF ok THEN Done(b) ELSE Fail(b)
      PROVE  Turn(b) /\ LocalOK(b)'
  <2>1. Written(b, obj[b].phase, FALSE, ok)
    BY <1>0, <1>2, LabelWrites DEF Typed
  <2>2. Done(b) \/ Fail(b)
    BY <1>2
  <2>. QED
    BY <1>0, <1>1, <2>1, <2>2, SameReport, ReturnTurn
<1>3. CASE mem[b].phase \notin Terminal /\ Goto(b, "list", mem[b]) /\ UNCHANGED obj
  BY <1>0, <1>1, <1>3, ReadTurn DEF Typed, Steps
<1>. QED
  BY <1>2, <1>3 DEF CheckPhase

\* At these steps the Reconcile has read that its backup has not ended.
LEMMA NotEnded ==
  ASSUME IInv, NEW b \in Backup, mem[b].version = obj[b].version,
         \/ pc[b] \in Steps \ {"idle", "start", "phase", "unlabel"}
         \/ pc[b] = "phase" /\ mem[b].phase \notin Terminal
  PROVE  obj[b].phase \notin Terminal
<1>1. mem[b] = obj[b]
  BY Fresh
<1>. QED
  BY <1>1 DEF IInv, StepOK

LEMMA RejectTurn ==
  ASSUME IInv, NEW b \in Backup, Reject(b)
  PROVE  Turn(b) /\ LocalOK(b)'
<1>0. Typed /\ obj[b].label \in BOOLEAN /\ "Failed" \in Phase
  BY TypeOKParts DEF IInv, Typed, Object, Phase, Terminal
<1>1. UNCHANGED <<cache, job, seen, missed>> /\ pc[b] # "idle"
  BY DEF Reject
<1>2. PICK ok \in BOOLEAN : UpdateCRStatus(b, "Failed", ok) /\ (Done(b) \/ Fail(b))
  BY DEF Reject
<1>3. Written(b, "Failed", obj[b].label, ok)
  BY <1>0, <1>2, StatusWrites DEF Typed
<1>4. mem[b].version = obj[b].version => MayReport(b, "Failed")
  BY NotEnded DEF Reject, MayReport, Steps
<1>. QED
  BY <1>0, <1>1, <1>2, <1>3, <1>4, ReturnTurn

LEMMA SetRunningTurn ==
  ASSUME IInv, NEW b \in Backup, SetRunning(b)
  PROVE  Turn(b) /\ LocalOK(b)'
<1>0. Typed /\ obj[b].label \in BOOLEAN /\ "Running" \in Phase
  BY TypeOKParts DEF IInv, Typed, Object, Phase
<1>1. UNCHANGED <<cache, job, seen, missed>> /\ pc[b] = "prepare"
  BY DEF SetRunning
<1>2. PICK ok \in BOOLEAN : /\ UpdateCRStatus(b, "Running", ok)
                            /\ IF ok THEN Goto(b, "label", obj'[b]) ELSE Fail(b)
  BY DEF SetRunning
<1>3. Written(b, "Running", obj[b].label, ok)
  BY <1>0, <1>2, StatusWrites DEF Typed
<1>4. mem[b].version = obj[b].version => MayReport(b, "Running")
  BY <1>1, NotEnded DEF MayReport, Steps
<1>. QED
  BY <1>0, <1>1, <1>2, <1>3, <1>4, ReportTurn DEF Terminal

LEMMA SetLabelTurn ==
  ASSUME IInv, NEW b \in Backup, SetLabel(b)
  PROVE  Turn(b) /\ LocalOK(b)'
<1>0. Typed /\ obj[b].phase \in Phase
  BY TypeOKParts DEF IInv, Typed, Object
<1>1. UNCHANGED <<cache, job, seen, missed>> /\ pc[b] = "label"
  BY DEF SetLabel
<1>2. PICK ok \in BOOLEAN : /\ UpdateCR(b, TRUE, ok)
                            /\ IF ok THEN Goto(b, "create", obj'[b]) ELSE Fail(b)
  BY DEF SetLabel
<1>3. Written(b, obj[b].phase, TRUE, ok)
  BY <1>0, <1>2, LabelWrites DEF Typed
<1>4. obj[b].phase \notin Terminal
  BY <1>1 DEF IInv, StepOK
<1>. QED
  BY <1>0, <1>1, <1>2, <1>3, <1>4, SameReport, ReportTurn

LEMMA FinishBackupTurn ==
  ASSUME IInv, NEW b \in Backup, FinishBackup(b)
  PROVE  Turn(b) /\ LocalOK(b)'
<1>. DEFINE phase == IF job[b] = "failed" THEN "Failed" ELSE "Succeeded"
<1>0. Typed /\ obj[b].label \in BOOLEAN /\ phase \in Phase
  BY TypeOKParts DEF IInv, Typed, Object, Phase, Terminal
<1>1. UNCHANGED <<cache, job, seen, missed>> /\ pc[b] = "finish"
  BY DEF FinishBackup
<1>2. PICK ok \in BOOLEAN : /\ UpdateCRStatus(b, phase, ok)
                            /\ IF ok THEN Goto(b, "unlabel", obj'[b]) ELSE Fail(b)
  BY DEF FinishBackup
<1>3. Written(b, phase, obj[b].label, ok)
  BY <1>0, <1>2, StatusWrites DEF Typed
<1>4. job[b] \in {"complete", "failed"}
  BY <1>1 DEF IInv, StepOK
<1>5. mem[b].version = obj[b].version => MayReport(b, phase)
  BY <1>1, <1>4, NotEnded DEF MayReport, Steps
<1>. QED
  BY <1>0, <1>1, <1>2, <1>3, <1>5, ReportTurn

LEMMA DropLabelTurn ==
  ASSUME IInv, NEW b \in Backup, DropLabel(b)
  PROVE  Turn(b) /\ LocalOK(b)'
<1>0. Typed /\ obj[b].phase \in Phase
  BY TypeOKParts DEF IInv, Typed, Object
<1>1. UNCHANGED <<cache, job, seen, missed>> /\ pc[b] = "unlabel"
  BY DEF DropLabel
<1>2. PICK ok \in BOOLEAN : UpdateCR(b, FALSE, ok) /\ (Done(b) \/ Fail(b))
  BY DEF DropLabel
<1>3. Written(b, obj[b].phase, FALSE, ok)
  BY <1>0, <1>2, LabelWrites DEF Typed
<1>. QED
  BY <1>0, <1>1, <1>2, <1>3, SameReport, ReturnTurn

LEMMA IgnoreBackupTurn ==
  ASSUME IInv, NEW b \in Backup, IgnoreBackup(b)
  PROVE  Turn(b) /\ LocalOK(b)'
<1>. DEFINE copy == [mem[b] EXCEPT !.phase = "Ignored"]
<1>0. /\ Typed /\ obj[b].label \in BOOLEAN
      /\ "Ignored" \in Phase /\ "unlabel" \in {"phase", "label", "create", "unlabel"}
  BY TypeOKParts DEF IInv, Typed, Object, Phase, Terminal
<1>1. UNCHANGED <<cache, job, seen>> /\ pc[b] \in {"ignore", "miss"}
  BY DEF IgnoreBackup
<1>2. PICK ok \in BOOLEAN :
        /\ UpdateCRStatus(b, "Ignored", ok)
        /\ Goto(b, "unlabel", IF ok THEN obj'[b] ELSE copy)
  BY DEF IgnoreBackup
<1>3. Written(b, "Ignored", obj[b].label, ok)
  BY <1>0, <1>2, StatusWrites DEF Typed
<1>4. missed \subseteq missed' /\ missed' \subseteq Backup
  BY DEF IgnoreBackup, IInv, TypeOK
<1>5. obj'[b].phase = "Ignored" => job[b] = "none" \/ b \in missed'
  <2>1. CASE pc[b] = "ignore"
    BY <2>1 DEF IInv, StepOK
  <2>2. CASE pc[b] = "miss"
    BY <2>2 DEF IgnoreBackup
  <2>. QED
    BY <1>1, <2>1, <2>2
<1>6. mem[b].version = obj[b].version => obj[b].phase \notin Terminal
  BY <1>1, NotEnded DEF Steps
<1>7. CASE ok
  <2>1. Written(b, "Ignored", obj[b].label, TRUE) /\ Goto(b, "unlabel", obj'[b])
    BY <1>2, <1>3, <1>7
  <2>2. MayReport(b, "Ignored")
    BY <1>5, <1>6, <2>1 DEF MayReport, Written
  <2>. QED
    BY <1>0, <1>1, <1>4, <2>1, <2>2, WriteTurn
<1>8. CASE ~ok
  <2>1. copy \in Object /\ copy.version = mem[b].version
    BY <1>0 DEF Typed, Object
  <2>2. Goto(b, "unlabel", copy)
    BY <1>2, <1>8
  <2>3. /\ pc'[b] = "unlabel" /\ mem'[b] = copy /\ queue' = queue
        /\ pc' \in [Backup -> Steps] /\ mem' \in [Backup -> Object]
        /\ \A c \in Backup \ {b} : pc'[c] = pc[c] /\ mem'[c] = mem[c]
    BY <1>0, <2>1, <2>2, GotoMoves DEF Steps
  <2>4. /\ obj'[b] \in Object /\ obj'[b].version >= obj[b].version
        /\ obj[b].version \in Nat /\ cache[b].version \in Nat
        /\ mem[b].version \in Nat
        /\ cache[b].version <= obj[b].version /\ mem[b].version <= obj[b].version
    BY <1>0, <1>3 DEF Written, Typed, Object
  <2>5. Turn(b)
    <3>1. obj[b].phase \in Terminal => obj'[b].phase = obj[b].phase
      BY <1>3, <1>6 DEF Written
    <3>. QED
      BY <1>0, <1>1, <1>3, <1>4, <2>3, <3>1 DEF Turn, Typed, Written
  <2>6. CopiesOK(b)'
    <3>1. cache[b].version = obj'[b].version => cache[b] = obj'[b]
      <4>1. /\ obj'[b].version \in Nat
            /\ obj'[b].version = obj[b].version => obj'[b] = obj[b]
        BY <1>3, <2>4 DEF Written, Object
      <4>2. cache[b].version = obj[b].version => cache[b] = obj[b]
        BY DEF IInv, CopiesOK
      <4>. QED
        BY <2>4, <4>1, <4>2
    <3>. QED
      BY <1>1, <2>3, <3>1 DEF CopiesOK
  <2>7. StepOK(b)'
    BY <1>1, <2>3, <2>4 DEF StepOK, IInv, Object
  <2>8. mem'[b].version <= obj'[b].version
    BY <2>1, <2>3, <2>4 DEF Object
  <2>9. obj'[b].phase = "Succeeded" => job[b] = "complete"
    BY <1>3 DEF IInv, Written, SuccessIsReal
  <2>. QED
    BY <1>1, <1>5, <2>5, <2>6, <2>7, <2>8, <2>9 DEF LocalOK
<1>. QED
  BY <1>7, <1>8

\* A Job is created for a backup that is announced as running.
LEMMA CreateJobTurn ==
  ASSUME IInv, NEW b \in Backup, CreateJob(b)
  PROVE  Turn(b) /\ LocalOK(b)'
<1>0. Typed /\ Absent.version = 0
  BY TypeOKParts, AbsentObject DEF IInv
<1>1. UNCHANGED <<obj, cache, seen, missed>> /\ pc[b] = "create"
  BY DEF CreateJob
<1>2. PICK done \in BOOLEAN :
        /\ done => job[b] = "none"
        /\ job' = IF done THEN [job EXCEPT ![b] = "active"] ELSE job
        /\ Done(b) \/ Fail(b)
  BY DEF CreateJob
<1>3. /\ pc'[b] = "idle" /\ mem'[b] = Absent
      /\ queue' = queue \/ queue' = queue \cup {b}
      /\ pc' \in [Backup -> Steps] /\ mem' \in [Backup -> Object]
      /\ \A c \in Backup \ {b} : pc'[c] = pc[c] /\ mem'[c] = mem[c]
  BY <1>0, <1>2, DoneMoves, FailMoves
<1>4. obj[b].phase \notin Terminal /\ obj[b].version > 0 /\ obj[b].version \in Nat
  BY <1>0, <1>1 DEF IInv, StepOK, Typed, Object
<1>5. Turn(b)
  BY <1>0, <1>1, <1>2, <1>3, <1>4 DEF Turn, Typed, Object
<1>6. LocalOK(b)'
  BY <1>0, <1>1, <1>3, <1>4 DEF LocalOK, CopiesOK, StepOK, IInv, Terminal
<1>. QED
  BY <1>5, <1>6

LEMMA HandleJobTurn ==
  ASSUME IInv, NEW b \in Backup, HandleJob(b)
  PROVE  Turn(b) /\ LocalOK(b)'
<1>0. Typed
  BY TypeOKParts DEF IInv
<1>1. UNCHANGED <<obj, cache, job, seen, missed>> /\ pc[b] = "handle"
  BY DEF HandleJob
<1>2. mem[b].phase \notin Terminal /\ seen' \in [Backup -> BOOLEAN]
  BY <1>0, <1>1 DEF IInv, StepOK, Steps, Typed
<1>3. CASE job[b] = "none"
  <2>1. Goto(b, "ignore", mem[b])
    BY <1>3 DEF HandleJob, Lags
  <2>. QED
    BY <1>1, <1>2, <1>3, <2>1, ReadTurn DEF Steps
<1>4. CASE job[b] = "active"
  <2>1. Fail(b) \/ Goto(b, "miss", mem[b])
    BY <1>4 DEF HandleJob
  <2>2. CASE Fail(b)
    BY <1>1, <2>2, PlainReturnTurn
  <2>3. CASE Goto(b, "miss", mem[b])
    BY <1>1, <1>2, <2>3, ReadTurn DEF Steps
  <2>. QED
    BY <2>1, <2>2, <2>3
<1>5. CASE job[b] \in {"complete", "failed"}
  <2>1. Goto(b, "finish", mem[b])
    BY <1>5 DEF HandleJob, Lags
  <2>. QED
    BY <1>1, <1>2, <1>5, <2>1, ReadTurn DEF Steps
<1>. QED
  BY <1>0, <1>3, <1>4, <1>5 DEF Typed

LEMMA ReconcileTurn ==
  ASSUME IInv, NEW b \in Backup, Reconcile(b)
  PROVE  Turn(b) /\ LocalOK(b)'
<1>0. Typed
  BY TypeOKParts DEF IInv
<1>1. CASE Retry(b)
  BY <1>1, PlainReturnTurn DEF Retry
<1>2. CASE ListRunning(b)
  <2>1. mem[b].phase \notin Terminal /\ seen' \in [Backup -> BOOLEAN]
    BY <1>0, <1>2 DEF ListRunning, IInv, StepOK, Steps, Typed
  <2>. QED
    BY <1>2, <2>1, ReadTurn DEF ListRunning, Steps
<1>3. CASE ListJobs(b)
  <2>1. mem[b].phase \notin Terminal /\ seen' \in [Backup -> BOOLEAN]
    BY <1>0, <1>3 DEF ListJobs, IInv, StepOK, Steps, Typed
  <2>2. PICK found : Goto(b, IF seen[b] /\ found # {} THEN "handle" ELSE "prepare", mem[b])
    BY <1>3 DEF ListJobs
  <2>. QED
    BY <1>3, <2>1, <2>2, ReadTurn DEF ListJobs, Steps
<1>. QED
  BY <1>1, <1>2, <1>3, SetStartTimeTurn, CheckPhaseTurn, RejectTurn,
     SetRunningTurn, SetLabelTurn, CreateJobTurn, HandleJobTurn,
     FinishBackupTurn, IgnoreBackupTurn, DropLabelTurn DEF Reconcile

-----------------------------------------------------------------------------
(***************************************************************************)
(* The number of workers: only Start makes a backup busy.                  *)
(***************************************************************************)
LEMMA BusyShrinks ==
  ASSUME Cardinality(Busy) <= MaxConcurrent, Busy' \subseteq Busy
  PROVE  Cardinality(Busy') <= MaxConcurrent
<1>1. IsFiniteSet(Busy)
  BY BackupAssumption, FS_Subset DEF Busy
<1>2. /\ IsFiniteSet(Busy') /\ Cardinality(Busy') <= Cardinality(Busy)
      /\ Cardinality(Busy) \in Nat /\ Cardinality(Busy') \in Nat
  BY <1>1, FS_Subset, FS_CardinalityType
<1>. QED
  BY <1>2, MaxConcurrentAssumption

LEMMA BusyGrows ==
  ASSUME Cardinality(Busy) < MaxConcurrent, NEW b \in Backup,
         Busy' = Busy \cup {b}, b \notin Busy
  PROVE  Cardinality(Busy') <= MaxConcurrent
<1>1. IsFiniteSet(Busy)
  BY BackupAssumption, FS_Subset DEF Busy
<1>2. Cardinality(Busy') = Cardinality(Busy) + 1 /\ Cardinality(Busy) \in Nat
  BY <1>1, FS_AddElement, FS_CardinalityType
<1>. QED
  BY <1>2, MaxConcurrentAssumption

LEMMA TurnIInv ==
  ASSUME IInv, NEW b \in Backup, Turn(b), LocalOK(b)'
  PROVE  IInv'
<1>0. Typed /\ Cardinality(Busy) <= MaxConcurrent
  BY TypeOKParts DEF IInv
<1>1. \A c \in Backup : /\ cache[c].version \in Nat /\ obj[c].version \in Nat
                         /\ obj'[c].version \in Nat
                         /\ obj'[c].version >= obj[c].version
                         /\ cache[c].version <= obj[c].version
  <2>. SUFFICES ASSUME NEW c \in Backup
                PROVE  /\ cache[c].version \in Nat /\ obj[c].version \in Nat
                       /\ obj'[c].version \in Nat
                       /\ obj'[c].version >= obj[c].version
                       /\ cache[c].version <= obj[c].version
    OBVIOUS
  <2>1. /\ cache[c] \in Object /\ obj[c] \in Object /\ obj'[c] \in Object
        /\ cache[c].version <= obj[c].version
    BY <1>0 DEF Turn, Typed
  <2>2. cache[c].version \in Nat /\ obj[c].version \in Nat /\ obj'[c].version \in Nat
    BY <2>1 DEF Object
  <2>3. obj'[c].version >= obj[c].version
    BY <2>2 DEF Turn
  <2>. QED
    BY <2>1, <2>2, <2>3
<1>2. Typed'
  <2>1. queue' \in SUBSET {c \in Backup : obj'[c].version > 0}
    <3>1. \A c \in queue : c \in Backup /\ obj'[c].version > 0
      BY <1>0, <1>1 DEF Typed
    <3>2. obj'[b].version > 0
      BY <1>1 DEF IInv, StepOK, Turn
    <3>. QED
      BY <3>1, <3>2 DEF Turn
  <2>2. \A c \in Backup : /\ cache'[c].version <= obj'[c].version
                           /\ mem'[c].version <= obj'[c].version
    BY <1>0, <1>1 DEF Turn, Typed, LocalOK
  <2>. QED
    BY <1>0, <2>1, <2>2 DEF Turn, Typed
<1>3. Cardinality(Busy') <= MaxConcurrent
  <2>1. Busy' \subseteq Busy
    BY DEF Busy, Turn
  <2>. QED
    BY <1>0, <2>1, BusyShrinks
<1>4. TypeOK'
  BY <1>2, <1>3 DEF TypeOK, Typed, Busy
<1>5. ASSUME NEW c \in Backup PROVE CopiesOK(c)' /\ StepOK(c)'
  <2>1. CASE c = b
    BY <2>1 DEF LocalOK
  <2>2. CASE c # b
    BY <2>2 DEF IInv, Turn, CopiesOK, StepOK
  <2>. QED
    BY <2>1, <2>2
<1>6. ASSUME NEW c \in Backup
      PROVE  /\ obj'[c].phase = "Succeeded" => job'[c] = "complete"
             /\ obj'[c].phase = "Ignored" => job'[c] = "none" \/ c \in missed'
  <2>1. CASE c = b
    BY <2>1 DEF LocalOK
  <2>2. CASE c # b
    BY <2>2 DEF IInv, Turn, SuccessIsReal, IgnoredHasNoJob
  <2>. QED
    BY <2>1, <2>2
<1>. QED
  BY <1>4, <1>5, <1>6 DEF IInv, SuccessIsReal, IgnoredHasNoJob

LEMMA StartIInv ==
  ASSUME IInv, NEW b \in Backup, Start(b)
  PROVE  IInv'
<1>0. Typed
  BY TypeOKParts DEF IInv
<1>1. UNCHANGED <<obj, cache, job, seen, missed>> /\ b \in queue /\ queue' = queue \ {b}
  BY DEF Start
<1>2. /\ pc'[b] = "start" /\ mem'[b] = cache[b]
      /\ \A c \in Backup \ {b} : pc'[c] = pc[c] /\ mem'[c] = mem[c]
      /\ pc' \in [Backup -> Steps] /\ mem' \in [Backup -> Object]
  BY <1>0 DEF Start, Typed, Steps
<1>3. Typed'
  BY <1>0, <1>1, <1>2 DEF Typed
<1>4. Cardinality(Busy') <= MaxConcurrent
  <2>1. Busy' = Busy \cup {b} /\ b \notin Busy /\ Cardinality(Busy) < MaxConcurrent
    BY <1>2 DEF Busy, Start
  <2>. QED
    BY <2>1, BusyGrows
<1>5. TypeOK'
  BY <1>3, <1>4 DEF TypeOK, Typed, Busy
<1>6. ASSUME NEW c \in Backup PROVE CopiesOK(c)' /\ StepOK(c)'
  <2>1. CASE c = b
    BY <1>0, <1>1, <1>2, <2>1 DEF IInv, CopiesOK, StepOK, Typed
  <2>2. CASE c # b
    BY <1>1, <1>2, <2>2 DEF IInv, CopiesOK, StepOK
  <2>. QED
    BY <2>1, <2>2
<1>. QED
  BY <1>1, <1>5, <1>6 DEF IInv, SuccessIsReal, IgnoredHasNoJob

LEMMA CreateBackupIInv ==
  ASSUME IInv, NEW b \in Backup, CreateBackup(b)
  PROVE  IInv'
<1>0. Typed /\ Cardinality(Busy) <= MaxConcurrent
  BY TypeOKParts DEF IInv
<1>1. UNCHANGED <<job, pc, mem, seen, missed>> /\ queue' = queue \cup {b}
  BY DEF CreateBackup
<1>2. /\ obj' \in [Backup -> Object] /\ cache' \in [Backup -> Object]
      /\ obj'[b].version = 1 /\ obj'[b].phase = obj[b].phase
      /\ cache'[b] = obj'[b]
      /\ \A c \in Backup \ {b} : obj'[c] = obj[c] /\ cache'[c] = cache[c]
  BY <1>0 DEF CreateBackup, Typed, Object
<1>3. obj[b].version = 0 /\ mem[b].version = 0 /\ pc[b] = "idle"
  BY <1>0 DEF CreateBackup, Typed, Object, IInv, StepOK
<1>4. Typed'
  BY <1>0, <1>1, <1>2, <1>3 DEF Typed
<1>5. TypeOK'
  BY <1>0, <1>1, <1>4 DEF TypeOK, Typed, Busy
<1>6. ASSUME NEW c \in Backup PROVE CopiesOK(c)' /\ StepOK(c)'
  <2>1. CASE c = b
    BY <1>1, <1>2, <1>3, <2>1 DEF CopiesOK, StepOK, Steps
  <2>2. CASE c # b
    BY <1>1, <1>2, <2>2 DEF IInv, CopiesOK, StepOK
  <2>. QED
    BY <2>1, <2>2
<1>. QED
  BY <1>1, <1>2, <1>5, <1>6 DEF IInv, SuccessIsReal, IgnoredHasNoJob

LEMMA FinishJobIInv ==
  ASSUME IInv, NEW b \in Backup, FinishJob(b)
  PROVE  IInv'
<1>0. Typed /\ Cardinality(Busy) <= MaxConcurrent
  BY TypeOKParts DEF IInv
<1>1. UNCHANGED <<obj, cache, pc, mem, seen, missed>> /\ queue' = queue \cup {b}
  BY DEF FinishJob
<1>2. /\ job[b] = "active" /\ job'[b] \in {"complete", "failed"}
      /\ job' \in [Backup -> {"none", "active", "complete", "failed"}]
      /\ \A c \in Backup \ {b} : job'[c] = job[c]
  BY <1>0 DEF FinishJob, Typed
<1>3. /\ obj[b].version > 0 /\ obj[b].phase # "Succeeded"
      /\ obj[b].phase = "Ignored" => b \in missed
  BY <1>2 DEF IInv, StepOK, SuccessIsReal, IgnoredHasNoJob
<1>4. Typed'
  BY <1>0, <1>1, <1>2, <1>3 DEF Typed
<1>5. TypeOK'
  BY <1>0, <1>1, <1>4 DEF TypeOK, Typed, Busy
<1>6. ASSUME NEW c \in Backup PROVE CopiesOK(c)' /\ StepOK(c)'
  BY <1>1, <1>2 DEF IInv, CopiesOK, StepOK
<1>. QED
  BY <1>1, <1>2, <1>3, <1>5, <1>6 DEF IInv, SuccessIsReal, IgnoredHasNoJob

LEMMA SyncCacheIInv ==
  ASSUME IInv, NEW b \in Backup, SyncCache(b)
  PROVE  IInv'
<1>0. Typed /\ Cardinality(Busy) <= MaxConcurrent
  BY TypeOKParts DEF IInv
<1>1. UNCHANGED <<obj, job, queue, pc, mem, seen, missed>>
  BY DEF SyncCache
<1>2. /\ cache' \in [Backup -> Object] /\ cache'[b] = obj[b]
      /\ \A c \in Backup \ {b} : cache'[c] = cache[c]
  BY <1>0 DEF SyncCache, Typed
<1>3. Typed'
  BY <1>0, <1>1, <1>2 DEF Typed, Object
<1>4. TypeOK'
  BY <1>0, <1>1, <1>3 DEF TypeOK, Typed, Busy
<1>5. ASSUME NEW c \in Backup PROVE CopiesOK(c)' /\ StepOK(c)'
  BY <1>1, <1>2 DEF IInv, CopiesOK, StepOK
<1>. QED
  BY <1>1, <1>4, <1>5 DEF IInv, SuccessIsReal, IgnoredHasNoJob

LEMMA CrashIInv ==
  ASSUME IInv, Crash
  PROVE  IInv'
<1>0. Typed /\ Cardinality(Busy) <= MaxConcurrent
  BY TypeOKParts DEF IInv
<1>1. /\ UNCHANGED <<obj, job, seen, missed>> /\ cache' = obj
      /\ queue' = {b \in Backup : obj[b].version > 0}
      /\ pc' = [b \in Backup |-> "idle"] /\ mem' = [b \in Backup |-> Absent]
  BY DEF Crash
<1>2. Typed'
  BY <1>0, <1>1, AbsentObject DEF Typed, Object, Steps
<1>3. Cardinality(Busy') <= MaxConcurrent
  <2>1. Busy' \subseteq Busy
    BY <1>1 DEF Busy
  <2>. QED
    BY <1>0, <2>1, BusyShrinks
<1>4. TypeOK'
  BY <1>2, <1>3 DEF TypeOK, Typed, Busy
<1>5. ASSUME NEW c \in Backup PROVE CopiesOK(c)' /\ StepOK(c)'
  BY <1>1 DEF IInv, CopiesOK, StepOK, Steps
<1>. QED
  BY <1>1, <1>4, <1>5 DEF IInv, SuccessIsReal, IgnoredHasNoJob

LEMMA InitIInv == Init => IInv
<1>. SUFFICES ASSUME Init PROVE IInv
  OBVIOUS
<1>1. Typed
  BY AbsentObject DEF Init, Typed, Steps
<1>2. Cardinality(Busy) <= MaxConcurrent
  <2>1. Busy = {}
    BY DEF Init, Busy
  <2>. QED
    BY <2>1, FS_EmptySet, MaxConcurrentAssumption
<1>3. \A b \in Backup : obj[b].phase = ""
  BY DEF Init, Absent
<1>4. \A b \in Backup : CopiesOK(b) /\ StepOK(b)
  BY DEF Init, CopiesOK, StepOK, Steps
<1>. QED
  BY <1>1, <1>2, <1>3, <1>4, TypeOKParts DEF IInv, SuccessIsReal, IgnoredHasNoJob

LEMMA NextIInv == IInv /\ [Next]_vars => IInv'
<1>. SUFFICES ASSUME IInv, [Next]_vars PROVE IInv'
  OBVIOUS
<1>1. ASSUME NEW b \in Backup, Reconcile(b) PROVE IInv'
  BY <1>1, ReconcileTurn, TurnIInv
<1>2. CASE UNCHANGED vars
  BY <1>2 DEF vars, IInv, TypeOK, CopiesOK, StepOK, SuccessIsReal, IgnoredHasNoJob
<1>. QED
  BY <1>1, <1>2, StartIInv, CreateBackupIInv, FinishJobIInv, SyncCacheIInv,
     CrashIInv DEF Next

LEMMA Invariance == Spec => []IInv
BY InitIInv, NextIInv, PTL DEF Spec

(***************************************************************************)
(* The backups keep their types, the queue holds existing backups only, no *)
(* copy is newer than the object, and never are more Reconciles running    *)
(* than backupctr-maxconcurrent workers.                                   *)
(***************************************************************************)
THEOREM TypeCorrect == Spec => []TypeOK
<1>1. IInv => TypeOK
  BY DEF IInv
<1>. QED
  BY <1>1, Invariance, PTL

(***************************************************************************)
(* A backup is Succeeded only with its own Job complete, whatever fails or *)
(* crashes between the Job's end and the report.                           *)
(***************************************************************************)
THEOREM SuccessProved == Spec => []SuccessIsReal
<1>1. IInv => SuccessIsReal
  BY DEF IInv
<1>. QED
  BY <1>1, Invariance, PTL

(***************************************************************************)
(* A backup that is Ignored never had a Job of its own, and never gets     *)
(* one, although a Job is created without looking at the phase again: the  *)
(* only way to lose a Job's result is that GetJob does not find the Job.   *)
(***************************************************************************)
THEOREM IgnoredProved == Spec => []IgnoredHasNoJob
<1>1. IInv => IgnoredHasNoJob
  BY DEF IInv
<1>. QED
  BY <1>1, Invariance, PTL

(***************************************************************************)
(* No step changes the phase of a backup that has ended, stale as the copy *)
(* may be that a worker holds.                                             *)
(***************************************************************************)
THEOREM TerminalProved == Spec => TerminalIsFinal
<1>. DEFINE Kept == \A b \in Backup :
                      obj[b].phase \in Terminal => obj'[b].phase = obj[b].phase
<1>1. IInv /\ [Next]_vars => [Kept]_vars
  <2>. SUFFICES ASSUME IInv, Next PROVE Kept
    OBVIOUS
  <2>1. ASSUME NEW b \in Backup, Reconcile(b) PROVE Kept
    BY <2>1, ReconcileTurn DEF Turn
  <2>2. ASSUME NEW b \in Backup, CreateBackup(b) PROVE Kept
    BY <2>2 DEF CreateBackup, IInv, TypeOK, Object
  <2>. QED
    BY <2>1, <2>2 DEF Next, Start, FinishJob, SyncCache, Crash
<1>. QED
  BY <1>1, Invariance, PTL DEF Spec, TerminalIsFinal

-----------------------------------------------------------------------------
(***************************************************************************)
(* Without faults no backup is forgotten.                                  *)
(***************************************************************************)
LEMMA SaveTaken ==
  ASSUME ~Faulty, NEW b \in Backup, NEW new, NEW ok \in BOOLEAN, Save(b, new, ok)
  PROVE  IF ok THEN mem[b].version = obj[b].version
               ELSE mem[b].version # obj[b].version /\ obj' = obj
BY DEF Save

LEMMA ReconcileKept ==
  ASSUME ~Faulty, NInv, NEW b \in Backup, Reconcile(b)
  PROVE  KeptOK(b)'
<1>0. IInv /\ Typed
  BY TypeOKParts DEF NInv, IInv
<1>1. CASE Fail(b)
  BY <1>0, <1>1, FailMoves DEF KeptOK
<1>2. ASSUME NEW step \in Steps \ {"idle", "unlabel"}, NEW copy, Goto(b, step, copy)
      PROVE  KeptOK(b)'
  BY <1>0, <1>2, GotoMoves DEF KeptOK
<1>3. CASE SetStartTime(b)
  BY <1>1, <1>2, <1>3 DEF SetStartTime, Steps
<1>4. CASE CheckPhase(b)
  <2>1. ASSUME mem[b].phase \in Terminal, NEW ok \in BOOLEAN, ok,
               UpdateCR(b, FALSE, ok), Done(b)
        PROVE  KeptOK(b)'
    <3>1. Written(b, obj[b].phase, FALSE, ok)
      BY <1>0, <2>1, LabelWrites DEF Typed, Object
    <3>2. mem[b] = obj[b]
      BY <1>0, <1>4, <2>1, <3>1, Fresh DEF CheckPhase, Written
    <3>. QED
      BY <1>0, <2>1, <3>1, <3>2, DoneMoves DEF KeptOK, Written
  <2>. QED
    BY <1>1, <1>2, <1>4, <2>1 DEF CheckPhase, Steps
<1>5. CASE ListRunning(b) \/ ListJobs(b)
  BY <1>2, <1>5 DEF ListRunning, ListJobs, Steps
<1>6. CASE SetRunning(b) \/ SetLabel(b)
  BY <1>1, <1>2, <1>6 DEF SetRunning, SetLabel, Steps
<1>7. CASE CreateJob(b)
  <2>1. CASE job[b] = "none" /\ job' = [job EXCEPT ![b] = "active"] /\ Done(b)
    BY <1>0, <2>1, DoneMoves DEF KeptOK, Typed
  <2>. QED
    BY <1>1, <1>7, <2>1 DEF CreateJob
<1>8. CASE HandleJob(b)
  <2>1. job[b] \in {"none", "active", "complete", "failed"}
    BY <1>0 DEF Typed
  <2>. QED
    BY <1>1, <1>2, <1>8, <2>1 DEF HandleJob, Steps
<1>9. CASE FinishBackup(b)
  <2>. DEFINE phase == IF job[b] = "failed" THEN "Failed" ELSE "Succeeded"
  <2>1. ASSUME NEW ok \in BOOLEAN, ok, UpdateCRStatus(b, phase, ok),
               Goto(b, "unlabel", obj'[b])
        PROVE  KeptOK(b)'
    <3>1. phase \in Phase /\ phase \in Terminal
      BY DEF Phase, Terminal
    <3>2. Written(b, phase, obj[b].label, ok)
      BY <1>0, <2>1, <3>1, StatusWrites DEF Typed
    <3>. QED
      BY <1>0, <2>1, <3>1, <3>2, GotoMoves DEF KeptOK, Written
  <2>. QED
    BY <1>1, <1>9, <2>1 DEF FinishBackup
<1>10. CASE IgnoreBackup(b)
  <2>. DEFINE copy == [mem[b] EXCEPT !.phase = "Ignored"]
  <2>1. PICK ok \in BOOLEAN : /\ UpdateCRStatus(b, "Ignored", ok)
                              /\ Goto(b, "unlabel", IF ok THEN obj'[b] ELSE copy)
    BY <1>10 DEF IgnoreBackup
  <2>2. pc'[b] = "unlabel" /\ mem'[b] = IF ok THEN obj'[b] ELSE copy
    BY <1>0, <2>1, GotoMoves
  <2>3. CASE ok
    <3>1. Written(b, "Ignored", obj[b].label, ok)
      BY <1>0, <2>1, StatusWrites DEF Typed, Phase, Terminal
    <3>. QED
      BY <2>2, <2>3, <3>1 DEF KeptOK, Written, Terminal
  <2>4. CASE ~ok
    <3>1. mem[b].version # obj[b].version /\ obj' = obj
      BY <2>1, <2>4, SaveTaken DEF UpdateCRStatus
    <3>2. copy.version = mem[b].version
      BY <1>0 DEF Typed, Object
    <3>. QED
      BY <2>2, <2>4, <3>1, <3>2 DEF KeptOK
  <2>. QED
    BY <2>3, <2>4
<1>11. CASE DropLabel(b)
  <2>1. ASSUME NEW ok \in BOOLEAN, ok, UpdateCR(b, FALSE, ok), Done(b)
        PROVE  KeptOK(b)'
    <3>1. Written(b, obj[b].phase, FALSE, ok)
      BY <1>0, <2>1, LabelWrites DEF Typed
    <3>2. obj[b].phase \in Terminal
      BY <1>11, <2>1, <3>1 DEF DropLabel, Written, NInv, KeptOK
    <3>. QED
      BY <1>0, <2>1, <3>1, <3>2, DoneMoves DEF KeptOK, Written
  <2>. QED
    BY <1>1, <1>11, <2>1 DEF DropLabel
<1>. QED
  BY <1>3, <1>4, <1>5, <1>6, <1>7, <1>8, <1>9, <1>10, <1>11
     DEF Reconcile, Reject, Retry

LEMMA NextKept ==
  ASSUME ~Faulty, NInv, [Next]_vars
  PROVE  \A b \in Backup : KeptOK(b)'
<1>0. IInv /\ Typed
  BY TypeOKParts DEF NInv, IInv
<1>1. ASSUME NEW b \in Backup, Reconcile(b), NEW c \in Backup
      PROVE  KeptOK(c)'
  <2>1. CASE c = b
    BY <1>1, <2>1, ReconcileKept
  <2>2. CASE c # b
    BY <1>0, <1>1, <2>2, ReconcileTurn DEF Turn, NInv, KeptOK
  <2>. QED
    BY <2>1, <2>2
<1>2. ASSUME NEW b \in Backup, Start(b), NEW c \in Backup
      PROVE  KeptOK(c)'
  BY <1>0, <1>2 DEF Start, Typed, NInv, KeptOK
<1>3. ASSUME NEW b \in Backup, CreateBackup(b), NEW c \in Backup
      PROVE  KeptOK(c)'
  <2>1. pc[b] # "unlabel"
    BY <1>0, <1>3 DEF CreateBackup, IInv, StepOK
  <2>. QED
    BY <1>0, <1>3, <2>1 DEF CreateBackup, Typed, NInv, KeptOK
<1>4. ASSUME NEW b \in Backup, FinishJob(b), NEW c \in Backup
      PROVE  KeptOK(c)'
  BY <1>0, <1>4 DEF FinishJob, Typed, NInv, KeptOK
<1>5. ASSUME NEW b \in Backup, SyncCache(b), NEW c \in Backup
      PROVE  KeptOK(c)'
  BY <1>5 DEF SyncCache, NInv, KeptOK
<1>6. ASSUME Crash, NEW c \in Backup
      PROVE  KeptOK(c)'
  BY <1>6 DEF Crash, KeptOK
<1>7. ASSUME UNCHANGED vars, NEW c \in Backup
      PROVE  KeptOK(c)'
  BY <1>7 DEF vars, NInv, KeptOK
<1>. QED
  BY <1>1, <1>2, <1>3, <1>4, <1>5, <1>6, <1>7 DEF Next

(***************************************************************************)
(* When no API call fails, a backup that is neither queued nor in the      *)
(* hands of a worker has ended and lost its label, or its active Job will  *)
(* wake the controller up: with stale caches and operator crashes.         *)
(***************************************************************************)
THEOREM NotForgottenProved == ~Faulty => (Spec => []NotForgotten)
<1>. SUFFICES ASSUME ~Faulty PROVE Spec => []NotForgotten
  OBVIOUS
<1>1. Init => NInv
  <2>1. Init => \A b \in Backup : KeptOK(b)
    BY AbsentObject DEF Init, KeptOK
  <2>. QED
    BY <2>1, InitIInv DEF NInv
<1>2. NInv /\ [Next]_vars => NInv'
  BY NextIInv, NextKept DEF NInv
<1>3. NInv => NotForgotten
  BY DEF NInv, KeptOK, NotForgotten
<1>. QED
  BY <1>1, <1>2, <1>3, PTL DEF Spec

=============================================================================
