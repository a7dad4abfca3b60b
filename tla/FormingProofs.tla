---------------------------- MODULE FormingProofs ----------------------------
(***************************************************************************)
(* Proofs about ClusterForming for any number of StatefulSets and slaves   *)
(* and any number of mishaps, changes of size and lost FORGETs.            *)
(***************************************************************************)
EXTENDS ClusterForming, TLAPS

(***************************************************************************)
(* The type of the Reconcile under way.                                    *)
(***************************************************************************)
Line == [id : ID, master : Maybe, slots : SUBSET Index, failed : BOOLEAN, noaddr : BOOLEAN]

View == [node : Line, sts : Index, vm : {Vm[p] : p \in Pod}]

Views == UNION {[X -> View] : X \in SUBSET ID}

Chosen == {<<>>} \cup UNION {[0 .. n - 1 -> ID] : n \in 1 .. MaxSize}

Busy == {"heal", "join", "joining", "status", "sync", "attach", "slots", "down", "remove",
         "final"}

Pass == [pc : Busy, pool : SUBSET ID, infos : Views, ghosts : SUBSET ID,
         untrusted : SUBSET ID, new : Chosen, plan : SUBSET (ID \X ID),
         branch : {"", "create", "up", "slave", "down", "none"}, done : SUBSET BOOLEAN]

OpOK ==
  /\ op \in Pass \cup {Idle, [pc |-> "panic"]}
  /\ op \in Pass => op.pool \subseteq DOMAIN op.infos

\* The nodes there have been: each is in its own nodes.conf for ever.
Born == {x \in ID : x \in know[x]}

\* No two pods have had the same node, and a pod with a volume runs the node on it.
PlacesOK ==
  /\ \A p, q \in Pod : \A x \in ID :
       x \in {at[p], disk[p]} /\ x \in {at[q], disk[q]} => p = q
  /\ \A p \in Pod : at[p] # NoId /\ disk[p] # NoId => at[p] = disk[p]

\* Whatever has an ID is a node that there has been.
BornOK ==
  /\ \A x \in ID : know[x] \subseteq Born
  /\ \A p \in Pod : {at[p], disk[p]} \subseteq Born \cup {NoId}
  /\ \A x \in ID : master[x] # NoId => x \in Born /\ master[x] \in Born
  /\ op \in Pass => op.ghosts \cup DOMAIN op.infos \subseteq Born

\* home[x] is the StatefulSet that x is or was in.
HomeFits(home) ==
  /\ \A p \in Pod : at[p] # NoId => home[at[p]] = p[1]
  /\ \A p \in Pod : disk[p] # NoId => home[disk[p]] = p[1]
  /\ \A x \in ID : master[x] # NoId => home[master[x]] = home[x]
  /\ op \in Pass =>
       /\ \A x \in DOMAIN op.infos : op.infos[x].sts = home[x]
       /\ \A a \in op.plan : {a[1], a[2]} \subseteq DOMAIN op.infos /\ home[a[1]] = home[a[2]]

HomeOK == \E home \in [ID -> Index] : HomeFits(home)

IInv == TypeOK /\ OpOK /\ PlacesOK /\ BornOK /\ HomeOK

\* A ghost that the status names has no address any more: no pod has it or gets it back.
GhostOK ==
  op.pc = "heal" =>
    \A g \in op.ghosts \cap status : \A p \in Pod : g \notin {at[p], disk[p]}

GInv == IInv /\ GhostOK

(***************************************************************************)
(* Steps that keep or drop what there is.                                  *)
(***************************************************************************)
Panicked == [pc |-> "panic"]

\* The pass ends, or knows and plans no more than before.
PassKept ==
  \/ op' \in {Idle, Panicked}
  \/ op' = op
  \/ /\ op \in Pass /\ op' \in Pass
     /\ op'.infos = op.infos /\ op'.pool \subseteq op.pool
     /\ op'.ghosts \subseteq op.ghosts /\ op'.plan \subseteq op.plan

\* No pod gets a new node.
PodsKept ==
  /\ \A p \in Pod : at'[p] \in {at[p], disk[p], NoId} /\ disk'[p] \in {disk[p], NoId}
  /\ \A p \in Pod : at'[p] # NoId /\ disk'[p] # NoId => at'[p] = disk'[p]

\* A node that there has been is not forgotten by itself.
KnowKept ==
  /\ Born \subseteq Born'
  /\ \A x \in ID : know'[x] \subseteq Born'

MastersKept == \A x \in ID : master'[x] \in {master[x], NoId}

LEMMA BusyIsPass ==
  ASSUME OpOK, op.pc \in Busy
  PROVE  op \in Pass
BY DEF OpOK, Busy, Idle

LEMMA IdleNoPass ==
  /\ Idle \notin Pass
  /\ Panicked \notin Pass
BY DEF Idle, Panicked, Pass, Busy

LEMMA PassKeptOK ==
  ASSUME OpOK, PassKept
  PROVE  OpOK'
BY IdleNoPass DEF OpOK, PassKept, Panicked

LEMMA KeptPlaces ==
  ASSUME IInv, PodsKept
  PROVE  PlacesOK'
<1>1. \A p \in Pod : \A x \in ID : x \in {at'[p], disk'[p]} => x \in {at[p], disk[p]}
  BY IDAssumption DEF PodsKept, IInv, TypeOK, Maybe
<1>. QED
  BY <1>1 DEF IInv, PlacesOK, PodsKept

LEMMA KeptBorn ==
  ASSUME IInv, PodsKept, PassKept, KnowKept, MastersKept
  PROVE  BornOK'
<1>. USE DEF IInv
<1>1. \A p \in Pod : {at'[p], disk'[p]} \subseteq Born' \cup {NoId}
  BY DEF PodsKept, BornOK, KnowKept
<1>2. \A x \in ID : master'[x] # NoId => x \in Born' /\ master'[x] \in Born'
  BY DEF MastersKept, BornOK, KnowKept
<1>3. op' \in Pass => op'.ghosts \cup DOMAIN op'.infos \subseteq Born'
  BY IdleNoPass DEF PassKept, BornOK, KnowKept
<1>4. \A x \in ID : know'[x] \subseteq Born'
  BY DEF KnowKept
<1>. QED
  BY <1>1, <1>2, <1>3, <1>4 DEF BornOK

LEMMA KeptHome ==
  ASSUME IInv, PodsKept, PassKept, MastersKept
  PROVE  HomeOK'
<1>. USE DEF IInv
<1>1. PICK home \in [ID -> Index] : HomeFits(home)
  BY DEF HomeOK
<1>2. \A p \in Pod : /\ at'[p] # NoId => home[at'[p]] = p[1]
                     /\ disk'[p] # NoId => home[disk'[p]] = p[1]
  BY <1>1 DEF HomeFits, PodsKept
<1>3. \A x \in ID : master'[x] # NoId => home[master'[x]] = home[x]
  BY <1>1 DEF HomeFits, MastersKept
<1>4. op' \in Pass =>
       /\ \A x \in DOMAIN op'.infos : op'.infos[x].sts = home[x]
       /\ \A a \in op'.plan : /\ {a[1], a[2]} \subseteq DOMAIN op'.infos
                              /\ home[a[1]] = home[a[2]]
  BY <1>1, IdleNoPass DEF HomeFits, PassKept
<1>5. HomeFits(home)'
  BY <1>2, <1>3, <1>4 DEF HomeFits
<1>. QED
  BY <1>5 DEF HomeOK

LEMMA KeptStep ==
  ASSUME IInv, TypeOK', PodsKept, PassKept, KnowKept, MastersKept
  PROVE  IInv'
BY PassKeptOK, KeptPlaces, KeptBorn, KeptHome DEF IInv

LEMMA Unmoved ==
  ASSUME IInv
  PROVE  /\ UNCHANGED <<at, disk>> => PodsKept
         /\ UNCHANGED know => KnowKept
         /\ UNCHANGED master => MastersKept
<1>1. UNCHANGED <<at, disk>> => PodsKept
  BY DEF IInv, PlacesOK, PodsKept
<1>2. UNCHANGED know => KnowKept
  BY DEF IInv, BornOK, KnowKept, Born
<1>3. UNCHANGED master => MastersKept
  BY DEF MastersKept
<1>. QED
  BY <1>1, <1>2, <1>3

LEMMA StillStep ==
  ASSUME IInv, TypeOK', UNCHANGED <<at, disk, master, know>>, PassKept
  PROVE  IInv'
BY Unmoved, KeptStep

LEMMA GotoKept ==
  ASSUME IInv, op \in Pass, NEW pc \in Busy, Goto(pc)
  PROVE  PassKept /\ op' \in Pass /\ op'.pc = pc
<1>1. op' \in Pass
  BY DEF Goto, Pass
<1>2. /\ op'.infos = op.infos /\ op'.pool = op.pool
      /\ op'.ghosts = op.ghosts /\ op'.plan = op.plan /\ op'.pc = pc
  BY DEF Goto, Pass
<1>. QED
  BY <1>1, <1>2 DEF PassKept

LEMMA ReturnKept ==
  ASSUME Return
  PROVE  PassKept
BY DEF Return, PassKept

-----------------------------------------------------------------------------
(* Steps of the operator that change no node.                              *)

LEMMA EnsureStatefulsetsIInv ==
  ASSUME IInv, EnsureStatefulsets
  PROVE  IInv'
<1>1. UNCHANGED <<size, volume, at, disk, redis, slow, status, op, past>>
  BY DEF EnsureStatefulsets
<1>2. sts' \subseteq Index
  BY MaxSizeAssumption DEF EnsureStatefulsets, IInv, TypeOK, Index
<1>3. TypeOK'
  BY <1>1, <1>2 DEF IInv, TypeOK, Running, redis
<1>. QED
  BY <1>1, <1>3, StillStep DEF redis, PassKept

LEMMA FixUntrustedNodesIInv ==
  ASSUME IInv, FixUntrustedNodes
  PROVE  IInv'
<1>1. UNCHANGED <<kube, master, owner, copy, know, slow, status, past>> /\ shake' \subseteq shake
  BY DEF FixUntrustedNodes
<1>2. TypeOK'
  BY <1>1 DEF IInv, TypeOK, Running, kube
<1>3. PassKept
  <2>1. op \in Pass
    BY BusyIsPass DEF FixUntrustedNodes, IInv, Busy
  <2>2. Return \/ Goto("join")
    BY DEF FixUntrustedNodes
  <2>. QED
    BY <2>1, <2>2, ReturnKept, GotoKept DEF Busy
<1>. QED
  BY <1>1, <1>2, <1>3, StillStep DEF kube

LEMMA RunningNodes ==
  ASSUME IInv
  PROVE  Running \subseteq ID /\ Running \subseteq Born /\ Reached \subseteq Running
BY DEF IInv, TypeOK, BornOK, Running, Reached, Maybe

LEMMA waitForClusterJoinIInv ==
  ASSUME IInv, waitForClusterJoin
  PROVE  IInv'
<1>0. op \in Pass /\ DOMAIN op.infos \subseteq Born
  BY BusyIsPass DEF waitForClusterJoin, IInv, Busy, BornOK
<1>1. UNCHANGED <<kube, master, owner, copy, know, slow, status, past>>
  BY DEF waitForClusterJoin
<1>2. \A s \in shake' : s[1] \in Running /\ s[2] \in ID
  <2>1. \A s \in shake : s[1] \in Running /\ s[2] \in ID
    BY DEF IInv, TypeOK
  <2>2. \A x \in Born : \A s \in Meet(op.pool \cap Reached, x) : s[1] \in Running /\ s[2] \in ID
    BY RunningNodes DEF Meet, Born
  <2>. QED
    BY <2>1, <2>2, <1>0 DEF waitForClusterJoin
<1>3. TypeOK'
  BY <1>1, <1>2 DEF IInv, TypeOK, Running, kube
<1>4. PassKept
  <2>1. CASE Goto("status")
    BY <1>0, <2>1, GotoKept DEF Busy
  <2>2. CASE op' = [op EXCEPT !.pc = "joining", !.pool = @ \cap Reached]
    <3>1. op' \in Pass
      BY <1>0, <2>2 DEF Pass, Busy
    <3>2. /\ op'.infos = op.infos /\ op'.pool = op.pool \cap Reached
          /\ op'.ghosts = op.ghosts /\ op'.plan = op.plan
      BY <1>0, <2>2 DEF Pass
    <3>. QED
      BY <1>0, <3>1, <3>2 DEF PassKept
  <2>. QED
    BY <2>1, <2>2 DEF waitForClusterJoin
<1>. QED
  BY <1>1, <1>3, <1>4, StillStep DEF kube

LEMMA JoinedIInv ==
  ASSUME IInv, Joined
  PROVE  IInv'
<1>1. UNCHANGED <<kube, redis, slow, status, past>>
  BY DEF Joined
<1>2. TypeOK'
  BY <1>1 DEF IInv, TypeOK, Running, kube, redis
<1>3. PassKept
  <2>1. op \in Pass
    BY BusyIsPass DEF Joined, IInv, Busy
  <2>2. Return \/ Goto("status")
    BY DEF Joined
  <2>. QED
    BY <2>1, <2>2, ReturnKept, GotoKept DEF Busy
<1>. QED
  BY <1>1, <1>2, <1>3, StillStep DEF kube, redis

LEMMA SetNodesTyped ==
  ASSUME IInv, NEW old, NEW N \in SUBSET ID, SetNodes(old, N), UNCHANGED <<kube, redis, slow, past>>
  PROVE  TypeOK'
<1>1. status' \in {N, status}
  BY DEF SetNodes
<1>2. status' \subseteq ID
  BY <1>1 DEF IInv, TypeOK
<1>. QED
  BY <1>2 DEF IInv, TypeOK, Running, kube, redis

LEMMA SetAgainTyped ==
  ASSUME IInv, op \in Pass, SetAgain
  PROVE  status' \subseteq ID
<1>1. DOMAIN op.infos \subseteq ID
  BY DEF IInv, BornOK, Born
<1>2. status' \in {status, DOMAIN op.infos}
  BY DEF SetAgain
<1>. QED
  BY <1>1, <1>2 DEF IInv, TypeOK

LEMMA buildClusterStatusIInv ==
  ASSUME IInv, buildClusterStatus
  PROVE  IInv'
<1>1. op \in Pass /\ DOMAIN op.infos \subseteq ID
  BY BusyIsPass DEF buildClusterStatus, IInv, Busy, BornOK, Born
<1>2. TypeOK'
  BY <1>1, SetNodesTyped DEF buildClusterStatus
<1>3. PassKept
  <2>1. Goto("sync") \/ Goto("final")
    BY DEF buildClusterStatus
  <2>. QED
    BY <1>1, <2>1, GotoKept DEF Busy
<1>. QED
  BY <1>2, <1>3, StillStep DEF buildClusterStatus, kube, redis

LEMMA FinishIInv ==
  ASSUME IInv, Finish
  PROVE  IInv'
<1>1. op.pool \cap Reached \in SUBSET ID
  BY RunningNodes
<1>2. TypeOK'
  BY <1>1, SetNodesTyped DEF Finish
<1>. QED
  BY <1>2, ReturnKept, StillStep DEF Finish, kube, redis

LEMMA RestartIInv ==
  ASSUME IInv, Restart
  PROVE  IInv'
<1>1. TypeOK'
  BY DEF Restart, IInv, TypeOK, Running, kube, redis
<1>. QED
  BY <1>1, ReturnKept, StillStep DEF Restart, kube, redis

LEMMA AbortIInv ==
  ASSUME IInv, Abort
  PROVE  IInv'
<1>1. past' \subseteq {"quorum", "panic", "half", "leftover"}
  BY DEF Abort, IInv, TypeOK
<1>2. UNCHANGED <<kube, redis, slow>> /\ Return
  BY DEF Abort, ReturnFailed
<1>3. status' \subseteq ID
  <2>1. CASE ReturnFailed /\ op.pc \in {"attach", "slots", "down", "remove"}
    BY <2>1, BusyIsPass, SetAgainTyped DEF ReturnFailed, Busy, IInv
  <2>2. CASE UNCHANGED status
    BY <2>2 DEF IInv, TypeOK
  <2>. QED
    BY <2>1, <2>2 DEF Abort
<1>4. TypeOK'
  BY <1>1, <1>2, <1>3 DEF IInv, TypeOK, Running, kube, redis
<1>. QED
  BY <1>2, <1>4, ReturnKept, StillStep DEF kube, redis

LEMMA ResizeIInv ==
  ASSUME IInv, Resize
  PROVE  IInv'
<1>1. UNCHANGED <<volume, sts, at, disk, redis, slow, status, op, past>> /\ size' \in 1 .. MaxSize
  BY DEF Resize
<1>2. TypeOK'
  BY <1>1 DEF IInv, TypeOK, Running, redis
<1>. QED
  BY <1>1, <1>2, StillStep DEF redis, PassKept

LEMMA UnreachableIInv ==
  ASSUME IInv, NEW x \in ID, Unreachable(x)
  PROVE  IInv'
<1>1. UNCHANGED <<kube, redis, status, op, past>> /\ slow' = slow \cup {x} /\ x \in Running
  BY DEF Unreachable, Reached
<1>3. TypeOK'
  BY <1>1 DEF IInv, TypeOK, Running, kube, redis
<1>. QED
  BY <1>1, <1>3, StillStep DEF kube, redis, PassKept

LEMMA RecoverIInv ==
  ASSUME IInv, NEW x \in slow, Recover(x)
  PROVE  IInv'
<1>1. UNCHANGED <<kube, redis, status, op, past>> /\ slow' = slow \ {x}
  BY DEF Recover
<1>2. TypeOK'
  BY <1>1 DEF IInv, TypeOK, Running, kube, redis
<1>. QED
  BY <1>1, <1>2, StillStep DEF kube, redis, PassKept

-----------------------------------------------------------------------------
(* Reading the nodes and planning.                                         *)

LEMMA PodOfRunning ==
  ASSUME IInv, NEW x \in Running
  PROVE  PodOf(x) \in Pod /\ at[PodOf(x)] = x /\ PodOf(x)[1] \in Index
<1>1. \E p \in Pod : at[p] = x
  BY DEF Running
<1>2. PodOf(x) \in Pod /\ at[PodOf(x)] = x
  BY <1>1 DEF PodOf
<1>. QED
  BY <1>2 DEF Pod

\* The pass that begins.
LEMMA InfosTyped ==
  ASSUME IInv, NEW lost
  PROVE  /\ Kept(Infos(Reached, lost)) \in Views
         /\ DOMAIN Kept(Infos(Reached, lost)) = Reached
         /\ \A x \in Reached : Kept(Infos(Reached, lost))[x].sts = PodOf(x)[1]
<1>. DEFINE infos == Kept(Infos(Reached, lost))
<1>0. Reached \subseteq ID
  BY RunningNodes
<1>1. \A x \in ID : NodeLine(x, Reached, lost) \in Line
  BY DEF NodeLine, Line, SlotsOf, IInv, TypeOK
<1>2. DOMAIN infos = Reached
  BY DEF Kept, Infos
<1>3. \A x \in Reached :
        infos[x] = [node |-> NodeLine(x, Reached, lost), sts |-> PodOf(x)[1], vm |-> Vm[PodOf(x)]]
  BY DEF Kept, Infos
<1>4. \A x \in Reached : infos[x] \in View
  <2>. SUFFICES ASSUME NEW x \in Reached
       PROVE  infos[x] \in View
    OBVIOUS
  <2>1. PodOf(x) \in Pod /\ PodOf(x)[1] \in Index
    BY PodOfRunning, RunningNodes
  <2>2. NodeLine(x, Reached, lost) \in Line
    BY <1>0, <1>1
  <2>3. Vm[PodOf(x)] \in {Vm[p] : p \in Pod}
    BY <2>1
  <2>4. [node |-> NodeLine(x, Reached, lost), sts |-> PodOf(x)[1], vm |-> Vm[PodOf(x)]] \in View
    BY <2>1, <2>2, <2>3 DEF View
  <2>. QED
    BY <1>3, <2>4
<1>5. infos = [x \in Reached |-> infos[x]]
  BY <1>2 DEF Kept, Infos
<1>6. infos \in [Reached -> View]
  BY <1>4, <1>5
<1>. QED
  BY <1>0, <1>2, <1>3, <1>6 DEF Views

\* Ghosts are among the nodes that those that answer list, and they are out of
\* reach and not in the status, or have no address any more.
LEMMA GhostsListed ==
  ASSUME IInv, NEW lost, NEW sorted,
         NEW g \in listGhostNodes(Infos(Reached, lost), sorted, status)
  PROVE  g \in Born /\ (g \in lost \/ (g \notin Reached /\ g \notin status))
<1>. DEFINE infos == Infos(Reached, lost)
<1>1. PICK x \in DOMAIN infos : \E n \in Friends(infos, sorted, x) :
        g = n.id /\ (n.noaddr \/ (HasStatus(n) /\ n.id \notin status))
  BY DEF listGhostNodes
<1>2. PICK n \in Friends(infos, sorted, x) :
        g = n.id /\ (n.noaddr \/ (HasStatus(n) /\ n.id \notin status))
  BY <1>1
<1>3. x \in Reached
  BY DEF Infos
<1>4. /\ infos[x].node = NodeLine(x, Reached, lost)
      /\ infos[x].friends = {NodeLine(y, Reached, lost) : y \in know[x] \ {x}}
  BY <1>3 DEF Infos
<1>5. n \in infos[x].friends \cup {infos[x].node}
  BY <1>2 DEF Friends, SortByFunc
<1>6. PICK y \in know[x] \cup {x} : n = NodeLine(y, Reached, lost)
  BY <1>4, <1>5
<1>7. y \in Born
  BY <1>3, <1>6, RunningNodes DEF IInv, BornOK
<1>8. n.id = y /\ n.noaddr = (y \in lost) /\ n.failed = (y \notin Reached)
  BY <1>6 DEF NodeLine
<1>9. g = y
  BY <1>2, <1>8
<1>10. CASE n.noaddr
  <2>1. y \in lost
    BY <1>8, <1>10, Zenon
  <2>. QED
    BY <1>7, <1>9, <2>1
<1>11. CASE n.failed /\ n.id \notin status
  <2>1. y \notin Reached
    BY <1>8, <1>11, Zenon
  <2>. QED
    BY <1>7, <1>8, <1>9, <1>11, <2>1
<1>. QED
  BY <1>2, <1>10, <1>11 DEF HasStatus

LEMMA UntrustedTyped ==
  ASSUME NEW lost
  PROVE  untrustedToForget(Infos(Reached, lost)) \subseteq ID
BY DEF untrustedToForget, listUntrustedNodes, Infos

LEMMA GetClusterInfosIInv ==
  ASSUME IInv, GetClusterInfos
  PROVE  IInv'
<1>1. UNCHANGED <<kube, redis, slow, status, past>>
  BY DEF GetClusterInfos
<1>2. PICK sorted, lost :
        op' = [pc |-> "heal", pool |-> Reached, infos |-> Kept(Infos(Reached, lost)),
               ghosts |-> listGhostNodes(Infos(Reached, lost), sorted, status),
               untrusted |-> untrustedToForget(Infos(Reached, lost)),
               new |-> <<>>, plan |-> {}, branch |-> "", done |-> {}]
  BY DEF GetClusterInfos, NewAdminConnections
<1>3. Reached \subseteq ID
  BY RunningNodes
<1>4. listGhostNodes(Infos(Reached, lost), sorted, status) \subseteq Born
  BY GhostsListed
<1>5. op' \in Pass
  BY <1>2, <1>3, <1>4, InfosTyped, UntrustedTyped DEF Pass, Busy, Chosen, Born
<1>6. TypeOK'
  BY <1>1 DEF IInv, TypeOK, Running, kube, redis
<1>7. OpOK'
  BY <1>2, <1>5, InfosTyped DEF OpOK
<1>8. PlacesOK'
  BY <1>1 DEF IInv, PlacesOK, kube
<1>9. BornOK'
  <2>1. op'.ghosts \cup DOMAIN op'.infos \subseteq Born
    BY <1>2, <1>4, InfosTyped, RunningNodes
  <2>. QED
    BY <1>1, <2>1 DEF IInv, BornOK, Born, kube, redis
<1>10. HomeOK'
  <2>1. PICK home \in [ID -> Index] : HomeFits(home)
    BY DEF IInv, HomeOK
  <2>2. \A x \in Reached : home[x] = PodOf(x)[1]
    BY <2>1, PodOfRunning, RunningNodes, IDAssumption DEF HomeFits
  <2>3. \A x \in DOMAIN op'.infos : op'.infos[x].sts = home[x]
    BY <1>2, <2>2, InfosTyped
  <2>4. op'.plan = {}
    BY <1>2
  <2>5. HomeFits(home)'
    BY <1>1, <2>1, <2>3, <2>4 DEF HomeFits, kube, redis
  <2>. QED
    BY <2>5 DEF HomeOK
<1>. QED
  BY <1>6, <1>7, <1>8, <1>9, <1>10 DEF IInv

LEMMA NewMasters ==
  ASSUME IInv, op \in Pass, NEW home \in [ID -> Index], HomeFits(home),
         NEW new \in DispatchMasters(op.infos, size)
  PROVE  /\ new \in Chosen
         /\ DOMAIN new = 0 .. size - 1
         /\ \A i \in DOMAIN new : new[i] \in DOMAIN op.infos /\ home[new[i]] = i
<1>. DEFINE infos == op.infos
<1>0. DOMAIN infos \subseteq ID
  BY DEF IInv, BornOK, Born
<1>1. new \in [0 .. size - 1 -> DOMAIN infos]
  BY DEF DispatchMasters
<1>2. new \in Chosen
  BY <1>0, <1>1 DEF Chosen, IInv, TypeOK
<1>3. \A i \in 0 .. size - 1 : new[i] \in sortRedisNodeByStatefulSet(infos, i)
  BY DEF DispatchMasters, MastersOf, PlaceMasters
<1>4. \A i \in 0 .. size - 1 : infos[new[i]].sts = i
  BY <1>3 DEF sortRedisNodeByStatefulSet
<1>. QED
  BY <1>0, <1>1, <1>2, <1>4 DEF HomeFits

LEMMA PlanFits ==
  ASSUME IInv, op \in Pass, NEW home \in [ID -> Index], HomeFits(home),
         NEW new \in DispatchMasters(op.infos, size), ~PlaceSlavesPanics(op.infos, new),
         NEW a \in PlaceSlaves(op.infos, new)
  PROVE  /\ a \in ID \X ID
         /\ {a[1], a[2]} \subseteq DOMAIN op.infos
         /\ home[a[1]] = home[a[2]]
<1>1. PICK x \in DOMAIN op.infos : a = <<x, new[op.infos[x].sts]>>
  BY DEF PlaceSlaves
<1>2. op.infos[x].sts \in DOMAIN new
  BY DEF PlaceSlavesPanics
<1>3. DOMAIN op.infos \subseteq ID
  BY DEF IInv, BornOK, Born
<1>4. op.infos[x].sts = home[x]
  BY DEF HomeFits
<1>. QED
  BY <1>1, <1>2, <1>3, <1>4, NewMasters

LEMMA BranchTyped == Branch(op.infos) \in {"create", "up", "slave", "down", "none"}
BY Zenon DEF Branch

LEMMA syncClusterIInv ==
  ASSUME IInv, syncCluster
  PROVE  IInv'
<1>0. op \in Pass
  BY BusyIsPass DEF syncCluster, IInv, Busy
<1>1. UNCHANGED <<kube, redis, slow>>
  BY DEF syncCluster
<1>2. TypeOK'
  <2>1. past' \subseteq {"quorum", "panic", "half", "leftover"}
    BY DEF syncCluster, IInv, TypeOK
  <2>2. status' \subseteq ID
    <3>1. CASE SetAgain
      BY <1>0, <3>1, SetAgainTyped
    <3>2. CASE UNCHANGED status
      BY <3>2 DEF IInv, TypeOK
    <3>. QED
      BY <3>1, <3>2 DEF syncCluster, ReturnFailed
  <2>. QED
    BY <1>1, <2>1, <2>2 DEF IInv, TypeOK, Running, kube, redis
<1>3. CASE PassKept
  BY <1>1, <1>2, <1>3, StillStep DEF kube, redis
<1>4. CASE ~PassKept
  <2>1. PICK home \in [ID -> Index] : HomeFits(home)
    BY DEF IInv, HomeOK
  <2>2. PICK new \in DispatchMasters(op.infos, size) :
          \/ /\ ~PlaceSlavesPanics(op.infos, new)
             /\ op' = [op EXCEPT !.pc = "attach", !.new = new, !.branch = Branch(op.infos),
                                 !.plan = PlaceSlaves(op.infos, new)]
          \/ /\ Branch(op.infos) \notin {"create", "up", "slave"}
             /\ op' = [op EXCEPT !.pc = IF Branch(op.infos) = "down" THEN "down" ELSE "final",
                                 !.new = new, !.branch = Branch(op.infos)]
    <3>1. ~Return /\ op' # Panicked
      BY <1>4 DEF PassKept, Return
    <3>. QED
      BY <3>1 DEF syncCluster, Panicked, ReturnFailed
  <2>3. new \in Chosen
    BY <1>0, <2>1, NewMasters
  <2>4. CASE /\ ~PlaceSlavesPanics(op.infos, new)
             /\ op' = [op EXCEPT !.pc = "attach", !.new = new, !.branch = Branch(op.infos),
                                 !.plan = PlaceSlaves(op.infos, new)]
    <3>1. \A a \in PlaceSlaves(op.infos, new) :
            /\ a \in ID \X ID
            /\ {a[1], a[2]} \subseteq DOMAIN op.infos
            /\ home[a[1]] = home[a[2]]
      BY <1>0, <2>1, <2>4, PlanFits
    <3>2. op' \in Pass
      BY <1>0, <2>3, <2>4, <3>1, BranchTyped DEF Pass, Busy
    <3>3. /\ op'.infos = op.infos /\ op'.pool = op.pool
          /\ op'.ghosts = op.ghosts /\ op'.plan = PlaceSlaves(op.infos, new)
      BY <1>0, <2>4 DEF Pass
    <3>4. OpOK'
      BY <1>0, <3>2, <3>3 DEF OpOK, IInv
    <3>5. PlacesOK'
      BY <1>1 DEF IInv, PlacesOK, kube
    <3>6. BornOK'
      BY <1>0, <1>1, <3>3 DEF IInv, BornOK, Born, kube, redis
    <3>7. HomeFits(home)'
      BY <1>0, <1>1, <2>1, <3>1, <3>3 DEF HomeFits, kube, redis
    <3>. QED
      BY <1>2, <3>4, <3>5, <3>6, <3>7 DEF IInv, HomeOK
  <2>5. CASE op' = [op EXCEPT !.pc = IF Branch(op.infos) = "down" THEN "down" ELSE "final",
                              !.new = new, !.branch = Branch(op.infos)]
    <3>1. op' \in Pass
      BY <1>0, <2>3, <2>5, BranchTyped DEF Pass, Busy
    <3>2. /\ op'.infos = op.infos /\ op'.pool = op.pool
          /\ op'.ghosts = op.ghosts /\ op'.plan = op.plan
      BY <1>0, <2>5 DEF Pass
    <3>. QED
      BY <1>0, <1>4, <3>1, <3>2 DEF PassKept
  <2>. QED
    BY <2>2, <2>4, <2>5
<1>. QED
  BY <1>3, <1>4

-----------------------------------------------------------------------------
(* Steps that change what the nodes know.                                  *)

LEMMA ForgetNodeKept ==
  ASSUME IInv, NEW g, NEW pool, NEW M, ForgetNode(g, pool, M),
         UNCHANGED <<kube, slow, status, past>>
  PROVE  TypeOK' /\ KnowKept /\ MastersKept
<1>. DEFINE slaves == {x \in pool \cap Reached : master[x] = g}
<1>. USE DEF IInv
<1>1. MastersKept
  BY DEF ForgetNode, MastersKept, TypeOK
<1>2. know' \in [ID -> SUBSET ID]
  <2>1. \A x \in ID : {x} \in SUBSET ID /\ know[x] \in SUBSET ID /\ know[x] \ {g} \in SUBSET ID
    BY DEF TypeOK
  <2>2. know' = [x \in ID |-> CASE x \in slaves -> {x}
                                [] x \in M \ (slaves \cup {g}) -> know[x] \ {g}
                                [] OTHER -> know[x]]
    BY DEF ForgetNode
  <2>. QED
    BY <2>1, <2>2
<1>3. \A x \in ID : /\ know'[x] \subseteq know[x] \cup {x}
                    /\ x \in know[x] => x \in know'[x]
                    /\ x \in know'[x] => x \in know[x] \/ x \in slaves
  BY DEF ForgetNode
<1>4. slaves \subseteq Born
  BY RunningNodes
<1>5. Born' = Born
  BY <1>3, <1>4 DEF Born
<1>6. \A x \in ID : know'[x] \subseteq Born
  <2>. SUFFICES ASSUME NEW x \in ID, NEW y \in know'[x]
       PROVE  y \in Born
    OBVIOUS
  <2>1. y \in know[x] \/ (y = x /\ x \in slaves)
    BY <1>3
  <2>. QED
    BY <2>1, <1>4 DEF BornOK
<1>7. KnowKept
  BY <1>5, <1>6 DEF KnowKept
<1>8. \A s \in shake' : s[1] \in Running /\ s[2] \in ID
  <2>1. \A s \in shake : s[1] \in Running /\ s[2] \in ID
    BY DEF TypeOK
  <2>2. slaves \subseteq ID /\ Reached \subseteq Running
    BY RunningNodes
  <2>. QED
    BY <2>1, <2>2 DEF ForgetNode
<1>9. /\ master' \in [ID -> Maybe] /\ owner' \in [Index -> Maybe]
      /\ copy' \in [ID -> SUBSET Index]
  BY DEF ForgetNode, TypeOK, Maybe
<1>10. TypeOK'
  BY <1>2, <1>8, <1>9 DEF TypeOK, Running, kube
<1>. QED
  BY <1>1, <1>7, <1>10

LEMMA FixFailedNodesIInv ==
  ASSUME IInv, FixFailedNodes
  PROVE  IInv'
<1>1. PICK g \in op.ghosts :
        /\ ForgetNode(g, op.pool, op.pool \cap Reached)
        /\ IF op.ghosts = {g} THEN Return ELSE op' = [op EXCEPT !.ghosts = @ \ {g}]
  BY DEF FixFailedNodes
<1>2. UNCHANGED <<kube, slow, status, past>>
  BY DEF FixFailedNodes
<1>3. TypeOK' /\ KnowKept /\ MastersKept
  BY <1>1, <1>2, ForgetNodeKept
<1>4. PassKept
  <2>1. op \in Pass
    BY BusyIsPass DEF FixFailedNodes, IInv, Busy
  <2>2. CASE op' = [op EXCEPT !.ghosts = @ \ {g}]
    <3>1. op' \in Pass
      BY <2>1, <2>2 DEF Pass
    <3>2. /\ op'.infos = op.infos /\ op'.pool = op.pool
          /\ op'.ghosts = op.ghosts \ {g} /\ op'.plan = op.plan
      BY <2>1, <2>2 DEF Pass
    <3>. QED
      BY <2>1, <3>1, <3>2 DEF PassKept
  <2>. QED
    BY <1>1, <2>2, ReturnKept
<1>. QED
  BY <1>2, <1>3, <1>4, Unmoved, KeptStep DEF kube

LEMMA ForgetIsLostIInv ==
  ASSUME IInv, ForgetIsLost
  PROVE  IInv'
<1>1. PICK g \in op.ghosts : \E x \in op.pool \cap Reached :
        ForgetNode(g, op.pool, (op.pool \cap Reached) \ {x})
  BY DEF ForgetIsLost
<1>2. UNCHANGED <<kube, slow, status, past>> /\ Return
  BY DEF ForgetIsLost
<1>3. TypeOK' /\ KnowKept /\ MastersKept
  BY <1>1, <1>2, ForgetNodeKept
<1>. QED
  BY <1>2, <1>3, ReturnKept, Unmoved, KeptStep DEF kube

LEMMA LearntKept ==
  ASSUME IInv, know' \in [ID -> SUBSET ID],
         \A x \in ID : know[x] \subseteq know'[x] /\ know'[x] \subseteq know[x] \cup Reached
  PROVE  KnowKept
<1>1. Reached \subseteq Born
  BY RunningNodes
<1>2. Born \subseteq Born'
  BY DEF Born
<1>3. \A x \in ID : know'[x] \subseteq Born
  BY <1>1 DEF IInv, BornOK
<1>. QED
  BY <1>2, <1>3 DEF KnowKept

LEMMA HandshakeIInv ==
  ASSUME IInv, NEW b \in ID, Handshake(b)
  PROVE  IInv'
<1>1. UNCHANGED <<kube, master, owner, copy, slow, status, op, past>> /\ shake' \subseteq shake
  BY DEF Handshake
<1>2. PICK all \in SUBSET Reached :
        know' = [x \in ID |-> IF b \in Running /\ x \in all THEN know[x] \cup all ELSE know[x]]
  <2>. DEFINE from == {s[1] : s \in {s \in shake : s[2] = b}} \ slow
              ends == from \cup {b}
              all == {x \in (UNION {know[y] : y \in ends}) \cap Reached : know[x] \cap ends # {}}
  <2>1. know' = [x \in ID |-> IF b \in Running /\ x \in all THEN know[x] \cup all ELSE know[x]]
    BY DEF Handshake
  <2>2. all \in SUBSET Reached
    OBVIOUS
  <2>. HIDE DEF all
  <2>. QED
    BY <2>1, <2>2
<1>3. know' \in [ID -> SUBSET ID]
  <2>1. all \subseteq ID
    BY RunningNodes
  <2>. QED
    BY <1>2, <2>1 DEF IInv, TypeOK
<1>4. KnowKept
  BY <1>2, <1>3, LearntKept
<1>5. TypeOK'
  BY <1>1, <1>3 DEF IInv, TypeOK, Running, kube
<1>. QED
  BY <1>1, <1>4, <1>5, Unmoved, KeptStep DEF kube, PassKept

LEMMA GossipIInv ==
  ASSUME IInv, Gossip
  PROVE  IInv'
<1>1. UNCHANGED <<kube, master, owner, copy, shake, slow, status, op, past>>
  BY DEF Gossip
<1>2. \A x : Heard(x) \subseteq Reached
  BY DEF Heard
<1>3. know' \in [ID -> SUBSET ID]
  <2>1. Reached \subseteq ID
    BY RunningNodes
  <2>. QED
    BY <1>2, <2>1 DEF Gossip, IInv, TypeOK
<1>4. \A x \in ID : know[x] \subseteq know'[x] /\ know'[x] \subseteq know[x] \cup Reached
  BY <1>2 DEF Gossip
<1>5. KnowKept
  BY <1>3, <1>4, LearntKept
<1>6. TypeOK'
  BY <1>1, <1>3 DEF IInv, TypeOK, Running, kube
<1>. QED
  BY <1>1, <1>5, <1>6, Unmoved, KeptStep DEF kube, PassKept

-----------------------------------------------------------------------------
(* Steps that change masters and slots.                                    *)

LEMMA AllocSlotsIInv ==
  ASSUME IInv, AllocSlots
  PROVE  IInv'
<1>0. op \in Pass
  BY BusyIsPass DEF AllocSlots, IInv, Busy
<1>1. UNCHANGED <<kube, master, know, shake, slow, past>>
  BY DEF AllocSlots
<1>2. owner' \in [Index -> Maybe] /\ copy' \in [ID -> SUBSET Index]
  <2>1. CASE UNCHANGED <<owner, copy>>
    BY <2>1 DEF IInv, TypeOK
  <2>2. CASE ~UNCHANGED <<owner, copy>>
    <3>1. PICK i \in Empty :
            /\ owner' = [owner EXCEPT ![i] = op.new[i]]
            /\ copy' = [x \in ID |-> IF x = op.new[i] \/ master[x] = op.new[i]
                                     THEN {i} ELSE copy[x]]
      BY <2>2 DEF AllocSlots
    <3>2. op.new \in Chosen /\ i \in DOMAIN op.new
      BY <1>0 DEF Pass, Empty
    <3>3. PICK n \in 1 .. MaxSize : op.new \in [0 .. n - 1 -> ID]
      BY <3>2 DEF Chosen
    <3>4. i \in Index /\ op.new[i] \in ID
      BY <3>2, <3>3, MaxSizeAssumption DEF Index
    <3>. QED
      BY <3>1, <3>4 DEF IInv, TypeOK, Maybe
  <2>. QED
    BY <2>1, <2>2
<1>3. TypeOK'
  <2>1. UNCHANGED status \/ SetAgain
    BY DEF AllocSlots, ReturnFailed
  <2>2. status' \subseteq ID
    BY <1>0, <2>1, SetAgainTyped DEF IInv, TypeOK
  <2>. QED
    BY <1>1, <1>2, <2>2 DEF IInv, TypeOK, Running, kube
<1>4. PassKept
  <2>1. Goto("final") \/ UNCHANGED op \/ Return
    BY DEF AllocSlots, ReturnFailed
  <2>. QED
    BY <1>0, <2>1, GotoKept, ReturnKept DEF Busy, PassKept
<1>. QED
  BY <1>1, <1>3, <1>4, StillStep DEF kube

LEMMA DispatchSlotsIInv ==
  ASSUME IInv, DispatchSlots
  PROVE  IInv'
<1>0. op \in Pass
  BY BusyIsPass DEF DispatchSlots, IInv, Busy
<1>1. UNCHANGED <<kube, master, know, shake, slow, past>>
  BY DEF DispatchSlots
<1>2. owner' \in [Index -> Maybe] /\ copy' \in [ID -> SUBSET Index]
  <2>1. CASE UNCHANGED <<owner, copy>>
    BY <2>1 DEF IInv, TypeOK
  <2>2. CASE /\ owner' = [i \in Index |-> IF i < size THEN owner[i] ELSE NoId]
             /\ copy' = [x \in ID |-> copy[x] \cap 0 .. size - 1]
    BY <2>2 DEF IInv, TypeOK, Maybe
  <2>. QED
    BY <2>1, <2>2 DEF DispatchSlots
<1>3. TypeOK'
  <2>1. status' \subseteq ID
    BY <1>0, SetAgainTyped DEF DispatchSlots
  <2>. QED
    BY <1>1, <1>2, <2>1 DEF IInv, TypeOK, Running, kube
<1>4. PassKept
  <2>1. Goto("remove") \/ Return
    BY DEF DispatchSlots
  <2>. QED
    BY <1>0, <2>1, GotoKept, ReturnKept DEF Busy
<1>. QED
  BY <1>1, <1>3, <1>4, StillStep DEF kube

\* A new master of x has the same home, and both are nodes that there have been.
LEMMA NewMasterStep ==
  ASSUME IInv, TypeOK', UNCHANGED <<at, disk, know>>, PassKept,
         NEW home \in [ID -> Index], HomeFits(home),
         \A x \in ID : \/ master'[x] \in {master[x], NoId}
                       \/ /\ x \in Born /\ master'[x] \in Born
                          /\ home[master'[x]] = home[x]
  PROVE  IInv'
<1>1. OpOK'
  BY PassKeptOK DEF IInv
<1>2. PlacesOK'
  BY DEF IInv, PlacesOK
<1>3. Born' = Born
  BY DEF Born
<1>4. BornOK'
  <2>1. \A x \in ID : master'[x] # NoId => x \in Born /\ master'[x] \in Born
    BY DEF IInv, BornOK
  <2>2. op' \in Pass => op'.ghosts \cup DOMAIN op'.infos \subseteq Born
    BY IdleNoPass DEF PassKept, IInv, BornOK
  <2>. QED
    BY <1>3, <2>1, <2>2 DEF IInv, BornOK
<1>5. HomeFits(home)'
  <2>1. \A x \in ID : master'[x] # NoId => home[master'[x]] = home[x]
    BY DEF HomeFits
  <2>2. op' \in Pass =>
          /\ \A x \in DOMAIN op'.infos : op'.infos[x].sts = home[x]
          /\ \A a \in op'.plan : /\ {a[1], a[2]} \subseteq DOMAIN op'.infos
                                 /\ home[a[1]] = home[a[2]]
    BY IdleNoPass DEF PassKept, HomeFits
  <2>. QED
    BY <2>1, <2>2 DEF HomeFits
<1>. QED
  BY <1>1, <1>2, <1>4, <1>5 DEF IInv, HomeOK

LEMMA AttachingSlavesToMasterIInv ==
  ASSUME IInv, AttachingSlavesToMaster
  PROVE  IInv'
<1>0. op \in Pass
  BY BusyIsPass DEF AttachingSlavesToMaster, IInv, Busy
<1>1. UNCHANGED <<kube, owner, know, shake, slow>>
  BY DEF AttachingSlavesToMaster
<1>2. PICK home \in [ID -> Index] : HomeFits(home)
  BY DEF IInv, HomeOK
<1>3. ASSUME NEW a \in op.plan,
             IF Replicates(a[1], a[2])
             THEN /\ master' = [master EXCEPT ![a[1]] = a[2]]
                  /\ copy' = [copy EXCEPT ![a[1]] = copy[a[2]]]
             ELSE UNCHANGED <<master, copy>>,
             op' = [op EXCEPT !.plan = @ \ {a}, !.done = @ \cup {Replicates(a[1], a[2])}],
             UNCHANGED <<status, past>>
      PROVE  IInv'
  <2>1. /\ a[1] \in ID /\ a[2] \in ID /\ a[1] \in Born /\ a[2] \in Born
        /\ home[a[1]] = home[a[2]]
    BY <1>0, <1>2, <1>3 DEF HomeFits, IInv, BornOK, Born
  <2>2. master' \in [ID -> Maybe] /\ copy' \in [ID -> SUBSET Index]
    BY <1>3, <2>1 DEF IInv, TypeOK, Maybe
  <2>3. TypeOK'
    BY <1>1, <1>3, <2>2 DEF IInv, TypeOK, Running, kube
  <2>4. Replicates(a[1], a[2]) \in BOOLEAN
    BY DEF Replicates
  <2>5. op' \in Pass
    BY <1>0, <1>3, <2>4 DEF Pass
  <2>6. /\ op'.infos = op.infos /\ op'.pool = op.pool
        /\ op'.ghosts = op.ghosts /\ op'.plan = op.plan \ {a}
    BY <1>0, <1>3 DEF Pass
  <2>7. PassKept
    BY <1>0, <2>5, <2>6 DEF PassKept
  <2>8. \A x \in ID : \/ master'[x] = master[x]
                      \/ x = a[1] /\ master'[x] = a[2]
    BY <1>3, <2>1 DEF IInv, TypeOK
  <2>9. \A x \in ID : \/ master'[x] \in {master[x], NoId}
                      \/ /\ x \in Born /\ master'[x] \in Born
                         /\ home[master'[x]] = home[x]
    BY <2>1, <2>8
  <2>. QED
    BY <1>1, <1>2, <2>3, <2>7, <2>9, NewMasterStep DEF kube
<1>4. CASE /\ op.plan = {}
           /\ IF FALSE \in op.done
              THEN ReturnFailed
              ELSE Goto(IF op.branch = "slave" THEN "final" ELSE "slots") /\ UNCHANGED status
           /\ past' = past \cup (IF HalfAttached THEN {"half"} ELSE {})
           /\ UNCHANGED <<master, copy>>
  <2>1. past' \subseteq {"quorum", "panic", "half", "leftover"}
    BY <1>4 DEF IInv, TypeOK
  <2>0. status' \subseteq ID
    <3>1. UNCHANGED status \/ SetAgain
      BY <1>4 DEF ReturnFailed
    <3>. QED
      BY <1>0, <3>1, SetAgainTyped DEF IInv, TypeOK
  <2>2. TypeOK'
    BY <1>1, <1>4, <2>0, <2>1 DEF IInv, TypeOK, Running, kube
  <2>3. Return \/ Goto("final") \/ Goto("slots")
    BY <1>4 DEF ReturnFailed
  <2>4. PassKept
    BY <1>0, <2>3, GotoKept, ReturnKept DEF Busy
  <2>. QED
    BY <1>1, <1>4, <2>2, <2>4, StillStep DEF kube
<1>. QED
  BY <1>3, <1>4 DEF AttachingSlavesToMaster

LEMMA FailoverIInv ==
  ASSUME IInv, NEW i \in Index, Failover(i)
  PROVE  IInv'
<1>1. UNCHANGED <<kube, copy, know, shake, slow, status, op, past>>
  BY DEF Failover
<1>2. PICK home \in [ID -> Index] : HomeFits(home)
  BY DEF IInv, HomeOK
<1>3. PICK s \in Candidates(i) :
        /\ master' = [x \in ID |-> CASE x = s -> NoId
                                     [] x # s /\ (master[x] = owner[i] \/ x = owner[i]) -> s
                                     [] OTHER -> master[x]]
        /\ owner' = [j \in Index |-> IF owner[j] = owner[i] THEN s ELSE owner[j]]
  BY DEF Failover
<1>4. s \in Reached /\ master[s] = owner[i] /\ owner[i] # NoId
  BY DEF Candidates
<1>5. s \in ID /\ s \in Born /\ owner[i] \in Born /\ home[owner[i]] = home[s]
  BY <1>2, <1>4, RunningNodes DEF IInv, BornOK, HomeFits
<1>6. \A x \in ID : \/ master'[x] \in {master[x], NoId}
                    \/ master'[x] = s /\ (master[x] = owner[i] \/ x = owner[i])
  BY <1>3
<1>7. \A x \in ID : \/ master'[x] \in {master[x], NoId}
                    \/ /\ x \in Born /\ master'[x] \in Born
                       /\ home[master'[x]] = home[x]
  BY <1>2, <1>4, <1>5, <1>6 DEF IInv, BornOK, HomeFits
<1>8. owner' \in [Index -> Maybe]
  BY <1>3, <1>5 DEF IInv, TypeOK, Maybe
<1>9. master' \in [ID -> Maybe]
  <2>1. \A x \in ID : master'[x] \in Maybe
    BY <1>5, <1>6 DEF IInv, TypeOK, Maybe
  <2>. QED
    BY <1>3, <2>1
<1>10. TypeOK'
  BY <1>1, <1>8, <1>9 DEF IInv, TypeOK, Running, kube
<1>. QED
  BY <1>1, <1>2, <1>7, <1>10, NewMasterStep DEF kube, PassKept

-----------------------------------------------------------------------------
(* Pods.                                                                   *)

LEMMA PodDiesIInv ==
  ASSUME IInv, NEW p \in Pod, PodDies(p)
  PROVE  IInv'
<1>1. /\ UNCHANGED <<size, volume, sts, disk, master, owner, copy, know, status, op>>
      /\ at' = [at EXCEPT ![p] = NoId] /\ at[p] # NoId
      /\ shake' = {s \in shake : s[1] # at[p]} /\ slow' = slow \ {at[p]}
  BY DEF PodDies
<1>2. past' \subseteq {"quorum", "panic", "half", "leftover"}
  BY DEF PodDies, IInv, TypeOK
<1>3. at' \in [Pod -> Maybe] /\ \A q \in Pod : at'[q] \in {at[q], NoId}
  BY <1>1 DEF IInv, TypeOK, Maybe
<1>4. PodsKept
  BY <1>1, <1>3 DEF PodsKept, IInv, PlacesOK
<1>5. Running \ {at[p]} \subseteq Running'
  <2>. SUFFICES ASSUME NEW x \in Running, x # at[p]
       PROVE  x \in Running'
    OBVIOUS
  <2>1. PICK q \in Pod : at[q] = x
    BY DEF Running
  <2>2. at'[q] = x /\ x # NoId
    BY <1>1, <2>1 DEF IInv, TypeOK, Running
  <2>. QED
    BY <2>2 DEF Running
<1>6. TypeOK'
  <2>1. \A q, r \in Pod : at'[q] = at'[r] /\ at'[q] # NoId => q = r
    BY <1>3 DEF IInv, TypeOK
  <2>2. \A s \in shake' : s[1] \in Running' /\ s[2] \in ID
    BY <1>1, <1>5 DEF IInv, TypeOK
  <2>3. slow' \subseteq Running'
    BY <1>1, <1>5 DEF IInv, TypeOK
  <2>. QED
    BY <1>1, <1>2, <1>3, <2>1, <2>2, <2>3 DEF IInv, TypeOK
<1>. QED
  BY <1>1, <1>4, <1>6, Unmoved, KeptStep DEF PassKept

LEMMA scalingDownIInv ==
  ASSUME IInv, scalingDown
  PROVE  IInv'
<1>0. op \in Pass /\ op.pool \subseteq DOMAIN op.infos
  BY BusyIsPass DEF scalingDown, IInv, Busy, OpOK
<1>1. UNCHANGED <<status, past>>
  BY DEF scalingDown
<1>2. CASE Goto("final") /\ UNCHANGED <<kube, redis, slow>>
  <2>1. TypeOK'
    BY <1>1, <1>2 DEF IInv, TypeOK, Running, kube, redis
  <2>. QED
    BY <1>0, <1>2, <2>1, GotoKept, StillStep DEF Busy, kube, redis
<1>3. CASE Surplus # {}
  <2>. DEFINE gone(i) == {x \in DOMAIN op.infos : op.infos[x].sts = i}
              stay == {x \in op.pool \cap Reached : op.infos[x].sts < size}
              stopped(i) == {at[p] : p \in {p \in Pod : p[1] = i}}
  <2>1. PICK i \in Surplus :
          /\ know' = [x \in ID |-> IF x \in stay THEN know[x] \ gone(i) ELSE know[x]]
          /\ sts' = sts \ {i}
          /\ at' = [p \in Pod |-> IF p[1] = i THEN NoId ELSE at[p]]
          /\ disk' = [p \in Pod |-> IF p[1] = i THEN NoId ELSE disk[p]]
          /\ shake' = {s \in shake : s[1] \notin stopped(i)}
          /\ slow' = slow \ stopped(i)
          /\ UNCHANGED <<size, volume, master, owner, copy, op>>
    BY <1>3 DEF scalingDown, sortRedisNodeByStatefulSet
  <2>2. i >= size
    BY DEF Surplus
  <2>3. \A x \in stay : x \notin gone(i)
    <3>. SUFFICES ASSUME NEW x \in stay, op.infos[x].sts = i
         PROVE  FALSE
      OBVIOUS
    <3>1. op.infos[x].sts < size /\ size \in Nat /\ i \in Nat
      BY DEF IInv, TypeOK, Surplus, Index
    <3>. QED
      BY <2>2, <3>1
  <2>4. know' \in [ID -> SUBSET ID]
    BY <2>1 DEF IInv, TypeOK
  <2>5. \A x \in ID : know'[x] \subseteq know[x] /\ (x \in know[x] => x \in know'[x])
    BY <2>1, <2>3
  <2>6. Born' = Born
    BY <2>5 DEF Born
  <2>7. KnowKept
    BY <2>5, <2>6 DEF KnowKept, IInv, BornOK
  <2>8. /\ at' \in [Pod -> Maybe] /\ disk' \in [Pod -> Maybe]
        /\ \A p \in Pod : at'[p] \in {at[p], NoId} /\ disk'[p] \in {disk[p], NoId}
    BY <2>1 DEF IInv, TypeOK, Maybe
  <2>9. PodsKept
    BY <2>8 DEF PodsKept, IInv, PlacesOK
  <2>10. Running \ stopped(i) \subseteq Running'
    <3>. SUFFICES ASSUME NEW x \in Running, x \notin stopped(i)
         PROVE  x \in Running'
      OBVIOUS
    <3>1. PICK p \in Pod : at[p] = x
      BY DEF Running
    <3>2. at'[p] = x /\ x # NoId
      BY <2>1, <3>1 DEF Running
    <3>. QED
      BY <3>2 DEF Running
  <2>11. TypeOK'
    <3>1. \A p, q \in Pod : at'[p] = at'[q] /\ at'[p] # NoId => p = q
      BY <2>8 DEF IInv, TypeOK
    <3>2. \A s \in shake' : s[1] \in Running' /\ s[2] \in ID
      BY <2>1, <2>10 DEF IInv, TypeOK
    <3>3. slow' \subseteq Running'
      BY <2>1, <2>10 DEF IInv, TypeOK
    <3>4. sts' \subseteq Index
      BY <2>1 DEF IInv, TypeOK
    <3>. QED
      BY <1>1, <2>1, <2>4, <2>8, <3>1, <3>2, <3>3, <3>4 DEF IInv, TypeOK
  <2>. QED
    BY <2>1, <2>7, <2>9, <2>11, Unmoved, KeptStep DEF PassKept
<1>. QED
  BY <1>2, <1>3 DEF scalingDown

LEMMA PodStartsIInv ==
  ASSUME IInv, NEW p \in Pod, PodStarts(p)
  PROVE  IInv'
<1>1. /\ UNCHANGED <<size, volume, sts, master, owner, copy, slow, status, op, past>>
      /\ at[p] = NoId /\ shake' \subseteq shake
  BY DEF PodStarts
<1>2. ASSUME NEW x \in ID, at' = [at EXCEPT ![p] = x], know' \in [ID -> SUBSET ID],
             disk' \in [Pod -> Maybe], \A q \in Pod : q # p => at[q] # x
      PROVE  TypeOK'
  <2>1. at' \in [Pod -> Maybe] /\ \A q \in Pod : at'[q] = IF q = p THEN x ELSE at[q]
    BY <1>2 DEF IInv, TypeOK, Maybe
  <2>2. Running \subseteq Running'
    <3>. SUFFICES ASSUME NEW y \in Running
         PROVE  y \in Running'
      OBVIOUS
    <3>1. PICK q \in Pod : at[q] = y
      BY DEF Running
    <3>2. at'[q] = y /\ y # NoId
      BY <1>1, <2>1, <3>1 DEF Running
    <3>. QED
      BY <3>2 DEF Running
  <2>3. \A q, r \in Pod : at'[q] = at'[r] /\ at'[q] # NoId => q = r
    BY <1>2, <2>1 DEF IInv, TypeOK
  <2>4. \A s \in shake' : s[1] \in Running' /\ s[2] \in ID
    BY <1>1, <2>2 DEF IInv, TypeOK
  <2>5. slow' \subseteq Running'
    BY <1>1, <2>2 DEF IInv, TypeOK
  <2>. QED
    BY <1>1, <1>2, <2>1, <2>3, <2>4, <2>5 DEF IInv, TypeOK
<1>3. CASE /\ disk[p] # NoId
           /\ at' = [at EXCEPT ![p] = disk[p]]
           /\ UNCHANGED <<disk, know>>
  <2>1. disk[p] \in ID
    BY <1>3 DEF IInv, TypeOK, Maybe
  <2>2. \A q \in Pod : q # p => at[q] # disk[p]
    BY <2>1 DEF IInv, PlacesOK
  <2>3. TypeOK'
    BY <1>2, <1>3, <2>1, <2>2 DEF IInv, TypeOK
  <2>4. PodsKept
    BY <1>3 DEF PodsKept, IInv, PlacesOK, TypeOK
  <2>. QED
    BY <1>1, <1>3, <2>3, <2>4, Unmoved, KeptStep DEF PassKept
<1>4. ASSUME disk[p] = NoId, NEW x \in NewIds(p),
             at' = [at EXCEPT ![p] = x],
             disk' = [disk EXCEPT ![p] = IF volume THEN x ELSE NoId],
             know' = [know EXCEPT ![x] = {x}]
      PROVE  IInv'
  <2>1. x \in ID /\ x \notin Born /\ x # NoId
    BY IDAssumption DEF NewIds, Born
  <2>2. \A q \in Pod : at[q] # x /\ disk[q] # x
    BY <2>1 DEF IInv, BornOK
  <2>3. know' \in [ID -> SUBSET ID] /\ disk' \in [Pod -> Maybe]
    BY <1>4, <2>1 DEF IInv, TypeOK, Maybe
  <2>4. TypeOK'
    BY <1>2, <1>4, <2>1, <2>2, <2>3
  <2>5. /\ \A q \in Pod : q # p => at'[q] = at[q] /\ disk'[q] = disk[q]
        /\ at'[p] = x /\ disk'[p] \in {x, NoId}
    BY <1>4 DEF IInv, TypeOK
  <2>6. PlacesOK'
    <3>1. ASSUME NEW q \in Pod, NEW r \in Pod, NEW y \in ID,
                 y \in {at'[q], disk'[q]}, y \in {at'[r], disk'[r]}
          PROVE  q = r
      <4>1. CASE y = x
        BY <2>2, <2>5, <3>1, <4>1
      <4>2. CASE y # x
        BY <2>1, <2>5, <3>1, <4>2, IDAssumption DEF IInv, PlacesOK
      <4>. QED
        BY <4>1, <4>2
    <3>2. \A q \in Pod : at'[q] # NoId /\ disk'[q] # NoId => at'[q] = disk'[q]
      BY <2>5 DEF IInv, PlacesOK
    <3>. QED
      BY <3>1, <3>2 DEF PlacesOK
  <2>7. Born' = Born \cup {x}
    BY <1>4, <2>1 DEF Born, IInv, TypeOK
  <2>8. BornOK'
    <3>1. \A y \in ID : know'[y] \subseteq Born \cup {x}
      BY <1>4, <2>1 DEF IInv, BornOK, TypeOK
    <3>2. \A q \in Pod : {at'[q], disk'[q]} \subseteq Born \cup {x, NoId}
      BY <2>5 DEF IInv, BornOK
    <3>. QED
      BY <1>1, <2>7, <3>1, <3>2 DEF IInv, BornOK
  <2>9. HomeOK'
    <3>1. PICK home \in [ID -> Index] : HomeFits(home)
      BY DEF IInv, HomeOK
    <3>. DEFINE new == [home EXCEPT ![x] = p[1]]
    <3>2. p[1] \in Index
      BY DEF Pod
    <3>3. new \in [ID -> Index] /\ new[x] = p[1] /\ \A y \in Born : new[y] = home[y]
      BY <2>1, <3>2 DEF Born
    <3>. HIDE DEF new
    <3>4. \A q \in Pod : at'[q] # NoId => new[at'[q]] = q[1]
      <4>. SUFFICES ASSUME NEW q \in Pod, at'[q] # NoId
           PROVE  new[at'[q]] = q[1]
        OBVIOUS
      <4>1. CASE q = p
        BY <2>5, <3>3, <4>1
      <4>2. CASE q # p
        BY <2>5, <3>1, <3>3, <4>2 DEF HomeFits, IInv, BornOK
      <4>. QED
        BY <4>1, <4>2
    <3>5. \A q \in Pod : disk'[q] # NoId => new[disk'[q]] = q[1]
      <4>. SUFFICES ASSUME NEW q \in Pod, disk'[q] # NoId
           PROVE  new[disk'[q]] = q[1]
        OBVIOUS
      <4>1. CASE q = p
        BY <2>5, <3>3, <4>1
      <4>2. CASE q # p
        BY <2>5, <3>1, <3>3, <4>2 DEF HomeFits, IInv, BornOK
      <4>. QED
        BY <4>1, <4>2
    <3>6. \A y \in ID : master'[y] # NoId => new[master'[y]] = new[y]
      BY <1>1, <3>1, <3>3 DEF HomeFits, IInv, BornOK
    <3>7. op' \in Pass =>
            /\ \A y \in DOMAIN op'.infos : op'.infos[y].sts = new[y]
            /\ \A a \in op'.plan : /\ {a[1], a[2]} \subseteq DOMAIN op'.infos
                                   /\ new[a[1]] = new[a[2]]
      BY <1>1, <3>1, <3>3 DEF HomeFits, IInv, BornOK
    <3>8. HomeFits(new)'
      BY <3>4, <3>5, <3>6, <3>7 DEF HomeFits
    <3>. QED
      BY <3>3, <3>8 DEF HomeOK
  <2>10. OpOK'
    BY <1>1 DEF IInv, OpOK
  <2>. QED
    BY <2>4, <2>6, <2>8, <2>9, <2>10 DEF IInv
<1>. QED
  BY <1>3, <1>4 DEF PodStarts

-----------------------------------------------------------------------------
(* The initial states.                                                     *)

\* No two pods begin with the same node.
LEMMA FirstIdInjective ==
  ASSUME NEW p \in Pod, NEW q \in Pod, FirstId(p) = FirstId(q)
  PROVE  p = q
<1>. DEFINE R == Replicas + 1
<1>1. /\ p[1] \in Nat /\ q[1] \in Nat /\ p[2] \in 0 .. Replicas /\ q[2] \in 0 .. Replicas
      /\ p = <<p[1], p[2]>> /\ q = <<q[1], q[2]>> /\ R \in Nat
  BY ReplicasAssumption DEF Pod, Index
<1>2. ASSUME NEW i \in Nat, NEW j \in Nat, i < j
      PROVE  i * R + R <= j * R
  <2>1. PICK d \in Nat : j = i + 1 + d
    <3>1. j - i - 1 \in Nat /\ j = i + 1 + (j - i - 1)
      BY <1>2
    <3>. QED
      BY <3>1
  <2>2. j * R = i * R + R + d * R /\ d * R \in Nat /\ i * R \in Nat
    BY <1>1, <2>1
  <2>. QED
    BY <1>1, <2>2
<1>3. p[1] * R + p[2] = q[1] * R + q[2]
  BY <1>1 DEF FirstId
<1>4. p[1] * R \in Nat /\ q[1] * R \in Nat
  BY <1>1
<1>5. ~(p[1] < q[1])
  BY <1>1, <1>2, <1>3, <1>4, ReplicasAssumption
<1>6. ~(q[1] < p[1])
  BY <1>1, <1>2, <1>3, <1>4, ReplicasAssumption
<1>7. p[1] = q[1]
  BY <1>1, <1>5, <1>6
<1>. QED
  BY <1>1, <1>3, <1>4, <1>7

LEMMA InitIInv ==
  ASSUME Init
  PROVE  IInv
<1>1. /\ at = [p \in Pod |-> IF p[1] \in sts THEN FirstId(p) ELSE NoId]
      /\ disk = IF volume THEN at ELSE [p \in Pod |-> NoId]
      /\ sts \subseteq Index /\ size \in 1 .. MaxSize /\ volume \in BOOLEAN
      /\ shake = {} /\ slow = {} /\ op = Idle /\ past = {}
  BY MaxSizeAssumption DEF Init, Index
<1>2. /\ at \in [Pod -> Maybe] /\ disk \in [Pod -> Maybe]
      /\ \A p \in Pod : disk[p] \in {at[p], NoId}
      /\ \A p \in Pod : at[p] # NoId => at[p] = FirstId(p)
  BY <1>1, FirstIdAssumption DEF Maybe
<1>3. \A p, q \in Pod : at[p] = at[q] /\ at[p] # NoId => p = q
  BY <1>2, FirstIdInjective
<1>4. Running \subseteq ID
  BY <1>2 DEF Running, Maybe
<1>5. \A x \in Running : PodOf(x) \in Pod /\ at[PodOf(x)] = x /\ x # NoId
  BY DEF Running, PodOf
<1>6. \A x \in ID : /\ know[x] \subseteq Running
                    /\ x \in Running => x \in know[x]
  BY DEF Init
<1>7. know \in [ID -> SUBSET ID] /\ status \subseteq ID
  BY <1>4 DEF Init
<1>8. /\ owner \in [Index -> Maybe] /\ copy \in [ID -> SUBSET Index]
  <2>1. \A i \in Index : <<i, 0>> \in Pod
    BY ReplicasAssumption DEF Pod
  <2>2. \A x \in Running : PodOf(x)[1] \in Index
    BY <1>5 DEF Pod
  <2>3. \/ owner = [i \in Index |-> NoId]
        \/ owner = [i \in Index |-> IF i \in sts THEN FirstId(<<i, 0>>) ELSE NoId]
    BY DEF Init
  <2>4. \/ copy = [x \in ID |-> {}]
        \/ copy = [x \in ID |-> IF x \in Running THEN {PodOf(x)[1]} ELSE {}]
    BY DEF Init
  <2>5. owner \in [Index -> Maybe]
    BY <2>1, <2>3, FirstIdAssumption DEF Maybe
  <2>. QED
    BY <2>2, <2>4, <2>5
<1>9. \A x \in ID : master[x] # NoId =>
        /\ x \in Running
        /\ \E q \in Pod : q[1] = PodOf(x)[1] /\ at[q] = master[x]
  <2>. SUFFICES ASSUME NEW x \in ID, master[x] # NoId
       PROVE  /\ x \in Running
              /\ \E q \in Pod : q[1] = PodOf(x)[1] /\ at[q] = master[x]
    OBVIOUS
  <2>1. x \in Running /\ master[x] = FirstId(<<PodOf(x)[1], 0>>)
    BY DEF Init
  <2>2. PodOf(x) \in Pod /\ PodOf(x)[1] \in sts
    BY <1>1, <1>5, <2>1
  <2>3. <<PodOf(x)[1], 0>> \in Pod
    BY <1>1, <2>2, ReplicasAssumption DEF Pod
  <2>. QED
    BY <1>1, <2>1, <2>2, <2>3
<1>10. master \in [ID -> Maybe]
  <2>1. \A x \in ID : master[x] \in Maybe
    BY <1>2, <1>9 DEF Maybe
  <2>2. master = [x \in ID |-> master[x]]
    BY DEF Init
  <2>. QED
    BY <2>1, <2>2
<1>11. TypeOK
  BY <1>1, <1>2, <1>3, <1>7, <1>8, <1>10 DEF TypeOK
<1>12. OpOK
  BY <1>1, IdleNoPass DEF OpOK
<1>13. PlacesOK
  BY <1>2, <1>3, IDAssumption DEF PlacesOK
<1>14. Born = Running
  BY <1>4, <1>6 DEF Born
<1>15. BornOK
  <2>1. \A p \in Pod : at[p] # NoId => at[p] \in Running
    BY DEF Running
  <2>2. \A x \in ID : master[x] # NoId => x \in Born /\ master[x] \in Born
    BY <1>9, <1>14, <2>1
  <2>. QED
    BY <1>1, <1>2, <1>6, <1>14, <2>1, <2>2, IdleNoPass DEF BornOK
<1>16. HomeOK
  <2>. DEFINE home == [x \in ID |-> IF x \in Running THEN PodOf(x)[1] ELSE 0]
  <2>1. home \in [ID -> Index]
    BY <1>5, MaxSizeAssumption DEF Pod, Index
  <2>2. \A p \in Pod : at[p] # NoId => home[at[p]] = p[1]
    <3>. SUFFICES ASSUME NEW p \in Pod, at[p] # NoId
         PROVE  home[at[p]] = p[1]
      OBVIOUS
    <3>1. at[p] \in Running
      BY DEF Running
    <3>2. PodOf(at[p]) = p
      BY <1>3, <1>5, <3>1
    <3>. QED
      BY <1>4, <3>1, <3>2
  <2>3. \A x \in ID : master[x] # NoId => home[master[x]] = home[x]
    BY <1>9, <2>2
  <2>4. HomeFits(home)
    BY <1>1, <1>2, <2>2, <2>3, IdleNoPass DEF HomeFits
  <2>. QED
    BY <2>1, <2>4 DEF HomeOK
<1>. QED
  BY <1>11, <1>12, <1>13, <1>15, <1>16 DEF IInv

LEMMA NextIInv ==
  ASSUME IInv, [Next]_vars
  PROVE  IInv'
<1>1. CASE UNCHANGED vars
  <2>1. TypeOK'
    BY <1>1 DEF vars, kube, redis, IInv, TypeOK, Running
  <2>. QED
    BY <1>1, <2>1, StillStep DEF vars, kube, redis, PassKept
<1>2. CASE Reconcile
  BY <1>2, EnsureStatefulsetsIInv, GetClusterInfosIInv, FixFailedNodesIInv,
     FixUntrustedNodesIInv, waitForClusterJoinIInv, JoinedIInv, buildClusterStatusIInv,
     syncClusterIInv, AttachingSlavesToMasterIInv, AllocSlotsIInv, DispatchSlotsIInv,
     scalingDownIInv, FinishIInv, RestartIInv
     DEF Reconcile
<1>3. CASE Progress
  BY <1>3, HandshakeIInv, GossipIInv, FailoverIInv, PodStartsIInv, RecoverIInv DEF Progress
<1>. QED
  BY <1>1, <1>2, <1>3, AbortIInv, ForgetIsLostIInv, ResizeIInv, PodDiesIInv, UnreachableIInv
     DEF Next

(***************************************************************************)
(* Whatever happens, the state is well typed, no two pods run one node, and*)
(* only running nodes begin a handshake (waitForClusterJoin, DetachSlave). *)
(***************************************************************************)
THEOREM TypeCorrect == Spec => []TypeOK
<1>1. Init => IInv
  BY InitIInv
<1>2. IInv /\ [Next]_vars => IInv'
  BY NextIInv
<1>3. IInv => TypeOK
  BY DEF IInv
<1>. QED
  BY <1>1, <1>2, <1>3, PTL DEF Spec

(***************************************************************************)
(* Whatever happens to pods, connections and calls, a slave replicates a   *)
(* node of its own StatefulSet: the plan of PlaceSlaves may be carried out *)
(* late, after pods were replaced and slaves have taken over, and          *)
(* ForgetNode and elections change masters behind its back.                *)
(***************************************************************************)
THEOREM SlavesStayAtHome == Spec => []OwnMaster
<1>1. Init => IInv
  BY InitIInv
<1>2. IInv /\ [Next]_vars => IInv'
  BY NextIInv
<1>3. IInv => OwnMaster
  <2>. SUFFICES ASSUME IInv, NEW x \in Running, master[x] \in Running
       PROVE  PodOf(x)[1] = PodOf(master[x])[1]
    BY DEF OwnMaster
  <2>1. PICK home \in [ID -> Index] : HomeFits(home)
    BY DEF IInv, HomeOK
  <2>2. \A y \in Running : y \in ID /\ y # NoId /\ home[y] = PodOf(y)[1]
    BY <2>1, PodOfRunning, RunningNodes DEF HomeFits, Running
  <2>. QED
    BY <2>1, <2>2 DEF HomeFits
<1>. QED
  BY <1>1, <1>2, <1>3, PTL DEF Spec

-----------------------------------------------------------------------------
(* Healing forgets only nodes that are gone.                               *)

LEMMA GhostKept ==
  ASSUME IInv, GhostOK, PodsKept, status' = status,
         op.pc = "heal" /\ op'.ghosts \subseteq op.ghosts
  PROVE  GhostOK'
<1>1. op \in Pass
  BY BusyIsPass DEF IInv, Busy
<1>2. op'.ghosts \subseteq ID
  BY <1>1 DEF Pass
<1>3. \A p \in Pod : \A x \in ID : x \in {at'[p], disk'[p]} => x \in {at[p], disk[p]}
  BY IDAssumption DEF PodsKept
<1>. QED
  BY <1>2, <1>3 DEF GhostOK

LEMMA GetClusterInfosGhosts ==
  ASSUME GInv, GetClusterInfos
  PROVE  GhostOK'
<1>1. UNCHANGED <<kube, status>>
  BY DEF GetClusterInfos
<1>2. PICK sorted \in SUBSET Reached, lost \in {{}, ID \ (Running \cup {disk[p] : p \in Pod})} :
        op'.ghosts = listGhostNodes(Infos(Reached, lost), sorted, status)
  <2>. DEFINE read(sorted, lost) ==
         [pc |-> "heal", pool |-> Reached, infos |-> Kept(Infos(Reached, lost)),
          ghosts |-> listGhostNodes(Infos(Reached, lost), sorted, status),
          untrusted |-> untrustedToForget(Infos(Reached, lost)),
          new |-> <<>>, plan |-> {}, branch |-> "", done |-> {}]
  <2>1. \E sorted \in {Reached, {x \in Reached : \A y \in ID : <<x, y>> \notin shake}},
            lost \in {{}, ID \ (Running \cup {disk[p] : p \in Pod})} :
          op' = read(sorted, lost)
    BY DEF GetClusterInfos, NewAdminConnections
  <2>2. \A sorted, lost : read(sorted, lost).ghosts
                            = listGhostNodes(Infos(Reached, lost), sorted, status)
    OBVIOUS
  <2>. HIDE DEF read
  <2>3. PICK sorted \in {Reached, {x \in Reached : \A y \in ID : <<x, y>> \notin shake}},
             lost \in {{}, ID \ (Running \cup {disk[p] : p \in Pod})} :
          op' = read(sorted, lost)
    BY <2>1
  <2>4. sorted \in SUBSET Reached
    OBVIOUS
  <2>5. op'.ghosts = listGhostNodes(Infos(Reached, lost), sorted, status)
    BY <2>2, <2>3
  <2>. QED
    BY <2>4, <2>5
<1>3. ASSUME NEW g \in op'.ghosts \cap status, NEW p \in Pod, g \in {at[p], disk[p]}
      PROVE  FALSE
  <2>1. g \in ID /\ g \in lost
    BY <1>2, <1>3, GhostsListed DEF GInv, Born
  <2>2. g \in Running \cup {disk[q] : q \in Pod}
    BY <1>3, <2>1, IDAssumption DEF Running
  <2>. QED
    BY <1>2, <2>1, <2>2
<1>. QED
  BY <1>1, <1>3 DEF GhostOK, kube

LEMMA InitGInv ==
  ASSUME Init
  PROVE  GInv
<1>1. op.pc = "idle"
  BY DEF Init, Idle
<1>. QED
  BY <1>1, InitIInv DEF GInv, GhostOK

\* The operator's steps, but for the two that list and work off the ghosts.
LEMMA OtherGhosts ==
  ASSUME IInv', op'.pc # "heal"
  PROVE  GInv'
BY DEF GInv, GhostOK

\* Steps that leave the operator alone.
LEMMA AsideGhosts ==
  ASSUME GInv, IInv', op' = op, PodsKept, status' = status
  PROVE  GInv'
<1>1. GhostOK'
  <2>1. CASE op.pc = "heal"
    BY <2>1, GhostKept DEF GInv
  <2>2. CASE op.pc # "heal"
    BY <2>2 DEF GhostOK
  <2>. QED
    BY <2>1, <2>2
<1>. QED
  BY <1>1 DEF GInv

LEMMA GotoPc ==
  ASSUME OpOK, op.pc \in Busy, NEW pc, Goto(pc)
  PROVE  op'.pc = pc
BY BusyIsPass DEF Goto, Pass

LEMMA ReconcileGInv ==
  ASSUME GInv, Reconcile
  PROVE  GInv'
<1>0. IInv /\ OpOK /\ IInv'
  BY NextIInv DEF GInv, IInv, Next
<1>. USE DEF Busy
<1>1. CASE EnsureStatefulsets
  <2>1. PodsKept
    BY <1>0, <1>1, Unmoved DEF EnsureStatefulsets
  <2>. QED
    BY <1>0, <1>1, <2>1, AsideGhosts DEF EnsureStatefulsets
<1>2. CASE GetClusterInfos
  BY <1>0, <1>2, GetClusterInfosGhosts DEF GInv
<1>3. CASE FixFailedNodes
  <2>1. PodsKept
    BY <1>0, <1>3, Unmoved DEF FixFailedNodes, kube
  <2>2. op \in Pass
    BY <1>0, <1>3, BusyIsPass DEF FixFailedNodes
  <2>3. op'.pc # "heal" \/ op'.ghosts \subseteq op.ghosts
    <3>1. CASE Return
      BY <3>1 DEF Return, Idle
    <3>2. ASSUME NEW g \in op.ghosts, op' = [op EXCEPT !.ghosts = @ \ {g}]
          PROVE  op'.ghosts \subseteq op.ghosts
      BY <2>2, <3>2 DEF Pass
    <3>. QED
      BY <1>3, <3>1, <3>2 DEF FixFailedNodes
  <2>4. GhostOK'
    <3>1. CASE op'.pc = "heal"
      BY <1>0, <1>3, <2>1, <2>3, <3>1, GhostKept DEF FixFailedNodes, kube, GInv
    <3>. QED
      BY <3>1 DEF GhostOK
  <2>. QED
    BY <1>0, <2>4 DEF GInv
<1>4. CASE FixUntrustedNodes
  <2>1. op'.pc # "heal"
    BY <1>0, <1>4, GotoPc DEF FixUntrustedNodes, Return, Idle
  <2>. QED
    BY <1>0, <2>1, OtherGhosts
<1>5. CASE waitForClusterJoin
  <2>1. op \in Pass
    BY <1>0, <1>5, BusyIsPass DEF waitForClusterJoin
  <2>2. op'.pc # "heal"
    BY <1>5, <2>1 DEF waitForClusterJoin, Goto, Pass
  <2>. QED
    BY <1>0, <2>2, OtherGhosts
<1>6. CASE Joined
  <2>1. op'.pc # "heal"
    BY <1>0, <1>6, GotoPc DEF Joined, Return, Idle
  <2>. QED
    BY <1>0, <2>1, OtherGhosts
<1>7. CASE buildClusterStatus
  <2>1. op'.pc # "heal"
    BY <1>0, <1>7, GotoPc DEF buildClusterStatus
  <2>. QED
    BY <1>0, <2>1, OtherGhosts
<1>8. CASE syncCluster
  <2>1. op \in Pass
    BY <1>0, <1>8, BusyIsPass DEF syncCluster
  <2>2. op'.pc # "heal"
    <3>1. CASE Return \/ op' = Panicked
      BY <3>1 DEF Return, Idle, Panicked
    <3>2. \A new, branch, plan, pc :
            /\ [op EXCEPT !.pc = pc, !.new = new, !.branch = branch, !.plan = plan].pc = pc
            /\ [op EXCEPT !.pc = pc, !.new = new, !.branch = branch].pc = pc
      BY <2>1 DEF Pass
    <3>3. ASSUME NEW new \in DispatchMasters(op.infos, size), NEW branch,
                 IF branch \in {"create", "up", "slave"}
                 THEN op' = IF PlaceSlavesPanics(op.infos, new) THEN [pc |-> "panic"]
                            ELSE [op EXCEPT !.pc = "attach", !.new = new, !.branch = branch,
                                            !.plan = PlaceSlaves(op.infos, new)]
                 ELSE op' = [op EXCEPT !.pc = IF branch = "down" THEN "down" ELSE "final",
                                       !.new = new, !.branch = branch]
          PROVE  op'.pc # "heal"
      <4>1. CASE op' = [pc |-> "panic"]
        BY <4>1
      <4>2. CASE op' = [op EXCEPT !.pc = "attach", !.new = new, !.branch = branch,
                                  !.plan = PlaceSlaves(op.infos, new)]
        BY <3>2, <4>2
      <4>3. CASE op' = [op EXCEPT !.pc = IF branch = "down" THEN "down" ELSE "final",
                                  !.new = new, !.branch = branch]
        BY <3>2, <4>3
      <4>. QED
        BY <3>3, <4>1, <4>2, <4>3
    <3>. QED
      BY <1>8, <3>1, <3>3 DEF syncCluster, ReturnFailed
  <2>. QED
    BY <1>0, <2>2, OtherGhosts
<1>9. CASE AttachingSlavesToMaster
  <2>1. op \in Pass
    BY <1>0, <1>9, BusyIsPass DEF AttachingSlavesToMaster
  <2>2. op'.pc # "heal"
    <3>0. op.pc = "attach"
      BY <1>9 DEF AttachingSlavesToMaster
    <3>1. CASE Return \/ Goto("final") \/ Goto("slots")
      BY <1>0, <3>0, <3>1, GotoPc DEF Return, Idle
    <3>2. ASSUME NEW a, NEW ok, op' = [op EXCEPT !.plan = @ \ {a}, !.done = @ \cup {ok}]
          PROVE  op'.pc # "heal"
      BY <2>1, <3>0, <3>2 DEF Pass
    <3>. QED
      BY <1>9, <3>1, <3>2 DEF AttachingSlavesToMaster, ReturnFailed
  <2>. QED
    BY <1>0, <2>2, OtherGhosts
<1>10. CASE AllocSlots
  <2>1. op'.pc # "heal"
    BY <1>0, <1>10, GotoPc DEF AllocSlots, ReturnFailed, Return, Idle
  <2>. QED
    BY <1>0, <2>1, OtherGhosts
<1>11. CASE DispatchSlots
  <2>1. op'.pc # "heal"
    BY <1>0, <1>11, GotoPc DEF DispatchSlots, Return, Idle
  <2>. QED
    BY <1>0, <2>1, OtherGhosts
<1>12. CASE scalingDown
  <2>1. op'.pc # "heal"
    BY <1>0, <1>12, GotoPc DEF scalingDown
  <2>. QED
    BY <1>0, <2>1, OtherGhosts
<1>13. CASE Finish
  BY <1>0, <1>13, OtherGhosts DEF Finish, Return, Idle
<1>14. CASE Restart
  BY <1>0, <1>14, OtherGhosts DEF Restart, Return, Idle
<1>. QED
  BY <1>1, <1>2, <1>3, <1>4, <1>5, <1>6, <1>7, <1>8, <1>9, <1>10, <1>11, <1>12, <1>13,
     <1>14 DEF Reconcile

LEMMA PodStartsGInv ==
  ASSUME GInv, NEW p \in Pod, PodStarts(p)
  PROVE  GInv'
<1>0. IInv /\ IInv'
  BY PodStartsIInv DEF GInv
<1>1. UNCHANGED <<status, op>>
  BY DEF PodStarts
<1>2. GhostOK'
  <2>1. CASE op.pc # "heal"
    BY <1>1, <2>1 DEF GhostOK
  <2>2. CASE op.pc = "heal"
    <3>1. op.ghosts \subseteq Born /\ op.ghosts \subseteq ID
      BY <1>0, <2>2, BusyIsPass DEF IInv, BornOK, Born, Busy
    <3>2. \A q \in Pod : \A g \in op.ghosts :
            g \in {at'[q], disk'[q]} => g \in {at[q], disk[q]}
      <4>1. CASE at' = [at EXCEPT ![p] = disk[p]] /\ UNCHANGED disk
        BY <1>0, <4>1 DEF IInv, TypeOK
      <4>2. ASSUME NEW x \in NewIds(p), at' = [at EXCEPT ![p] = x],
                   disk' = [disk EXCEPT ![p] = IF volume THEN x ELSE NoId]
            PROVE  \A q \in Pod : \A g \in op.ghosts :
                     g \in {at'[q], disk'[q]} => g \in {at[q], disk[q]}
        <5>1. x \notin Born
          BY DEF NewIds, Born
        <5>2. \A q \in Pod : at'[q] \in {at[q], x} /\ disk'[q] \in {disk[q], x, NoId}
          BY <1>0, <4>2 DEF IInv, TypeOK
        <5>. QED
          BY <3>1, <5>1, <5>2, IDAssumption
      <4>. QED
        BY <4>1, <4>2 DEF PodStarts
    <3>. QED
      BY <1>1, <3>2 DEF GInv, GhostOK
  <2>. QED
    BY <2>1, <2>2
<1>. QED
  BY <1>0, <1>2 DEF GInv

LEMMA NextGInv ==
  ASSUME GInv, [Next]_vars
  PROVE  GInv'
<1>0. IInv /\ IInv'
  BY NextIInv DEF GInv
<1>1. CASE UNCHANGED vars
  <2>1. PodsKept
    BY <1>0, <1>1, Unmoved DEF vars, kube
  <2>. QED
    BY <1>0, <1>1, <2>1, AsideGhosts DEF vars, kube
<1>2. CASE Progress
  <2>1. ASSUME NEW b \in ID, Handshake(b)
        PROVE  GInv'
    BY <1>0, <2>1, Unmoved, AsideGhosts DEF Handshake, kube
  <2>2. CASE Gossip
    BY <1>0, <2>2, Unmoved, AsideGhosts DEF Gossip, kube
  <2>3. ASSUME NEW i \in Index, Failover(i)
        PROVE  GInv'
    BY <1>0, <2>3, Unmoved, AsideGhosts DEF Failover, kube
  <2>4. ASSUME NEW x \in slow, Recover(x)
        PROVE  GInv'
    BY <1>0, <2>4, Unmoved, AsideGhosts DEF Recover, kube
  <2>. QED
    BY <1>2, <2>1, <2>2, <2>3, <2>4, PodStartsGInv DEF Progress
<1>3. CASE Abort
  BY <1>0, <1>3, OtherGhosts DEF Abort, ReturnFailed, Return, Idle
<1>4. CASE ForgetIsLost
  BY <1>0, <1>4, OtherGhosts DEF ForgetIsLost, Return, Idle
<1>5. CASE Resize
  BY <1>0, <1>5, OtherGhosts DEF Resize
<1>6. ASSUME NEW p \in Pod, PodDies(p)
      PROVE  GInv'
  <2>1. PodsKept
    <3>1. \A q \in Pod : at'[q] \in {at[q], NoId}
      BY <1>0, <1>6 DEF PodDies, IInv, TypeOK
    <3>. QED
      BY <1>0, <1>6, <3>1 DEF PodDies, PodsKept, IInv, PlacesOK
  <2>. QED
    BY <1>0, <1>6, <2>1, AsideGhosts DEF PodDies
<1>7. ASSUME NEW x \in ID, Unreachable(x)
      PROVE  GInv'
  BY <1>0, <1>7, Unmoved, AsideGhosts DEF Unreachable, kube
<1>. QED
  BY <1>1, <1>2, <1>3, <1>4, <1>5, <1>6, <1>7, ReconcileGInv DEF Next

LEMMA HealingForgets ==
  ASSUME IInv, [Next]_vars, op.pc = "heal",
         NEW x \in ID, NEW h \in ID,
         \/ h \in know[x] /\ h \notin know'[x] /\ know'[x] # {x}
         \/ master[x] = h /\ ~(copy[x] \subseteq copy'[x])
  PROVE  h \in op.ghosts
<1>0. ~UNCHANGED redis
  BY DEF redis
<1>1. ASSUME NEW g \in op.ghosts, NEW M, ForgetNode(g, op.pool, M)
      PROVE  h \in op.ghosts
  <2>1. know'[x] = {x} \/ know'[x] = know[x] \ {g} \/ know'[x] = know[x]
    BY <1>1 DEF ForgetNode
  <2>2. master[x] = g \/ copy'[x] = copy[x]
    BY <1>1 DEF ForgetNode
  <2>. QED
    BY <1>1, <2>1, <2>2
<1>2. CASE FixFailedNodes
  BY <1>1, <1>2 DEF FixFailedNodes
<1>3. CASE ForgetIsLost
  BY <1>1, <1>3 DEF ForgetIsLost
<1>4. ASSUME NEW b \in ID, Handshake(b)
      PROVE  FALSE
  <2>1. know[x] \subseteq know'[x] /\ copy' = copy
    BY <1>4 DEF Handshake
  <2>. QED
    BY <2>1
<1>5. CASE Gossip
  <2>1. know[x] \subseteq know'[x] /\ copy' = copy
    BY <1>5 DEF Gossip
  <2>. QED
    BY <2>1
<1>6. ASSUME NEW q \in Pod, PodStarts(q)
      PROVE  FALSE
  <2>1. copy' = copy /\ (know'[x] = know[x] \/ know'[x] = {x})
    BY <1>6 DEF PodStarts, IInv, TypeOK
  <2>. QED
    BY <2>1
<1>7. ASSUME NEW i \in Index, Failover(i)
      PROVE  FALSE
  BY <1>7 DEF Failover
<1>8. /\ ~scalingDown /\ ~AttachingSlavesToMaster /\ ~AllocSlots /\ ~DispatchSlots
  BY DEF scalingDown, AttachingSlavesToMaster, AllocSlots, DispatchSlots
<1>9. /\ ~EnsureStatefulsets /\ ~GetClusterInfos /\ ~FixUntrustedNodes
      /\ ~waitForClusterJoin /\ ~Joined /\ ~buildClusterStatus /\ ~syncCluster
      /\ ~Finish /\ ~Restart
  BY <1>0 DEF EnsureStatefulsets, GetClusterInfos, FixUntrustedNodes, waitForClusterJoin,
    Joined, buildClusterStatus, syncCluster, Finish, Restart, redis
<1>10. /\ ~UNCHANGED vars /\ ~Abort /\ ~Resize
       /\ \A y \in slow : ~Recover(y)
       /\ \A q \in Pod : ~PodDies(q)
       /\ \A y \in ID : ~Unreachable(y)
  BY <1>0 DEF vars, redis, Abort, Resize, Recover, PodDies, Unreachable
<1>. QED
  BY <1>2, <1>3, <1>4, <1>5, <1>6, <1>7, <1>8, <1>9, <1>10 DEF Next, Reconcile, Progress

(***************************************************************************)
(* FixFailedNodes makes no node forget one that Status.Nodes names, and    *)
(* empties no slave of one, while a pod runs it or has it on its volume,   *)
(* although the list of ghosts is made once and worked off while pods die, *)
(* come back and get new nodes.                                            *)
(***************************************************************************)
THEOREM HealingSparesNamed == Spec => NamedAreSpared
<1>. DEFINE Spares ==
       \A p \in Pod : \A g \in {at[p], disk[p]} \cap status :
         op.pc = "heal" =>
           \A x \in ID : /\ g \in know[x] => g \in know'[x] \/ know'[x] = {x}
                         /\ master[x] = g => copy[x] \subseteq copy'[x]
<1>1. Init => GInv
  BY InitGInv
<1>2. GInv /\ [Next]_vars => GInv'
  BY NextGInv
<1>3. ASSUME GInv, [Next]_vars
      PROVE  Spares
  <2>. SUFFICES ASSUME NEW p \in Pod, NEW g \in {at[p], disk[p]} \cap status,
                       op.pc = "heal", NEW x \in ID,
                       \/ g \in know[x] /\ g \notin know'[x] /\ know'[x] # {x}
                       \/ master[x] = g /\ ~(copy[x] \subseteq copy'[x])
       PROVE  FALSE
    OBVIOUS
  <2>1. g \in ID
    BY <1>3 DEF GInv, IInv, TypeOK
  <2>2. g \in op.ghosts
    BY <1>3, <2>1, HealingForgets DEF GInv
  <2>. QED
    BY <1>3, <2>2 DEF GInv, GhostOK
<1>4. GInv /\ [Next]_vars => [Spares]_vars
  BY <1>3
<1>5. Spec => [][Spares]_vars
  BY <1>1, <1>2, <1>4, PTL DEF Spec
<1>. QED
  BY <1>5 DEF NamedAreSpared

=============================================================================
