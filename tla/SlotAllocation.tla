--------------------------- MODULE SlotAllocation ---------------------------
(***************************************************************************)
(* How syncCluster shares the hash slots out                               *)
(* (pkg/controller/clustering, rebalance.go and migration.go): AllocSlots  *)
(* gives every master a range when a cluster is created, RebalancedCluster *)
(* moves slots to masters that have none when it is scaled up, and         *)
(* buildSlotsByNode shares out the slots of the masters that go when it is *)
(* scaled down.  Only the numbers of slots matter: no slot is ever listed  *)
(* by two nodes, and which of its slots a node gives away makes no         *)
(* difference to the arithmetic.                                           *)
(*                                                                         *)
(* A failed ADDSLOTS or moveSlot ends the Reconcile; the next one starts   *)
(* from what the nodes say.  A scale down that is interrupted leaves the   *)
(* slots distributed in another way; Init has all of them.                 *)
(***************************************************************************)
EXTENDS Integers, FiniteSets, Functions

CONSTANTS
  HashSlots,  \* GetHashMaxSlot() + 1
  MaxMasters, \* bound: the largest Spec.MasterSize
  MaxFaults   \* bound: the number of commands that fail

ASSUME HashSlotsAssumption == HashSlots \in Nat /\ HashSlots >= MaxMasters
ASSUME MaxMastersAssumption == MaxMasters \in Nat \ {0}
ASSUME MaxFaultsAssumption == MaxFaults \in Nat

VARIABLES
  pc,      \* the next step of syncCluster
  count,   \* count[i]: the number of slots newMasters[i] owns
  bom,     \* bom[i]: the length of its node.Slots in the operator's memory
  balance, \* balance[i]: its Balance()
  order,   \* the masters sorted by balance
  dstIdx, srcIdx,
  index,   \* AllocSlots: the next master
  first,   \* AllocSlots: the first slot of its range
  gave,    \* history: the masters this RebalancedCluster took slots from
  took,    \* history: the masters this RebalancedCluster gave slots to
  going,   \* the number of slots of the masters that are to go
  avail,   \* buildSlotsByNode: the number of slots still to be shared out
  slotOf,  \* slotOf[i]: the length of slotOfNode[i]
  idNode,  \* the master that is filled
  faults   \* the number of commands that have failed

alloc == <<index, first>>

pair == <<order, dstIdx, srcIdx>>

rebalance == <<bom, balance, pair, gave, took>>

fill == <<going, avail, slotOf, idNode>>

vars == <<pc, count, alloc, rebalance, fill, faults>>

Master == DOMAIN count

mastersNum == Cardinality(Master)

TypeOK ==
  /\ \E n \in 1..MaxMasters :
       /\ count \in [1..n -> 0..HashSlots]
       /\ bom \in [1..n -> 0..HashSlots]
       /\ balance \in [1..n -> Int]
       /\ order \in [1..n -> 1..n]
       /\ index \in 1..(n + 1)
       /\ dstIdx \in 1..n
       /\ srcIdx \in 0..n
       /\ gave \in SUBSET (1..n)
       /\ took \in SUBSET (1..n)
       /\ slotOf \in [1..n -> 0..HashSlots]
       /\ idNode \in 1..n
  /\ pc \in {"sync", "alloc", "spread", "move", "fill"}
  /\ avail \in 0..HashSlots
  /\ first \in 0..HashSlots
  /\ faults \in 0..MaxFaults
  /\ SumFunction(count) + going <= HashSlots

\* A new cluster, a scaled up one whose slots are all assigned, or one that is
\* scaled down, where every master has slots.
Init ==
  /\ \E n \in 1..MaxMasters :
       /\ count \in {c \in [1..n -> 0..HashSlots] : SumFunction(c) <= HashSlots}
       /\ going \in 0..(HashSlots - SumFunction(count))
       /\ IF going = 0 THEN SumFunction(count) \in {0, HashSlots}
                       ELSE \A i \in 1..n : count[i] > 0
       /\ slotOf = [i \in 1..n |-> 0]
       /\ bom = [i \in 1..n |-> 0]
       /\ balance = [i \in 1..n |-> 0]
       /\ order = [i \in 1..n |-> i]
  /\ pc = "sync"
  /\ dstIdx = 1
  /\ srcIdx = 1
  /\ index = 1
  /\ first = 0
  /\ gave = {}
  /\ took = {}
  /\ avail = 0
  /\ idNode = 1
  /\ faults = 0

-----------------------------------------------------------------------------
\* A command fails, or not; at most MaxFaults do.
Fault(failed) ==
  /\ failed => faults < MaxFaults
  /\ faults' = IF failed THEN faults + 1 ELSE faults

expected == HashSlots \div mastersNum

StartRebalance ==
  /\ pc' = "spread"
  /\ bom' = count
  /\ balance' = [i \in Master |-> count[i] - expected]

\* Mutant: one master more than there were is no reason to scale up.
SyncLate ==
  /\ pc = "sync"
  /\ Cardinality({i \in Master : count[i] = 0}) \in 2..(mastersNum - 1)
  /\ StartRebalance
  /\ gave' = {}
  /\ took' = {}
  /\ UNCHANGED <<count, pair, alloc, fill, faults>>

\* syncCluster, with the masters that have slots as curMasters.
Sync ==
  /\ pc = "sync"
  /\ going = 0
  /\ \/ /\ \A i \in Master : count[i] = 0
        /\ pc' = "alloc"
        /\ index' = 1
        /\ first' = 0
        /\ UNCHANGED <<bom, balance, gave, took>>
     \/ /\ \E i \in Master : count[i] # 0
        /\ \E i \in Master : count[i] = 0
        /\ StartRebalance
        /\ gave' = {}
        /\ took' = {}
        /\ UNCHANGED alloc
  /\ UNCHANGED <<count, pair, fill, faults>>

\* Round(cursor + slotsPerNode - 1), with the cursor at (index - 1) shares.
RoundedLast == (2 * index * HashSlots - mastersNum) \div (2 * mastersNum)

\* Mutant: ranges end one slot late, the last one too.
LastSlotLate == RoundedLast + 1

\* Mutant: ranges end one slot early, the last one too.
LastSlotEarly == IF RoundedLast - 1 < first THEN first ELSE RoundedLast - 1

\* The end of the range AllocSlots gives to newMasters[index].
LastSlot ==
  LET last == IF RoundedLast > HashSlots \/ index = mastersNum
                THEN HashSlots - 1 ELSE RoundedLast
  IN  IF last < first THEN first ELSE last

\* One iteration of AllocSlots; a failed ADDSLOTS may have been executed.
AllocNode ==
  /\ pc = "alloc"
  /\ index <= mastersNum
  /\ \E failed, done \in BOOLEAN :
       /\ ~failed => done
       /\ Fault(failed)
       /\ count' = IF done THEN [count EXCEPT ![index] = LastSlot - first + 1] ELSE count
       /\ IF failed
            THEN pc' = "sync" /\ UNCHANGED alloc
            ELSE /\ index' = index + 1
                 /\ first' = LastSlot + 1
                 /\ UNCHANGED pc
  /\ UNCHANGED <<rebalance, fill>>

EndAlloc ==
  /\ pc = "alloc"
  /\ index > mastersNum
  /\ pc' = "sync"
  /\ UNCHANGED <<count, alloc, rebalance, fill, faults>>

totalBalance == SumFunction(balance)

\* What the integer division left over is added to the masters short of
\* slots, one slot each, in passes until nothing is left.
SpreadRemainder ==
  LET short == {i \in Master : balance[i] < 0}
      served == {i \in short : Cardinality({j \in short : j < i}) < totalBalance}
  IN  /\ pc = "spread"
      /\ totalBalance > 0
      /\ balance' = [i \in Master |-> IF i \in served THEN balance[i] - 1 ELSE balance[i]]
      /\ UNCHANGED <<pc, count, bom, pair, alloc, gave, took, fill, faults>>

\* SortByFunc is not stable: any sorted order may come out.
SortMasters ==
  /\ pc = "spread"
  /\ totalBalance <= 0
  /\ order' \in {p \in Bijection(Master, Master) :
       \A i, j \in Master : i < j => balance[p[i]] <= balance[p[j]]}
  /\ dstIdx' = 1
  /\ srcIdx' = mastersNum
  /\ pc' = "move"
  /\ UNCHANGED <<count, bom, balance, alloc, gave, took, fill, faults>>

dst == order[dstIdx]

src == order[srcIdx]

Abs(x) == IF x < 0 THEN -x ELSE x

\* Mutant: the larger of the two balances.
numSlotsLarger == IF Abs(balance[dst]) > Abs(balance[src]) THEN Abs(balance[dst]) ELSE Abs(balance[src])

\* The smaller of the two balances.
numSlots == IF Abs(balance[dst]) < Abs(balance[src]) THEN Abs(balance[dst]) ELSE Abs(balance[src])

\* computeReshardTable for the one source: its share of the slots is all of
\* them, unless it has none (0/0 is no number, and no iteration is made).
reshardTable == IF bom[src] = 0 THEN 0 ELSE numSlots

\* Mutant: both indices move on.
NextPairBoth == dstIdx' = dstIdx + 1 /\ srcIdx' = srcIdx - 1

\* An index moves on when its balance is settled.
NextPair ==
  /\ dstIdx' = IF balance'[dst] = 0 THEN dstIdx + 1 ELSE dstIdx
  /\ srcIdx' = IF balance'[src] = 0 THEN srcIdx - 1 ELSE srcIdx

\* One iteration of the loop over pairs: the slots of the table are moved
\* one at a time; a failure leaves some of them unmoved and ends the Reconcile.
MoveSlots ==
  /\ pc = "move"
  /\ dstIdx < srcIdx
  /\ reshardTable <= bom[src]
  /\ \E moved \in 0..reshardTable :
       /\ Fault(moved < reshardTable)
       /\ count' = [count EXCEPT ![src] = @ - moved, ![dst] = @ + moved]
       /\ bom' = [bom EXCEPT ![src] = @ - moved]
       /\ gave' = IF moved = 0 THEN gave ELSE gave \cup {src}
       /\ took' = IF moved = 0 THEN took ELSE took \cup {dst}
       /\ IF moved < reshardTable
            THEN pc' = "sync" /\ UNCHANGED <<balance, dstIdx, srcIdx>>
            ELSE /\ balance' = [balance EXCEPT ![dst] = @ + numSlots, ![src] = @ - numSlots]
                 /\ NextPair
                 /\ UNCHANGED pc
  /\ UNCHANGED <<order, alloc, fill>>

\* computeReshardTable reads past the end of node.Slots: the operator panics
\* and is started again.
Panic ==
  /\ pc = "move"
  /\ dstIdx < srcIdx
  /\ reshardTable > bom[src]
  /\ pc' = "sync"
  /\ UNCHANGED <<count, alloc, rebalance, fill, faults>>

\* Mutant: the loop starts over while a master has no slots.
EndRebalanceRepeats ==
  /\ pc = "move"
  /\ dstIdx >= srcIdx
  /\ \E i \in Master : count[i] = 0
  /\ StartRebalance
  /\ UNCHANGED <<count, pair, alloc, gave, took, fill, faults>>

EndRebalance ==
  /\ pc = "move"
  /\ dstIdx >= srcIdx
  /\ pc' = "sync"
  /\ UNCHANGED <<count, alloc, rebalance, fill, faults>>

-----------------------------------------------------------------------------
(* Scaling down: buildSlotsByNode.                                         *)

\* Mutant: the share is rounded down.
nbSlotByNodeFloor == HashSlots \div mastersNum

\* The share, rounded up.
nbSlotByNode == (HashSlots + mastersNum - 1) \div mastersNum

\* What a master has beyond its share leaves it.
retrieveSlotToMigrateFrom(i) ==
  IF count[i] >= nbSlotByNode THEN count[i] - nbSlotByNode ELSE 0

\* Slots that nobody has.
retrieveLostSlots == HashSlots - SumFunction(count) - going

buildSlotsByNode ==
  /\ pc = "sync"
  /\ going > 0
  /\ avail' = going + retrieveLostSlots
                + SumFunction([i \in Master |-> retrieveSlotToMigrateFrom(i)])
  /\ slotOf' = count
  /\ idNode' = 1
  /\ pc' = "fill"
  /\ UNCHANGED <<count, alloc, rebalance, going, faults>>

\* One slot.  A master that is full passes it on to the next one, full or not,
\* and the last master keeps it.
buildSlotByNodeFromAvailableSlots ==
  /\ pc = "fill"
  /\ avail > 0
  /\ idNode' = IF slotOf[idNode] < nbSlotByNode \/ idNode = mastersNum
               THEN idNode ELSE idNode + 1
  /\ slotOf' = [slotOf EXCEPT ![idNode'] = @ + 1]
  /\ avail' = avail - 1
  /\ UNCHANGED <<pc, count, alloc, rebalance, going, faults>>

\* What the masters will have.
Planned(i) == slotOf[i] - retrieveSlotToMigrateFrom(i)

\* The slots have been moved and the masters removed.
DispatchSlotToNewMasters ==
  /\ pc = "fill"
  /\ avail = 0
  /\ count' = [i \in Master |-> Planned(i)]
  /\ going' = 0
  /\ pc' = "sync"
  /\ UNCHANGED <<alloc, rebalance, avail, slotOf, idNode, faults>>

Next ==
  \/ buildSlotsByNode
  \/ buildSlotByNodeFromAvailableSlots
  \/ DispatchSlotToNewMasters
  \/ Sync
  \/ AllocNode
  \/ EndAlloc
  \/ SpreadRemainder
  \/ SortMasters
  \/ MoveSlots
  \/ Panic
  \/ EndRebalance

Spec == Init /\ [][Next]_vars

\* A Reconcile that does not succeed is repeated, and its loops run on.
FairSpec == Spec /\ WF_vars(Next)

-----------------------------------------------------------------------------
(***************************************************************************)
(* As long as no command has failed, the reshard table has as many entries *)
(* as slots are to be moved, as RebalancedCluster asserts: the source      *)
(* lists that many.                                                        *)
(***************************************************************************)
AssertionHolds ==
  (faults = 0 /\ pc = "move" /\ dstIdx < srcIdx) => numSlots <= bom[src]

(***************************************************************************)
(* No master both gives and takes slots in one RebalancedCluster, although *)
(* the pair of indices moves over one list.  ScaleUp relies on it.         *)
(***************************************************************************)
NoGiverTakes == gave \cap took = {}

(***************************************************************************)
(* When RebalancedCluster ends and no command has failed, every master has *)
(* its share, and the remainder is all anyone can have beyond it.          *)
(***************************************************************************)
Balanced ==
  (faults = 0 /\ pc = "move" /\ dstIdx >= srcIdx) =>
    \A i \in Master : count[i] \in expected..(expected + (HashSlots % mastersNum))

(***************************************************************************)
(* AllocSlots assigns every slot, and no master gets two more than another,*)
(* also when it is called again after its first ADDSLOTS has failed.       *)
(***************************************************************************)
AllocComplete ==
  (pc = "alloc" /\ index > mastersNum) =>
    /\ SumFunction(count) = HashSlots
    /\ \A i, j \in Master : count[i] - count[j] <= 1

\* Every slot is assigned, and every master has slots.
Assigned == SumFunction(count) = HashSlots /\ \A i \in Master : count[i] > 0

(***************************************************************************)
(* If no command fails, every slot is assigned in the end and the cluster  *)
(* has the MasterSize masters the user asked for, however the slots were   *)
(* distributed when syncCluster found a master without any.                *)
(***************************************************************************)
AllAssigned == [](faults = 0) => <>[]Assigned

(***************************************************************************)
(* Scaling down gives no master more than one slot beyond its share, and   *)
(* the last one nothing beyond it: full masters are passed over one slot   *)
(* at a time, and "over-filling", which has no bound, is never reached.    *)
(***************************************************************************)
OverfillBounded ==
  pc = "fill" =>
    /\ \A i \in Master : Planned(i) <= nbSlotByNode + 1
    /\ Planned(mastersNum) <= nbSlotByNode

=============================================================================
