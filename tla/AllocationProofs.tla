-------------------------- MODULE AllocationProofs --------------------------
(***************************************************************************)
(* Proofs about how syncCluster shares the slots out, for any number of    *)
(* slots, masters and faults: RebalancedCluster never takes slots from a   *)
(* master it gives slots to (GInv), and the numbers of slots add up, so    *)
(* that AllocSlots, RebalancedCluster and buildSlotsByNode each end with   *)
(* the distribution they are to bring about (SlotsInv).                    *)
(***************************************************************************)
EXTENDS SlotAllocation, FiniteSetTheorems, WellFoundedInduction, TLAPS

(***************************************************************************)
(* The masters are numbered from 1 on.                                     *)
(***************************************************************************)
Numbered == \E n \in Nat : Master = 1..n

(***************************************************************************)
(* The two indices move towards each other over a list without repetition: *)
(* the masters up to dstIdx have taken, the masters from srcIdx on have    *)
(* given.                                                                  *)
(***************************************************************************)
PairOK ==
  /\ order \in [Master -> Master]
  /\ \A i, j \in Master : order[i] = order[j] => i = j
  /\ dstIdx \in Nat \ {0}
  /\ srcIdx \in Int /\ srcIdx <= mastersNum
  /\ took \subseteq {order[k] : k \in 1..dstIdx}
  /\ gave \subseteq {order[k] : k \in srcIdx..mastersNum}

GInv ==
  /\ Numbered
  /\ pc = "spread" => gave = {} /\ took = {}
  /\ pc = "move" => PairOK
  /\ NoGiverTakes

LEMMA NumberOfMasters ==
  ASSUME Numbered
  PROVE  mastersNum \in Nat /\ Master = 1..mastersNum
<1>1. PICK n \in Nat : Master = 1..n
  BY DEF Numbered
<1>2. Cardinality(1..n) = n
  <2>1. Cardinality(1..n) = IF 1 > n THEN 0 ELSE n - 1 + 1
    BY FS_Interval
  <2>. QED
    BY <2>1
<1>. QED
  BY <1>1, <1>2 DEF mastersNum

LEMMA SameMasters ==
  ASSUME DOMAIN count' = DOMAIN count
  PROVE  /\ Numbered => Numbered'
         /\ Master' = Master /\ mastersNum' = mastersNum
BY DEF Numbered, Master, mastersNum

-----------------------------------------------------------------------------
(***************************************************************************)
(* A move adds the two masters at the indices.                             *)
(***************************************************************************)
LEMMA MoveSlotsGInv ==
  ASSUME GInv, MoveSlots
  PROVE  GInv'
<1>1. /\ mastersNum \in Nat /\ Master = 1..mastersNum /\ PairOK
      /\ dstIdx < srcIdx /\ order' = order
  BY NumberOfMasters DEF GInv, MoveSlots
<1>2. PICK moved : /\ count' = [count EXCEPT ![src] = @ - moved, ![dst] = @ + moved]
                   /\ gave' = IF moved = 0 THEN gave ELSE gave \cup {src}
                   /\ took' = IF moved = 0 THEN took ELSE took \cup {dst}
                   /\ IF moved < reshardTable THEN pc' = "sync"
                                              ELSE pc' = pc /\ NextPair
  BY DEF MoveSlots
<1>3. Numbered' /\ Master' = Master /\ mastersNum' = mastersNum
  <2>1. DOMAIN count' = DOMAIN count
    BY <1>2
  <2>. QED
    BY <2>1, SameMasters DEF GInv
<1>4. dstIdx \in Master /\ srcIdx \in Master
  BY <1>1 DEF PairOK
<1>5. src \notin took
  BY <1>1, <1>4 DEF PairOK, src
<1>6. dst \notin gave
  BY <1>1, <1>4 DEF PairOK, dst
<1>7. src # dst
  BY <1>1, <1>4 DEF PairOK, src, dst
<1>8. NoGiverTakes'
  BY <1>2, <1>5, <1>6, <1>7 DEF GInv, NoGiverTakes
<1>9. ASSUME pc' = "move" PROVE PairOK'
  <2>1. NextPair
    BY <1>2, <1>9
  <2>2. /\ dstIdx' \in {dstIdx, dstIdx + 1}
        /\ srcIdx' \in {srcIdx, srcIdx - 1}
    BY <2>1 DEF NextPair
  <2>3. took' \subseteq {order[k] : k \in 1..dstIdx}
    <3>1. dst \in {order[k] : k \in 1..dstIdx}
      <4>1. dstIdx \in 1..dstIdx
        BY <1>1 DEF PairOK
      <4>. QED
        BY <4>1 DEF dst
    <3>2. took' \subseteq took \cup {dst}
      BY <1>2
    <3>. QED
      BY <1>1, <3>1, <3>2 DEF PairOK
  <2>4. gave' \subseteq {order[k] : k \in srcIdx..mastersNum}
    <3>1. src \in {order[k] : k \in srcIdx..mastersNum}
      <4>1. srcIdx \in srcIdx..mastersNum
        BY <1>1 DEF PairOK
      <4>. QED
        BY <4>1 DEF src
    <3>2. gave' \subseteq gave \cup {src}
      BY <1>2
    <3>. QED
      BY <1>1, <3>1, <3>2 DEF PairOK
  <2>5. 1..dstIdx \subseteq 1..dstIdx' /\ srcIdx..mastersNum \subseteq srcIdx'..mastersNum
    BY <1>1, <2>2 DEF PairOK
  <2>6. took' \subseteq {order[k] : k \in 1..dstIdx'}
    BY <2>3, <2>5
  <2>7. gave' \subseteq {order[k] : k \in srcIdx'..mastersNum}
    BY <2>4, <2>5
  <2>8. dstIdx' \in Nat \ {0} /\ srcIdx' \in Int /\ srcIdx' <= mastersNum
    BY <1>1, <2>2 DEF PairOK
  <2>. QED
    BY <1>1, <1>3, <2>6, <2>7, <2>8 DEF PairOK
<1>. QED
  BY <1>2, <1>3, <1>8, <1>9 DEF GInv, MoveSlots

LEMMA SortMastersGInv ==
  ASSUME GInv, SortMasters
  PROVE  GInv'
<1>1. /\ mastersNum \in Nat /\ gave = {} /\ took = {}
      /\ count' = count /\ gave' = gave /\ took' = took
      /\ dstIdx' = 1 /\ srcIdx' = mastersNum /\ pc' = "move"
  BY NumberOfMasters DEF GInv, SortMasters
<1>2. Numbered' /\ Master' = Master /\ mastersNum' = mastersNum
  BY <1>1, SameMasters DEF GInv
<1>3. /\ order' \in [Master -> Master]
      /\ \A i, j \in Master : order'[i] = order'[j] => i = j
  BY DEF SortMasters, Bijection, Injection, IsInjective
<1>4. PairOK'
  BY <1>1, <1>2, <1>3 DEF PairOK
<1>. QED
  BY <1>1, <1>2, <1>4 DEF GInv, NoGiverTakes

LEMMA InitGInv == Init => GInv
<1>. SUFFICES ASSUME Init PROVE GInv
  OBVIOUS
<1>1. Numbered
  BY MaxMastersAssumption DEF Init, Numbered, Master
<1>. QED
  BY <1>1 DEF Init, GInv, NoGiverTakes

LEMMA NextGInv == GInv /\ [Next]_vars => GInv'
<1>. SUFFICES ASSUME GInv, [Next]_vars PROVE GInv'
  OBVIOUS
<1>1. ASSUME DOMAIN count' = DOMAIN count, pc' # "move", UNCHANGED <<gave, took>>,
             pc' = "spread" => pc = "spread"
      PROVE  GInv'
  BY <1>1, SameMasters DEF GInv, NoGiverTakes
<1>2. CASE buildSlotsByNode
  BY <1>1, <1>2 DEF buildSlotsByNode, rebalance
<1>3. CASE buildSlotByNodeFromAvailableSlots
  BY <1>1, <1>3 DEF buildSlotByNodeFromAvailableSlots, rebalance
<1>4. CASE DispatchSlotToNewMasters
  BY <1>1, <1>4 DEF DispatchSlotToNewMasters, rebalance, Master
<1>5. CASE Sync
  <2>1. Numbered'
    BY <1>5, SameMasters DEF Sync, GInv
  <2>2. pc' # "move" /\ NoGiverTakes' /\ (pc' = "spread" => gave' = {} /\ took' = {})
    BY <1>5 DEF Sync, StartRebalance, GInv, NoGiverTakes
  <2>. QED
    BY <2>1, <2>2 DEF GInv
<1>6. CASE AllocNode
  <2>1. DOMAIN count' = DOMAIN count
    BY <1>6 DEF AllocNode
  <2>. QED
    BY <1>1, <1>6, <2>1 DEF AllocNode, rebalance
<1>7. CASE EndAlloc
  BY <1>1, <1>7 DEF EndAlloc, rebalance
<1>8. CASE SpreadRemainder
  BY <1>1, <1>8 DEF SpreadRemainder
<1>9. CASE Panic \/ EndRebalance
  BY <1>1, <1>9 DEF Panic, EndRebalance, rebalance
<1>10. CASE UNCHANGED vars
  <2>1. UNCHANGED <<pc, count, order, dstIdx, srcIdx, gave, took>>
    BY <1>10 DEF vars, rebalance, pair
  <2>2. Numbered' /\ Master' = Master /\ mastersNum' = mastersNum
    BY <2>1, SameMasters DEF GInv
  <2>. QED
    BY <2>1, <2>2 DEF GInv, PairOK, NoGiverTakes
<1>. QED
  BY <1>2, <1>3, <1>4, <1>5, <1>6, <1>7, <1>8, <1>9, <1>10,
     MoveSlotsGInv, SortMastersGInv DEF Next

(***************************************************************************)
(* In one RebalancedCluster no master gives slots and takes some, whatever *)
(* the balances are and wherever a moveSlot fails.                         *)
(***************************************************************************)
THEOREM GiversNeverTake == Spec => []NoGiverTakes
<1>1. GInv => NoGiverTakes
  BY DEF GInv
<1>. QED
  BY <1>1, InitGInv, NextGInv, PTL DEF Spec

-----------------------------------------------------------------------------
(***************************************************************************)
(* Sums over finite sets.  An induction over the subsets of a finite set   *)
(* takes a set of sets in place of an operator: what holds of the empty    *)
(* set, and of a set if it holds of every smaller one, holds of them all.  *)
(***************************************************************************)
LEMMA SubsetInduction ==
  ASSUME NEW S, IsFiniteSet(S), NEW P,
         \A s \in SUBSET S : (\A t \in SUBSET s : t # s => t \in P) => s \in P
  PROVE  S \in P
<1>. DEFINE R == StrictSubsetOrdering(S)
            Bad == (SUBSET S) \ P
<1>. SUFFICES ASSUME S \notin P PROVE FALSE
  OBVIOUS
<1>1. IsWellFoundedOn(R, SUBSET S)
  <2>1. FiniteSubsetsOf(S) = SUBSET S
    BY FS_FiniteSubsetsOfFinite
  <2>2. IsWellFoundedOn(StrictSubsetOrdering(S), FiniteSubsetsOf(S))
    BY FS_StrictSubsetOrderingWellFounded
  <2>. QED
    BY <2>1, <2>2
<1>2. Bad \subseteq SUBSET S /\ Bad # {}
  OBVIOUS
<1>3. PICK s \in Bad : \A t \in Bad : <<t, s>> \notin R
  <2>. HIDE DEF R, Bad
  <2>1. \E s \in Bad : \A t \in Bad : ~(<<t, s>> \in R)
    BY <1>1, <1>2, WFMin
  <2>. QED
    BY <2>1
<1>4. ASSUME NEW t \in SUBSET s, t # s, t \notin P PROVE FALSE
  <2>1. t \in Bad
    BY <1>4
  <2>2. <<t, s>> \in R
    BY <1>4 DEF StrictSubsetOrdering
  <2>. QED
    BY <1>3, <2>1, <2>2
<1>. QED
  BY <1>3, <1>4

\* The one element the sum takes out of s first.
Pick(s) == CHOOSE x \in s : TRUE

IsSum(F, g, S) ==
  F = [s \in SUBSET S |-> IF s = {} THEN 0 ELSE g[Pick(s)] + F[s \ {Pick(s)}]]

\* The sum is the value at S of a function that IsSum describes, if there is one.
LEMMA SumIs ==
  ASSUME NEW g, NEW S, NEW F, IsSum(F, g, S)
  PROVE  \E G : IsSum(G, g, S) /\ SumFunctionOnSet(g, S) = G[S]
<1>. DEFINE G == CHOOSE H : IsSum(H, g, S)
<1>1. IsSum(G, g, S)
  OBVIOUS
<1>2. SumFunctionOnSet(g, S) = G[S]
  BY DEF SumFunctionOnSet, FoldFunctionOnSet, MapThenFoldSet, IsSum, Pick
<1>. QED
  BY <1>1, <1>2

\* What IsSum says of one subset.
LEMMA SumAt ==
  ASSUME NEW g, NEW S, NEW F, IsSum(F, g, S), NEW s \in SUBSET S
  PROVE  /\ F[s] = IF s = {} THEN 0 ELSE g[Pick(s)] + F[s \ {Pick(s)}]
         /\ s # {} => Pick(s) \in s
<1>. DEFINE E(t) == IF t = {} THEN 0 ELSE g[Pick(t)] + F[t \ {Pick(t)}]
<1>1. F = [t \in SUBSET S |-> E(t)]
  BY DEF IsSum
<1>2. F[s] = E(s)
  <2>. HIDE DEF E
  <2>. QED
    BY <1>1
<1>. QED
  BY <1>2 DEF Pick

\* Such functions agree wherever both are defined.
LEMMA SumUnique ==
  ASSUME NEW g, NEW S, NEW T, NEW F, NEW G, IsSum(F, g, S), IsSum(G, g, T),
         NEW s \in SUBSET S, s \in SUBSET T, IsFiniteSet(s)
  PROVE  F[s] = G[s]
<1>. DEFINE P == {t \in SUBSET s : F[t] = G[t]}
<1>1. ASSUME NEW t \in SUBSET s, \A u \in SUBSET t : u # t => u \in P
      PROVE  t \in P
  <2>1. t \in SUBSET S /\ t \in SUBSET T
    BY <1>1
  <2>2. /\ F[t] = IF t = {} THEN 0 ELSE g[Pick(t)] + F[t \ {Pick(t)}]
        /\ t # {} => Pick(t) \in t
    BY <2>1, SumAt
  <2>3. /\ G[t] = IF t = {} THEN 0 ELSE g[Pick(t)] + G[t \ {Pick(t)}]
        /\ t # {} => Pick(t) \in t
    BY <2>1, SumAt
  <2>4. t # {} => t \ {Pick(t)} \in P
    BY <1>1, <2>2
  <2>. QED
    BY <2>2, <2>3, <2>4
<1>2. s \in P
  <2>. HIDE DEF P
  <2>. QED
    BY <1>1, SubsetInduction
<1>. QED
  BY <1>2

\* There is one for every finite set: it sums each subset up.
LEMMA SumExists ==
  ASSUME NEW g, NEW S, IsFiniteSet(S)
  PROVE  \E F : IsSum(F, g, S)
<1>. DEFINE P == {s \in SUBSET S : \E F : IsSum(F, g, s)}
            V(s) == IF s = {} THEN 0
                    ELSE g[Pick(s)] + SumFunctionOnSet(g, s \ {Pick(s)})
<1>1. ASSUME NEW s \in SUBSET S, \A t \in SUBSET s : t # s => t \in P
      PROVE  s \in P
  <2>. DEFINE G == [t \in SUBSET s |-> V(t)]
  <2>1. ASSUME NEW t \in SUBSET s, t # s PROVE SumFunctionOnSet(g, t) = V(t)
    <3>1. PICK F : IsSum(F, g, t)
      BY <1>1, <2>1
    <3>2. PICK H : IsSum(H, g, t) /\ SumFunctionOnSet(g, t) = H[t]
      BY <3>1, SumIs
    <3>3. /\ H[t] = IF t = {} THEN 0 ELSE g[Pick(t)] + H[t \ {Pick(t)}]
          /\ t # {} => Pick(t) \in t
      BY <3>2, SumAt
    <3>4. ASSUME t # {} PROVE H[t \ {Pick(t)}] = SumFunctionOnSet(g, t \ {Pick(t)})
      <4>. DEFINE u == t \ {Pick(t)}
      <4>1. u \in SUBSET s /\ u # s /\ u \in SUBSET t
        BY <3>3, <3>4
      <4>2. PICK K : IsSum(K, g, u) /\ SumFunctionOnSet(g, u) = K[u]
        <5>1. \E K : IsSum(K, g, u)
          BY <1>1, <4>1
        <5>. QED
          BY <5>1, SumIs
      <4>3. IsFiniteSet(u)
        BY <4>1, FS_Subset
      <4>4. H[u] = K[u]
        <5>. HIDE DEF u
        <5>. QED
          BY <3>2, <4>1, <4>2, <4>3, SumUnique
      <4>. QED
        BY <4>2, <4>4
    <3>. QED
      BY <3>2, <3>3, <3>4
  <2>2. ASSUME NEW t \in SUBSET s
        PROVE  V(t) = IF t = {} THEN 0 ELSE g[Pick(t)] + G[t \ {Pick(t)}]
    <3>1. CASE t = {}
      BY <3>1
    <3>2. CASE t # {}
      <4>. DEFINE u == t \ {Pick(t)}
      <4>1. Pick(t) \in t
        BY <3>2 DEF Pick
      <4>2. u \in SUBSET s /\ u # s
        BY <4>1
      <4>3. G[u] = V(u) /\ V(u) = SumFunctionOnSet(g, u)
        <5>1. V(u) = SumFunctionOnSet(g, u)
          <6>. HIDE DEF u, V
          <6>. QED
            BY <2>1, <4>2
        <5>2. G[u] = V(u)
          <6>. HIDE DEF u, V
          <6>. QED
            BY <4>2
        <5>. QED
          BY <5>1, <5>2
      <4>. QED
        BY <3>2, <4>3
    <3>. QED
      BY <3>1, <3>2
  <2>3. IsSum(G, g, s)
    <3>. DEFINE W(t) == IF t = {} THEN 0 ELSE g[Pick(t)] + G[t \ {Pick(t)}]
    <3>1. \A t \in SUBSET s : V(t) = W(t)
      BY <2>2
    <3>2. G = [t \in SUBSET s |-> W(t)]
      <4>. HIDE DEF V, W
      <4>1. G = [t \in SUBSET s |-> V(t)]
        OBVIOUS
      <4>. QED
        BY <3>1
    <3>. QED
      BY <3>2 DEF IsSum
  <2>. HIDE DEF G
  <2>. QED
    BY <2>3
<1>2. S \in P
  <2>. HIDE DEF P
  <2>. QED
    BY <1>1, SubsetInduction
<1>. QED
  BY <1>2

(***************************************************************************)
(* The sum's defining equation.                                            *)
(***************************************************************************)
LEMMA SumUnfold ==
  ASSUME NEW g, NEW S, IsFiniteSet(S)
  PROVE  SumFunctionOnSet(g, S) =
           IF S = {} THEN 0 ELSE g[Pick(S)] + SumFunctionOnSet(g, S \ {Pick(S)})
<1>. DEFINE u == S \ {Pick(S)}
<1>1. PICK G : IsSum(G, g, S) /\ SumFunctionOnSet(g, S) = G[S]
  BY SumExists, SumIs
<1>2. IsFiniteSet(u) /\ u \in SUBSET S
  BY FS_Subset
<1>3. PICK H : IsSum(H, g, u) /\ SumFunctionOnSet(g, u) = H[u]
  BY <1>2, SumExists, SumIs
<1>4. G[u] = H[u]
  <2>. HIDE DEF u
  <2>. QED
    BY <1>1, <1>2, <1>3, SumUnique
<1>5. G[S] = IF S = {} THEN 0 ELSE g[Pick(S)] + G[S \ {Pick(S)}]
  BY <1>1, SumAt
<1>. QED
  BY <1>1, <1>3, <1>4, <1>5

LEMMA SumEmpty == ASSUME NEW g PROVE SumFunctionOnSet(g, {}) = 0
<1>1. IsFiniteSet({})
  BY FS_EmptySet
<1>. QED
  BY <1>1, SumUnfold

LEMMA PickIn == ASSUME NEW s, s # {} PROVE Pick(s) \in s
BY DEF Pick

\* A sum of integers is one.
LEMMA SumType ==
  ASSUME NEW g, NEW S, IsFiniteSet(S), \A x \in S : g[x] \in Int
  PROVE  SumFunctionOnSet(g, S) \in Int
<1>. DEFINE P == {s \in SUBSET S : SumFunctionOnSet(g, s) \in Int}
<1>1. ASSUME NEW s \in SUBSET S, \A t \in SUBSET s : t # s => t \in P
      PROVE  s \in P
  <2>1. IsFiniteSet(s)
    BY FS_Subset
  <2>2. CASE s = {}
    BY <2>2, SumEmpty
  <2>3. CASE s # {}
    <3>1. SumFunctionOnSet(g, s) = g[Pick(s)] + SumFunctionOnSet(g, s \ {Pick(s)})
      BY <2>1, <2>3, SumUnfold
    <3>2. Pick(s) \in s /\ s \ {Pick(s)} \in P
      BY <1>1, <2>3, PickIn
    <3>. QED
      BY <3>1, <3>2
  <2>. QED
    BY <2>2, <2>3
<1>2. S \in P
  <2>. HIDE DEF P
  <2>. QED
    BY <1>1, SubsetInduction
<1>. QED
  BY <1>2

(***************************************************************************)
(* Any element may be taken out first.                                     *)
(***************************************************************************)
LEMMA SumTakeOut ==
  ASSUME NEW g, NEW S, IsFiniteSet(S), \A x \in S : g[x] \in Int, NEW x \in S
  PROVE  SumFunctionOnSet(g, S) = g[x] + SumFunctionOnSet(g, S \ {x})
<1>. DEFINE Sum(s) == SumFunctionOnSet(g, s)
            P == {s \in SUBSET S : \A y \in s : Sum(s) = g[y] + Sum(s \ {y})}
<1>1. ASSUME NEW s \in SUBSET S, \A t \in SUBSET s : t # s => t \in P
      PROVE  s \in P
  <2>. SUFFICES ASSUME NEW y \in s PROVE Sum(s) = g[y] + Sum(s \ {y})
    OBVIOUS
  <2>. DEFINE p == Pick(s)
              r == s \ {p, y}
  <2>1. IsFiniteSet(s) /\ IsFiniteSet(r) /\ p \in s
    BY FS_Subset, PickIn
  <2>2. Sum(s) = g[p] + Sum(s \ {p})
    BY <2>1, SumUnfold
  <2>3. ASSUME p # y
        PROVE  Sum(s \ {p}) = g[y] + Sum(r) /\ Sum(s \ {y}) = g[p] + Sum(r)
    <3>1. s \ {p} \in P /\ s \ {y} \in P
      BY <1>1, <2>1
    <3>2. (s \ {p}) \ {y} = r /\ (s \ {y}) \ {p} = r
      OBVIOUS
    <3>3. y \in s \ {p} /\ p \in s \ {y}
      BY <2>1, <2>3
    <3>4. Sum(s \ {p}) = g[y] + Sum((s \ {p}) \ {y})
      BY <3>1, <3>3
    <3>5. Sum(s \ {y}) = g[p] + Sum((s \ {y}) \ {p})
      BY <3>1, <3>3
    <3>. QED
      BY <3>2, <3>4, <3>5
  <2>4. Sum(r) \in Int /\ g[p] \in Int /\ g[y] \in Int
    BY <2>1, SumType
  <2>. QED
    <3>. HIDE DEF p, r, Sum
    <3>1. CASE p = y
      BY <2>2, <3>1
    <3>2. CASE p # y
      BY <2>2, <2>3, <2>4, <3>2
    <3>. QED
      BY <3>1, <3>2
<1>2. S \in P
  <2>. HIDE DEF P
  <2>. QED
    BY <1>1, SubsetInduction
<1>. QED
  BY <1>2

\* A sum depends on nothing but the summands.
LEMMA SumSame ==
  ASSUME NEW f, NEW g, NEW S, IsFiniteSet(S), \A x \in S : f[x] = g[x]
  PROVE  SumFunctionOnSet(f, S) = SumFunctionOnSet(g, S)
<1>. DEFINE P == {s \in SUBSET S : SumFunctionOnSet(f, s) = SumFunctionOnSet(g, s)}
<1>1. ASSUME NEW s \in SUBSET S, \A t \in SUBSET s : t # s => t \in P
      PROVE  s \in P
  <2>. DEFINE r == s \ {Pick(s)}
  <2>1. IsFiniteSet(s)
    BY FS_Subset
  <2>2. CASE s = {}
    BY <2>2, SumEmpty
  <2>3. CASE s # {}
    <3>1. Pick(s) \in s /\ r \in P
      BY <1>1, <2>3, PickIn
    <3>2. SumFunctionOnSet(f, s) = f[Pick(s)] + SumFunctionOnSet(f, r)
      BY <2>1, <2>3, SumUnfold
    <3>3. SumFunctionOnSet(g, s) = g[Pick(s)] + SumFunctionOnSet(g, r)
      BY <2>1, <2>3, SumUnfold
    <3>4. f[Pick(s)] = g[Pick(s)] /\ SumFunctionOnSet(f, r) = SumFunctionOnSet(g, r)
      BY <3>1
    <3>. QED
      BY <3>2, <3>3, <3>4
  <2>. QED
    BY <2>2, <2>3
<1>2. S \in P
  <2>. HIDE DEF P
  <2>. QED
    BY <1>1, SubsetInduction
<1>. QED
  BY <1>2

\* Sums add up element by element.
LEMMA SumAdd ==
  ASSUME NEW f, NEW g, NEW h, NEW S, IsFiniteSet(S),
         \A x \in S : f[x] \in Int /\ g[x] \in Int /\ h[x] = f[x] + g[x]
  PROVE  SumFunctionOnSet(h, S) = SumFunctionOnSet(f, S) + SumFunctionOnSet(g, S)
<1>. DEFINE Sum(e, s) == SumFunctionOnSet(e, s)
            P == {s \in SUBSET S : Sum(h, s) = Sum(f, s) + Sum(g, s)}
<1>1. ASSUME NEW s \in SUBSET S, \A t \in SUBSET s : t # s => t \in P
      PROVE  s \in P
  <2>. DEFINE p == Pick(s)
              r == s \ {p}
  <2>1. IsFiniteSet(s) /\ IsFiniteSet(r)
    BY FS_Subset
  <2>2. CASE s = {}
    BY <2>2, SumEmpty
  <2>3. CASE s # {}
    <3>1. p \in s /\ Sum(h, r) = Sum(f, r) + Sum(g, r)
      BY <1>1, <2>3, PickIn
    <3>2. Sum(f, s) = f[p] + Sum(f, r)
      BY <2>1, <2>3, SumUnfold
    <3>3. Sum(g, s) = g[p] + Sum(g, r)
      BY <2>1, <2>3, SumUnfold
    <3>4. Sum(h, s) = h[p] + Sum(h, r)
      BY <2>1, <2>3, SumUnfold
    <3>5. f[p] \in Int /\ g[p] \in Int /\ h[p] = f[p] + g[p]
      BY <3>1
    <3>6. Sum(f, r) \in Int
      BY <2>1, SumType
    <3>7. Sum(g, r) \in Int
      BY <2>1, SumType
    <3>8. Sum(h, s) = Sum(f, s) + Sum(g, s)
      <4>. HIDE DEF Sum, p, r
      <4>. QED
        BY <3>1, <3>2, <3>3, <3>4, <3>5, <3>6, <3>7
    <3>. QED
      BY <3>8
  <2>. QED
    BY <2>2, <2>3
<1>2. S \in P
  <2>. HIDE DEF P
  <2>. QED
    BY <1>1, SubsetInduction
<1>. QED
  BY <1>2

\* A sum of equal summands is a product.
LEMMA SumConstant ==
  ASSUME NEW g, NEW S, IsFiniteSet(S), NEW c \in Int, \A x \in S : g[x] = c
  PROVE  SumFunctionOnSet(g, S) = c * Cardinality(S)
<1>. DEFINE P == {s \in SUBSET S : SumFunctionOnSet(g, s) = c * Cardinality(s)}
<1>1. ASSUME NEW s \in SUBSET S, \A t \in SUBSET s : t # s => t \in P
      PROVE  s \in P
  <2>. DEFINE p == Pick(s)
              r == s \ {p}
  <2>1. IsFiniteSet(s)
    BY FS_Subset
  <2>2. CASE s = {}
    <3>1. Cardinality(s) = 0
      BY <2>2, FS_EmptySet
    <3>. QED
      BY <2>2, <3>1, SumEmpty
  <2>3. CASE s # {}
    <3>1. p \in s
      BY <2>3, PickIn
    <3>2. r \in P
      BY <1>1, <3>1
    <3>3. SumFunctionOnSet(g, s) = c + c * Cardinality(r)
      <4>1. SumFunctionOnSet(g, s) = g[p] + SumFunctionOnSet(g, r)
        BY <2>1, <2>3, SumUnfold
      <4>. QED
        BY <3>1, <3>2, <4>1
    <3>4. Cardinality(r) = Cardinality(s) - 1 /\ Cardinality(s) \in Nat
      BY <2>1, <3>1, FS_RemoveElement, FS_CardinalityType
    <3>5. c + c * Cardinality(r) = c * Cardinality(s)
      <4>. HIDE DEF r
      <4>. QED
        BY <3>4
    <3>. QED
      BY <3>3, <3>5
  <2>. QED
    BY <2>2, <2>3
<1>2. S \in P
  <2>. HIDE DEF P
  <2>. QED
    BY <1>1, SubsetInduction
<1>. QED
  BY <1>2

\* A sum of natural numbers is one, and no summand exceeds it.
LEMMA SumNat ==
  ASSUME NEW g, NEW S, IsFiniteSet(S), \A x \in S : g[x] \in Nat
  PROVE  /\ SumFunctionOnSet(g, S) \in Nat
         /\ \A x \in S : g[x] <= SumFunctionOnSet(g, S)
<1>. DEFINE P == {s \in SUBSET S : SumFunctionOnSet(g, s) \in Nat}
<1>1. ASSUME NEW s \in SUBSET S, \A t \in SUBSET s : t # s => t \in P
      PROVE  s \in P
  <2>1. IsFiniteSet(s)
    BY FS_Subset
  <2>2. CASE s = {}
    BY <2>2, SumEmpty
  <2>3. CASE s # {}
    <3>1. SumFunctionOnSet(g, s) = g[Pick(s)] + SumFunctionOnSet(g, s \ {Pick(s)})
      BY <2>1, <2>3, SumUnfold
    <3>2. Pick(s) \in s /\ s \ {Pick(s)} \in P
      BY <1>1, <2>3, PickIn
    <3>. QED
      BY <3>1, <3>2
  <2>. QED
    BY <2>2, <2>3
<1>2. \A s \in SUBSET S : s \in P
  <2>. SUFFICES ASSUME NEW s \in SUBSET S PROVE s \in P
    OBVIOUS
  <2>1. IsFiniteSet(s)
    BY FS_Subset
  <2>2. \A r \in SUBSET s : (\A t \in SUBSET r : t # r => t \in P) => r \in P
    BY <1>1
  <2>. QED
    <3>. HIDE DEF P
    <3>. QED
      BY <2>1, <2>2, SubsetInduction
<1>3. ASSUME NEW x \in S PROVE g[x] <= SumFunctionOnSet(g, S)
  <2>1. SumFunctionOnSet(g, S) = g[x] + SumFunctionOnSet(g, S \ {x})
    BY SumTakeOut
  <2>2. SumFunctionOnSet(g, S \ {x}) \in Nat
    BY <1>2
  <2>. QED
    BY <2>1, <2>2
<1>. QED
  BY <1>2, <1>3

\* Larger summands, a larger sum.
LEMMA SumMonotonic ==
  ASSUME NEW f, NEW g, NEW S, IsFiniteSet(S),
         \A x \in S : f[x] \in Int /\ g[x] \in Int /\ f[x] <= g[x]
  PROVE  SumFunctionOnSet(f, S) <= SumFunctionOnSet(g, S)
<1>. DEFINE h == [x \in S |-> g[x] - f[x]]
<1>1. \A x \in S : f[x] \in Int /\ h[x] \in Int /\ g[x] = f[x] + h[x] /\ h[x] \in Nat
  OBVIOUS
<1>. HIDE DEF h
<1>2. SumFunctionOnSet(g, S) = SumFunctionOnSet(f, S) + SumFunctionOnSet(h, S)
  BY <1>1, SumAdd
<1>3. SumFunctionOnSet(h, S) \in Nat
  BY <1>1, SumNat
<1>4. SumFunctionOnSet(f, S) \in Int
  BY <1>1, SumType
<1>. QED
  BY <1>2, <1>3, <1>4

(***************************************************************************)
(* Balances of one sign that add up to nothing are all settled.            *)
(***************************************************************************)
LEMMA SumZero ==
  ASSUME NEW g, NEW S, IsFiniteSet(S), \A x \in S : g[x] \in Int,
         (\A x \in S : g[x] >= 0) \/ (\A x \in S : g[x] <= 0),
         SumFunctionOnSet(g, S) = 0
  PROVE  \A x \in S : g[x] = 0
<1>1. CASE \A x \in S : g[x] >= 0
  <2>1. \A x \in S : g[x] \in Nat
    BY <1>1
  <2>2. \A x \in S : g[x] <= 0
    BY <2>1, SumNat
  <2>. QED
    BY <2>1, <2>2
<1>2. CASE \A x \in S : g[x] <= 0
  <2>. DEFINE h == [x \in S |-> -g[x]]
              z == [x \in S |-> 0]
  <2>1. \A x \in S : g[x] \in Int /\ h[x] \in Nat /\ h[x] \in Int /\ z[x] = g[x] + h[x]
    BY <1>2
  <2>2. \A x \in S : z[x] = 0
    OBVIOUS
  <2>. HIDE DEF h, z
  <2>3. SumFunctionOnSet(z, S) = 0 * Cardinality(S)
    BY <2>2, SumConstant
  <2>4. Cardinality(S) \in Nat
    BY FS_CardinalityType
  <2>5. SumFunctionOnSet(z, S) = 0 + SumFunctionOnSet(h, S)
    BY <2>1, SumAdd
  <2>6. SumFunctionOnSet(h, S) \in Nat /\ \A x \in S : h[x] <= SumFunctionOnSet(h, S)
    BY <2>1, SumNat
  <2>7. \A x \in S : h[x] <= 0
    BY <2>3, <2>4, <2>5, <2>6
  <2>. QED
    BY <2>1, <2>2, <2>7
<1>. QED
  BY <1>1, <1>2

\* What one summand's change does to a sum.
LEMMA SumReplace ==
  ASSUME NEW f, NEW g, NEW S, IsFiniteSet(S), NEW x \in S, g[x] \in Int,
         \A y \in S : f[y] \in Int, \A y \in S \ {x} : g[y] = f[y]
  PROVE  SumFunctionOnSet(g, S) = SumFunctionOnSet(f, S) - f[x] + g[x]
<1>1. IsFiniteSet(S \ {x})
  BY FS_RemoveElement
<1>2. \A y \in S : g[y] \in Int
  OBVIOUS
<1>3. SumFunctionOnSet(f, S) = f[x] + SumFunctionOnSet(f, S \ {x})
  BY SumTakeOut
<1>4. SumFunctionOnSet(g, S) = g[x] + SumFunctionOnSet(g, S \ {x})
  BY <1>2, SumTakeOut
<1>5. SumFunctionOnSet(g, S \ {x}) = SumFunctionOnSet(f, S \ {x})
  BY <1>1, SumSame
<1>6. SumFunctionOnSet(f, S \ {x}) \in Int
  BY <1>1, SumType
<1>. QED
  BY <1>3, <1>4, <1>5, <1>6

(***************************************************************************)
(* What moves from one element to another leaves the sum as it was.        *)
(***************************************************************************)
LEMMA SumMove ==
  ASSUME NEW f, NEW g, NEW S, IsFiniteSet(S), NEW x \in S, NEW y \in S, x # y,
         \A z \in S : f[z] \in Int /\ g[z] \in Int,
         g[x] + g[y] = f[x] + f[y], \A z \in S \ {x, y} : g[z] = f[z]
  PROVE  SumFunctionOnSet(g, S) = SumFunctionOnSet(f, S)
<1>. DEFINE h == [z \in S |-> IF z = x THEN g[x] ELSE f[z]]
<1>1. \A z \in S : h[z] \in Int
  OBVIOUS
<1>2. h[x] = g[x] /\ h[y] = f[y] /\ \A z \in S \ {x} : h[z] = f[z]
  OBVIOUS
<1>3. \A z \in S \ {y} : g[z] = h[z]
  OBVIOUS
<1>. HIDE DEF h
<1>4. SumFunctionOnSet(h, S) = SumFunctionOnSet(f, S) - f[x] + h[x]
  BY <1>1, <1>2, SumReplace
<1>5. SumFunctionOnSet(g, S) = SumFunctionOnSet(h, S) - h[y] + g[y]
  BY <1>1, <1>3, SumReplace
<1>6. SumFunctionOnSet(f, S) \in Int
  BY SumType
<1>. QED
  BY <1>2, <1>4, <1>5, <1>6
-----------------------------------------------------------------------------
(* The numbers of slots.                                                   *)

(***************************************************************************)
(* TypeOK, with the number of masters named.                               *)
(***************************************************************************)
Typed ==
  /\ mastersNum \in 1..MaxMasters /\ Master = 1..mastersNum
  /\ count \in [Master -> 0..HashSlots]
  /\ bom \in [Master -> 0..HashSlots]
  /\ balance \in [Master -> Int]
  /\ order \in [Master -> Master]
  /\ index \in 1..(mastersNum + 1)
  /\ dstIdx \in Master
  /\ srcIdx \in 0..mastersNum
  /\ gave \in SUBSET Master
  /\ took \in SUBSET Master
  /\ slotOf \in [Master -> 0..HashSlots]
  /\ idNode \in Master
  /\ pc \in {"sync", "alloc", "spread", "move", "fill"}
  /\ avail \in 0..HashSlots
  /\ first \in 0..HashSlots
  /\ faults \in 0..MaxFaults
  /\ going \in Nat
  /\ SumFunction(count) + going <= HashSlots

(***************************************************************************)
(* Slots and masters that are there: scaling down starts from masters that *)
(* all have slots, and whatever starts without a failed command starts     *)
(* with no slot or with all of them.                                       *)
(***************************************************************************)
SyncOK ==
  /\ going > 0 => pc \in {"sync", "fill"} /\ \A i \in Master : count[i] > 0
  /\ (faults = 0 /\ pc = "sync" /\ going = 0) => SumFunction(count) \in {0, HashSlots}

(***************************************************************************)
(* AllocSlots: first is (index - 1) shares, rounded, and the masters before*)
(* index have all the slots before first, each its share give or take one. *)
(***************************************************************************)
AllocOK ==
  pc = "alloc" =>
    /\ 2 * mastersNum * first <= 2 * (index - 1) * HashSlots + mastersNum
    /\ 2 * (index - 1) * HashSlots + mastersNum < 2 * mastersNum * first + 2 * mastersNum
    /\ SumFunction(count) = first
    /\ \A i \in Master : i >= index => count[i] = 0
    /\ \A i \in Master : i < index =>
         /\ HashSlots - mastersNum < mastersNum * count[i]
         /\ mastersNum * count[i] < HashSlots + mastersNum

(***************************************************************************)
(* RebalancedCluster: node.Slots is never longer than what the master has, *)
(* and as long as no command has failed it is long enough for the balance. *)
(* The balances lack what the masters have beyond the share, and add up to *)
(* nothing once the remainder is spread.                                   *)
(***************************************************************************)
BalanceOK ==
  pc \in {"spread", "move"} =>
    /\ \A i \in Master : bom[i] <= count[i]
    /\ faults = 0 =>
         /\ SumFunction(count) = HashSlots
         /\ SumFunction(balance) >= 0
         /\ \A i \in Master : balance[i] <= bom[i] /\ balance[i] <= count[i] - expected

(***************************************************************************)
(* The masters the two indices have passed are settled, and between them   *)
(* no master that has too many slots comes before one that has too few.    *)
(***************************************************************************)
SettledOK ==
  pc = "move" =>
    /\ \A i \in Master : \E k \in Master : order[k] = i
    /\ dstIdx <= srcIdx + 1
    /\ faults = 0 =>
         /\ SumFunction(balance) = 0
         /\ \A k \in Master : k < dstIdx \/ k > srcIdx => balance[order[k]] = 0
         /\ \A j, k \in Master :
              (dstIdx <= j /\ j < k /\ k <= srcIdx /\ balance[order[j]] > 0)
                => balance[order[k]] >= 0

(***************************************************************************)
(* buildSlotsByNode: the masters before idNode are full, the ones after it *)
(* have been given nothing, and what is planned and what is still to be    *)
(* shared out are all the slots.                                           *)
(***************************************************************************)
FillOK ==
  pc = "fill" =>
    /\ going > 0
    /\ \A i \in Master : /\ slotOf[i] >= count[i]
                         /\ i > idNode => slotOf[i] = count[i]
                         /\ i < idNode => slotOf[i] >= nbSlotByNode
    /\ SumFunction([i \in Master |-> Planned(i)]) + avail = HashSlots

SlotsInv ==
  /\ Typed
  /\ SyncOK
  /\ AllocOK
  /\ BalanceOK
  /\ SettledOK
  /\ FillOK
  /\ OverfillBounded

LEMMA TypedTypeOK == Typed => TypeOK
<1>. SUFFICES ASSUME Typed PROVE TypeOK
  OBVIOUS
<1>. DEFINE n == mastersNum
<1>1. /\ n \in 1..MaxMasters /\ Master = 1..n
      /\ count \in [1..n -> 0..HashSlots]
      /\ bom \in [1..n -> 0..HashSlots]
      /\ balance \in [1..n -> Int]
      /\ order \in [1..n -> 1..n]
      /\ index \in 1..(n + 1)
      /\ dstIdx \in 1..n
      /\ srcIdx \in 0..n
      /\ gave \in SUBSET (1..n)
      /\ took \in SUBSET (1..n)
      /\ slotOf \in [1..n -> 0..HashSlots]
      /\ idNode \in 1..n
  BY DEF Typed
<1>. HIDE DEF n
<1>. QED
  BY <1>1 DEF Typed, TypeOK

\* There is a master, and no more masters than slots.
LEMMA Masters ==
  ASSUME Typed
  PROVE  /\ mastersNum \in Nat \ {0} /\ HashSlots \in Nat \ {0} /\ mastersNum <= HashSlots
         /\ Master = 1..mastersNum
         /\ IsFiniteSet(Master) /\ Cardinality(Master) = mastersNum
<1>1. mastersNum \in 1..MaxMasters /\ Master = 1..mastersNum
  BY DEF Typed
<1>2. mastersNum \in Nat \ {0} /\ HashSlots \in Nat \ {0} /\ mastersNum <= HashSlots
  BY <1>1, HashSlotsAssumption, MaxMastersAssumption
<1>3. IsFiniteSet(Master)
  BY <1>1, <1>2, FS_Interval
<1>. QED
  BY <1>1, <1>2, <1>3 DEF mastersNum

LEMMA Division ==
  ASSUME NEW a \in Int, NEW b \in Nat \ {0}
  PROVE  a \div b \in Int /\ b * (a \div b) <= a /\ a < b * (a \div b) + b
OBVIOUS

LEMMA Remainder ==
  ASSUME NEW a \in Int, NEW b \in Nat \ {0}
  PROVE  a % b \in 0..(b - 1) /\ a = (a % b) + (a \div b) * b
<1>1. a % b \in 0..(b - 1)
  OBVIOUS
<1>2. a = (a % b) + (a \div b) * b
  OBVIOUS
<1>. QED
  BY <1>1, <1>2

LEMMA Product ==
  ASSUME NEW n \in Nat, NEW a \in Int, NEW b \in Int, a <= b
  PROVE  n * a <= n * b
OBVIOUS

\* The share of a master, rounded down (expected) and up (nbSlotByNode).
LEMMA Shares ==
  ASSUME Typed
  PROVE  /\ expected \in Nat \ {0} /\ mastersNum * expected <= HashSlots
         /\ HashSlots % mastersNum \in Nat
         /\ HashSlots = mastersNum * expected + (HashSlots % mastersNum)
         /\ nbSlotByNode \in 1..HashSlots /\ HashSlots <= mastersNum * nbSlotByNode
<1>. DEFINE n == mastersNum
            e == expected
            q == nbSlotByNode
<1>1. n \in Nat \ {0} /\ HashSlots \in Nat \ {0} /\ n <= HashSlots
  BY Masters
<1>2. e \in Int /\ n * e <= HashSlots /\ HashSlots < n * e + n
  BY <1>1, Division DEF expected
<1>3. q \in Int /\ n * q <= HashSlots + n - 1 /\ HashSlots + n - 1 < n * q + n
  <2>1. HashSlots + n - 1 \in Int
    BY <1>1
  <2>. QED
    BY <1>1, <2>1, Division DEF nbSlotByNode
<1>4. HashSlots % n \in Nat /\ HashSlots = (HashSlots % n) + e * n
  <2>1. /\ HashSlots % n \in 0..(n - 1)
        /\ HashSlots = (HashSlots % n) + (HashSlots \div n) * n
    BY <1>1, Remainder
  <2>. QED
    BY <1>1, <2>1 DEF expected
<1>. HIDE DEF n, e, q
<1>5. e >= 1
  <2>. SUFFICES ASSUME e <= 0 PROVE FALSE
    BY <1>2
  <2>1. n * e <= n * 0
    BY <1>1, <1>2, Product
  <2>. QED
    BY <1>1, <1>2, <2>1
<1>6. HashSlots <= n * q
  BY <1>1, <1>3
<1>7. q >= 1
  <2>. SUFFICES ASSUME q <= 0 PROVE FALSE
    BY <1>3
  <2>1. n * q <= n * 0
    BY <1>1, <1>3, Product
  <2>. QED
    BY <1>1, <1>3, <1>6, <2>1
<1>8. q <= HashSlots
  <2>. SUFFICES ASSUME q >= HashSlots + 1 PROVE FALSE
    BY <1>1, <1>3
  <2>1. n * (HashSlots + 1) <= n * q
    BY <1>1, <1>3, Product
  <2>2. n * (HashSlots + 1) = n * HashSlots + n
    BY <1>1
  <2>3. HashSlots * 1 <= HashSlots * n
    BY <1>1, Product
  <2>. QED
    BY <1>1, <1>3, <2>1, <2>2, <2>3
<1>9. e * n = n * e
  BY <1>1, <1>2
<1>10. /\ e \in Nat \ {0} /\ n * e <= HashSlots /\ HashSlots % n \in Nat
       /\ HashSlots = n * e + (HashSlots % n)
       /\ q \in 1..HashSlots /\ HashSlots <= n * q
  BY <1>1, <1>2, <1>3, <1>4, <1>5, <1>6, <1>7, <1>8, <1>9
<1>. QED
  BY <1>10 DEF n, e, q

(***************************************************************************)
(* The sums of the numbers of slots.                                       *)
(***************************************************************************)
LEMMA Counts ==
  ASSUME Typed
  PROVE  /\ SumFunction(count) = SumFunctionOnSet(count, Master)
         /\ SumFunction(balance) = SumFunctionOnSet(balance, Master)
         /\ SumFunction(count) \in Nat /\ SumFunction(balance) \in Int
         /\ \A i \in Master : /\ count[i] \in Nat /\ bom[i] \in Nat /\ slotOf[i] \in Nat
                              /\ balance[i] \in Int
                              /\ count[i] <= SumFunction(count)
<1>1. IsFiniteSet(Master)
  BY Masters
<1>2. \A i \in Master : /\ count[i] \in Nat /\ bom[i] \in Nat /\ slotOf[i] \in Nat
                        /\ balance[i] \in Int
  <2>1. /\ count \in [Master -> 0..HashSlots] /\ bom \in [Master -> 0..HashSlots]
        /\ slotOf \in [Master -> 0..HashSlots] /\ balance \in [Master -> Int]
    BY DEF Typed
  <2>2. 0..HashSlots \subseteq Nat
    BY Masters
  <2>. QED
    BY <2>1, <2>2
<1>3. DOMAIN count = Master /\ DOMAIN balance = Master
  BY DEF Typed
<1>4. /\ SumFunction(count) = SumFunctionOnSet(count, Master)
      /\ SumFunction(balance) = SumFunctionOnSet(balance, Master)
  BY <1>3 DEF SumFunction
<1>5. SumFunctionOnSet(count, Master) \in Nat
      /\ \A i \in Master : count[i] <= SumFunctionOnSet(count, Master)
  BY <1>1, <1>2, SumNat
<1>6. SumFunctionOnSet(balance, Master) \in Int
  BY <1>1, <1>2, SumType
<1>. QED
  BY <1>2, <1>4, <1>5, <1>6

\* The shares depend on the number of masters alone.
LEMMA SameShares ==
  ASSUME DOMAIN count' = DOMAIN count
  PROVE  /\ Master' = Master /\ mastersNum' = mastersNum
         /\ expected' = expected /\ nbSlotByNode' = nbSlotByNode
BY DEF Master, mastersNum, expected, nbSlotByNode

LEMMA InitSlots == Init => SlotsInv
<1>. SUFFICES ASSUME Init PROVE SlotsInv
  OBVIOUS
<1>1. PICK n \in 1..MaxMasters :
        /\ count \in [1..n -> 0..HashSlots] /\ SumFunction(count) <= HashSlots
        /\ going \in 0..(HashSlots - SumFunction(count))
        /\ IF going = 0 THEN SumFunction(count) \in {0, HashSlots}
                        ELSE \A i \in 1..n : count[i] > 0
        /\ slotOf = [i \in 1..n |-> 0]
        /\ bom = [i \in 1..n |-> 0]
        /\ balance = [i \in 1..n |-> 0]
        /\ order = [i \in 1..n |-> i]
  BY DEF Init
<1>2. n \in Nat \ {0} /\ HashSlots \in Nat \ {0} /\ MaxFaults \in Nat /\ n <= HashSlots
  BY HashSlotsAssumption, MaxMastersAssumption, MaxFaultsAssumption
<1>3. Master = 1..n /\ IsFiniteSet(1..n)
  BY <1>1, <1>2, FS_Interval DEF Master
<1>4. Cardinality(1..n) = n
  <2>1. Cardinality(1..n) = IF 1 > n THEN 0 ELSE n - 1 + 1
    BY <1>2, FS_Interval
  <2>. QED
    BY <1>2, <2>1
<1>5. mastersNum = n
  BY <1>3, <1>4 DEF mastersNum
<1>6. SumFunction(count) \in Nat
  <2>1. \A i \in 1..n : count[i] \in Nat
    BY <1>1, <1>2
  <2>2. SumFunction(count) = SumFunctionOnSet(count, 1..n)
    BY <1>1 DEF SumFunction
  <2>. QED
    BY <1>3, <2>1, <2>2, SumNat
<1>7. /\ going \in Nat /\ SumFunction(count) + going <= HashSlots
      /\ going = 0 => SumFunction(count) \in {0, HashSlots}
      /\ going > 0 => \A i \in Master : count[i] > 0
  BY <1>1, <1>2, <1>3, <1>6
<1>8. /\ pc = "sync" /\ dstIdx = 1 /\ srcIdx = 1 /\ index = 1 /\ first = 0
      /\ gave = {} /\ took = {} /\ avail = 0 /\ idNode = 1 /\ faults = 0
  BY DEF Init
<1>9. Typed
  BY <1>1, <1>2, <1>3, <1>5, <1>7, <1>8 DEF Typed
<1>. QED
  BY <1>7, <1>8, <1>9
     DEF SlotsInv, SyncOK, AllocOK, BalanceOK, SettledOK, FillOK, OverfillBounded

(***************************************************************************)
(* The balances of a new rebalancing add up to the remainder.              *)
(***************************************************************************)
LEMMA NewBalances ==
  ASSUME Typed, NEW b, b = [i \in Master |-> count[i] - expected]
  PROVE  SumFunction(b) = SumFunction(count) - mastersNum * expected
<1>. DEFINE e == [i \in Master |-> expected]
<1>1. IsFiniteSet(Master) /\ Cardinality(Master) = mastersNum /\ mastersNum \in Nat
  BY Masters
<1>2. expected \in Int
  BY Shares
<1>3. \A i \in Master : count[i] \in Int
  BY Counts
<1>4. \A i \in Master : /\ b[i] \in Int /\ e[i] \in Int /\ count[i] = b[i] + e[i]
                        /\ e[i] = expected
  BY <1>2, <1>3
<1>. HIDE DEF e
<1>5. SumFunctionOnSet(count, Master)
        = SumFunctionOnSet(b, Master) + SumFunctionOnSet(e, Master)
  BY <1>1, <1>4, SumAdd
<1>6. SumFunctionOnSet(e, Master) = expected * mastersNum
  BY <1>1, <1>2, <1>4, SumConstant
<1>7. SumFunctionOnSet(b, Master) \in Int
  BY <1>1, <1>4, SumType
<1>8. SumFunction(b) = SumFunctionOnSet(b, Master)
  BY DEF SumFunction
<1>9. SumFunction(count) = SumFunctionOnSet(count, Master) /\ SumFunction(count) \in Nat
  BY Counts
<1>. QED
  BY <1>1, <1>2, <1>5, <1>6, <1>7, <1>8, <1>9

\* Sync starts AllocSlots with no slot assigned, RebalancedCluster with all of them.
LEMMA SyncSlots ==
  ASSUME SlotsInv, Sync
  PROVE  SlotsInv'
<1>1. /\ Typed /\ SyncOK /\ pc = "sync" /\ going = 0 /\ going' = going /\ faults' = faults
      /\ UNCHANGED <<count, order, dstIdx, srcIdx, avail, slotOf, idNode>>
  BY DEF SlotsInv, Sync, pair, fill
<1>2. /\ mastersNum \in Nat \ {0} /\ HashSlots \in Nat \ {0} /\ Master = 1..mastersNum
      /\ IsFiniteSet(Master)
  BY <1>1, Masters
<1>3. /\ SumFunction(count) = SumFunctionOnSet(count, Master)
      /\ SumFunction(count) \in Nat
      /\ \A i \in Master : count[i] \in Nat /\ count[i] <= SumFunction(count)
  BY <1>1, Counts
<1>4. Master' = Master /\ mastersNum' = mastersNum /\ expected' = expected
  BY <1>1, SameShares
<1>5. SyncOK'
  BY <1>1, <1>2 DEF SyncOK, Sync, StartRebalance
<1>6. CASE \A i \in Master : count[i] = 0
  <2>1. pc' = "alloc" /\ index' = 1 /\ first' = 0 /\ UNCHANGED <<bom, balance, gave, took>>
    BY <1>6 DEF Sync
  <2>2. SumFunction(count) = 0
    <3>1. SumFunctionOnSet(count, Master) = 0 * Cardinality(Master)
      BY <1>2, <1>6, SumConstant
    <3>2. Cardinality(Master) \in Nat
      BY <1>2, FS_CardinalityType
    <3>. QED
      BY <1>3, <3>1, <3>2
  <2>3. Typed'
    <3>1. index' \in 1..(mastersNum + 1) /\ first' \in 0..HashSlots
      BY <1>2, <2>1
    <3>. QED
      BY <1>1, <1>4, <2>1, <3>1 DEF Typed
  <2>4. AllocOK'
    BY <1>1, <1>2, <1>4, <1>6, <2>1, <2>2 DEF AllocOK
  <2>. QED
    BY <1>5, <2>1, <2>3, <2>4
       DEF SlotsInv, BalanceOK, SettledOK, FillOK, OverfillBounded
<1>7. CASE \E i \in Master : count[i] # 0
  <2>1. /\ pc' = "spread" /\ bom' = count /\ balance' = [i \in Master |-> count[i] - expected]
        /\ gave' = {} /\ took' = {} /\ UNCHANGED <<index, first>>
    BY <1>7 DEF Sync, StartRebalance, alloc
  <2>2. expected \in Nat \ {0} /\ mastersNum * expected <= HashSlots
    BY <1>1, Shares
  <2>3. SumFunction(count) > 0
    BY <1>3, <1>7
  <2>4. faults = 0 => SumFunction(count) = HashSlots
    BY <1>1, <2>3 DEF SyncOK
  <2>5. SumFunction(balance') = SumFunction(count) - mastersNum * expected
    BY <1>1, <2>1, NewBalances
  <2>6. Typed'
    <3>1. balance' \in [Master -> Int]
      BY <1>3, <2>1, <2>2
    <3>2. bom' \in [Master -> 0..HashSlots]
      BY <1>1, <2>1 DEF Typed
    <3>. QED
      BY <1>1, <1>4, <2>1, <3>1, <3>2 DEF Typed
  <2>7. BalanceOK'
    <3>1. \A i \in Master : bom'[i] <= count'[i] /\ balance'[i] <= bom'[i]
                            /\ balance'[i] <= count'[i] - expected
      BY <1>1, <1>3, <2>1, <2>2
    <3>2. faults' = 0 => SumFunction(count') = HashSlots /\ SumFunction(balance') >= 0
      BY <1>1, <1>2, <2>2, <2>4, <2>5
    <3>. QED
      BY <1>4, <3>1, <3>2 DEF BalanceOK
  <2>. QED
    BY <1>5, <2>1, <2>6, <2>7 DEF SlotsInv, AllocOK, SettledOK, FillOK, OverfillBounded
<1>. QED
  BY <1>6, <1>7

(***************************************************************************)
(* The end of the index-th range, without the cases AllocSlots provides    *)
(* for: they never arise.                                                  *)
(***************************************************************************)
LEMMA RoundedShare ==
  ASSUME NEW n \in Nat \ {0}, NEW M \in Nat, n <= M, NEW k \in 1..n,
         NEW f \in Nat, NEW r \in Int,
         2 * n * f <= 2 * (k - 1) * M + n,
         2 * (k - 1) * M + n < 2 * n * f + 2 * n,
         2 * n * r <= 2 * k * M - n,
         2 * k * M - n < 2 * n * r + 2 * n
  PROVE  /\ f <= r /\ r <= M - 1 /\ (k = n => r = M - 1)
         /\ 2 * n * (r + 1) <= 2 * k * M + n
         /\ 2 * k * M + n < 2 * n * (r + 1) + 2 * n
         /\ M - n < n * (r - f + 1) /\ n * (r - f + 1) < M + n
<1>. DEFINE a == n * r
            b == n * f
            d == k * M
<1>1. a \in Int /\ b \in Int /\ d \in Int
  OBVIOUS
<1>2. 2 * n * f = 2 * b /\ 2 * n * r = 2 * a
  OBVIOUS
<1>3. 2 * k * M = 2 * d /\ 2 * (k - 1) * M = 2 * d - 2 * M
  OBVIOUS
<1>4. 2 * n * (r + 1) = 2 * a + 2 * n /\ n * (r - f + 1) = a - b + n
  OBVIOUS
<1>5. /\ 2 * b <= 2 * d - 2 * M + n /\ 2 * d - 2 * M + n < 2 * b + 2 * n
      /\ 2 * a <= 2 * d - n /\ 2 * d - n < 2 * a + 2 * n
  BY <1>2, <1>3
<1>6. f <= r
  <2>. SUFFICES ASSUME r + 1 <= f PROVE FALSE
    OBVIOUS
  <2>1. n * (r + 1) <= n * f
    BY Product
  <2>2. n * (r + 1) = a + n
    OBVIOUS
  <2>3. a + n <= b
    BY <2>1, <2>2
  <2>. QED
    <3>. HIDE DEF a, b, d
    <3>. QED
      BY <1>1, <1>5, <2>3
<1>7. d <= n * M
  <2>1. M * k <= M * n
    BY Product
  <2>. QED
    BY <2>1
<1>8. r <= M - 1
  <2>. SUFFICES ASSUME M <= r PROVE FALSE
    OBVIOUS
  <2>1. n * M <= a
    BY Product
  <2>. QED
    <3>. HIDE DEF a, b, d
    <3>. QED
      BY <1>1, <1>5, <1>7, <2>1
<1>9. k = n => r = M - 1
  <2>. SUFFICES ASSUME k = n, r + 1 <= M - 1 PROVE FALSE
    BY <1>8
  <2>1. n * (r + 1) <= n * (M - 1)
    BY Product
  <2>2. n * (r + 1) = a + n /\ n * (M - 1) = d - n
    OBVIOUS
  <2>3. a + n <= d - n
    BY <2>1, <2>2
  <2>. QED
    <3>. HIDE DEF a, b, d
    <3>. QED
      BY <1>1, <1>5, <2>3
<1>10. /\ 2 * a + 2 * n <= 2 * d + n /\ 2 * d + n < 2 * a + 2 * n + 2 * n
       /\ M - n < a - b + n /\ a - b + n < M + n
  <2>. HIDE DEF a, b, d
  <2>. QED
    BY <1>1, <1>5
<1>11. /\ 2 * n * (r + 1) <= 2 * k * M + n
       /\ 2 * k * M + n < 2 * n * (r + 1) + 2 * n
       /\ M - n < n * (r - f + 1) /\ n * (r - f + 1) < M + n
  <2>. HIDE DEF a, b, d
  <2>. QED
    BY <1>3, <1>4, <1>10
<1>. QED
  BY <1>6, <1>8, <1>9, <1>11

\* The range of the master at index, in the terms of AllocOK.
LEMMA LastSlotIs ==
  ASSUME Typed, AllocOK, pc = "alloc", index <= mastersNum
  PROVE  LET c == LastSlot - first + 1
         IN  /\ LastSlot \in Int /\ first <= LastSlot /\ LastSlot <= HashSlots - 1
             /\ 2 * mastersNum * (LastSlot + 1) <= 2 * index * HashSlots + mastersNum
             /\ 2 * index * HashSlots + mastersNum
                  < 2 * mastersNum * (LastSlot + 1) + 2 * mastersNum
             /\ HashSlots - mastersNum < mastersNum * c
             /\ mastersNum * c < HashSlots + mastersNum
<1>. DEFINE n == mastersNum
            r == RoundedLast
<1>1. /\ n \in Nat \ {0} /\ HashSlots \in Nat \ {0} /\ n <= HashSlots
      /\ index \in 1..n /\ first \in Nat
  <2>1. n \in Nat \ {0} /\ HashSlots \in Nat \ {0} /\ n <= HashSlots
    BY Masters
  <2>2. index \in 1..(n + 1) /\ first \in 0..HashSlots
    BY DEF Typed
  <2>. QED
    BY <2>1, <2>2
<1>2. /\ 2 * n * first <= 2 * (index - 1) * HashSlots + n
      /\ 2 * (index - 1) * HashSlots + n < 2 * n * first + 2 * n
  BY DEF AllocOK
<1>3. r \in Int /\ 2 * n * r <= 2 * index * HashSlots - n
      /\ 2 * index * HashSlots - n < 2 * n * r + 2 * n
  <2>. DEFINE x == 2 * index * HashSlots - n
              y == 2 * n
  <2>1. x \in Int /\ y \in Nat \ {0}
    BY <1>1
  <2>2. RoundedLast = x \div y
    BY DEF RoundedLast
  <2>. HIDE DEF x, y
  <2>3. r \in Int /\ y * r <= x /\ x < y * r + y
    BY <2>1, <2>2, Division
  <2>. QED
    BY <2>3 DEF x, y
<1>4. /\ first <= r /\ r <= HashSlots - 1 /\ (index = n => r = HashSlots - 1)
      /\ 2 * n * (r + 1) <= 2 * index * HashSlots + n
      /\ 2 * index * HashSlots + n < 2 * n * (r + 1) + 2 * n
      /\ HashSlots - n < n * (r - first + 1) /\ n * (r - first + 1) < HashSlots + n
  <2>. HIDE DEF n, r
  <2>. QED
    BY <1>1, <1>2, <1>3, RoundedShare
<1>5. LastSlot = r
  <2>. HIDE DEF r
  <2>1. LastSlot = LET last == IF r > HashSlots \/ index = n THEN HashSlots - 1 ELSE r
                   IN  IF last < first THEN first ELSE last
    BY DEF LastSlot, r
  <2>2. ~(r > HashSlots)
    BY <1>1, <1>3, <1>4
  <2>3. LastSlot = IF r < first THEN first ELSE r
    BY <1>4, <2>1, <2>2
  <2>. QED
    BY <1>1, <1>3, <1>4, <2>3
<1>. HIDE DEF r
<1>. QED
  BY <1>3, <1>4, <1>5

\* A range, given or not, keeps the slots within what there is.
LEMMA AllocNodeSlots ==
  ASSUME SlotsInv, AllocNode
  PROVE  SlotsInv'
<1>. DEFINE c == LastSlot - first + 1
            n == mastersNum
<1>1. /\ Typed /\ AllocOK /\ SyncOK /\ pc = "alloc" /\ index <= mastersNum /\ going = 0
      /\ UNCHANGED <<bom, balance, order, dstIdx, srcIdx, gave, took>>
      /\ UNCHANGED <<going, avail, slotOf, idNode>>
  <2>1. Typed /\ AllocOK /\ SyncOK /\ pc = "alloc" /\ index <= mastersNum
    BY DEF SlotsInv, AllocNode
  <2>2. going = 0
    BY <2>1 DEF SyncOK, Typed
  <2>. QED
    BY <2>1, <2>2 DEF AllocNode, rebalance, pair, fill
<1>2. PICK failed \in BOOLEAN, done \in BOOLEAN :
        /\ ~failed => done
        /\ Fault(failed)
        /\ count' = IF done THEN [count EXCEPT ![index] = c] ELSE count
        /\ IF failed
             THEN pc' = "sync" /\ UNCHANGED alloc
             ELSE /\ index' = index + 1
                  /\ first' = LastSlot + 1
                  /\ UNCHANGED pc
  BY DEF AllocNode
<1>3. /\ n \in Nat \ {0} /\ HashSlots \in Nat \ {0} /\ Master = 1..n /\ IsFiniteSet(Master)
      /\ index \in 1..n /\ first \in Nat /\ first <= HashSlots /\ MaxFaults \in Nat
      /\ index \in Master
  <2>1. n \in Nat \ {0} /\ HashSlots \in Nat \ {0} /\ Master = 1..n /\ IsFiniteSet(Master)
    BY <1>1, Masters
  <2>2. index \in 1..(n + 1) /\ first \in 0..HashSlots
    BY <1>1 DEF Typed
  <2>. QED
    BY <1>1, <2>1, <2>2, MaxFaultsAssumption
<1>4. /\ LastSlot \in Int /\ first <= LastSlot /\ LastSlot <= HashSlots - 1
      /\ 2 * n * (LastSlot + 1) <= 2 * index * HashSlots + n
      /\ 2 * index * HashSlots + n < 2 * n * (LastSlot + 1) + 2 * n
      /\ HashSlots - n < n * c /\ n * c < HashSlots + n
  BY <1>1, LastSlotIs
<1>5. c \in 0..HashSlots /\ first + c = LastSlot + 1
  BY <1>3, <1>4
<1>6. DOMAIN count' = DOMAIN count
  BY <1>2
<1>7. Master' = Master /\ mastersNum' = mastersNum
  BY <1>6, SameShares
<1>8. /\ SumFunction(count) = SumFunctionOnSet(count, Master) /\ SumFunction(count) = first
      /\ count \in [Master -> 0..HashSlots]
      /\ \A i \in Master : count[i] \in Int
      /\ \A i \in Master : i >= index => count[i] = 0
      /\ \A i \in Master : i < index =>
           HashSlots - n < n * count[i] /\ n * count[i] < HashSlots + n
  <2>1. /\ SumFunction(count) = SumFunctionOnSet(count, Master)
        /\ \A i \in Master : count[i] \in Int
    BY <1>1, Counts
  <2>. QED
    BY <1>1, <2>1 DEF AllocOK, Typed
<1>9. count' \in [Master -> 0..HashSlots]
  <2>. HIDE DEF c
  <2>. QED
    BY <1>2, <1>5, <1>8
<1>10. done => SumFunction(count') = LastSlot + 1
  <2>. SUFFICES ASSUME done PROVE SumFunction(count') = LastSlot + 1
    OBVIOUS
  <2>. HIDE DEF c
  <2>1. count' = [count EXCEPT ![index] = c]
    BY <1>2
  <2>2. count'[index] = c /\ \A i \in Master \ {index} : count'[i] = count[i]
    BY <1>3, <1>8, <2>1
  <2>3. SumFunctionOnSet(count', Master)
          = SumFunctionOnSet(count, Master) - count[index] + count'[index]
    <3>1. IsFiniteSet(Master) /\ index \in Master /\ count'[index] \in Int
      BY <1>3, <1>5, <2>2
    <3>2. \A i \in Master : count[i] \in Int
      BY <1>8
    <3>3. \A i \in Master \ {index} : count'[i] = count[i]
      BY <2>2
    <3>. QED
      BY <3>1, <3>2, <3>3, SumReplace
  <2>4. SumFunction(count') = SumFunctionOnSet(count', Master)
    BY <1>9 DEF SumFunction
  <2>5. count[index] = 0
    BY <1>3, <1>8
  <2>. QED
    BY <1>3, <1>5, <1>8, <2>2, <2>3, <2>4, <2>5
<1>11. SumFunction(count') <= HashSlots /\ SumFunction(count') \in Int
  <2>. HIDE DEF c
  <2>1. CASE done
    BY <1>3, <1>4, <1>10, <2>1
  <2>2. CASE ~done
    BY <1>2, <1>3, <1>8, <2>2
  <2>. QED
    BY <2>1, <2>2
<1>12. /\ faults' \in 0..MaxFaults /\ pc' \in {"sync", "alloc"}
       /\ index' \in 1..(n + 1) /\ first' \in 0..HashSlots
       /\ pc' = "sync" => faults' # 0
       /\ pc' = "alloc" => done /\ index' = index + 1 /\ first' = LastSlot + 1
  <2>1. faults \in 0..MaxFaults
    BY <1>1 DEF Typed
  <2>2. CASE failed
    BY <1>2, <1>3, <2>1, <2>2 DEF Fault, alloc
  <2>3. CASE ~failed
    <3>1. /\ faults' = faults /\ pc' = "alloc" /\ done
          /\ index' = index + 1 /\ first' = LastSlot + 1
      BY <1>1, <1>2, <2>3 DEF Fault
    <3>. QED
      BY <1>3, <1>4, <2>1, <3>1
  <2>. QED
    BY <2>2, <2>3
<1>13. Typed'
  <2>. HIDE DEF c, n
  <2>1. SumFunction(count)' + going' <= HashSlots
    BY <1>1, <1>11
  <2>. QED
    BY <1>1, <1>7, <1>9, <1>12, <2>1 DEF Typed, n
<1>14. SyncOK'
  BY <1>1, <1>12 DEF SyncOK
<1>15. AllocOK'
  <2>. SUFFICES ASSUME pc' = "alloc" PROVE AllocOK'
    BY DEF AllocOK
  <2>1. count' = [count EXCEPT ![index] = c] /\ index' = index + 1 /\ first' = LastSlot + 1
    BY <1>2, <1>12
  <2>. HIDE DEF c, n
  <2>2. \A i \in Master : i >= index + 1 => count'[i] = 0
    BY <1>3, <1>8, <2>1
  <2>3. ASSUME NEW i \in Master, i < index + 1
        PROVE  HashSlots - n < n * count'[i] /\ n * count'[i] < HashSlots + n
    <3>1. CASE i = index
      BY <1>3, <1>4, <1>8, <2>1, <3>1
    <3>2. CASE i # index
      <4>1. i < index /\ count'[i] = count[i]
        BY <1>3, <1>8, <2>1, <2>3, <3>2
      <4>. QED
        BY <1>8, <4>1
    <3>. QED
      BY <3>1, <3>2
  <2>4. index' - 1 = index
    BY <1>3, <2>1
  <2>5. mastersNum' = n /\ Master' = Master
    BY <1>7 DEF n
  <2>6. SumFunction(count') = first'
    BY <1>10, <1>12, <2>1
  <2>7. /\ 2 * n * first' <= 2 * (index' - 1) * HashSlots + n
        /\ 2 * (index' - 1) * HashSlots + n < 2 * n * first' + 2 * n
    BY <1>4, <2>1, <2>4
  <2>. QED
    BY <2>1, <2>2, <2>3, <2>5, <2>6, <2>7 DEF AllocOK
<1>. QED
  BY <1>12, <1>13, <1>14, <1>15
     DEF SlotsInv, BalanceOK, SettledOK, FillOK, OverfillBounded

\* The last range ends with the last slot.
LEMMA AllocEnds ==
  ASSUME Typed, AllocOK, pc = "alloc", index > mastersNum
  PROVE  SumFunction(count) = HashSlots /\ index = mastersNum + 1
<1>. DEFINE n == mastersNum
            f == first
<1>1. n \in Nat \ {0} /\ HashSlots \in Nat
  BY Masters
<1>2. index \in 1..(n + 1) /\ f \in 0..HashSlots
  BY DEF Typed
<1>3. index = n + 1
  BY <1>1, <1>2
<1>4. 2 * (index - 1) * HashSlots + n < 2 * n * f + 2 * n /\ SumFunction(count) = f
  BY DEF AllocOK
<1>. HIDE DEF n, f
<1>5. f = HashSlots
  <2>. SUFFICES ASSUME f <= HashSlots - 1 PROVE FALSE
    BY <1>1, <1>2
  <2>1. n * f <= n * (HashSlots - 1)
    BY <1>1, <1>2, Product
  <2>2. 2 * n * HashSlots + n < 2 * n * f + 2 * n
    BY <1>1, <1>3, <1>4
  <2>3. 2 * n * HashSlots = 2 * (n * HashSlots) /\ 2 * n * f = 2 * (n * f)
    BY <1>1, <1>2
  <2>4. n * (HashSlots - 1) = n * HashSlots - n
    BY <1>1
  <2>. QED
    BY <1>1, <1>2, <2>1, <2>2, <2>3, <2>4
<1>. QED
  BY <1>3, <1>4, <1>5 DEF n

\* AllocSlots and RebalancedCluster leave all slots assigned unless a command failed.
LEMMA EndSlots ==
  ASSUME SlotsInv, EndAlloc \/ Panic \/ EndRebalance
  PROVE  SlotsInv'
<1>1. /\ Typed /\ pc' = "sync"
      /\ UNCHANGED <<count, index, first, bom, balance, order, dstIdx, srcIdx, gave, took>>
      /\ UNCHANGED <<going, avail, slotOf, idNode, faults>>
  BY DEF SlotsInv, EndAlloc, Panic, EndRebalance, alloc, rebalance, pair, fill
<1>2. Master' = Master /\ mastersNum' = mastersNum
  BY <1>1, SameShares
<1>3. Typed'
  BY <1>1, <1>2 DEF Typed
<1>4. faults = 0 => SumFunction(count) = HashSlots
  <2>1. CASE EndAlloc
    BY <2>1, AllocEnds DEF SlotsInv, EndAlloc
  <2>2. CASE Panic \/ EndRebalance
    BY <2>2 DEF SlotsInv, BalanceOK, Panic, EndRebalance
  <2>. QED
    BY <2>1, <2>2
<1>5. SyncOK'
  <2>1. going > 0 => \A i \in Master : count[i] > 0
    BY DEF SlotsInv, SyncOK
  <2>. QED
    BY <1>1, <1>2, <1>4, <2>1 DEF SyncOK
<1>. QED
  BY <1>1, <1>3, <1>5 DEF SlotsInv, AllocOK, BalanceOK, SettledOK, FillOK, OverfillBounded

-----------------------------------------------------------------------------
(***************************************************************************)
(* A sum of zeros and ones counts the ones.                                *)
(***************************************************************************)
LEMMA SumOnes ==
  ASSUME NEW g, NEW S, IsFiniteSet(S), NEW T \in SUBSET S,
         \A x \in S : g[x] = IF x \in T THEN 1 ELSE 0
  PROVE  SumFunctionOnSet(g, S) = Cardinality(T)
<1>. DEFINE P == {s \in SUBSET S : SumFunctionOnSet(g, s) = Cardinality(s \cap T)}
<1>1. ASSUME NEW s \in SUBSET S, \A t \in SUBSET s : t # s => t \in P
      PROVE  s \in P
  <2>. DEFINE p == Pick(s)
              r == s \ {p}
  <2>1. IsFiniteSet(s) /\ IsFiniteSet(s \cap T)
    BY FS_Subset
  <2>2. CASE s = {}
    <3>1. Cardinality(s \cap T) = 0
      BY <2>2, FS_EmptySet
    <3>. QED
      BY <2>2, <3>1, SumEmpty
  <2>3. CASE s # {}
    <3>1. p \in s
      BY <2>3, PickIn
    <3>2. r \in P
      BY <1>1, <3>1
    <3>3. SumFunctionOnSet(g, s) = g[p] + Cardinality(r \cap T)
      <4>1. SumFunctionOnSet(g, s) = g[p] + SumFunctionOnSet(g, r)
        BY <2>1, <2>3, SumUnfold
      <4>. QED
        BY <3>2, <4>1
    <3>4. g[p] = IF p \in T THEN 1 ELSE 0
      BY <3>1
    <3>5. /\ Cardinality(s \cap T) \in Nat
          /\ Cardinality((s \cap T) \ {p})
               = IF p \in s \cap T THEN Cardinality(s \cap T) - 1 ELSE Cardinality(s \cap T)
      BY <2>1, FS_RemoveElement, FS_CardinalityType
    <3>6. (s \cap T) \ {p} = r \cap T
      OBVIOUS
    <3>7. g[p] + Cardinality(r \cap T) = Cardinality(s \cap T)
      <4>. HIDE DEF p, r
      <4>. QED
        BY <3>1, <3>4, <3>5, <3>6
    <3>. QED
      BY <3>3, <3>7
  <2>. QED
    BY <2>2, <2>3
<1>2. S \in P
  <2>. HIDE DEF P
  <2>. QED
    BY <1>1, SubsetInduction
<1>3. S \cap T = T
  OBVIOUS
<1>. QED
  BY <1>2, <1>3

(***************************************************************************)
(* One pass serves no more masters than there are slots left over.         *)
(***************************************************************************)
LEMMA FirstOnes ==
  ASSUME NEW S \in SUBSET Nat, IsFiniteSet(S), NEW t \in Nat, NEW T \in SUBSET S,
         \A i \in T : Cardinality({j \in S : j < i}) < t
  PROVE  Cardinality(T) <= t
<1>. DEFINE before(i) == {j \in S : j < i}
            rank == [i \in T |-> Cardinality(before(i))]
<1>1. \A i \in S : IsFiniteSet(before(i))
  BY FS_Subset
<1>2. \A i \in S : Cardinality(before(i)) \in Nat
  BY <1>1, FS_CardinalityType
<1>3. rank \in [T -> 0..(t - 1)]
  <2>1. \A i \in T : Cardinality(before(i)) < t
    OBVIOUS
  <2>. HIDE DEF before
  <2>2. \A i \in T : Cardinality(before(i)) \in 0..(t - 1)
    BY <1>2, <2>1
  <2>. QED
    BY <2>2
<1>4. ASSUME NEW i \in T, NEW k \in T, i < k PROVE rank[i] # rank[k]
  <2>1. before(i) \in SUBSET before(k) /\ i \in before(k) /\ i \notin before(i)
    <3>1. i \in S /\ i \in Nat /\ k \in Nat /\ S \subseteq Nat /\ i < k
      BY <1>4
    <3>2. ASSUME NEW j \in before(i) PROVE j \in before(k)
      BY <3>1
    <3>3. i \in before(k)
      BY <3>1
    <3>4. i \notin before(i)
      BY <3>1
    <3>. QED
      <4>. HIDE DEF before
      <4>. QED
        BY <3>2, <3>3, <3>4
  <2>2. IsFiniteSet(before(k))
    BY <1>1
  <2>3. Cardinality(before(k)) # Cardinality(before(i))
    <3>. HIDE DEF before
    <3>. QED
      BY <2>1, <2>2, FS_Subset
  <2>. QED
    BY <2>3
<1>5. \A i, k \in T : rank[i] = rank[k] => i = k
  <2>. HIDE DEF rank
  <2>1. \A i, k \in T : i < k \/ k < i \/ i = k
    OBVIOUS
  <2>. QED
    BY <1>4, <2>1
<1>6. rank \in Injection(T, 0..(t - 1))
  <2>. HIDE DEF rank
  <2>. QED
    BY <1>3, <1>5 DEF Injection, IsInjective
<1>7. IsFiniteSet(0..(t - 1)) /\ Cardinality(0..(t - 1)) = t
  <2>1. /\ IsFiniteSet(0..(t - 1))
        /\ Cardinality(0..(t - 1)) = IF 0 > t - 1 THEN 0 ELSE t - 1 - 0 + 1
    BY FS_Interval
  <2>. QED
    BY <2>1
<1>. QED
  <2>. HIDE DEF rank
  <2>. QED
    BY <1>6, <1>7, FS_Injection

\* A pass takes no more from the balances than they add up to.
LEMMA SpreadRemainderSlots ==
  ASSUME SlotsInv, SpreadRemainder
  PROVE  SlotsInv'
<1>. DEFINE short == {i \in Master : balance[i] < 0}
            served == {i \in short : Cardinality({j \in short : j < i}) < totalBalance}
            e == [i \in Master |-> IF i \in served THEN 1 ELSE 0]
<1>1. /\ Typed /\ SyncOK /\ BalanceOK /\ pc = "spread" /\ pc' = "spread" /\ totalBalance > 0
      /\ balance' = [i \in Master |-> IF i \in served THEN balance[i] - 1 ELSE balance[i]]
      /\ UNCHANGED <<count, bom, order, dstIdx, srcIdx, index, first, gave, took>>
      /\ UNCHANGED <<going, avail, slotOf, idNode, faults>>
  BY DEF SlotsInv, SpreadRemainder, pair, alloc, fill
<1>2. Master' = Master /\ mastersNum' = mastersNum /\ expected' = expected
  BY <1>1, SameShares
<1>3. /\ IsFiniteSet(Master) /\ Master \subseteq Nat
  BY <1>1, Masters
<1>4. /\ \A i \in Master : balance[i] \in Int /\ count[i] \in Int /\ bom[i] \in Int
      /\ totalBalance = SumFunctionOnSet(balance, Master) /\ totalBalance \in Nat
  BY <1>1, Counts DEF totalBalance
<1>5. Cardinality(served) <= totalBalance
  <2>1. short \in SUBSET Nat /\ IsFiniteSet(short)
    BY <1>3, FS_Subset
  <2>2. /\ served \in SUBSET short
        /\ \A i \in served : Cardinality({j \in short : j < i}) < totalBalance
    OBVIOUS
  <2>. HIDE DEF short, served
  <2>. QED
    BY <1>4, <2>1, <2>2, FirstOnes
<1>6. served \in SUBSET Master
  OBVIOUS
<1>. HIDE DEF served
<1>7. \A i \in Master : /\ e[i] = IF i \in served THEN 1 ELSE 0
                        /\ balance'[i] \in Int /\ e[i] \in Int
                        /\ balance[i] = balance'[i] + e[i]
                        /\ balance'[i] <= balance[i]
  BY <1>1, <1>4
<1>8. balance' \in [Master -> Int]
  BY <1>1, <1>4
<1>. HIDE DEF e
<1>9. SumFunctionOnSet(e, Master) = Cardinality(served) /\ Cardinality(served) \in Nat
  <2>1. Cardinality(served) \in Nat
    BY <1>3, <1>6, FS_Subset, FS_CardinalityType
  <2>2. \A i \in Master : e[i] = IF i \in served THEN 1 ELSE 0
    BY <1>7
  <2>. QED
    BY <1>3, <1>6, <2>1, <2>2, SumOnes
<1>10. SumFunctionOnSet(balance, Master)
         = SumFunctionOnSet(balance', Master) + SumFunctionOnSet(e, Master)
  <2>. DEFINE b == balance'
  <2>1. \A i \in Master : b[i] \in Int /\ e[i] \in Int /\ balance[i] = b[i] + e[i]
    BY <1>7
  <2>2. IsFiniteSet(Master)
    BY <1>3
  <2>. HIDE DEF b
  <2>3. SumFunctionOnSet(balance, Master)
          = SumFunctionOnSet(b, Master) + SumFunctionOnSet(e, Master)
    BY <2>1, <2>2, SumAdd
  <2>. QED
    BY <2>3 DEF b
<1>11. SumFunction(balance') = SumFunctionOnSet(balance', Master)
  BY <1>8 DEF SumFunction
<1>12. SumFunctionOnSet(balance', Master) \in Int
  BY <1>3, <1>7, SumType
<1>13. SumFunction(balance') >= 0
  BY <1>4, <1>5, <1>9, <1>10, <1>11, <1>12
<1>14. Typed'
  BY <1>1, <1>2, <1>8 DEF Typed
<1>15. SyncOK'
  BY <1>1, <1>2 DEF SyncOK
<1>16. BalanceOK'
  <2>1. expected \in Int
    BY <1>1, Shares
  <2>2. /\ \A i \in Master : bom[i] <= count[i]
        /\ faults = 0 => /\ SumFunction(count) = HashSlots
                         /\ \A i \in Master : /\ balance[i] <= bom[i]
                                              /\ balance[i] <= count[i] - expected
    BY <1>1 DEF BalanceOK
  <2>3. faults = 0 => \A i \in Master : /\ balance'[i] <= bom[i]
                                        /\ balance'[i] <= count[i] - expected
    BY <1>4, <1>7, <2>1, <2>2
  <2>. QED
    BY <1>1, <1>2, <1>13, <2>2, <2>3 DEF BalanceOK
<1>. QED
  BY <1>1, <1>14, <1>15, <1>16
     DEF SlotsInv, AllocOK, SettledOK, FillOK, OverfillBounded

\* Sorted balances change sign once.
LEMMA SortMastersSlots ==
  ASSUME SlotsInv, SortMasters
  PROVE  SlotsInv'
<1>1. /\ Typed /\ SyncOK /\ BalanceOK /\ pc = "spread" /\ pc' = "move" /\ totalBalance <= 0
      /\ dstIdx' = 1 /\ srcIdx' = mastersNum
      /\ UNCHANGED <<count, bom, balance, index, first, gave, took>>
      /\ UNCHANGED <<going, avail, slotOf, idNode, faults>>
  BY DEF SlotsInv, SortMasters, alloc, fill
<1>2. Master' = Master /\ mastersNum' = mastersNum /\ expected' = expected
  BY <1>1, SameShares
<1>3. /\ mastersNum \in Nat \ {0} /\ Master = 1..mastersNum
      /\ \A i \in Master : balance[i] \in Int
      /\ SumFunction(balance) \in Int
  BY <1>1, Masters, Counts
<1>4. /\ order' \in [Master -> Master]
      /\ \A i \in Master : \E k \in Master : order'[k] = i
      /\ \A i, j \in Master : i < j => balance[order'[i]] <= balance[order'[j]]
  BY DEF SortMasters, Bijection, Surjection, Injection
<1>5. Typed'
  <2>1. dstIdx' \in Master /\ srcIdx' \in 0..mastersNum
    BY <1>1, <1>3
  <2>. QED
    BY <1>1, <1>2, <1>4, <2>1 DEF Typed
<1>6. SyncOK'
  BY <1>1, <1>2 DEF SyncOK
<1>7. BalanceOK'
  BY <1>1, <1>2 DEF BalanceOK
<1>8. SettledOK'
  <2>1. faults = 0 => SumFunction(balance) = 0
    BY <1>1, <1>3 DEF BalanceOK, totalBalance
  <2>2. \A k \in Master : ~(k < 1 \/ k > mastersNum)
    BY <1>3
  <2>3. ASSUME NEW j \in Master, NEW k \in Master, j < k, balance[order'[j]] > 0
        PROVE  balance[order'[k]] >= 0
    <3>1. balance[order'[j]] <= balance[order'[k]]
      BY <1>4, <2>3
    <3>2. balance[order'[j]] \in Int /\ balance[order'[k]] \in Int
      BY <1>3, <1>4
    <3>. QED
      BY <2>3, <3>1, <3>2
  <2>4. dstIdx' <= srcIdx' + 1
    BY <1>1, <1>3
  <2>. QED
    BY <1>1, <1>2, <1>4, <2>1, <2>2, <2>3, <2>4 DEF SettledOK
<1>. QED
  BY <1>1, <1>5, <1>6, <1>7, <1>8 DEF SlotsInv, AllocOK, FillOK, OverfillBounded

(***************************************************************************)
(* As long as no command has failed, the master at dstIdx has too few      *)
(* slots or enough, the master at srcIdx has too many or enough, and it    *)
(* lists what is to be moved.                                              *)
(***************************************************************************)
LEMMA PairSigns ==
  ASSUME Typed, BalanceOK, SettledOK, faults = 0, pc = "move", dstIdx < srcIdx
  PROVE  /\ dst \in Master /\ src \in Master
         /\ balance[dst] <= 0 /\ balance[src] >= 0
         /\ numSlots \in Nat /\ numSlots <= bom[src]
         /\ balance[dst] + numSlots <= 0 /\ balance[src] - numSlots >= 0
         /\ balance[dst] + numSlots = 0 \/ balance[src] - numSlots = 0
<1>1. /\ mastersNum \in Nat \ {0} /\ Master = 1..mastersNum /\ IsFiniteSet(Master)
      /\ \A i \in Master : balance[i] \in Int /\ bom[i] \in Nat
      /\ SumFunctionOnSet(balance, Master) = 0
  <2>1. SumFunction(balance) = 0
    BY DEF SettledOK
  <2>. QED
    BY <2>1, Masters, Counts
<1>2. /\ dstIdx \in Master /\ srcIdx \in Master /\ order \in [Master -> Master]
  <2>1. dstIdx \in Master /\ srcIdx \in 0..mastersNum /\ order \in [Master -> Master]
    BY DEF Typed
  <2>. QED
    BY <1>1, <2>1
<1>3. dst \in Master /\ src \in Master
  BY <1>2 DEF dst, src
<1>4. /\ \A i \in Master : \E k \in Master : order[k] = i
      /\ \A k \in Master : k < dstIdx \/ k > srcIdx => balance[order[k]] = 0
      /\ \A j, k \in Master :
           (dstIdx <= j /\ j < k /\ k <= srcIdx /\ balance[order[j]] > 0)
             => balance[order[k]] >= 0
  BY DEF SettledOK
<1>5. balance[dst] <= 0
  <2>. SUFFICES ASSUME balance[dst] > 0 PROVE FALSE
    BY <1>1, <1>3
  <2>1. ASSUME NEW k \in Master PROVE balance[order[k]] >= 0
    <3>1. CASE k < dstIdx \/ k > srcIdx
      BY <1>4, <3>1
    <3>2. CASE k = dstIdx
      BY <1>1, <1>3, <3>2 DEF dst
    <3>3. CASE dstIdx < k /\ k <= srcIdx
      <4>1. balance[order[dstIdx]] > 0
        BY DEF dst
      <4>2. dstIdx <= dstIdx
        BY <1>1, <1>2
      <4>. QED
        BY <1>2, <1>4, <3>3, <4>1, <4>2
    <3>4. k \in Nat /\ dstIdx \in Nat /\ srcIdx \in Nat
      BY <1>1, <1>2
    <3>. QED
      BY <3>1, <3>2, <3>3, <3>4
  <2>2. \A i \in Master : balance[i] >= 0
    BY <1>4, <2>1
  <2>3. \A i \in Master : balance[i] = 0
    BY <1>1, <2>2, SumZero
  <2>. QED
    BY <1>3, <2>3
<1>6. balance[src] >= 0
  <2>. SUFFICES ASSUME balance[src] < 0 PROVE FALSE
    BY <1>1, <1>3
  <2>1. ASSUME NEW k \in Master PROVE balance[order[k]] <= 0
    <3>1. CASE k < dstIdx \/ k > srcIdx
      BY <1>4, <3>1
    <3>2. CASE k = srcIdx
      BY <1>1, <1>3, <3>2 DEF src
    <3>3. CASE dstIdx <= k /\ k < srcIdx
      <4>1. order[k] \in Master /\ balance[order[k]] \in Int
        BY <1>1, <1>2
      <4>2. balance[order[k]] > 0 => balance[order[srcIdx]] >= 0
        <5>1. srcIdx <= srcIdx
          BY <1>1, <1>2
        <5>. QED
          BY <1>2, <1>4, <3>3, <5>1
      <4>. QED
        BY <1>1, <1>3, <4>1, <4>2 DEF src
    <3>4. k \in Nat /\ dstIdx \in Nat /\ srcIdx \in Nat
      BY <1>1, <1>2
    <3>. QED
      BY <3>1, <3>2, <3>3, <3>4
  <2>2. \A i \in Master : balance[i] <= 0
    BY <1>4, <2>1
  <2>3. \A i \in Master : balance[i] = 0
    BY <1>1, <2>2, SumZero
  <2>. QED
    BY <1>3, <2>3
<1>7. balance[dst] \in Int /\ balance[src] \in Int /\ bom[src] \in Nat
  BY <1>1, <1>3
<1>8. balance[src] <= bom[src]
  BY <1>3 DEF BalanceOK
<1>9. numSlots = IF -balance[dst] < balance[src] THEN -balance[dst] ELSE balance[src]
  BY <1>5, <1>6, <1>7 DEF numSlots, Abs
<1>. QED
  BY <1>3, <1>5, <1>6, <1>7, <1>8, <1>9

\* A move, complete or not, of slots the source still lists.
LEMMA MoveSlotsSlots ==
  ASSUME SlotsInv, GInv, MoveSlots
  PROVE  SlotsInv'
<1>1. /\ Typed /\ SyncOK /\ BalanceOK /\ SettledOK /\ pc = "move" /\ dstIdx < srcIdx
      /\ reshardTable <= bom[src] /\ going = 0
      /\ UNCHANGED <<order, index, first, going, avail, slotOf, idNode>>
      /\ \A i, j \in Master : order[i] = order[j] => i = j
  <2>1. Typed /\ SyncOK /\ pc = "move"
    BY DEF SlotsInv, MoveSlots
  <2>2. going = 0
    BY <2>1 DEF SyncOK, Typed
  <2>. QED
    BY <2>1, <2>2 DEF SlotsInv, GInv, PairOK, MoveSlots, alloc, fill
<1>2. PICK moved \in 0..reshardTable :
        /\ Fault(moved < reshardTable)
        /\ count' = [count EXCEPT ![src] = @ - moved, ![dst] = @ + moved]
        /\ bom' = [bom EXCEPT ![src] = @ - moved]
        /\ gave' = IF moved = 0 THEN gave ELSE gave \cup {src}
        /\ took' = IF moved = 0 THEN took ELSE took \cup {dst}
        /\ IF moved < reshardTable
             THEN pc' = "sync" /\ UNCHANGED <<balance, dstIdx, srcIdx>>
             ELSE /\ balance' = [balance EXCEPT ![dst] = @ + numSlots, ![src] = @ - numSlots]
                  /\ NextPair
                  /\ UNCHANGED pc
  BY DEF MoveSlots
<1>3. /\ mastersNum \in Nat \ {0} /\ HashSlots \in Nat \ {0} /\ Master = 1..mastersNum
      /\ IsFiniteSet(Master) /\ MaxFaults \in Nat
  BY <1>1, Masters, MaxFaultsAssumption
<1>4. /\ dstIdx \in Master /\ srcIdx \in Master /\ order \in [Master -> Master]
      /\ count \in [Master -> 0..HashSlots] /\ bom \in [Master -> 0..HashSlots]
      /\ balance \in [Master -> Int] /\ faults \in 0..MaxFaults
      /\ gave \in SUBSET Master /\ took \in SUBSET Master
  <2>1. /\ dstIdx \in Master /\ srcIdx \in 0..mastersNum /\ order \in [Master -> Master]
        /\ count \in [Master -> 0..HashSlots] /\ bom \in [Master -> 0..HashSlots]
        /\ balance \in [Master -> Int] /\ faults \in 0..MaxFaults
        /\ gave \in SUBSET Master /\ took \in SUBSET Master
    BY <1>1 DEF Typed
  <2>2. dstIdx \in Nat /\ srcIdx \in 1..mastersNum
    BY <1>1, <1>3, <2>1
  <2>. QED
    BY <1>3, <2>1, <2>2
<1>5. dst \in Master /\ src \in Master /\ dst # src
  <2>1. dstIdx # srcIdx
    BY <1>1, <1>3, <1>4
  <2>. QED
    BY <1>1, <1>4, <2>1 DEF dst, src
<1>6. /\ \A i \in Master : /\ count[i] \in Nat /\ bom[i] \in Nat /\ balance[i] \in Int
                           /\ bom[i] <= count[i]
      /\ SumFunction(count) = SumFunctionOnSet(count, Master)
      /\ SumFunction(balance) = SumFunctionOnSet(balance, Master)
      /\ SumFunction(count) \in Nat /\ SumFunction(count) <= HashSlots
  <2>1. \A i \in Master : bom[i] <= count[i]
    BY <1>1 DEF BalanceOK
  <2>2. SumFunction(count) + going <= HashSlots
    BY <1>1 DEF Typed
  <2>3. /\ SumFunction(count) = SumFunctionOnSet(count, Master)
        /\ SumFunction(balance) = SumFunctionOnSet(balance, Master)
        /\ SumFunction(count) \in Nat
        /\ \A i \in Master : count[i] \in Nat /\ bom[i] \in Nat /\ balance[i] \in Int
    BY <1>1, Counts
  <2>. QED
    BY <1>1, <1>3, <2>1, <2>2, <2>3
<1>7. /\ numSlots \in Nat /\ reshardTable \in Nat
      /\ moved \in Nat /\ moved <= reshardTable /\ moved <= bom[src]
  <2>1. balance[dst] \in Int /\ balance[src] \in Int /\ bom[src] \in Nat
    BY <1>5, <1>6
  <2>2. numSlots \in Nat
    BY <2>1 DEF numSlots, Abs
  <2>3. reshardTable \in Nat
    BY <2>2 DEF reshardTable
  <2>. QED
    BY <1>1, <1>2, <2>1, <2>2, <2>3
<1>8. /\ DOMAIN count' = Master
      /\ count'[src] = count[src] - moved /\ count'[dst] = count[dst] + moved
      /\ \A i \in Master \ {src, dst} : count'[i] = count[i]
  BY <1>2, <1>4, <1>5
<1>9. /\ DOMAIN bom' = Master
      /\ bom'[src] = bom[src] - moved
      /\ \A i \in Master \ {src} : bom'[i] = bom[i]
  BY <1>2, <1>4, <1>5
<1>10. Master' = Master /\ mastersNum' = mastersNum /\ expected' = expected
  <2>1. DOMAIN count' = DOMAIN count
    BY <1>4, <1>8
  <2>. QED
    BY <2>1, SameShares
<1>11. \A i \in Master : count'[i] \in Nat /\ bom'[i] \in Nat /\ bom'[i] <= count'[i]
  <2>1. CASE moved = 0
    BY <1>5, <1>6, <1>8, <1>9, <2>1
  <2>. QED
    BY <1>5, <1>6, <1>7, <1>8, <1>9
<1>12. SumFunction(count') = SumFunction(count)
  <2>. DEFINE c == count'
  <2>1. /\ c[src] = count[src] - moved /\ c[dst] = count[dst] + moved
        /\ \A i \in Master \ {src, dst} : c[i] = count[i]
    BY <1>8
  <2>2. SumFunction(c) = SumFunctionOnSet(c, Master)
    BY <1>8 DEF SumFunction
  <2>3. moved \in Int /\ \A i \in Master : count[i] \in Int
    BY <1>6, <1>7
  <2>. HIDE DEF c
  <2>4. /\ \A z \in Master : count[z] \in Int /\ c[z] \in Int
        /\ c[src] + c[dst] = count[src] + count[dst]
    BY <1>5, <2>1, <2>3
  <2>5. SumFunctionOnSet(c, Master) = SumFunctionOnSet(count, Master)
    <3>1. IsFiniteSet(Master)
      BY <1>3
    <3>2. \A z \in Master \ {src, dst} : c[z] = count[z]
      BY <2>1
    <3>. QED
      BY <1>5, <2>4, <3>1, <3>2, SumMove
  <2>. QED
    BY <1>6, <2>2, <2>5 DEF c
<1>13. count' \in [Master -> 0..HashSlots] /\ bom' \in [Master -> 0..HashSlots]
  <2>. DEFINE c == count'
  <2>1. \A i \in Master : c[i] \in Nat
    BY <1>11
  <2>2. SumFunction(c) = SumFunctionOnSet(c, Master)
    BY <1>8 DEF SumFunction
  <2>. HIDE DEF c
  <2>3. \A i \in Master : c[i] <= SumFunctionOnSet(c, Master)
    BY <1>3, <2>1, SumNat
  <2>4. SumFunctionOnSet(c, Master) \in Nat /\ SumFunctionOnSet(c, Master) <= HashSlots
    <3>1. SumFunctionOnSet(c, Master) = SumFunction(count)
      BY <1>12, <2>2 DEF c
    <3>. QED
      BY <1>6, <3>1
  <2>5. \A i \in Master : count'[i] \in 0..HashSlots
    BY <1>3, <2>1, <2>3, <2>4 DEF c
  <2>6. \A i \in Master : bom'[i] \in 0..HashSlots
    BY <1>3, <1>11, <2>5
  <2>7. count' = [i \in Master |-> count'[i]] /\ bom' = [i \in Master |-> bom'[i]]
    BY <1>2, <1>4, <1>8, <1>9
  <2>. QED
    BY <2>5, <2>6, <2>7
<1>14. /\ faults' \in 0..MaxFaults /\ pc' \in {"sync", "move"}
       /\ pc' = "sync" => faults' # 0 /\ UNCHANGED <<balance, dstIdx, srcIdx>>
       /\ pc' = "move" => /\ moved = reshardTable /\ faults' = faults /\ NextPair
                          /\ balance' = [balance EXCEPT ![dst] = @ + numSlots,
                                                        ![src] = @ - numSlots]
  <2>1. CASE moved < reshardTable
    BY <1>2, <1>3, <1>4, <2>1 DEF Fault
  <2>2. CASE ~(moved < reshardTable)
    <3>1. moved = reshardTable
      BY <1>7, <2>2
    <3>. QED
      BY <1>1, <1>2, <1>3, <1>4, <2>2, <3>1 DEF Fault
  <2>. QED
    BY <2>1, <2>2
<1>15. /\ gave' \in SUBSET Master /\ took' \in SUBSET Master
  BY <1>2, <1>4, <1>5
<1>16. ASSUME pc' = "move"
       PROVE  /\ balance' \in [Master -> Int]
              /\ balance'[dst] = balance[dst] + numSlots
              /\ balance'[src] = balance[src] - numSlots
              /\ \A i \in Master \ {src, dst} : balance'[i] = balance[i]
              /\ dstIdx' \in Master /\ srcIdx' \in 0..mastersNum /\ dstIdx' <= srcIdx' + 1
              /\ dstIdx' \in {dstIdx, dstIdx + 1} /\ srcIdx' \in {srcIdx, srcIdx - 1}
              /\ dstIdx' = dstIdx + 1 => balance'[dst] = 0
              /\ srcIdx' = srcIdx - 1 => balance'[src] = 0
  <2>1. balance' = [balance EXCEPT ![dst] = @ + numSlots, ![src] = @ - numSlots] /\ NextPair
    BY <1>14, <1>16
  <2>2. /\ balance'[dst] = balance[dst] + numSlots
        /\ balance'[src] = balance[src] - numSlots
        /\ \A i \in Master \ {src, dst} : balance'[i] = balance[i]
    BY <1>4, <1>5, <2>1
  <2>3. balance' \in [Master -> Int]
    BY <1>4, <1>5, <1>7, <2>1
  <2>4. /\ dstIdx' = IF balance'[dst] = 0 THEN dstIdx + 1 ELSE dstIdx
        /\ srcIdx' = IF balance'[src] = 0 THEN srcIdx - 1 ELSE srcIdx
    BY <2>1 DEF NextPair
  <2>5. dstIdx \in Nat /\ srcIdx \in Nat /\ 1 <= dstIdx /\ srcIdx <= mastersNum
    BY <1>3, <1>4
  <2>. QED
    BY <1>1, <1>3, <2>2, <2>3, <2>4, <2>5
<1>17. Typed'
  <2>1. balance' \in [Master -> Int] /\ dstIdx' \in Master /\ srcIdx' \in 0..mastersNum
    <3>1. srcIdx \in 0..mastersNum
      BY <1>3, <1>4
    <3>. QED
      BY <1>4, <1>14, <1>16, <3>1
  <2>2. SumFunction(count)' + going' <= HashSlots
    BY <1>1, <1>3, <1>6, <1>12
  <2>3. pc' \in {"sync", "alloc", "spread", "move", "fill"}
    BY <1>14
  <2>. QED
    BY <1>1, <1>10, <1>13, <1>14, <1>15, <2>1, <2>2, <2>3 DEF Typed
<1>18. SyncOK'
  BY <1>1, <1>14 DEF SyncOK
<1>19. ASSUME pc' = "move", faults' = 0
       PROVE  /\ balance[dst] <= 0 /\ balance[src] >= 0 /\ moved = numSlots
              /\ balance[dst] + numSlots <= 0 /\ balance[src] - numSlots >= 0
              /\ faults = 0
  <2>1. faults = 0 /\ moved = reshardTable
    BY <1>14, <1>19
  <2>2. /\ balance[dst] <= 0 /\ balance[src] >= 0 /\ numSlots <= bom[src]
        /\ balance[dst] + numSlots <= 0 /\ balance[src] - numSlots >= 0
    BY <1>1, <2>1, PairSigns
  <2>3. reshardTable = numSlots
    BY <1>5, <1>6, <1>7, <2>2 DEF reshardTable
  <2>. QED
    BY <2>1, <2>2, <2>3
<1>20. ASSUME pc' = "move", faults' = 0 PROVE SumFunction(balance') = SumFunction(balance)
  <2>. DEFINE b == balance'
  <2>1. /\ b[src] = balance[src] - numSlots /\ b[dst] = balance[dst] + numSlots
        /\ \A i \in Master \ {src, dst} : b[i] = balance[i]
    BY <1>16, <1>20
  <2>2. SumFunction(b) = SumFunctionOnSet(b, Master)
    BY <1>16, <1>20 DEF SumFunction
  <2>3. numSlots \in Int /\ \A i \in Master : balance[i] \in Int
    BY <1>6, <1>7
  <2>. HIDE DEF b
  <2>4. /\ \A z \in Master : balance[z] \in Int /\ b[z] \in Int
        /\ b[src] + b[dst] = balance[src] + balance[dst]
    BY <1>5, <2>1, <2>3
  <2>5. SumFunctionOnSet(b, Master) = SumFunctionOnSet(balance, Master)
    <3>1. IsFiniteSet(Master)
      BY <1>3
    <3>2. \A z \in Master \ {src, dst} : b[z] = balance[z]
      BY <2>1
    <3>. QED
      BY <1>5, <2>4, <3>1, <3>2, SumMove
  <2>. QED
    BY <1>6, <2>2, <2>5 DEF b
<1>21. BalanceOK'
  <2>. SUFFICES ASSUME pc' = "move", faults' = 0
                PROVE  /\ SumFunction(count') = HashSlots /\ SumFunction(balance') >= 0
                       /\ \A i \in Master : balance'[i] <= bom'[i]
                                            /\ balance'[i] <= count'[i] - expected
    BY <1>10, <1>11, <1>14 DEF BalanceOK
  <2>1. /\ SumFunction(count) = HashSlots /\ SumFunction(balance) >= 0
        /\ \A i \in Master : balance[i] <= bom[i] /\ balance[i] <= count[i] - expected
    BY <1>1, <1>19 DEF BalanceOK
  <2>2. expected \in Int
    BY <1>1, Shares
  <2>3. ASSUME NEW i \in Master
        PROVE  balance'[i] <= bom'[i] /\ balance'[i] <= count'[i] - expected
    <3>1. CASE i = src
      <4>1. /\ balance'[src] = balance[src] - numSlots /\ bom'[src] = bom[src] - numSlots
            /\ count'[src] = count[src] - numSlots
        BY <1>8, <1>9, <1>16, <1>19
      <4>. QED
        BY <1>5, <1>6, <1>7, <2>1, <2>2, <3>1, <4>1
    <3>2. CASE i = dst
      <4>1. /\ balance'[dst] = balance[dst] + numSlots /\ bom'[dst] = bom[dst]
            /\ count'[dst] = count[dst] + numSlots /\ balance[dst] + numSlots <= 0
        BY <1>5, <1>8, <1>9, <1>16, <1>19
      <4>. QED
        BY <1>5, <1>6, <1>7, <2>1, <2>2, <3>2, <4>1
    <3>3. CASE i # src /\ i # dst
      BY <1>8, <1>9, <1>16, <2>1, <3>3
    <3>. QED
      BY <3>1, <3>2, <3>3
  <2>. QED
    BY <1>12, <1>20, <2>1, <2>3
<1>22. SettledOK'
  <2>. SUFFICES ASSUME pc' = "move" PROVE SettledOK'
    BY DEF SettledOK
  <2>1. \A i \in Master : \E k \in Master : order[k] = i
    BY <1>1 DEF SettledOK
  <2>2. /\ dstIdx' <= srcIdx' + 1
        /\ dstIdx' \in {dstIdx, dstIdx + 1} /\ srcIdx' \in {srcIdx, srcIdx - 1}
        /\ dstIdx' = dstIdx + 1 => balance'[dst] = 0
        /\ srcIdx' = srcIdx - 1 => balance'[src] = 0
        /\ \A i \in Master \ {src, dst} : balance'[i] = balance[i]
    BY <1>16
  <2>3. \A k \in Master : /\ k # dstIdx => order[k] # dst
                          /\ k # srcIdx => order[k] # src
                          /\ order[k] \in Master
    BY <1>1, <1>4 DEF dst, src
  <2>4. ASSUME faults' = 0
        PROVE  /\ SumFunction(balance') = 0
               /\ \A k \in Master : k < dstIdx' \/ k > srcIdx' => balance'[order[k]] = 0
               /\ \A j, k \in Master :
                    (dstIdx' <= j /\ j < k /\ k <= srcIdx' /\ balance'[order[j]] > 0)
                      => balance'[order[k]] >= 0
    <3>1. /\ SumFunction(balance) = 0
          /\ \A k \in Master : k < dstIdx \/ k > srcIdx => balance[order[k]] = 0
          /\ \A j, k \in Master :
               (dstIdx <= j /\ j < k /\ k <= srcIdx /\ balance[order[j]] > 0)
                 => balance[order[k]] >= 0
      BY <1>1, <1>19, <2>4 DEF SettledOK
    <3>2. SumFunction(balance') = 0
      BY <1>20, <2>4, <3>1
    <3>3. ASSUME NEW k \in Master, k < dstIdx' \/ k > srcIdx'
          PROVE  balance'[order[k]] = 0
      <4>0. k \in Nat /\ dstIdx \in Nat /\ srcIdx \in Nat /\ dstIdx < srcIdx
        BY <1>1, <1>3, <1>4
      <4>1. CASE k < dstIdx \/ k > srcIdx
        <5>1. k # dstIdx /\ k # srcIdx
          BY <4>0, <4>1
        <5>. QED
          BY <2>2, <2>3, <3>1, <4>1, <5>1
      <4>2. CASE k = dstIdx /\ dstIdx' = dstIdx + 1
        BY <2>2, <4>2 DEF dst
      <4>3. CASE k = srcIdx /\ srcIdx' = srcIdx - 1
        BY <2>2, <4>3 DEF src
      <4>4. \/ k < dstIdx \/ k > srcIdx
            \/ k = dstIdx /\ dstIdx' = dstIdx + 1
            \/ k = srcIdx /\ srcIdx' = srcIdx - 1
        <5>1. dstIdx' \in {dstIdx, dstIdx + 1} /\ srcIdx' \in {srcIdx, srcIdx - 1}
          BY <2>2
        <5>. QED
          BY <3>3, <4>0, <5>1
      <4>. QED
        BY <4>1, <4>2, <4>3, <4>4
    <3>4. ASSUME NEW j \in Master, NEW k \in Master,
                 dstIdx' <= j, j < k, k <= srcIdx', balance'[order[j]] > 0
          PROVE  balance'[order[k]] >= 0
      <4>1. /\ dstIdx \in Nat /\ srcIdx \in Nat /\ j \in Nat /\ k \in Nat
            /\ dstIdx <= j /\ k <= srcIdx
        <5>1. dstIdx \in Nat /\ srcIdx \in Nat /\ j \in Nat /\ k \in Nat
          BY <1>3, <1>4
        <5>2. dstIdx' \in {dstIdx, dstIdx + 1} /\ srcIdx' \in {srcIdx, srcIdx - 1}
          BY <2>2
        <5>. QED
          BY <3>4, <5>1, <5>2
      <4>2. balance'[dst] <= 0 /\ balance'[src] >= 0
        BY <1>16, <1>19, <2>4
      <4>3. j # dstIdx
        <5>. SUFFICES ASSUME j = dstIdx PROVE FALSE
          OBVIOUS
        <5>1. balance'[dst] > 0 /\ balance'[dst] \in Int
          BY <1>5, <1>16, <3>4 DEF dst
        <5>. QED
          BY <4>2, <5>1
      <4>4. CASE k = srcIdx
        BY <4>2, <4>4 DEF src
      <4>5. CASE k # srcIdx
        <5>1. j # srcIdx /\ k # dstIdx
          BY <3>4, <4>1
        <5>2. balance'[order[j]] = balance[order[j]] /\ balance'[order[k]] = balance[order[k]]
          BY <2>2, <2>3, <4>3, <4>5, <5>1
        <5>. QED
          BY <3>1, <3>4, <4>1, <5>2
      <4>. QED
        BY <4>4, <4>5
    <3>. QED
      BY <3>2, <3>3, <3>4
  <2>. QED
    BY <1>1, <1>10, <2>1, <2>2, <2>4 DEF SettledOK
<1>. QED
  BY <1>14, <1>17, <1>18, <1>21, <1>22
     DEF SlotsInv, AllocOK, BalanceOK, SettledOK, FillOK, OverfillBounded

-----------------------------------------------------------------------------
(***************************************************************************)
(* What leaves a master, what is planned for it, and their sums.           *)
(***************************************************************************)
LEMMA Plans ==
  ASSUME Typed
  PROVE  /\ \A i \in Master :
              /\ retrieveSlotToMigrateFrom(i) \in Nat
              /\ retrieveSlotToMigrateFrom(i) <= count[i]
              /\ count[i] - retrieveSlotToMigrateFrom(i) <= nbSlotByNode
              /\ count[i] < nbSlotByNode => retrieveSlotToMigrateFrom(i) = 0
              /\ count[i] >= nbSlotByNode =>
                   retrieveSlotToMigrateFrom(i) = count[i] - nbSlotByNode
              /\ Planned(i) = slotOf[i] - retrieveSlotToMigrateFrom(i)
              /\ Planned(i) \in Int
<1>. SUFFICES ASSUME NEW i \in Master
              PROVE  /\ retrieveSlotToMigrateFrom(i) \in Nat
                     /\ retrieveSlotToMigrateFrom(i) <= count[i]
                     /\ count[i] - retrieveSlotToMigrateFrom(i) <= nbSlotByNode
                     /\ count[i] < nbSlotByNode => retrieveSlotToMigrateFrom(i) = 0
                     /\ count[i] >= nbSlotByNode =>
                          retrieveSlotToMigrateFrom(i) = count[i] - nbSlotByNode
                     /\ Planned(i) = slotOf[i] - retrieveSlotToMigrateFrom(i)
                     /\ Planned(i) \in Int
  OBVIOUS
<1>1. nbSlotByNode \in Nat
  <2>1. nbSlotByNode \in 1..HashSlots /\ HashSlots \in Nat
    BY Shares, Masters
  <2>. QED
    BY <2>1
<1>2. count[i] \in Nat /\ slotOf[i] \in Nat
  BY Counts
<1>. QED
  BY <1>1, <1>2 DEF Planned, retrieveSlotToMigrateFrom

\* The slots of the masters that go and those beyond a share are to be shared out.
LEMMA buildSlotsByNodeSlots ==
  ASSUME SlotsInv, buildSlotsByNode
  PROVE  SlotsInv'
<1>. DEFINE r == [i \in Master |-> retrieveSlotToMigrateFrom(i)]
            p == [i \in Master |-> count[i] - retrieveSlotToMigrateFrom(i)]
<1>1. /\ Typed /\ SyncOK /\ pc = "sync" /\ pc' = "fill" /\ going > 0
      /\ avail' = going + retrieveLostSlots + SumFunction(r)
      /\ slotOf' = count /\ idNode' = 1
      /\ UNCHANGED <<count, bom, balance, order, dstIdx, srcIdx, gave, took>>
      /\ UNCHANGED <<index, first, going, faults>>
  BY DEF SlotsInv, buildSlotsByNode, alloc, rebalance, pair
<1>2. Master' = Master /\ mastersNum' = mastersNum /\ nbSlotByNode' = nbSlotByNode
  BY <1>1, SameShares
<1>3. /\ IsFiniteSet(Master) /\ HashSlots \in Nat \ {0}
      /\ mastersNum \in Nat \ {0} /\ Master = 1..mastersNum
  BY <1>1, Masters
<1>4. /\ \A i \in Master : count[i] \in Nat
      /\ SumFunction(count) = SumFunctionOnSet(count, Master)
      /\ SumFunction(count) \in Nat /\ going \in Nat
      /\ SumFunction(count) + going <= HashSlots
  <2>1. going \in Nat /\ SumFunction(count) + going <= HashSlots
    BY <1>1 DEF Typed
  <2>. QED
    BY <1>1, <2>1, Counts
<1>5. \A i \in Master : /\ r[i] \in Nat /\ r[i] \in Int /\ p[i] \in Nat /\ p[i] \in Int
                        /\ count[i] = r[i] + p[i] /\ p[i] <= nbSlotByNode
                        /\ p[i] = count[i] - retrieveSlotToMigrateFrom(i)
  <2>1. \A i \in Master : /\ retrieveSlotToMigrateFrom(i) \in Nat
                          /\ retrieveSlotToMigrateFrom(i) <= count[i]
                          /\ count[i] - retrieveSlotToMigrateFrom(i) <= nbSlotByNode
    BY <1>1, Plans
  <2>. QED
    BY <1>4, <2>1
<1>6. SumFunction(r) = SumFunctionOnSet(r, Master) /\ SumFunction(p) = SumFunctionOnSet(p, Master)
  BY DEF SumFunction
<1>7. [i \in Master |-> Planned(i)]' = p
  <2>1. \A i \in Master : Planned(i)' = count[i] - retrieveSlotToMigrateFrom(i)
    BY <1>1, <1>2 DEF Planned, retrieveSlotToMigrateFrom
  <2>. QED
    BY <1>2, <2>1
<1>8. \A i \in Master : Planned(i)' = p[i]
  BY <1>1, <1>2 DEF Planned, retrieveSlotToMigrateFrom
<1>. HIDE DEF r, p
<1>9. /\ SumFunctionOnSet(r, Master) \in Nat /\ SumFunctionOnSet(p, Master) \in Nat
      /\ SumFunctionOnSet(count, Master)
           = SumFunctionOnSet(r, Master) + SumFunctionOnSet(p, Master)
  <2>1. SumFunctionOnSet(r, Master) \in Nat
    BY <1>3, <1>5, SumNat
  <2>2. SumFunctionOnSet(p, Master) \in Nat
    BY <1>3, <1>5, SumNat
  <2>3. \A i \in Master : r[i] \in Int /\ p[i] \in Int /\ count[i] = r[i] + p[i]
    BY <1>5
  <2>4. SumFunctionOnSet(count, Master)
          = SumFunctionOnSet(r, Master) + SumFunctionOnSet(p, Master)
    BY <1>3, <2>3, SumAdd
  <2>. QED
    BY <2>1, <2>2, <2>4
<1>10. SumFunction(p) + avail' = HashSlots /\ avail' \in 0..HashSlots
  <2>1. avail' = HashSlots - SumFunction(count) + SumFunction(r)
    BY <1>1, <1>3, <1>4, <1>6, <1>9 DEF retrieveLostSlots
  <2>2. /\ SumFunction(r) \in Nat /\ SumFunction(p) \in Nat
        /\ SumFunction(count) = SumFunction(r) + SumFunction(p)
    BY <1>4, <1>6, <1>9
  <2>3. HashSlots \in Nat /\ SumFunction(count) \in Nat /\ SumFunction(count) <= HashSlots
    BY <1>3, <1>4
  <2>. QED
    BY <2>1, <2>2, <2>3
<1>11. Typed'
  <2>1. slotOf' \in [Master -> 0..HashSlots]
    BY <1>1 DEF Typed
  <2>2. idNode' \in Master
    BY <1>1, <1>3
  <2>. QED
    BY <1>1, <1>2, <1>10, <2>1, <2>2 DEF Typed
<1>12. SyncOK'
  BY <1>1, <1>2 DEF SyncOK
<1>13. FillOK'
  <2>1. \A i \in Master : /\ slotOf'[i] >= count[i]
                          /\ i > idNode' => slotOf'[i] = count[i]
                          /\ ~(i < idNode')
    BY <1>1, <1>3, <1>4
  <2>2. SumFunction([i \in Master |-> Planned(i)])' + avail' = HashSlots
    BY <1>7, <1>10
  <2>. QED
    BY <1>1, <1>2, <2>1, <2>2 DEF FillOK
<1>14. OverfillBounded'
  <2>1. nbSlotByNode \in Int
    BY <1>1, <1>3, Shares
  <2>2. mastersNum \in Master
    BY <1>3
  <2>3. \A i \in Master : p[i] <= nbSlotByNode /\ p[i] <= nbSlotByNode + 1
    BY <1>5, <2>1
  <2>4. Planned(mastersNum)' = p[mastersNum]
    BY <1>1, <1>2, <2>2 DEF Planned, retrieveSlotToMigrateFrom, p
  <2>. QED
    BY <1>2, <1>8, <2>2, <2>3, <2>4 DEF OverfillBounded
<1>. QED
  BY <1>1, <1>11, <1>12, <1>13, <1>14 DEF SlotsInv, AllocOK, BalanceOK, SettledOK

(***************************************************************************)
(* When the slots reach the last master, all the others have their share:  *)
(* what is left, one slot or more, is less than the last one's.            *)
(***************************************************************************)
LEMMA RoomAtTheLast ==
  ASSUME Typed, FillOK, pc = "fill", avail > 0,
         \A i \in Master : i # mastersNum => slotOf[i] >= nbSlotByNode
  PROVE  Planned(mastersNum) <= nbSlotByNode - 1
<1>. DEFINE n == mastersNum
            q == nbSlotByNode
            p == [i \in Master |-> Planned(i)]
            g == [i \in Master |-> IF i = n THEN p[n] ELSE q]
<1>1. /\ n \in Nat \ {0} /\ n \in Master /\ HashSlots \in Nat /\ IsFiniteSet(Master)
      /\ Cardinality(Master) = n
  BY Masters
<1>2. q \in Int /\ HashSlots <= n * q
  BY Shares
<1>3. SumFunction(p) + avail = HashSlots /\ avail \in Nat
  <2>1. SumFunction(p) + avail = HashSlots
    BY DEF FillOK
  <2>2. avail \in 0..HashSlots
    BY DEF Typed
  <2>. QED
    BY <1>1, <2>1, <2>2
<1>4. \A i \in Master : p[i] \in Int /\ (i # n => p[i] >= q)
  <2>. SUFFICES ASSUME NEW i \in Master PROVE Planned(i) \in Int /\ (i # n => Planned(i) >= q)
    OBVIOUS
  <2>1. /\ retrieveSlotToMigrateFrom(i) \in Nat
        /\ count[i] < q => retrieveSlotToMigrateFrom(i) = 0
        /\ count[i] >= q => retrieveSlotToMigrateFrom(i) = count[i] - q
        /\ Planned(i) = slotOf[i] - retrieveSlotToMigrateFrom(i)
        /\ Planned(i) \in Int
    BY Plans
  <2>2. slotOf[i] >= count[i] /\ count[i] \in Nat /\ slotOf[i] \in Nat
    BY Counts DEF FillOK
  <2>3. i # n => slotOf[i] >= q
    OBVIOUS
  <2>. HIDE DEF q, n
  <2>. QED
    BY <1>2, <2>1, <2>2, <2>3
<1>5. SumFunction(p) = SumFunctionOnSet(p, Master) /\ Planned(n) = p[n]
  BY <1>1 DEF SumFunction
<1>. HIDE DEF n, q, p
<1>6. \A i \in Master : g[i] \in Int /\ p[i] \in Int /\ g[i] <= p[i]
  BY <1>1, <1>2, <1>4
<1>7. g[n] = p[n] /\ \A i \in Master \ {n} : g[i] = q
  BY <1>1
<1>. HIDE DEF g
<1>8. SumFunctionOnSet(g, Master) <= SumFunctionOnSet(p, Master)
  BY <1>1, <1>6, SumMonotonic
<1>9. SumFunctionOnSet(g, Master) = p[n] + SumFunctionOnSet(g, Master \ {n})
  <2>1. \A i \in Master : g[i] \in Int
    BY <1>6
  <2>2. SumFunctionOnSet(g, Master) = g[n] + SumFunctionOnSet(g, Master \ {n})
    <3>1. IsFiniteSet(Master) /\ n \in Master
      BY <1>1
    <3>. QED
      BY <2>1, <3>1, SumTakeOut
  <2>. QED
    BY <1>7, <2>2
<1>10. SumFunctionOnSet(g, Master \ {n}) = q * (n - 1)
  <2>1. IsFiniteSet(Master \ {n}) /\ Cardinality(Master \ {n}) = n - 1
    BY <1>1, FS_RemoveElement
  <2>2. SumFunctionOnSet(g, Master \ {n}) = q * Cardinality(Master \ {n})
    BY <1>2, <1>7, <2>1, SumConstant
  <2>. QED
    BY <2>1, <2>2
<1>11. q * (n - 1) = n * q - q /\ n * q \in Int
  BY <1>1, <1>2
<1>12. p[n] \in Int /\ SumFunctionOnSet(p, Master) \in Int
  <2>1. \A i \in Master : p[i] \in Int
    BY <1>4
  <2>. QED
    BY <1>1, <2>1, SumType
<1>13. p[n] <= q - 1
  BY <1>1, <1>2, <1>3, <1>5, <1>8, <1>9, <1>10, <1>11, <1>12
<1>. QED
  BY <1>5, <1>13 DEF n, q

\* One slot, to the master that is filled or to the next one.
LEMMA FillSlots ==
  ASSUME SlotsInv, buildSlotByNodeFromAvailableSlots
  PROVE  SlotsInv'
<1>. DEFINE n == mastersNum
            q == nbSlotByNode
            j == idNode'
            r(i) == retrieveSlotToMigrateFrom(i)
            p == [i \in Master |-> Planned(i)]
            s == [i \in Master |-> slotOf'[i] - r(i)]
<1>1. /\ Typed /\ SyncOK /\ FillOK /\ OverfillBounded /\ pc = "fill" /\ pc' = "fill"
      /\ avail > 0 /\ avail' = avail - 1 /\ going > 0
      /\ idNode' = IF slotOf[idNode] < q \/ idNode = n THEN idNode ELSE idNode + 1
      /\ slotOf' = [slotOf EXCEPT ![idNode'] = @ + 1]
      /\ UNCHANGED <<count, bom, balance, order, dstIdx, srcIdx, gave, took>>
      /\ UNCHANGED <<index, first, going, faults>>
  BY DEF SlotsInv, buildSlotByNodeFromAvailableSlots, FillOK, alloc, rebalance, pair
<1>2. Master' = Master /\ mastersNum' = mastersNum /\ nbSlotByNode' = nbSlotByNode
  BY <1>1, SameShares
<1>3. /\ IsFiniteSet(Master) /\ HashSlots \in Nat \ {0} /\ n \in Nat \ {0} /\ Master = 1..n
      /\ n \in Master
  BY <1>1, Masters
<1>4. /\ slotOf \in [Master -> 0..HashSlots] /\ idNode \in Master /\ avail \in 0..HashSlots
      /\ going \in Nat /\ SumFunction(count) + going <= HashSlots
  BY <1>1 DEF Typed
<1>5. q \in Nat /\ q <= HashSlots
  <2>1. q \in 1..HashSlots
    BY <1>1, Shares
  <2>. QED
    BY <1>3, <2>1
<1>6. /\ \A i \in Master : count[i] \in Nat /\ slotOf[i] \in Nat /\ count[i] <= SumFunction(count)
      /\ SumFunction(count) \in Nat
  BY <1>1, Counts
<1>7. \A i \in Master : count[i] + 1 <= HashSlots
  BY <1>1, <1>3, <1>4, <1>6
<1>8. \A i \in Master : /\ r(i) \in Nat /\ count[i] - r(i) <= q
                        /\ count[i] < q => r(i) = 0
                        /\ count[i] >= q => r(i) = count[i] - q
                        /\ Planned(i) = slotOf[i] - r(i)
                        /\ Planned(i) \in Int
  BY <1>1, Plans
<1>9. /\ \A i \in Master : /\ slotOf[i] >= count[i]
                           /\ i > idNode => slotOf[i] = count[i]
                           /\ i < idNode => slotOf[i] >= q
      /\ SumFunction(p) + avail = HashSlots
      /\ \A i \in Master : Planned(i) <= q + 1
      /\ Planned(n) <= q
  BY <1>1 DEF FillOK, OverfillBounded
<1>10. \A i \in Master : r(i)' = r(i) /\ Planned(i)' = slotOf'[i] - r(i)
  BY <1>1, <1>2 DEF Planned, retrieveSlotToMigrateFrom
<1>11. p' = s
  BY <1>2, <1>10
<1>12. Planned(mastersNum)' = slotOf'[n] - r(n)
  BY <1>1, <1>2 DEF Planned, retrieveSlotToMigrateFrom
<1>. HIDE DEF n, q, r, p
<1>13. /\ j \in Master
       /\ \/ j = idNode /\ (slotOf[idNode] < q \/ idNode = n)
          \/ j = idNode + 1 /\ slotOf[idNode] >= q /\ idNode # n
  <2>1. idNode \in 1..n /\ slotOf[idNode] \in Nat
    BY <1>3, <1>4, <1>6
  <2>2. CASE slotOf[idNode] < q \/ idNode = n
    BY <1>1, <1>4, <2>2
  <2>3. CASE slotOf[idNode] >= q /\ idNode # n
    <3>1. j = idNode + 1
      BY <1>1, <1>5, <2>1, <2>3
    <3>2. idNode + 1 \in 1..n
      BY <1>3, <2>1, <2>3
    <3>. QED
      BY <1>3, <2>3, <3>1, <3>2
  <2>. QED
    BY <1>5, <2>1, <2>2, <2>3
<1>14. slotOf'[j] = slotOf[j] + 1 /\ \A i \in Master \ {j} : slotOf'[i] = slotOf[i]
  BY <1>1, <1>4, <1>13
<1>. HIDE DEF j
<1>15. idNode \in Nat /\ j \in Nat /\ Master \subseteq Nat /\ \A i \in Master : i <= n
  BY <1>3, <1>4, <1>13
<1>16. j = n => slotOf[n] - r(n) <= q - 1
  <2>. SUFFICES ASSUME j = n PROVE slotOf[n] - r(n) <= q - 1
    OBVIOUS
  <2>1. \A i \in Master : i # n => slotOf[i] >= q
    <3>. SUFFICES ASSUME NEW i \in Master, i # n PROVE slotOf[i] >= q
      OBVIOUS
    <3>1. CASE i < idNode
      BY <1>9, <3>1
    <3>2. CASE ~(i < idNode)
      <4>1. i = idNode /\ idNode + 1 = n
        BY <1>3, <1>13, <1>15, <3>2
      <4>. QED
        BY <1>13, <1>15, <4>1
    <3>. QED
      BY <3>1, <3>2
  <2>2. Planned(mastersNum) <= nbSlotByNode - 1
    <3>1. \A i \in Master : i # mastersNum => slotOf[i] >= nbSlotByNode
      BY <2>1 DEF n, q
    <3>. QED
      BY <1>1, <3>1, RoomAtTheLast
  <2>3. Planned(n) = slotOf[n] - r(n)
    BY <1>3, <1>8
  <2>. QED
    BY <2>2, <2>3 DEF n, q
<1>17. ASSUME j # n
       PROVE  /\ slotOf[j] - r(j) <= q /\ slotOf[j] + 1 <= HashSlots
  <2>1. slotOf[j] < q \/ slotOf[j] = count[j]
    BY <1>9, <1>13, <1>15, <1>17
  <2>2. CASE slotOf[j] < q
    <3>1. slotOf[j] \in Nat /\ r(j) \in Nat
      BY <1>6, <1>8, <1>13
    <3>. QED
      BY <1>3, <1>5, <2>2, <3>1
  <2>3. CASE slotOf[j] = count[j]
    BY <1>7, <1>8, <1>13, <2>3
  <2>. QED
    BY <2>1, <2>2, <2>3
<1>18. slotOf[j] + 1 <= HashSlots
  <2>1. CASE j = n
    <3>1. slotOf[n] - r(n) <= q - 1 /\ count[n] \in Nat /\ slotOf[n] \in Nat /\ r(n) \in Nat
      BY <1>3, <1>6, <1>8, <1>16, <2>1
    <3>2. /\ count[n] < q => r(n) = 0
          /\ count[n] >= q => r(n) = count[n] - q
          /\ count[n] + 1 <= HashSlots
      BY <1>3, <1>7, <1>8
    <3>3. slotOf[n] + 1 <= HashSlots
      <4>1. q \in Nat /\ q <= HashSlots /\ HashSlots \in Nat
        BY <1>3, <1>5
      <4>2. CASE count[n] < q
        BY <3>1, <3>2, <4>1, <4>2
      <4>3. CASE count[n] >= q
        BY <3>1, <3>2, <4>1, <4>3
      <4>. QED
        BY <3>1, <4>1, <4>2, <4>3
    <3>. QED
      BY <2>1, <3>3
  <2>. QED
    BY <1>17, <2>1
<1>19. slotOf' \in [Master -> 0..HashSlots]
  <2>1. \A i \in Master : slotOf'[i] \in 0..HashSlots
    <3>1. slotOf'[j] \in 0..HashSlots
      BY <1>3, <1>6, <1>13, <1>14, <1>18
    <3>. QED
      BY <1>4, <1>14, <3>1
  <2>2. slotOf' = [i \in Master |-> slotOf'[i]]
    BY <1>1, <1>4
  <2>. QED
    BY <2>1, <2>2
<1>20. Typed'
  <2>1. avail' \in 0..HashSlots /\ idNode' \in Master
    BY <1>1, <1>3, <1>4, <1>13 DEF j
  <2>. QED
    BY <1>1, <1>2, <1>19, <2>1 DEF Typed
<1>21. SyncOK'
  BY <1>1, <1>2 DEF SyncOK
<1>22. SumFunction(s) + avail' = HashSlots
  <2>1. SumFunction(s) = SumFunctionOnSet(s, Master)
    BY DEF SumFunction
  <2>2. SumFunction(p) = SumFunctionOnSet(p, Master)
    BY DEF SumFunction, p
  <2>3. \A i \in Master : p[i] = slotOf[i] - r(i) /\ p[i] \in Int
    BY <1>8 DEF p
  <2>4. \A i \in Master : s[i] = slotOf'[i] - r(i)
    OBVIOUS
  <2>. HIDE DEF s
  <2>5. s[j] = p[j] + 1 /\ p[j] \in Int
    BY <1>6, <1>8, <1>13, <1>14, <2>3, <2>4
  <2>6. \A i \in Master \ {j} : s[i] = p[i]
    BY <1>14, <2>3, <2>4
  <2>7. SumFunctionOnSet(s, Master) = SumFunctionOnSet(p, Master) - p[j] + s[j]
    <3>1. s[j] \in Int /\ j \in Master /\ IsFiniteSet(Master)
      BY <1>3, <1>13, <2>5
    <3>2. \A i \in Master : p[i] \in Int
      BY <2>3
    <3>. QED
      BY <2>6, <3>1, <3>2, SumReplace
  <2>8. SumFunctionOnSet(p, Master) \in Int
    <3>1. \A i \in Master : p[i] \in Int
      BY <2>3
    <3>. QED
      BY <1>3, <3>1, SumType
  <2>9. SumFunction(p) + avail = HashSlots /\ avail' = avail - 1 /\ avail \in Int
    BY <1>1, <1>4, <1>9
  <2>. QED
    BY <1>3, <2>1, <2>2, <2>5, <2>7, <2>8, <2>9
<1>23. FillOK'
  <2>1. ASSUME NEW i \in Master
        PROVE  /\ slotOf'[i] >= count[i]
               /\ i > j => slotOf'[i] = count[i]
               /\ i < j => slotOf'[i] >= q
    <3>1. CASE i = j
      BY <1>6, <1>9, <1>13, <1>14, <1>15, <3>1
    <3>2. CASE i # j
      <4>1. slotOf'[i] = slotOf[i]
        BY <1>14, <3>2
      <4>2. i > j => i > idNode
        BY <1>13, <1>15
      <4>3. i < j => i < idNode \/ (i = idNode /\ slotOf[i] >= q)
        BY <1>13, <1>15
      <4>. QED
        BY <1>9, <4>1, <4>2, <4>3
    <3>. QED
      BY <3>1, <3>2
  <2>2. SumFunction([i \in Master |-> Planned(i)])' + avail' = HashSlots
    BY <1>11, <1>22 DEF p
  <2>. QED
    BY <1>1, <1>2, <2>1, <2>2 DEF FillOK, j, q
<1>24. OverfillBounded'
  <2>1. ASSUME NEW i \in Master PROVE slotOf'[i] - r(i) <= q + 1
    <3>1. CASE i = j
      <4>1. slotOf[j] - r(j) <= q
        BY <1>5, <1>6, <1>8, <1>13, <1>16, <1>17
      <4>2. slotOf'[j] = slotOf[j] + 1 /\ slotOf[j] \in Nat /\ r(j) \in Nat
        BY <1>6, <1>8, <1>13, <1>14
      <4>. QED
        BY <1>5, <3>1, <4>1, <4>2
    <3>2. CASE i # j
      BY <1>8, <1>9, <1>14, <3>2
    <3>. QED
      BY <3>1, <3>2
  <2>2. slotOf'[n] - r(n) <= q
    <3>1. CASE n = j
      <4>1. slotOf[n] - r(n) <= q - 1 /\ slotOf[n] \in Nat /\ r(n) \in Nat
            /\ slotOf'[n] = slotOf[n] + 1
        BY <1>3, <1>6, <1>8, <1>14, <1>16, <3>1
      <4>. QED
        BY <1>5, <4>1
    <3>2. CASE n # j
      BY <1>3, <1>8, <1>9, <1>14, <3>2
    <3>. QED
      BY <3>1, <3>2
  <2>3. \A i \in Master : Planned(i)' <= q + 1
    BY <1>10, <2>1
  <2>. QED
    BY <1>2, <1>12, <2>2, <2>3 DEF OverfillBounded, q
<1>. QED
  BY <1>1, <1>20, <1>21, <1>23, <1>24 DEF SlotsInv, AllocOK, BalanceOK, SettledOK

\* What was planned for the masters is all the slots.
LEMMA DispatchSlots ==
  ASSUME SlotsInv, DispatchSlotToNewMasters
  PROVE  SlotsInv'
<1>. DEFINE p == [i \in Master |-> Planned(i)]
<1>1. /\ Typed /\ SyncOK /\ FillOK /\ pc = "fill" /\ pc' = "sync" /\ avail = 0
      /\ count' = p /\ going' = 0
      /\ UNCHANGED <<bom, balance, order, dstIdx, srcIdx, gave, took>>
      /\ UNCHANGED <<index, first, avail, slotOf, idNode, faults>>
  BY DEF SlotsInv, DispatchSlotToNewMasters, alloc, rebalance, pair
<1>2. IsFiniteSet(Master) /\ HashSlots \in Nat
  BY <1>1, Masters
<1>3. DOMAIN count = Master
  BY <1>1 DEF Typed
<1>4. \A i \in Master : p[i] \in Nat
  <2>. SUFFICES ASSUME NEW i \in Master PROVE Planned(i) \in Nat
    OBVIOUS
  <2>1. /\ retrieveSlotToMigrateFrom(i) \in Nat
        /\ retrieveSlotToMigrateFrom(i) <= count[i]
        /\ Planned(i) = slotOf[i] - retrieveSlotToMigrateFrom(i)
    BY <1>1, Plans
  <2>2. count[i] \in Nat /\ slotOf[i] \in Nat /\ slotOf[i] >= count[i]
    BY <1>1, Counts DEF FillOK
  <2>. QED
    BY <2>1, <2>2
<1>5. SumFunction(p) = SumFunctionOnSet(p, Master) /\ DOMAIN p = Master
  BY DEF SumFunction
<1>6. SumFunction(p) + avail = HashSlots
  BY <1>1 DEF FillOK
<1>7. p = [i \in Master |-> p[i]]
  OBVIOUS
<1>. HIDE DEF p
<1>8. /\ SumFunctionOnSet(p, Master) \in Nat
      /\ \A i \in Master : p[i] <= SumFunctionOnSet(p, Master)
  BY <1>2, <1>4, SumNat
<1>9. SumFunction(p) = HashSlots
  BY <1>1, <1>2, <1>5, <1>6, <1>8
<1>10. p \in [Master -> 0..HashSlots]
  <2>1. \A i \in Master : p[i] \in 0..HashSlots
    BY <1>2, <1>4, <1>5, <1>8, <1>9
  <2>. QED
    BY <1>7, <2>1
<1>11. Master' = Master /\ mastersNum' = mastersNum
  <2>1. DOMAIN count' = DOMAIN count
    BY <1>1, <1>3, <1>5
  <2>. QED
    BY <2>1, SameShares
<1>12. Typed'
  <2>1. /\ count' \in [Master -> 0..HashSlots] /\ going' \in Nat
        /\ SumFunction(count)' + going' <= HashSlots
    BY <1>1, <1>2, <1>9, <1>10
  <2>. QED
    BY <1>1, <1>11, <2>1 DEF Typed
<1>13. SyncOK'
  BY <1>1, <1>9 DEF SyncOK
<1>. QED
  BY <1>1, <1>12, <1>13
     DEF SlotsInv, AllocOK, BalanceOK, SettledOK, FillOK, OverfillBounded

-----------------------------------------------------------------------------
LEMMA NextSlots == GInv /\ SlotsInv /\ [Next]_vars => SlotsInv'
<1>. SUFFICES ASSUME GInv, SlotsInv, [Next]_vars PROVE SlotsInv'
  OBVIOUS
<1>1. CASE UNCHANGED vars
  <2>1. /\ UNCHANGED <<pc, count, bom, balance, order, dstIdx, srcIdx, gave, took>>
        /\ UNCHANGED <<index, first, going, avail, slotOf, idNode, faults>>
    BY <1>1 DEF vars, alloc, rebalance, pair, fill
  <2>2. /\ Master' = Master /\ mastersNum' = mastersNum
        /\ expected' = expected /\ nbSlotByNode' = nbSlotByNode
    BY <2>1, SameShares
  <2>3. Typed' /\ SyncOK' /\ AllocOK' /\ BalanceOK' /\ SettledOK'
    <3>1. Typed /\ SyncOK /\ AllocOK /\ BalanceOK /\ SettledOK
      BY DEF SlotsInv
    <3>2. Typed'
      BY <2>1, <2>2, <3>1 DEF Typed
    <3>3. SyncOK' /\ AllocOK' /\ BalanceOK'
      BY <2>1, <2>2, <3>1 DEF SyncOK, AllocOK, BalanceOK
    <3>4. SettledOK'
      BY <2>1, <2>2, <3>1 DEF SettledOK
    <3>. QED
      BY <3>2, <3>3, <3>4
  <2>4. FillOK' /\ OverfillBounded'
    <3>1. FillOK /\ OverfillBounded
      BY DEF SlotsInv
    <3>2. \A i : Planned(i)' = Planned(i)
      BY <2>1, <2>2 DEF Planned, retrieveSlotToMigrateFrom
    <3>3. [i \in Master |-> Planned(i)]' = [i \in Master |-> Planned(i)]
      BY <2>2, <3>2
    <3>4. Planned(mastersNum)' = Planned(mastersNum)
      BY <2>1, <2>2 DEF Planned, retrieveSlotToMigrateFrom
    <3>5. FillOK'
      <4>1. SumFunction([i \in Master |-> Planned(i)])'
              = SumFunction([i \in Master |-> Planned(i)])
        BY <3>3
      <4>. QED
        BY <2>1, <2>2, <3>1, <4>1 DEF FillOK
    <3>6. OverfillBounded'
      BY <2>1, <2>2, <3>1, <3>2, <3>4 DEF OverfillBounded
    <3>. QED
      BY <3>5, <3>6
  <2>. QED
    BY <2>3, <2>4 DEF SlotsInv
<1>. QED
  BY <1>1, buildSlotsByNodeSlots, FillSlots, DispatchSlots, SyncSlots, AllocNodeSlots,
     EndSlots, SpreadRemainderSlots, SortMastersSlots, MoveSlotsSlots DEF Next

LEMMA SlotsAlways == Spec => [](GInv /\ SlotsInv)
<1>. QED
  BY InitGInv, NextGInv, InitSlots, NextSlots, PTL DEF Spec

(***************************************************************************)
(* No master ever owns more slots than there are, nor do they together:    *)
(* the numbers of slots stay in range through allocation, moves that fail  *)
(* half way and the filling of a scale down, for any number of slots,      *)
(* masters and faults.                                                     *)
(***************************************************************************)
THEOREM AllocationTypeOK == Spec => []TypeOK
<1>1. SlotsInv => TypeOK
  BY TypedTypeOK DEF SlotsInv
<1>. QED
  BY <1>1, SlotsAlways, PTL

(***************************************************************************)
(* The length of the reshard table RebalancedCluster asserts is right as   *)
(* long as no command has failed, whatever the masters had at first and in *)
(* whatever order masters with the same balance are sorted.                *)
(***************************************************************************)
THEOREM ReshardTableIsFull == Spec => []AssertionHolds
<1>1. SlotsInv => AssertionHolds
  BY PairSigns DEF SlotsInv, AssertionHolds
<1>. QED
  BY <1>1, SlotsAlways, PTL

(***************************************************************************)
(* When the indices meet, all balances are settled.                        *)
(***************************************************************************)
LEMMA AllSettled ==
  ASSUME Typed, SettledOK, faults = 0, pc = "move", dstIdx >= srcIdx
  PROVE  \A i \in Master : balance[i] = 0
<1>1. /\ mastersNum \in Nat \ {0} /\ Master = 1..mastersNum /\ IsFiniteSet(Master)
      /\ \A i \in Master : balance[i] \in Int
      /\ SumFunctionOnSet(balance, Master) = 0
  <2>1. SumFunction(balance) = 0
    BY DEF SettledOK
  <2>. QED
    BY <2>1, Masters, Counts
<1>2. dstIdx \in Master /\ srcIdx \in 0..mastersNum /\ order \in [Master -> Master]
  BY DEF Typed
<1>3. \A k \in Master : k # dstIdx => balance[order[k]] = 0
  <2>1. \A k \in Master : k < dstIdx \/ k > srcIdx => balance[order[k]] = 0
    BY DEF SettledOK
  <2>2. dstIdx \in Nat /\ srcIdx \in Nat /\ Master \subseteq Nat
    BY <1>1, <1>2
  <2>3. \A k \in Master : k # dstIdx => k < dstIdx \/ k > srcIdx
    BY <2>2
  <2>. QED
    BY <2>1, <2>3
<1>. DEFINE x == order[dstIdx]
<1>4. x \in Master /\ balance[x] \in Int /\ \A i \in Master : i # x => balance[i] = 0
  <2>1. \A i \in Master : \E k \in Master : order[k] = i
    BY DEF SettledOK
  <2>. QED
    BY <1>1, <1>2, <1>3, <2>1
<1>. HIDE DEF x
<1>5. (\A i \in Master : balance[i] >= 0) \/ (\A i \in Master : balance[i] <= 0)
  <2>1. CASE balance[x] >= 0
    BY <1>1, <1>4, <2>1
  <2>2. CASE balance[x] <= 0
    BY <1>1, <1>4, <2>2
  <2>. QED
    BY <1>4, <2>1, <2>2
<1>. QED
  BY <1>1, <1>5, SumZero

LEMMA SettledBalanced == SlotsInv => Balanced
<1>. SUFFICES ASSUME SlotsInv, faults = 0, pc = "move", dstIdx >= srcIdx, NEW i \in Master
              PROVE  count[i] \in expected..(expected + (HashSlots % mastersNum))
  BY DEF Balanced
<1>. DEFINE n == mastersNum
            e == expected
            m == HashSlots % mastersNum
            g == [k \in Master |-> IF k = i THEN count[i] ELSE e]
<1>1. Typed /\ BalanceOK /\ SettledOK
  BY DEF SlotsInv
<1>2. /\ n \in Nat \ {0} /\ HashSlots \in Nat /\ IsFiniteSet(Master) /\ Cardinality(Master) = n
  BY <1>1, Masters
<1>3. e \in Nat /\ m \in Nat /\ HashSlots = n * e + m
  BY <1>1, Shares
<1>4. \A k \in Master : balance[k] = 0
  BY <1>1, AllSettled
<1>5. /\ SumFunctionOnSet(count, Master) = HashSlots
      /\ \A k \in Master : count[k] \in Nat /\ e <= count[k]
  <2>1. SumFunction(count) = HashSlots /\ \A k \in Master : balance[k] <= count[k] - e
    BY <1>1 DEF BalanceOK
  <2>2. SumFunction(count) = SumFunctionOnSet(count, Master) /\ \A k \in Master : count[k] \in Nat
    BY <1>1, Counts
  <2>. HIDE DEF e
  <2>. QED
    BY <1>3, <1>4, <2>1, <2>2
<1>. HIDE DEF n, e, m
<1>6. \A k \in Master : g[k] \in Int /\ count[k] \in Int /\ g[k] <= count[k]
  BY <1>3, <1>5
<1>7. g[i] = count[i] /\ \A k \in Master \ {i} : g[k] = e
  OBVIOUS
<1>. HIDE DEF g
<1>8. SumFunctionOnSet(g, Master) <= SumFunctionOnSet(count, Master)
  BY <1>2, <1>6, SumMonotonic
<1>9. SumFunctionOnSet(g, Master) = count[i] + SumFunctionOnSet(g, Master \ {i})
  <2>1. \A k \in Master : g[k] \in Int
    BY <1>6
  <2>2. SumFunctionOnSet(g, Master) = g[i] + SumFunctionOnSet(g, Master \ {i})
    BY <1>2, <2>1, SumTakeOut
  <2>. QED
    BY <1>7, <2>2
<1>10. SumFunctionOnSet(g, Master \ {i}) = e * (n - 1)
  <2>1. IsFiniteSet(Master \ {i}) /\ Cardinality(Master \ {i}) = n - 1
    BY <1>2, FS_RemoveElement
  <2>2. e \in Int
    BY <1>3
  <2>3. SumFunctionOnSet(g, Master \ {i}) = e * Cardinality(Master \ {i})
    BY <1>7, <2>1, <2>2, SumConstant
  <2>. QED
    BY <2>1, <2>3
<1>11. e * (n - 1) = n * e - e /\ n * e \in Int
  BY <1>2, <1>3
<1>12. count[i] \in Nat /\ e <= count[i]
  BY <1>5
<1>13. count[i] \in e..(e + m)
  BY <1>3, <1>5, <1>8, <1>9, <1>10, <1>11, <1>12
<1>. QED
  BY <1>13 DEF e, m

(***************************************************************************)
(* RebalancedCluster, when no command has failed, leaves every master its  *)
(* share and no master more than the remainder beyond it: pairing the      *)
(* balances off from both ends of the list settles all of them.            *)
(***************************************************************************)
THEOREM RebalancingBalances == Spec => []Balanced
<1>. QED
  BY SettledBalanced, SlotsAlways, PTL

LEMMA AllocatedEvenly == SlotsInv => AllocComplete
<1>. SUFFICES ASSUME SlotsInv, pc = "alloc", index > mastersNum
              PROVE  /\ SumFunction(count) = HashSlots
                     /\ \A i, j \in Master : count[i] - count[j] <= 1
  BY DEF AllocComplete
<1>1. Typed /\ AllocOK
  BY DEF SlotsInv
<1>2. SumFunction(count) = HashSlots /\ index = mastersNum + 1
  BY <1>1, AllocEnds
<1>3. ASSUME NEW i \in Master, NEW j \in Master PROVE count[i] - count[j] <= 1
  <2>. DEFINE n == mastersNum
              a == count[i]
              b == count[j]
  <2>1. n \in Nat \ {0} /\ HashSlots \in Nat /\ i \in 1..n /\ j \in 1..n
    BY <1>1, Masters
  <2>2. a \in Nat /\ b \in Nat
    BY <1>1, Counts
  <2>3. i < index /\ j < index
    BY <1>2, <2>1
  <2>4. n * a < HashSlots + n /\ HashSlots - n < n * b
    BY <1>1, <2>3 DEF AllocOK
  <2>. HIDE DEF n, a, b
  <2>5. a - b <= 1
    <3>. SUFFICES ASSUME b + 2 <= a PROVE FALSE
      BY <2>2
    <3>1. n * (b + 2) <= n * a
      BY <2>1, <2>2, Product
    <3>2. n * (b + 2) = n * b + 2 * n /\ n * b \in Int /\ n * a \in Int
      BY <2>1, <2>2
    <3>. QED
      BY <2>1, <2>4, <3>1, <3>2
  <2>. QED
    BY <2>5 DEF a, b
<1>. QED
  BY <1>2, <1>3

(***************************************************************************)
(* AllocSlots assigns every slot to one of the masters and no master gets  *)
(* two more than another, for any number of slots and masters: the rounded *)
(* ends of the ranges neither overlap nor leave a gap.                     *)
(***************************************************************************)
THEOREM AllocSlotsCompletes == Spec => []AllocComplete
<1>. QED
  BY AllocatedEvenly, SlotsAlways, PTL

(***************************************************************************)
(* Scaling down overfills no master by more than one slot, and the last    *)
(* one, which keeps whatever arrives, not at all.                          *)
(***************************************************************************)
THEOREM FillingIsBounded == Spec => []OverfillBounded
<1>1. SlotsInv => OverfillBounded
  BY DEF SlotsInv
<1>. QED
  BY <1>1, SlotsAlways, PTL

-----------------------------------------------------------------------------
(* The loops of RebalancedCluster end.                                     *)

LEMMA LeastNatural ==
  ASSUME NEW S \in SUBSET Nat, S # {}
  PROVE  \E i \in S : \A j \in S : ~(j < i)
<1>. DEFINE R == OpToRel(<, Nat)
<1>1. IsWellFoundedOn(R, Nat)
  BY NatLessThanWellFounded
<1>2. PICK i \in S : \A j \in S : <<j, i>> \notin R
  <2>. HIDE DEF R
  <2>1. \E i \in S : \A j \in S : ~(<<j, i>> \in R)
    BY <1>1, WFMin
  <2>. QED
    BY <2>1
<1>3. ASSUME NEW j \in S, j < i PROVE FALSE
  <2>1. <<j, i>> \in R
    BY <1>3 DEF OpToRel
  <2>. QED
    BY <1>2, <2>1
<1>. QED
  BY <1>3

(***************************************************************************)
(* While the remainder is spread, some master is short of slots: the one   *)
(* that had none when the rebalancing began.                               *)
(***************************************************************************)
SomeShort == pc = "spread" => \E i \in Master : balance[i] < 0

LEMMA NextSomeShort == SlotsInv /\ SomeShort /\ [Next]_vars => SomeShort'
<1>. SUFFICES ASSUME SlotsInv, SomeShort, [Next]_vars, pc' = "spread"
              PROVE  \E i \in Master' : balance'[i] < 0
  BY DEF SomeShort
<1>1. Typed
  BY DEF SlotsInv
<1>2. \A i \in Master : balance[i] \in Int
  BY <1>1, Counts
<1>3. CASE Sync
  <2>1. balance' = [i \in Master |-> count[i] - expected] /\ count' = count
        /\ \E i \in Master : count[i] = 0
    BY <1>3 DEF Sync, StartRebalance
  <2>2. expected \in Nat \ {0}
    BY <1>1, Shares
  <2>3. Master' = Master
    BY <2>1, SameShares
  <2>. QED
    BY <2>1, <2>2, <2>3
<1>4. CASE SpreadRemainder
  <2>1. PICK i \in Master : balance[i] < 0
    BY <1>4 DEF SomeShort, SpreadRemainder
  <2>2. balance'[i] = balance[i] \/ balance'[i] = balance[i] - 1
    BY <1>4 DEF SpreadRemainder
  <2>3. Master' = Master
    BY <1>4, SameShares DEF SpreadRemainder
  <2>. QED
    BY <1>2, <2>1, <2>2, <2>3
<1>5. CASE UNCHANGED vars
  <2>1. UNCHANGED <<pc, count, balance>>
    BY <1>5 DEF vars, rebalance
  <2>2. Master' = Master
    BY <2>1, SameShares
  <2>. QED
    BY <2>1, <2>2 DEF SomeShort
<1>6. \/ Sync \/ SpreadRemainder \/ UNCHANGED vars
  BY DEF Next, buildSlotsByNode, buildSlotByNodeFromAvailableSlots, DispatchSlotToNewMasters,
         AllocNode, EndAlloc, SortMasters, MoveSlots, Panic, EndRebalance
<1>. QED
  BY <1>3, <1>4, <1>5, <1>6

LEMMA SpreadProgresses ==
  ASSUME SlotsInv, SomeShort, SpreadRemainder
  PROVE  totalBalance' < totalBalance
<1>. DEFINE short == {i \in Master : balance[i] < 0}
            served == {i \in short : Cardinality({j \in short : j < i}) < totalBalance}
<1>1. /\ Typed /\ totalBalance > 0 /\ count' = count
      /\ balance' = [i \in Master |-> IF i \in served THEN balance[i] - 1 ELSE balance[i]]
  BY DEF SlotsInv, SpreadRemainder
<1>2. IsFiniteSet(Master) /\ Master \subseteq Nat
  BY <1>1, Masters
<1>3. /\ \A i \in Master : balance[i] \in Int
      /\ totalBalance = SumFunctionOnSet(balance, Master) /\ totalBalance \in Int
  BY <1>1, Counts DEF totalBalance
<1>4. short \subseteq Nat /\ short # {} /\ short \subseteq Master
  BY <1>2 DEF SomeShort, SpreadRemainder
<1>5. PICK i \in short : \A j \in short : ~(j < i)
  <2>. HIDE DEF short
  <2>. QED
    BY <1>4, LeastNatural
<1>6. i \in served
  <2>1. {j \in short : j < i} = {}
    BY <1>5
  <2>2. Cardinality({j \in short : j < i}) = 0
    BY <2>1, FS_EmptySet
  <2>. QED
    BY <1>1, <2>2
<1>. HIDE DEF served
<1>7. i \in Master
  BY <1>4
<1>. HIDE DEF short
<1>. DEFINE b == balance'
            g == [k \in Master |-> IF k = i THEN balance[i] - 1 ELSE balance[k]]
<1>8. /\ \A k \in Master : b[k] \in Int /\ g[k] \in Int /\ b[k] <= g[k]
      /\ b[i] = balance[i] - 1 /\ DOMAIN b = Master
  BY <1>1, <1>3, <1>6, <1>7
<1>9. g[i] = balance[i] - 1 /\ \A k \in Master \ {i} : g[k] = balance[k]
  BY <1>7
<1>10. totalBalance' = SumFunctionOnSet(b, Master)
  BY <1>8 DEF totalBalance, SumFunction
<1>. HIDE DEF b, g
<1>11. SumFunctionOnSet(b, Master) <= SumFunctionOnSet(g, Master)
  BY <1>2, <1>8, SumMonotonic
<1>12. SumFunctionOnSet(b, Master) \in Int
  <2>1. \A k \in Master : b[k] \in Int
    BY <1>8
  <2>. QED
    BY <1>2, <2>1, SumType
<1>13. SumFunctionOnSet(g, Master) = SumFunctionOnSet(balance, Master) - balance[i] + g[i]
  <2>1. g[i] \in Int
    BY <1>7, <1>8
  <2>2. IsFiniteSet(Master)
    BY <1>2
  <2>3. \A k \in Master : balance[k] \in Int
    BY <1>3
  <2>4. \A k \in Master \ {i} : g[k] = balance[k]
    BY <1>9
  <2>. QED
    BY <1>7, <2>1, <2>2, <2>3, <2>4, SumReplace
<1>14. balance[i] \in Int
  BY <1>3, <1>7
<1>. QED
  BY <1>3, <1>9, <1>10, <1>11, <1>12, <1>13, <1>14

LEMMA MoveProgresses ==
  ASSUME SlotsInv, MoveSlots, pc' = "move", faults' = 0
  PROVE  srcIdx' - dstIdx' < srcIdx - dstIdx
<1>1. Typed /\ BalanceOK /\ SettledOK /\ pc = "move" /\ dstIdx < srcIdx
  BY DEF SlotsInv, MoveSlots
<1>2. faults \in Nat /\ dstIdx \in Int /\ srcIdx \in Int
  <2>1. faults \in 0..MaxFaults /\ MaxFaults \in Nat
    BY <1>1, MaxFaultsAssumption DEF Typed
  <2>2. dstIdx \in Master /\ srcIdx \in 0..mastersNum /\ Master = 1..mastersNum
    BY <1>1, Masters DEF Typed
  <2>3. mastersNum \in Nat
    BY <1>1, Masters
  <2>. QED
    BY <2>1, <2>2, <2>3
<1>3. faults = 0
  <2>1. PICK moved \in 0..reshardTable : Fault(moved < reshardTable)
    BY DEF MoveSlots
  <2>2. faults' = faults \/ faults' = faults + 1
    BY <2>1 DEF Fault
  <2>. QED
    BY <1>2, <2>2
<1>4. /\ balance' = [balance EXCEPT ![dst] = @ + numSlots, ![src] = @ - numSlots]
      /\ NextPair
  <2>1. PICK moved \in 0..reshardTable :
          IF moved < reshardTable
            THEN pc' = "sync"
            ELSE /\ balance' = [balance EXCEPT ![dst] = @ + numSlots, ![src] = @ - numSlots]
                 /\ NextPair
    BY DEF MoveSlots
  <2>. QED
    BY <2>1
<1>5. /\ dst \in Master /\ src \in Master
      /\ numSlots \in Nat /\ balance[dst] <= 0 /\ balance[src] >= 0
      /\ balance[dst] + numSlots = 0 \/ balance[src] - numSlots = 0
  BY <1>1, <1>3, PairSigns
<1>6. balance \in [Master -> Int]
  BY <1>1 DEF Typed
<1>7. balance'[dst] = 0 \/ balance'[src] = 0
  <2>1. CASE dst = src
    BY <1>4, <1>5, <1>6, <2>1
  <2>2. CASE dst # src
    <3>1. balance'[dst] = balance[dst] + numSlots /\ balance'[src] = balance[src] - numSlots
      BY <1>4, <1>5, <1>6, <2>2
    <3>. QED
      BY <1>5, <3>1
  <2>. QED
    BY <2>1, <2>2
<1>8. /\ dstIdx' = IF balance'[dst] = 0 THEN dstIdx + 1 ELSE dstIdx
      /\ srcIdx' = IF balance'[src] = 0 THEN srcIdx - 1 ELSE srcIdx
  BY <1>4 DEF NextPair
<1>. QED
  BY <1>2, <1>7, <1>8

(***************************************************************************)
(* Neither loop of RebalancedCluster runs for ever: a pass that spreads    *)
(* the remainder always finds a master to give a slot to, so that what is  *)
(* left gets less, and as long as no command has failed every iteration    *)
(* over pairs moves an index, so that there are fewer of them than         *)
(* masters.                                                                *)
(***************************************************************************)
LoopsProgress ==
  [][ /\ SpreadRemainder => totalBalance' < totalBalance
      /\ (MoveSlots /\ pc' = "move" /\ faults' = 0) => srcIdx' - dstIdx' < srcIdx - dstIdx
    ]_vars

(***************************************************************************)
(* The loops of RebalancedCluster progress, for any number of slots and    *)
(* masters.                                                                *)
(***************************************************************************)
THEOREM RebalancingProgresses == Spec => LoopsProgress
<1>1. Init => SomeShort
  BY DEF Init, SomeShort
<1>2. SlotsInv /\ SomeShort /\ [Next]_vars =>
        [ /\ SpreadRemainder => totalBalance' < totalBalance
          /\ (MoveSlots /\ pc' = "move" /\ faults' = 0) => srcIdx' - dstIdx' < srcIdx - dstIdx
        ]_vars
  BY SpreadProgresses, MoveProgresses
<1>. QED
  BY <1>1, <1>2, NextSomeShort, SlotsAlways, PTL DEF Spec, LoopsProgress

=============================================================================
