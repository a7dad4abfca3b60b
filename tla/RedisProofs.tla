---------------------------- MODULE RedisProofs ----------------------------
(***************************************************************************)
(* Facts about the nodes' side of the commands of RedisNodes, used by the  *)
(* proofs about scaling up and about scaling down.                         *)
(***************************************************************************)
EXTENDS RedisNodes, TLAPS

(***************************************************************************)
(* What a SETSLOT command leaves in a node's table of slots.               *)
(***************************************************************************)
LEMMA WithType ==
  ASSUME NEW T \in [Node -> [Slot -> Maybe]], NEW n \in Node,
         NEW D, NEW id \in Maybe
  PROVE  With(T, n, D, id) \in [Node -> [Slot -> Maybe]]
BY DEF With

LEMMA WithValue ==
  ASSUME NEW T \in [Node -> [Slot -> Maybe]], NEW n \in Node, NEW D, NEW id,
         NEW p \in Node, NEW s \in Slot
  PROVE  With(T, n, D, id)[p][s] = IF p = n /\ s \in D THEN id ELSE T[p][s]
BY DEF With

-----------------------------------------------------------------------------
(***************************************************************************)
(* Type correctness of the nodes' state under each command.                *)
(***************************************************************************)
LEMMA RestTypeOK ==
  ASSUME NEW table \in [Slot -> Maybe], NEW W \in SUBSET Key, RestInit(table, W)
  PROVE  RedisTypeOK
BY SlotOfAssumption DEF RestInit, RedisTypeOK, Maybe

LEMMA SetImportingTypeOK ==
  ASSUME RedisTypeOK, NEW n \in Node, NEW D, NEW id \in Node,
         SetImporting(n, D, id)
  PROVE  RedisTypeOK'
BY WithType DEF SetImporting, RedisTypeOK, Maybe

LEMMA SetMigratingTypeOK ==
  ASSUME RedisTypeOK, NEW n \in Node, NEW D, NEW id \in Node,
         SetMigrating(n, D, id)
  PROVE  RedisTypeOK'
BY WithType DEF SetMigrating, RedisTypeOK, Maybe

LEMMA SetNodeTypeOK ==
  ASSUME RedisTypeOK, NEW n \in Node, NEW D, NEW id \in Node,
         SetNode(n, D, id)
  PROVE  RedisTypeOK'
<1>1. owner' \in [Node -> [Slot -> Maybe]]
  BY WithType DEF SetNode, RedisTypeOK, Maybe
<1>2. migrating' \in [Node -> [Slot -> Maybe]]
  BY WithType DEF SetNode, RedisTypeOK, Maybe
<1>3. importing' \in [Node -> [Slot -> Maybe]]
  BY WithType DEF SetNode, RedisTypeOK, Maybe
<1>4. epoch' \in [Node -> Nat] /\ currentEpoch' \in Nat
  <2>1. currentEpoch + 1 \in Nat /\ epoch \in [Node -> Nat] /\ currentEpoch \in Nat
    BY DEF RedisTypeOK
  <2>2. CASE UNCHANGED <<epoch, currentEpoch>>
    BY <2>1, <2>2
  <2>3. CASE /\ currentEpoch' = currentEpoch + 1
             /\ epoch' = [epoch EXCEPT ![n] = currentEpoch + 1]
    BY <2>1, <2>3
  <2>. QED
    BY <2>2, <2>3 DEF SetNode
<1>. QED
  BY <1>1, <1>2, <1>3, <1>4 DEF SetNode, RedisTypeOK

LEMMA MigrateTypeOK ==
  ASSUME RedisTypeOK, NEW m \in Node, NEW n \in Node,
         NEW C \in SUBSET keys[m], NEW R, Migrate(m, n, C, R)
  PROVE  RedisTypeOK'
BY DEF Migrate, RedisTypeOK

LEMMA GossipTypeOK ==
  ASSUME RedisTypeOK, NEW m \in Node, NEW n \in Node, Gossip(m, n)
  PROVE  RedisTypeOK'
<1>1. owner' \in [Node -> [Slot -> Maybe]]
  BY WithType DEF Gossip, RedisTypeOK, Maybe
<1>. QED
  BY <1>1 DEF Gossip, RedisTypeOK

LEMMA ClientWriteTypeOK ==
  ASSUME RedisTypeOK, NEW k \in Key, NEW n \in Node, ClientWrite(k, n)
  PROVE  RedisTypeOK'
BY DEF ClientWrite, RedisTypeOK

LEMMA EnvironmentTypeOK ==
  ASSUME RedisTypeOK, Environment
  PROVE  RedisTypeOK'
BY GossipTypeOK, ClientWriteTypeOK DEF Environment

-----------------------------------------------------------------------------
(***************************************************************************)
(* Claims only change by SETSLOT NODE and by gossip, and gossip never      *)
(* creates one.                                                            *)
(***************************************************************************)
LEMMA GossipClaims ==
  ASSUME RedisTypeOK, NEW m \in Node, NEW n \in Node, Gossip(m, n),
         NEW p \in Node, NEW s \in Slot
  PROVE  /\ Claims(p, s)' => Claims(p, s)
         /\ (Claims(p, s) /\ ~Claims(p, s)') =>
               p = m /\ m # n /\ Claims(n, s) /\ epoch[m] < epoch[n]
<1>. DEFINE lost == {t \in Slot : Yields(m, n, t)}
<1>0. owner' = With(owner, m, lost, n)
  BY DEF Gossip
<1>. HIDE DEF lost
<1>1. owner'[p][s] = IF p = m /\ s \in lost THEN n ELSE owner[p][s]
  <2>1. owner \in [Node -> [Slot -> Maybe]]
    BY DEF RedisTypeOK
  <2>. QED
    BY <1>0, <2>1, WithValue
<1>. QED
  BY <1>1, NodeAssumption DEF lost, Yields, Claims

=============================================================================
