----------------------------- MODULE RedisNodes -----------------------------
(***************************************************************************)
(* The Redis cluster nodes as the operator's admin client sees them: each  *)
(* node's own slot table with its importing and migrating marks, the keys  *)
(* it stores and its configuration epoch.  The nodes themselves are        *)
(* external to the repository; what they do with CLUSTER SETSLOT, MIGRATE  *)
(* and each other's heartbeats is modelled from the commands the operator  *)
(* sends (pkg/redisutil/admin.go) and Redis 5, the default image.          *)
(*                                                                         *)
(* A command that fails has either been executed by the time the error is  *)
(* seen (only its reply was lost) or never will be.                        *)
(***************************************************************************)
EXTENDS Naturals

CONSTANTS
  Node,       \* the master nodes of the cluster
  Slot,       \* the hash slots
  Key,        \* the keys clients write
  SlotOf,     \* the hash slot of each key
  NoNode,     \* "no node" in a slot table or in a mark
  Faulty,     \* TRUE when an admin command may be lost or its reply may be
  MaxEpoch    \* bound: the number of ownership changes explored

ASSUME NodeAssumption == NoNode \notin Node
ASSUME SlotOfAssumption == SlotOf \in [Key -> Slot]
ASSUME FaultyAssumption == Faulty \in BOOLEAN
ASSUME MaxEpochAssumption == MaxEpoch \in Nat

VARIABLES
  owner,        \* owner[n][s]: the owner of s in n's own slot table
  migrating,    \* migrating[n][s]: where n redirects keys of s it lacks
  importing,    \* importing[n][s]: whom n accepts ASKING queries of s for
  keys,         \* keys[n]: the keys n stores
  epoch,        \* epoch[n]: n's configuration epoch
  currentEpoch, \* the greatest configuration epoch handed out
  written       \* history: the keys whose write was acknowledged

redisVars ==
  <<owner, migrating, importing, keys, epoch, currentEpoch, written>>

Maybe == Node \cup {NoNode}

RedisTypeOK ==
  /\ owner \in [Node -> [Slot -> Maybe]]
  /\ migrating \in [Node -> [Slot -> Maybe]]
  /\ importing \in [Node -> [Slot -> Maybe]]
  /\ keys \in [Node -> SUBSET Key]
  /\ epoch \in [Node -> Nat]
  /\ currentEpoch \in Nat
  /\ written \in SUBSET Key

(***************************************************************************)
(* A cluster at rest: one slot table known to every node, every key on the *)
(* owner of its slot, no slot on the move.                                 *)
(***************************************************************************)
RestInit(table, W) ==
  /\ owner = [n \in Node |-> table]
  /\ migrating = [n \in Node |-> [s \in Slot |-> NoNode]]
  /\ importing = [n \in Node |-> [s \in Slot |-> NoNode]]
  /\ keys = [n \in Node |-> {k \in W : table[SlotOf[k]] = n}]
  /\ epoch = [n \in Node |-> 0]
  /\ currentEpoch = 0
  /\ written = W

\* n's CLUSTER NODES line for itself lists s.
Claims(n, s) == owner[n][s] = n

KeysIn(n, s) == {k \in keys[n] : SlotOf[k] = s}

OwnSlots(n) == {s \in Slot : Claims(n, s)}

(***************************************************************************)
(* ComputeStatus: every node's table agrees with what each node says of    *)
(* itself (the consolidated view).                                         *)
(***************************************************************************)
Consistent ==
  \A m, n \in Node, s \in Slot : (owner[m][s] = n) <=> Claims(n, s)

-----------------------------------------------------------------------------
(***************************************************************************)
(* admin.SetSlot and SetSlots pipeline one CLUSTER SETSLOT per slot of S   *)
(* and report success only when every reply of the pipe is OK.  A is the   *)
(* subset the node accepts, D the subset it executes.                      *)
(***************************************************************************)
SetSlots(S, A, D, ok) ==
  /\ D \subseteq A
  /\ ok => D = S
  /\ ~Faulty => D = A /\ (ok <=> D = S)

With(table, n, D, id) ==
  [table EXCEPT ![n] = [s \in Slot |-> IF s \in D THEN id ELSE table[n][s]]]

\* CLUSTER SETSLOT s IMPORTING id: refused by the owner of s.
AcceptsImporting(n, S) == {s \in S : ~Claims(n, s)}

SetImporting(n, D, id) ==
  /\ importing' = With(importing, n, D, id)
  /\ UNCHANGED <<owner, migrating, keys, epoch, currentEpoch, written>>

\* CLUSTER SETSLOT s MIGRATING id: refused unless n owns s.
AcceptsMigrating(n, S) == {s \in S : Claims(n, s)}

SetMigrating(n, D, id) ==
  /\ migrating' = With(migrating, n, D, id)
  /\ UNCHANGED <<owner, importing, keys, epoch, currentEpoch, written>>

\* CLUSTER SETSLOT s NODE id: an owner refuses to give up a slot that still
\* has keys.
AcceptsNode(n, S, id) ==
  {s \in S : (Claims(n, s) /\ id # n) => KeysIn(n, s) = {}}

\* A node that closes an import by taking the slot gets a new, greatest
\* configuration epoch, so that its claim prevails.
SetNode(n, D, id) ==
  LET imported == {s \in D : id = n /\ importing[n][s] # NoNode}
  IN  /\ owner' = With(owner, n, D, id)
      /\ migrating' = With(migrating, n, {s \in D : KeysIn(n, s) = {}}, NoNode)
      /\ importing' = With(importing, n, imported, NoNode)
      /\ IF imported = {}
           THEN UNCHANGED <<epoch, currentEpoch>>
           ELSE /\ currentEpoch' = currentEpoch + 1
                /\ epoch' = [epoch EXCEPT ![n] = currentEpoch + 1]
      /\ UNCHANGED <<keys, written>>

\* MIGRATE of the keys K from m to n: C of them arrive, R of those are then
\* deleted on m.  Without an error C = R = K.
Migrate(m, n, C, R) ==
  /\ keys' = [keys EXCEPT ![m] = @ \ R, ![n] = @ \cup C]
  /\ UNCHANGED <<owner, migrating, importing, epoch, currentEpoch, written>>

-----------------------------------------------------------------------------
(***************************************************************************)
(* What the nodes and the clients do meanwhile.                            *)
(***************************************************************************)

\* m accepts n's claim on s unless m is importing s or knows a newer owner.
Yields(m, n, s) ==
  /\ Claims(n, s)
  /\ owner[m][s] # n
  /\ importing[m][s] = NoNode
  /\ owner[m][s] # NoNode => epoch[owner[m][s]] < epoch[n]

\* m receives a heartbeat of n; slots m loses this way take their keys along.
Gossip(m, n) ==
  LET lost == {s \in Slot : Yields(m, n, s)}
  IN  /\ lost # {}
      /\ owner' = With(owner, m, lost, n)
      /\ keys' = [keys EXCEPT ![m] =
                    {k \in @ : ~(SlotOf[k] \in lost /\ Claims(m, SlotOf[k]))}]
      /\ UNCHANGED <<migrating, importing, epoch, currentEpoch, written>>

\* n serves a query that creates a key of s.
Serves(n, s) == Claims(n, s) /\ migrating[n][s] = NoNode

\* n serves an ASKING query that creates a key of s.
ServesAsking(n, s) == Serves(n, s) \/ (importing[n][s] # NoNode /\ ~Claims(n, s))

\* A client creates k: on the node that claims its slot, or where that node
\* redirects it with ASK.
ClientWrite(k, n) ==
  LET s == SlotOf[k]
  IN  /\ k \notin written
      /\ \/ Serves(n, s)
         \/ /\ ServesAsking(n, s)
            /\ \E m \in Node : Claims(m, s) /\ migrating[m][s] = n
      /\ keys' = [keys EXCEPT ![n] = @ \cup {k}]
      /\ written' = written \cup {k}
      /\ UNCHANGED <<owner, migrating, importing, epoch, currentEpoch>>

Environment ==
  \/ \E m, n \in Node : Gossip(m, n)
  \/ \E k \in Key, n \in Node : ClientWrite(k, n)

=============================================================================
