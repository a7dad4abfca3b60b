----------------------------- MODULE ClusterView -----------------------------
(***************************************************************************)
(* What the operator makes of the answers to CLUSTER NODES: the view of    *)
(* the nodes (pkg/redisutil), the nodes to be healed (pkg/controller/heal),*)
(* the status of the cluster, and which node is to be master or slave      *)
(* (pkg/controller/clustering).                                            *)
(*                                                                         *)
(* A node is [id, master, slots, failed, noaddr]: master is NoId for a     *)
(* master, failed stands for the flags fail and fail?, and noaddr for the  *)
(* flag of that name.  Of the slots only the part that belongs to each     *)
(* StatefulSet is told apart.  The infos are a function from the IDs of    *)
(* the nodes that answered to [node, friends, handshakes, sts, vm]: the    *)
(* node itself, the others it lists, those it has under a temporary ID,    *)
(* its StatefulSet and its virtual machine; the last two come with its pod.*)
(***************************************************************************)
EXTENDS Naturals, FiniteSets, FiniteSetsExt

CONSTANT NoId  \* no node; the ID "" in the code

-----------------------------------------------------------------------------
(* Nodes.                                                                  *)

GetRole(n) == IF n.master = NoId THEN "Master" ELSE "Slave"

IsMasterWithSlot(n) == GetRole(n) = "Master" /\ n.slots # {}

IsSlave(n) == GetRole(n) = "Slave"

\* HasStatus(NodeStatusFail) or HasStatus(NodeStatusPFail).
HasStatus(n) == n.failed

\* The slice of friends grows by doubling.
HasSpareCapacity(n) == n \notin {0, 1, 2, 4, 8, 16}

\* ComputeStatus sorts append(Friends, Node) in place.  When the array of
\* Friends has room for one more it is sorted too, and its last node, the one
\* with the greatest ID, drops out of Friends.
SortByFunc(info) ==
  IF HasSpareCapacity(Cardinality(info.friends) + Cardinality(info.handshakes))
  THEN LET all == info.friends \cup {info.node}
       IN  {n \in all : \E m \in all : n.id < m.id}
  ELSE info.friends

-----------------------------------------------------------------------------
(* The cluster as all nodes see it.                                        *)

GetNodes(infos) == {infos[x].node : x \in DOMAIN infos}

\* Nodes in handshake have no role yet.
getConfigSignature(nodes) ==
  {<<n.id, n.slots>> : n \in {n \in nodes : GetRole(n) = "Master"}}

ComputeStatus(infos) ==
  LET consolidated == getConfigSignature(GetNodes(infos))
  IN  \A x \in DOMAIN infos :
        getConfigSignature(infos[x].friends \cup {infos[x].node}) = consolidated

-----------------------------------------------------------------------------
(* Healing; sorted says whose friends ComputeStatus has sorted.            *)

Friends(infos, sorted, x) == IF x \in sorted THEN SortByFunc(infos[x]) ELSE infos[x].friends

\* Mutant: Status.Nodes is not looked at.
listFailedNodes(infos, sorted, statusNodes) ==
  {n.id : n \in {n \in UNION {Friends(infos, sorted, x) : x \in DOMAIN infos} : HasStatus(n)}}

\* statusNodes: the IDs in Status.Nodes.
listGhostNodes(infos, sorted, statusNodes) ==
  {n.id : n \in {n \in UNION {Friends(infos, sorted, x) : x \in DOMAIN infos} :
                   n.noaddr \/ (HasStatus(n) /\ n.id \notin statusNodes)}}

listUntrustedNodes(infos) == UNION {infos[x].handshakes : x \in DOMAIN infos}

\* The temporary ID of a node that answers under its own is left alone.
untrustedToForget(infos) == listUntrustedNodes(infos) \ DOMAIN infos

-----------------------------------------------------------------------------
(* The status.                                                             *)

nbMaster(infos) == Cardinality({n \in GetNodes(infos) : IsMasterWithSlot(n)})

\* The numbers of slaves that buildClusterStatus counts, per master; a master
\* that only its slaves name has an entry as well.
nbSlaveByMaster(infos) ==
  LET slaves == {n \in GetNodes(infos) : IsSlave(n)}
      masters == {n.id : n \in {n \in GetNodes(infos) : IsMasterWithSlot(n)}}
                   \cup {n.master : n \in slaves}
  IN  {Cardinality({n \in slaves : n.master = m}) : m \in masters}

MinReplicationFactor(infos) ==
  IF nbSlaveByMaster(infos) = {} THEN 0 ELSE Min(nbSlaveByMaster(infos))

MaxReplicationFactor(infos) == Max(nbSlaveByMaster(infos) \cup {0})

\* Mutant: missing slaves do not count.
needMasterOperation(infos, size, replicas) == nbMaster(infos) # size

needClusterOperation(infos, size, replicas) ==
  \/ nbMaster(infos) # size
  \/ MinReplicationFactor(infos) # replicas
  \/ MaxReplicationFactor(infos) # replicas

\* The status is only written when it changed: another number of nodes, or one
\* that is gone.
compareStatus(old, new) == Cardinality(old) # Cardinality(new) \/ ~(old \subseteq new)

-----------------------------------------------------------------------------
(* Masters and slaves.                                                     *)

\* c.nodes: the nodes of StatefulSet i.
sortRedisNodeByStatefulSet(infos, i) == {x \in DOMAIN infos : infos[x].sts = i}

currentMasters(infos) == {n.id : n \in {n \in GetNodes(infos) : IsMasterWithSlot(n)}}

\* The nodes PlaceMasters may return: the first one, in the random order of a
\* map, on a virtual machine without a master, or the first one of all.
PlaceMasters(infos, i, masters) ==
  LET nodes == sortRedisNodeByStatefulSet(infos, i)
      spread == {x \in nodes : \A m \in masters : infos[x].vm # infos[m].vm}
  IN  IF spread # {} THEN spread ELSE nodes

MastersOf(infos, i) == currentMasters(infos) \cap sortRedisNodeByStatefulSet(infos, i)

\* DispatchMasters returns an error: a StatefulSet without nodes, or a split brain.
DispatchFails(infos, size) ==
  \E i \in 0 .. size - 1 :
    \/ sortRedisNodeByStatefulSet(infos, i) = {}
    \/ Cardinality(MastersOf(infos, i)) > 1

\* What it may return otherwise: a master for each StatefulSet.
DispatchMasters(infos, size) ==
  LET masters == currentMasters(infos)
      stay == [i \in 0 .. size - 1 |-> MastersOf(infos, i)]
  IN  {new \in [0 .. size - 1 -> DOMAIN infos] :
         \A i \in 0 .. size - 1 :
           new[i] \in IF stay[i] # {} THEN stay[i]
                      ELSE PlaceMasters(infos, i, masters \cup {new[j] : j \in 0 .. i - 1})}

\* PlaceSlaves looks up a master for the StatefulSet of every node and
\* dereferences nil for one that DispatchMasters was not asked about.
PlaceSlavesPanics(infos, new) == \E x \in DOMAIN infos : infos[x].sts \notin DOMAIN new

\* Mutant: all slaves go to the first master.
PlaceSlavesTogether(infos, new) ==
  {<<x, new[0]>> : x \in {x \in DOMAIN infos :
     /\ \A i \in DOMAIN new : x # new[i]
     /\ infos[x].node.master # new[0]}}

\* Otherwise slavesByMaster, as pairs: a slave that has another master too.
PlaceSlaves(infos, new) ==
  {<<x, new[infos[x].sts]>> : x \in {x \in DOMAIN infos :
     /\ x # new[infos[x].sts]
     /\ infos[x].node.master # new[infos[x].sts]}}

=============================================================================
