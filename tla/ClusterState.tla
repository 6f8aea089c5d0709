---------------------------- MODULE ClusterState ----------------------------
(***************************************************************************)
(* server/cluster State (src/unnamed/part_000): the view each Piko process *)
(* keeps of the cluster, i.e. the nodes it knows and, for each node, the   *)
(* number of listeners it has per endpoint. Every process of Nodes owns   *)
(* one State, whose local node is the process itself.                      *)
(*                                                                         *)
(* Every public method takes the State's mutex for its whole body, so each *)
(* is one atomic action. A listener count of 0 and an absent key are read *)
(* alike by every method (LookupEndpoint tests > 0, RemoveLocalEndpoint   *)
(* tests !ok || == 0), so a node's Endpoints is a total function to Nat.  *)
(*                                                                         *)
(* The one subscriber of OnLocalEndpointUpdate is the gossip adapter; the  *)
(* server registers it before agents can connect, so it is part of Init.  *)
(* What it does with a callback, upsert the endpoint's count in the       *)
(* process's gossiped key-value state, is the variable published.          *)
(* metricNodes is the State's Nodes gauge, labelled by node status.        *)
(***************************************************************************)
EXTENDS Integers, FiniteSets, TLC

CONSTANTS
  Nodes,          \* IDs of the Piko processes
  Endpoints,      \* endpoint IDs
  MaxListeners    \* bound on a listener count

Statuses == {"active", "unreachable", "left"}
Counts   == 0..MaxListeners
Node     == [status: Statuses, endpoints: [Endpoints -> Counts]]

NoListeners == [e \in Endpoints |-> 0]

VARIABLES
  nodes,      \* nodes[p]: State.nodes of process p, a map from known IDs
  published,  \* published[p][e]: last count p's subscriber was called with
  metricNodes \* metricNodes[p][s]: p's Nodes gauge for status s

csVars == <<nodes, published, metricNodes>>

Local(p) == nodes[p][p]

\* Set (or overwrite) the node with ID id in process p's map.
Put(p, id, n) == nodes' = [nodes EXCEPT ![p] = (id :> n) @@ @]

\* Precondition shared by the gossip-sourced mutators: the ID is not the
\* local node's and is in the map; otherwise they log and return false.
IsRemote(p, id) == id # p /\ id \in DOMAIN nodes[p]

\* The Nodes gauge with label {"status": s}: Inc, Dec, or Dec then Inc.
addMetricsNode(p, s) == metricNodes' = [metricNodes EXCEPT ![p][s] = @ + 1]
removeMetricsNode(p, s) == metricNodes' = [metricNodes EXCEPT ![p][s] = @ - 1]

\* Mutant: the old and new statuses are passed the wrong way round.
updateMetricsNodeSwapped(p, old, new) ==
  metricNodes' = [metricNodes EXCEPT ![p][new] = @ - 1, ![p][old] = @ + 1]

updateMetricsNode(p, old, new) ==
  metricNodes' = [metricNodes EXCEPT ![p][old] = @ - 1, ![p][new] = @ + 1]

-----------------------------------------------------------------------------
(* Mutators of the local node.                                            *)

\* Node.Endpoints[endpointID]++ and call every subscriber with the count.
AddLocalEndpoint(p, e) ==
  LET new == Local(p).endpoints[e] + 1 IN
  /\ new <= MaxListeners
  /\ Put(p, p, [Local(p) EXCEPT !.endpoints[e] = new])
  /\ published' = [published EXCEPT ![p][e] = new]
  /\ UNCHANGED metricNodes

\* Mutant: the key is deleted at 0 without calling the subscribers.
RemoveLocalEndpointNoNotifyOnDelete(p, e) ==
  LET old == Local(p).endpoints[e] IN
  /\ old > 0
  /\ Put(p, p, [Local(p) EXCEPT !.endpoints[e] = old - 1])
  /\ published' = [published EXCEPT ![p][e] = IF old = 1 THEN @ ELSE old - 1]
  /\ UNCHANGED metricNodes

\* Mutant: no "endpoint not found" check; the count goes below zero.
RemoveLocalEndpointNoCheck(p, e) ==
  LET old == Local(p).endpoints[e] IN
  /\ Put(p, p, [Local(p) EXCEPT !.endpoints[e] = old - 1])
  /\ published' = [published EXCEPT ![p][e] = old - 1]
  /\ UNCHANGED metricNodes

\* With no listener, log and return without calling subscribers. Otherwise
\* decrement (deleting the key at 0) and call subscribers with
\* node.Endpoints[endpointID], which reads 0 once the key is deleted.
RemoveLocalEndpoint(p, e) ==
  LET old == Local(p).endpoints[e] IN
  /\ old > 0
  /\ Put(p, p, [Local(p) EXCEPT !.endpoints[e] = old - 1])
  /\ published' = [published EXCEPT ![p][e] = old - 1]
  /\ UNCHANGED metricNodes

-----------------------------------------------------------------------------
(* Mutators of remote nodes, called by the gossip adapter. A call for the *)
(* local ID or (except AddNode) an unknown ID changes nothing; it is not  *)
(* an action here, being a no-op step.                                     *)

\* Mutant: AddNode without its "cannot add local node" guard.
AddNodeNoLocalGuard(p, id, n) ==
  /\ Put(p, id, n)
  /\ addMetricsNode(p, n.status)
  /\ UNCHANGED published

\* Insert, or overwrite with a warning, the node n under ID id, and count
\* it in the gauge of its status.
AddNode(p, id, n) ==
  /\ id # p
  /\ Put(p, id, n)
  /\ addMetricsNode(p, n.status)
  /\ UNCHANGED published

\* Mutant: a node no longer marked active is kept (returns false).
RemoveNodeOnlyIfActive(p, id) ==
  /\ IsRemote(p, id)
  /\ nodes' = IF nodes[p][id].status = "active"
               THEN [nodes EXCEPT ![p] = [x \in DOMAIN @ \ {id} |-> @[x]]]
               ELSE nodes
  /\ metricNodes' = IF nodes[p][id].status = "active"
                     THEN [metricNodes EXCEPT ![p]["active"] = @ - 1]
                     ELSE metricNodes
  /\ UNCHANGED published

RemoveNode(p, id) ==
  /\ IsRemote(p, id)
  /\ nodes' = [nodes EXCEPT ![p] = [x \in DOMAIN @ \ {id} |-> @[x]]]
  /\ removeMetricsNode(p, nodes[p][id].status)
  /\ UNCHANGED published

UpdateRemoteStatus(p, id, st) ==
  /\ IsRemote(p, id)
  /\ nodes' = [nodes EXCEPT ![p][id].status = st]
  /\ updateMetricsNode(p, nodes[p][id].status, st)
  /\ UNCHANGED published

\* n.Endpoints[endpointID] = listeners: an absolute count, not a delta.
UpdateRemoteEndpoint(p, id, e, k) ==
  /\ IsRemote(p, id)
  /\ nodes' = [nodes EXCEPT ![p][id].endpoints[e] = k]
  /\ UNCHANGED <<published, metricNodes>>

RemoveRemoteEndpoint(p, id, e) ==
  /\ IsRemote(p, id)
  /\ nodes' = [nodes EXCEPT ![p][id].endpoints[e] = 0]
  /\ UNCHANGED <<published, metricNodes>>

-----------------------------------------------------------------------------
(* Reads.                                                                 *)

\* The IDs LookupEndpoint may return: any remote node with a listener for
\* e (Go map iteration order picks one), never the local node. The node's
\* status is not looked at.
LookupEndpoint(p, e) ==
  {id \in DOMAIN nodes[p] \ {p} : nodes[p][id].endpoints[e] > 0}

-----------------------------------------------------------------------------
\* NewState(localNode): the local node, forced active, is the only node,
\* and is counted in the gauge.
NewMetrics == [s \in Statuses |-> IF s = "active" THEN 1 ELSE 0]

Init ==
  /\ nodes = [p \in Nodes |-> (p :> [status |-> "active",
                                     endpoints |-> NoListeners])]
  /\ published = [p \in Nodes |-> NoListeners]
  /\ metricNodes = [p \in Nodes |-> NewMetrics]

\* Any caller of the State API with any arguments.
Next ==
  \E p \in Nodes :
    \/ \E e \in Endpoints : AddLocalEndpoint(p, e) \/ RemoveLocalEndpoint(p, e)
    \/ \E id \in Nodes, n \in Node : AddNode(p, id, n)
    \/ \E id \in Nodes : RemoveNode(p, id)
    \/ \E id \in Nodes, st \in Statuses : UpdateRemoteStatus(p, id, st)
    \/ \E id \in Nodes, e \in Endpoints, k \in Counts :
         UpdateRemoteEndpoint(p, id, e, k)
    \/ \E id \in Nodes, e \in Endpoints : RemoveRemoteEndpoint(p, id, e)

Spec == Init /\ [][Next]_csVars

-----------------------------------------------------------------------------
TypeOK ==
  /\ \A p \in Nodes : /\ DOMAIN nodes[p] \subseteq Nodes
                      /\ \A id \in DOMAIN nodes[p] : nodes[p][id] \in Node
  /\ published \in [Nodes -> [Endpoints -> Counts]]
  /\ metricNodes \in [Nodes -> [Statuses -> Int]]

\* The local node is the authority on this process's endpoints: whatever
\* the gossip adapter calls (AddNode, RemoveNode, UpdateRemote* with any
\* ID), the local node stays in the map, stays active, and its endpoint
\* table is exactly what the subscriber was last told for each endpoint.
LocalViewAuthoritative ==
  \A p \in Nodes :
    /\ p \in DOMAIN nodes[p]
    /\ Local(p).status = "active"
    /\ Local(p).endpoints = published[p]

\* The Nodes gauge of every process counts, for each status, the nodes its
\* State holds with that status: each insertion, removal and status
\* change must move the gauge by exactly what it does to the map, also
\* when AddNode overwrites a node already known.
NodesMetricAccurate ==
  \A p \in Nodes, s \in Statuses :
    metricNodes[p][s] = Cardinality({id \in DOMAIN nodes[p] : nodes[p][id].status = s})

=============================================================================
