------------------------------- MODULE Cluster -------------------------------
(***************************************************************************)
(* Endpoint registration and membership across the cluster. Agents        *)
(* connect to and disconnect from Piko processes; each process's State    *)
(* (ClusterState) follows its local connections; the gossip adapter       *)
(* carries every change of a local listener count to the other processes, *)
(* and the membership transport tells them when a process dies or joins.  *)
(* A process can crash and restart: it keeps nothing (spec: "Persisted     *)
(* state. None"), its agents' connections die with it, and it rejoins     *)
(* knowing only itself.                                                    *)
(*                                                                         *)
(* Proxy.AddConn / RemoveConn (src/unnamed/part_001) first update the      *)
(* local proxy table, then the cluster State: two steps under two locks.   *)
(* The local proxy table, the gossip adapter and the transport are not in *)
(* src/ and are modelled from the spec (4.3, 4.6):                        *)
(*  - the table counts connections per endpoint;                           *)
(*  - each subscriber call (e, count) becomes an update to every live      *)
(*    peer, applied there as UpdateRemoteEndpoint(count), or               *)
(*    RemoveRemoteEndpoint when count is 0;                                *)
(*  - "peer joined" is AddNode with the peer's metadata; "peer declared    *)
(*    dead" is UpdateRemoteStatus(unreachable), followed later by         *)
(*    RemoveNode on confirmed departure.                                   *)
(* The transport's events about p reach q through the channel msgs[p][q],  *)
(* after what p sent before; Ordered makes that channel FIFO, otherwise    *)
(* it delivers in any order, as the spec allows.                           *)
(***************************************************************************)
EXTENDS Integers, Sequences, FiniteSets, TLC

CONSTANTS
  Nodes, Endpoints, MaxListeners,
  MaxChurn,    \* bound on agent connects plus disconnects
  MaxCrashes,  \* bound on process crashes
  Ordered      \* TRUE: what p's channel carries to q arrives in order

VARIABLES
  nodes, published,  \* the State of every process (ClusterState)
  metricNodes,       \* and its Nodes gauge
  conns,             \* conns[p][e]: connections in p's local proxy table
  pending,           \* pending[p][e]: Proxy.AddConn/RemoveConn calls on p
                     \*   that updated the table but not yet the State
  msgs,              \* msgs[p][q]: gossip and transport events about p, to q
  up,                \* up[p]: process p is running
  churn,             \* agent connects and disconnects so far
  crashes            \* process crashes so far

CS == INSTANCE ClusterState

stateVars == <<nodes, published, metricNodes>>
clusterVars == <<nodes, published, metricNodes, conns, pending, msgs, up,
                 churn, crashes>>

Update(e, k) == [kind |-> "update", ep |-> e, count |-> k]
Join(n)      == [kind |-> "join", node |-> n]
Dead         == [kind |-> "dead"]
Left         == [kind |-> "left"]

FreshNode == [status |-> "active", endpoints |-> CS!NoListeners]

Drop(s, i) == SubSeq(s, 1, i - 1) \o SubSeq(s, i + 1, Len(s))

\* The subscriber callback: send <<e, count>> to every live peer.
Broadcast(p, e, k) ==
  msgs' = [msgs EXCEPT ![p] = [q \in Nodes |->
             IF q # p /\ up[q] THEN Append(@[q], Update(e, k)) ELSE @[q]]]

\* An agent connects to p for e: p.local.AddConn(conn).
AddConn(p, e) ==
  /\ up[p] /\ churn < MaxChurn /\ conns[p][e] < MaxListeners
  /\ conns' = [conns EXCEPT ![p][e] = @ + 1]
  /\ pending' = [pending EXCEPT ![p][e] = Append(@, "add")]
  /\ churn' = churn + 1
  /\ UNCHANGED <<stateVars, msgs, up, crashes>>

\* Mutant: the table removes a connection for e whether or not it holds one.
RemoveConnUnchecked(p, e) ==
  /\ up[p] /\ churn < MaxChurn
  /\ conns' = [conns EXCEPT ![p][e] = @ - 1]
  /\ pending' = [pending EXCEPT ![p][e] = Append(@, "remove")]
  /\ churn' = churn + 1
  /\ UNCHANGED <<stateVars, msgs, up, crashes>>

\* The agent's connection ends: p.local.RemoveConn(conn). The goroutine
\* serving a connection calls RemoveConn after its AddConn returned, so the
\* connection is one whose AddConn has updated the State.
RemoveConn(p, e) ==
  /\ up[p] /\ churn < MaxChurn
  /\ conns[p][e] > Len(SelectSeq(pending[p][e], LAMBDA x : x = "add"))
  /\ conns' = [conns EXCEPT ![p][e] = @ - 1]
  /\ pending' = [pending EXCEPT ![p][e] = Append(@, "remove")]
  /\ churn' = churn + 1
  /\ UNCHANGED <<stateVars, msgs, up, crashes>>

\* p.remote.AddConn / RemoveConn: AddLocalEndpoint or RemoveLocalEndpoint,
\* whose subscriber call is broadcast under the State lock. Calls of
\* different connections run concurrently; this takes any pending one.
RegisterConn(p, e) ==
  /\ up[p]
  /\ \E i \in 1..Len(pending[p][e]) :
       /\ IF pending[p][e][i] = "add" THEN CS!AddLocalEndpoint(p, e)
                                      ELSE CS!RemoveLocalEndpoint(p, e)
       /\ pending' = [pending EXCEPT ![p][e] = Drop(@, i)]
  /\ Broadcast(p, e, published'[p][e])
  /\ UNCHANGED <<conns, up, churn, crashes>>

\* The adapter of q hands event u about p to q's State. A State call for
\* the local ID or an unknown node returns false and changes nothing.
Deliver(q, p, u) ==
  CASE u.kind = "join" -> CS!AddNode(q, p, u.node)
    [] ~CS!IsRemote(q, p) -> UNCHANGED stateVars
    [] u.kind = "dead" -> CS!UpdateRemoteStatus(q, p, "unreachable")
    [] u.kind = "left" -> CS!RemoveNode(q, p)
    [] u.count > 0 -> CS!UpdateRemoteEndpoint(q, p, u.ep, u.count)
    [] OTHER -> CS!RemoveRemoteEndpoint(q, p, u.ep)

\* The adapter of the live process q takes the i-th event of p's channel.
ApplyUpdate(p, q, i) ==
  /\ up[q] /\ i \in 1..Len(msgs[p][q])
  /\ Ordered => i = 1
  /\ Deliver(q, p, msgs[p][q][i])
  /\ msgs' = [msgs EXCEPT ![p][q] = Drop(@, i)]
  /\ UNCHANGED <<conns, pending, up, churn, crashes>>

\* Process p dies. Its connections and in-progress calls die with it, and
\* what was sent to it is lost; what it sent is still delivered, and the
\* transport then reports it dead and, later, departed to every live peer.
Crash(p) ==
  /\ up[p] /\ crashes < MaxCrashes
  /\ up' = [up EXCEPT ![p] = FALSE]
  /\ conns' = [conns EXCEPT ![p] = CS!NoListeners]
  /\ pending' = [pending EXCEPT ![p] = [e \in Endpoints |-> <<>>]]
  /\ nodes' = [nodes EXCEPT ![p] = (p :> FreshNode)]
  /\ published' = [published EXCEPT ![p] = CS!NoListeners]
  /\ metricNodes' = [metricNodes EXCEPT ![p] = CS!NewMetrics]
  /\ msgs' = [q \in Nodes |-> [r \in Nodes |->
                IF r = p THEN <<>>
                ELSE IF q = p /\ up[r] THEN msgs[q][r] \o <<Dead, Left>>
                ELSE msgs[q][r]]]
  /\ crashes' = crashes + 1
  /\ UNCHANGED churn

\* Process p starts again with NewState(local node): it and every live peer
\* learn of each other through the transport's "joined" events.
Restart(p) ==
  /\ ~up[p]
  /\ up' = [up EXCEPT ![p] = TRUE]
  /\ msgs' = [q \in Nodes |-> [r \in Nodes |->
                IF q = p /\ up[r] THEN Append(msgs[q][r], Join(FreshNode))
                ELSE IF r = p /\ up[q] THEN Append(msgs[q][r], Join(nodes[q][q]))
                ELSE msgs[q][r]]]
  /\ UNCHANGED <<stateVars, conns, pending, churn, crashes>>

ClusterInit ==
  /\ nodes = [p \in Nodes |-> [q \in Nodes |-> FreshNode]]
  /\ published = [p \in Nodes |-> CS!NoListeners]
  /\ metricNodes = [p \in Nodes |-> [s \in CS!Statuses |->
                      IF s = "active" THEN Cardinality(Nodes) ELSE 0]]
  /\ conns = [p \in Nodes |-> CS!NoListeners]
  /\ pending = [p \in Nodes |-> [e \in Endpoints |-> <<>>]]
  /\ msgs = [p \in Nodes |-> [q \in Nodes |-> <<>>]]
  /\ up = [p \in Nodes |-> TRUE]
  /\ churn = 0
  /\ crashes = 0

ClusterNext ==
  \E p \in Nodes :
    \/ \E e \in Endpoints : AddConn(p, e) \/ RemoveConn(p, e) \/ RegisterConn(p, e)
    \/ \E q \in Nodes \ {p} : \E i \in 1..Len(msgs[p][q]) : ApplyUpdate(p, q, i)
    \/ Crash(p) \/ Restart(p)

\* The goroutine serving a connection finishes its call into the State,
\* the transport delivers what it was given, and a crashed process is
\* restarted; agents connecting and processes crashing are not fair.
ClusterFairness ==
  \A p \in Nodes :
    /\ \A e \in Endpoints : WF_clusterVars(RegisterConn(p, e))
    /\ \A q \in Nodes \ {p} :
         WF_clusterVars(\E i \in 1..Len(msgs[p][q]) : ApplyUpdate(p, q, i))
    /\ WF_clusterVars(Restart(p))

ClusterSpec == ClusterInit /\ [][ClusterNext]_clusterVars /\ ClusterFairness

-----------------------------------------------------------------------------
Events == {Update(e, k) : e \in Endpoints, k \in 0..MaxListeners}
            \cup {Dead, Left} \cup {Join(n) : n \in CS!Node}

ClusterTypeOK ==
  /\ CS!TypeOK
  /\ conns \in [Nodes -> [Endpoints -> 0..MaxListeners]]
  /\ pending \in [Nodes -> [Endpoints -> Seq({"add", "remove"})]]
  /\ msgs \in [Nodes -> [Nodes -> Seq(Events)]]
  /\ up \in [Nodes -> BOOLEAN]
  /\ churn \in 0..MaxChurn /\ crashes \in 0..MaxCrashes

\* No connection call and no gossip or transport event is in flight.
Quiet ==
  /\ \A p \in Nodes, e \in Endpoints : pending[p][e] = <<>>
  /\ \A p, q \in Nodes : msgs[p][q] = <<>>

\* The view a live process q should hold of process p: an active node
\* with p's proxy-table counts while p runs, no entry once p is down.
Agrees(q, p) ==
  IF up[p] THEN p \in DOMAIN nodes[q]
                /\ nodes[q][p] = [status |-> "active", endpoints |-> conns[p]]
           ELSE p \notin DOMAIN nodes[q]

\* Whenever the cluster is quiet, every live process's view of every
\* process is the truth: live ones active with the counts of their proxy
\* tables, crashed ones gone. Violating it takes a connect and a disconnect
\* on one process, or a crash and restart, whose events are applied in the
\* wrong order or not at all on another.
ViewsAgreeWhenQuiet ==
  Quiet => \A p, q \in Nodes : up[q] => Agrees(q, p)

\* Every process's Nodes gauge matches its view (ClusterState's
\* NodesMetricAccurate) through joins, deaths, departures and restarts:
\* the transport reports a join only for a node the peer does not hold.
GaugesAccurate == CS!NodesMetricAccurate

=============================================================================
