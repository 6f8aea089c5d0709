-------------------------------- MODULE Proxy --------------------------------
(***************************************************************************)
(* Proxy.Request (src/unnamed/part_001): the dispatcher every Piko process *)
(* runs for each inbound HTTP request. It tries a connection of its local  *)
(* proxy table first; when the endpoint has none there and the request was *)
(* not itself forwarded, it marks it x-piko-forward: true and hands it to  *)
(* the remote proxy, which asks the cluster State (LookupEndpoint) for a   *)
(* node with a listener and forwards the request to that node's proxy.    *)
(*                                                                         *)
(* The model composes the dispatcher with Cluster, so requests are routed *)
(* by views that churn and gossip keep changing underneath them. A request *)
(* is followed along the nodes it visits (hops). The local and remote      *)
(* proxies are not in src/ and are modelled from the spec: the local one  *)
(* serves a request iff the proxy table has a connection for the endpoint *)
(* and returns the agent's response, a deadline or another error; the     *)
(* remote one returns the peer's HTTP response, or fails in transport or   *)
(* by deadline, also while the peer is still working on the request.     *)
(***************************************************************************)
EXTENDS Cluster

CONSTANTS
  Reqs   \* inbound HTTP requests from clients

\* A Host header as its dot-separated labels: <<>> is no Host, one label
\* contains no ".".
Hosts == {<<>>, <<"piko">>} \cup {<<e, "piko">> : e \in Endpoints}

\* Mutant: the first label of Host is taken without checking for a ".".
EndpointIDFromRequestNoDotCheck(hdr, host) ==
  IF hdr # "" THEN hdr
  ELSE IF Len(host) > 0 THEN host[1]
  ELSE ""

\* endpointIDFromRequest: x-piko-endpoint takes precedence, else the label
\* before the first "." of Host, else "".
EndpointIDFromRequest(hdr, host) ==
  IF hdr # "" THEN hdr
  ELSE IF Len(host) > 1 THEN host[1]
  ELSE ""

Stages == {"none", "local", "remote", "forward", "orphan", "done"}
Statuses == {"none", "upstream", "400", "503 unreachable", "503 not found", "504",
             "reset"}

VARIABLES
  req,     \* req[r]: the request's endpoint ID, hops, x-piko-forward
           \*   header, stage at the last hop and final status
  stable   \* stable[r]: r came from a client without x-piko-forward, it
           \*   arrived when the cluster was quiet with a connection for its
           \*   endpoint, and the cluster has not changed since

proxyVars == <<req, stable>>
vars == <<clusterVars, proxyVars>>

Here(r) == req[r].hops[Len(req[r].hops)]

Finish(r, st) == req' = [req EXCEPT ![r].stage = "done", ![r].status = st]

\* Whether some process's proxy table has a connection for e.
Served(e) == \E p \in Nodes : e \in DOMAIN conns[p] /\ conns[p][e] > 0

InFlight(r) == req[r].stage \notin {"none", "done"}

-----------------------------------------------------------------------------
\* A client sends request r to process p, with or without the forward
\* header (a client can set it too).
Arrive(r, p, hdr, host, fwd) ==
  /\ req[r].stage = "none" /\ up[p]
  /\ LET e == EndpointIDFromRequest(hdr, host) IN
       /\ req' = [req EXCEPT ![r] = [ep |-> e, hops |-> <<p>>,
                    forwarded |-> fwd, stage |-> "local", status |-> "none"]]
       /\ stable' = [stable EXCEPT ![r] = ~fwd /\ Quiet /\ e # "" /\ Served(e)]
  /\ UNCHANGED clusterVars

\* Mutant: the loop guard is tested before the local attempt, so a
\* forwarded request is refused even where the endpoint is connected.
LocalAttemptGuardFirst(r) ==
  LET p == Here(r)  e == req[r].ep IN
  /\ req[r].stage = "local" /\ up[p]
  /\ \/ e = "" /\ Finish(r, "400")
     \/ e # "" /\ req[r].forwarded /\ Finish(r, "503 not found")
     \/ /\ e # "" /\ ~req[r].forwarded /\ conns[p][e] > 0
        /\ \E st \in {"upstream", "504", "503 unreachable"} : Finish(r, st)
     \/ /\ e # "" /\ ~req[r].forwarded /\ conns[p][e] = 0
        /\ req' = [req EXCEPT ![r].stage = "remote", ![r].forwarded = TRUE]
  /\ UNCHANGED <<clusterVars, stable>>

\* The start of Request at the request's current process: a missing
\* endpoint ID is a 400; a local connection serves it and its error is
\* classified; with none, a forwarded request ends "not found" and any
\* other is marked forwarded and goes to the remote proxy.
LocalAttempt(r) ==
  LET p == Here(r)  e == req[r].ep IN
  /\ req[r].stage = "local" /\ up[p]
  /\ \/ e = "" /\ Finish(r, "400")
     \/ /\ e # "" /\ conns[p][e] > 0
        /\ \E st \in {"upstream", "504", "503 unreachable"} : Finish(r, st)
     \/ /\ e # "" /\ conns[p][e] = 0 /\ req[r].forwarded
        /\ Finish(r, "503 not found")
     \/ /\ e # "" /\ conns[p][e] = 0 /\ ~req[r].forwarded
        /\ req' = [req EXCEPT ![r].stage = "remote", ![r].forwarded = TRUE]
  /\ UNCHANGED <<clusterVars, stable>>

\* remote.Request: no node in the State's view has a listener, or the
\* request is sent to one that has, which runs Request on it.
RemoteAttempt(r) ==
  LET p == Here(r) IN
  /\ req[r].stage = "remote" /\ up[p]
  /\ \/ CS!LookupEndpoint(p, req[r].ep) = {} /\ Finish(r, "503 not found")
     \/ \E q \in CS!LookupEndpoint(p, req[r].ep) :
          req' = [req EXCEPT ![r].hops = Append(@, q), ![r].stage = "forward"]
  /\ UNCHANGED <<clusterVars, stable>>

\* The forwarded request reaches the peer's dispatcher.
ForwardArrive(r) ==
  /\ req[r].stage = "forward" /\ up[Here(r)]
  /\ req' = [req EXCEPT ![r].stage = "local"]
  /\ UNCHANGED <<clusterVars, stable>>

\* The forward fails before the peer answers: a transport error, or the
\* origin's deadline while the peer is still working on it.
ForwardFail(r) ==
  /\ Len(req[r].hops) > 1
  /\ req[r].stage \in {"forward", "local", "remote", "orphan"}
  /\ \E st \in {"504", "503 unreachable"} : Finish(r, st)
  /\ UNCHANGED <<clusterVars, stable>>

\* A step of the cluster: agents (dis)connecting, State calls, gossip,
\* crashes and restarts. A request whose first process crashes is lost
\* with the client's connection; one whose forward target crashes is left
\* for the origin's deadline or transport error.
ClusterStep ==
  /\ ClusterNext
  /\ stable' = [r \in Reqs |-> stable[r] /\ req[r].stage = "done"]
  /\ req' = [r \in Reqs |->
       IF InFlight(r) /\ ~up'[req[r].hops[1]]
         THEN [req[r] EXCEPT !.stage = "done", !.status = "reset"]
       ELSE IF InFlight(r) /\ ~up'[Here(r)]
         THEN [req[r] EXCEPT !.stage = "orphan"]
       ELSE req[r]]

ProxyInit ==
  /\ ClusterInit
  /\ req = [r \in Reqs |-> [ep |-> "", hops |-> <<>>, forwarded |-> FALSE,
                            stage |-> "none", status |-> "none"]]
  /\ stable = [r \in Reqs |-> FALSE]

ProxyNext ==
  \/ ClusterStep
  \/ \E r \in Reqs :
       \/ \E p \in Nodes, hdr \in Endpoints \cup {""}, host \in Hosts,
             fwd \in BOOLEAN : Arrive(r, p, hdr, host, fwd)
       \/ LocalAttempt(r) \/ RemoteAttempt(r)
       \/ ForwardArrive(r) \/ ForwardFail(r)

\* The HTTP server's goroutine for a request runs to completion, and a
\* forward that gets no answer ends at the gateway timeout; clients and
\* agents are not fair.
ProxyFairness ==
  /\ ClusterFairness
  /\ \A r \in Reqs : WF_vars(LocalAttempt(r) \/ RemoteAttempt(r) \/ ForwardArrive(r))
  /\ \A r \in Reqs : WF_vars(ForwardFail(r))

ProxySpec == ProxyInit /\ [][ProxyNext]_vars /\ ProxyFairness

-----------------------------------------------------------------------------
ProxyTypeOK ==
  /\ ClusterTypeOK
  /\ \A r \in Reqs :
       /\ req[r].ep \in Endpoints \cup {""}
       /\ req[r].hops \in Seq(Nodes)
       /\ req[r].forwarded \in BOOLEAN
       /\ req[r].stage \in Stages
       /\ req[r].status \in Statuses
  /\ stable \in [Reqs -> BOOLEAN]

\* Routing is complete on a converged cluster: a request that is not sent
\* with a forged x-piko-forward header, arriving when every view agrees
\* and some process has a connection for its endpoint, is not answered
\* "endpoint not found" if nothing changes in the cluster while it runs.
NoFalseNotFound ==
  \A r \in Reqs :
    stable[r] /\ req[r].stage = "done" => req[r].status # "503 not found"

=============================================================================
