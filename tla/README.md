# TLA+ models of Piko's routing fabric

These modules model the parts of Piko (`src/`) that run concurrently and share
state:

- the RPC stream that multiplexes calls over one agent connection;
- the cluster State each process keeps of which node has which endpoint;
- endpoint registration, and the gossip that spreads it;
- the dispatcher that routes each HTTP request, locally or to a peer.

The TLC configurations check them. PROJECT.json lists:

- the components;
- the runs;
- the mutants that show each property can fail;
- the map from each definition to the source lines it translates;
- the findings;
- the hazards.

## The system and how its parts interact

| Part | Source | State | Operations |
|---|---|---|---|
| RPC Stream | `src/pkg/rpc/stream.go` | `nextMessageID`, `writeCh` (cap 64), `responseHandlers`, `shutdown`, `shutdownCh`, `shutdownErr`, the connection | `RPC`, `Close`, `closeStream`, the `reader` and `writer` goroutines, one `handleRequest` goroutine per inbound request, `handleResponse`, `Monitor`/`heartbeat` |
| Cluster State | `src/unnamed/part_000` | `nodes` (ID → status and per-endpoint listener count), subscribers; one RWMutex | `AddLocalEndpoint`, `RemoveLocalEndpoint`, `AddNode`, `RemoveNode`, `UpdateRemoteStatus`, `UpdateRemoteEndpoint`, `RemoveRemoteEndpoint`, `LookupEndpoint`, `OnLocalEndpointUpdate` |
| Proxy | `src/unnamed/part_001` | none of its own; it uses the local proxy table and the remote proxy | `Request`, `AddConn`, `RemoveConn`, `endpointIDFromRequest` |
| Local proxy table, remote proxy, gossip adapter, `conn.Conn` | not in `src/` (modelled from `spec.md`) | the connections per endpoint; the gossip key-value state | add/remove a connection, forward over HTTP, publish and apply endpoint counts, read/write/close frames |
| CLI, status commands, tests, demo compose file | `src/unnamed/part_002`, `src/cli`, `src/tests`, `src/docs` | none shared | not modelled (see below) |

An agent connection carries an RPC Stream. The stream's lifetime is bracketed by
`Proxy.AddConn` and `Proxy.RemoveConn`. Each of these first updates the local
proxy table and then the cluster State, in two separate steps. Under the State
lock, `AddLocalEndpoint` and `RemoveLocalEndpoint` call the subscriber (the
gossip adapter) with the new absolute count. The adapter sends the count to
every peer. Each peer's adapter applies it as `UpdateRemoteEndpoint`, or as
`RemoveRemoteEndpoint` when the count is 0.

`Proxy.Request` handles each inbound HTTP request:

1. It tries the local table first.
2. If the table has no connection and the request is not marked
   `x-piko-forward: true`, it sets that header.
3. It asks `LookupEndpoint` for a node with a listener and forwards the request
   to that node's `Proxy.Request`.

## Modules

| Module | Models | Composition |
|---|---|---|
| `RPCStream` | One stream and a correct remote peer; `Monitor` loops as callers. | Refines `RPCService` through `Service == INSTANCE RPCService WITH ...`. |
| `RPCService` | What `RPC()` promises each caller (spec §7): its own response, "not supported", `StreamClosed` or its context's error, and it returns. | The abstract specification `RPCStream` implements. |
| `ClusterState` | One `State` per process. | Used by `Cluster` through `CS == INSTANCE ClusterState`, sharing its variables. |
| `Cluster` | Every process's proxy table, the two-step `AddConn`/`RemoveConn`, gossip delivery, and process crash and restart with the transport's membership events. | `EXTENDS` none; instances `ClusterState`. |
| `Proxy` | The dispatcher, per request. | `EXTENDS Cluster`, so requests are routed on views that change while they run. |

Each `MC_*` module gives the model values. Each `.cfg` file picks the constants
and the properties.

### RPCStream

Each goroutine is an actor with a `pc`:

- each caller of `RPC` (the set `Callers`);
- `reader`;
- `writer`;
- `app` (the caller of `Close`).

The `handleRequest` goroutines are the set `tasks`. Each Go `select` is a
disjunction of its ready cases. The connection is two FIFO queues of frames
(`toPeer`, `fromPeer`) plus `connFailed`. The peer answers each request by
echoing its payload, or with NotSupported for types it has no handler for. It
can send its own requests (`PeerRequest`).

Actions and the code they model:

| Action | Code |
|---|---|
| `RPCBegin` | ID allocation and handler registration, lines 95-107 |
| `RPCSend` | the first `select`, lines 109-115 |
| `RPCWait` | the second `select`, lines 117-127 |
| `CtxCancel` | the caller's context expiring, which makes the `ctx.Done()` cases ready |
| `Return` | the deferred unregister |
| `ReturnShutdownErr` | the shutdown cases |
| `CloseStream` | `closeStream`, lines 246-266, as four steps in the code's order: `CloseCAS` (the CAS and its early return, 247-250), `CloseSetErr` (`shutdownErr`, 252), `CloseCh` (`close(shutdownCh)`, 253-254), `CloseConn` (`conn.Close`, 256-258). Other goroutines run between the steps. |
| `ReaderRead` | a frame read, followed by `handleResponse`'s lookup or the spawning of `handleRequest` |
| `HandleResponse` | `handleResponse`'s lookup under the lock (lines 316-320); a found handler leaves the reader at pc `"deliver"` holding the message in `readerMsg` |
| `ReaderDeliver` | `ch <- m` after the unlock (lines 321-323): the send into the call's 1-slot chan, which the caller may already have left |
| `ReaderLoop` | the shutdown poll |
| `ReaderError` | a read error |
| `WriterStep` | the writer loop |
| `HandleRequest` | `handleRequest`, including the NotSupported path |
| `RegisterResponseHandler`, `FindResponseHandler` | the response-handler table, used by `RPCBegin` and `HandleResponse` |
| `MonitorCheck` | `Monitor`'s call of `heartbeat` and its error return, lines 139-142 |
| `heartbeat` | `heartbeat`'s result: nil exactly when its RPC returned a nil error, lines 357-367 |
| `MonitorTick` | `Monitor`'s select on `ctx.Done()`, `shutdownCh` and the ticker, lines 144-151 |
| `MonitorCancel` | cancellation of the `ctx` passed to `Monitor`, which the heartbeat's derived timeout context inherits (line 355) |

`ConnOpen` and `ConnFail` stand for `conn.Conn`, which is not in `src/`.

A caller in `Monitors` runs `Monitor()`. Its `RPC` calls are heartbeats
(`HeartbeatType`), and after each one it goes to `MonitorCheck` (pc `"beat"`)
and then to the select (pc `"tick"`), until it ends (pc `"done"`) with the error
in `monitorErr`. The heartbeat timeout is the call's own context cancellation
(`CtxCancel`). The ticker is bounded by `MaxCalls` only to keep the state
space finite; no property relies on it running out.

**Refinement.** `RPCService` has, per caller, a phase, a call count, whether
its context is done, the peer's answer to the current call, and the last
outcome. It also has whether the stream is closed and whether the connection
broke. The peer may answer a pending call, and a broken connection may lose
answers still on the wire. The peer may still answer after the stream is
closed: `closeStream` closes `shutdownCh` before `conn.Close`, and a frame can
cross in between. The mapping in `RPCStream`:

| Abstract | Concrete |
|---|---|
| `phase[c]` | `"calling"` while `pc[c]` is `"send"` or `"wait"` |
| `n` | `calls` |
| `cancelled[c]` | `ctxDone[c]` during a call |
| `reply[c]` | the flag of a response frame with the call's ID in `peerPending`, `fromPeer`, `readerMsg` or the call's chan (IDs are never reused) |
| `out` | `result` |
| `closed` | `shutdownCh` |
| `broken` | `connFailed` |

`ImplementsService == Service!Spec` includes the abstract fairness: a call that
can return does, and a broken connection closes the stream.

### ClusterState

Each exported mutator holds the State mutex for its whole body, so each is one
action. A count of 0 is treated the same as an absent key, because every method
reads them alike. `published` is what the subscriber was last told.
`metricNodes[p][s]` is the State's `Nodes` gauge with label `status = s`.
`addMetricsNode`, `removeMetricsNode` and `updateMetricsNode` (a Dec, then an
Inc) are part of the mutator that calls them, as in the code. `NewMetrics` is
the gauge after `NewState` has counted the local node.

### Cluster

| Definition | What it models |
|---|---|
| `AddConn` / `RemoveConn` | The local-table step. |
| `pending` | Holds the remote step of each call until `RegisterConn` runs it. `RegisterConn` runs the pending steps in any order, as concurrent connection goroutines would. |
| `RegisterConn` | Calls the `ClusterState` action and broadcasts its callback, still under the lock. |
| `ApplyUpdate` | A peer's adapter applying an update. When `Ordered` is `TRUE` it takes the oldest update; otherwise it takes any update. |

A process can crash (`Crash`, at most `MaxCrashes` times) and restart
(`Restart`). Nothing is persisted (spec: "Persisted state. None"):

- A crash loses the process's proxy table, its pending State calls, its State
  and the events sent to it.
- The events it sent are still delivered. The transport then reports it dead
  (`UpdateRemoteStatus(unreachable)`) and departed (`RemoveNode`) to every live
  peer.
- On restart it knows only itself. It and every live peer exchange "joined"
  events (`AddNode`).
- `Deliver` maps each event to its State call. A call about the local ID or an
  unknown node returns false and changes nothing.

### Proxy

`req[r]` holds:

- the endpoint ID, computed by `EndpointIDFromRequest` from the header and the
  labels of Host;
- the processes visited (`hops`);
- the `x-piko-forward` flag;
- the stage;
- the final status.

| Action | What it models |
|---|---|
| `Arrive` | A request reaching a process. The client may itself send the forward header. |
| `LocalAttempt` | Lines 79-111. |
| `RemoteAttempt` | Lines 113-145. |
| `ForwardArrive` | The forwarded request reaching the peer's dispatcher. |
| `ForwardFail` | A transport error, or the deadline firing while the peer is still working. |
| `ClusterStep` | A step of `Cluster`. A request whose first process crashes ends `"reset"` (the client's connection dies). A request held by a crashed forward target becomes `"orphan"`, and only `ForwardFail` can end it. |

`stable[r]` is a history variable. It records that `r` arrived from a client,
while the cluster was quiet and served the endpoint, and that no cluster step
has happened since.

## Runs

| Run | Checks | Shows |
|---|---|---|
| `rpc_safety` (`MC_RPCStream.cfg`) | `TypeOK`, `ResponseIsOwn` | Two callers, a peer request, cancellations, `Close` and connection failure, with `closeStream` in steps: no caller is handed a response that is not its own, nor a nil error with an empty payload. |
| `rpc_liveness` (`MC_RPCStream_live.cfg`) | `TypeOK`, `MonitorErrNonNil`, `PeerRequestAnswered`, `NoGoroutineLeak` | The caller is a `Monitor` making heartbeats. Every request from the peer is answered while the connection is up. After shutdown, reader, writer and every handler goroutine end. `Monitor` never ends with a nil error, also when it wakes on `shutdownCh` between the steps of `closeStream`. |
| `rpc_crossing` (`MC_RPCStream_two.cfg`) | `RPCTerminates` | Two callers, each of whose response can arrive as its context expires: the reader's send into the call's chan after the lookup never blocks, and every RPC returns without help from a timeout. |
| `rpc_refinement` (`MC_RPCStream_refine.cfg`) | `ImplementsService` | Two callers whose calls cross on the wire, with cancellations, `Close` and connection failure: the stream implements `RPCService`. |
| `cluster_state` (`MC_ClusterState.cfg`) | `TypeOK`, `LocalViewAuthoritative` | No sequence of gossip calls, with any IDs, can remove, deactivate or overwrite a process's own node. Its counts equal what the subscriber was last told. |
| `cluster_state_metrics` (`MC_ClusterState_metrics.cfg`, expect violation) | `NodesMetricAccurate` | Two `AddNode` calls for one ID leave the gauge counting that node twice (finding below). |
| `cluster_ordered` (`MC_Cluster.cfg`) | `ClusterTypeOK`, `ViewsAgreeWhenQuiet` | Three processes, four connects/disconnects, FIFO gossip. Whenever nothing is in flight, every view equals every proxy table. |
| `cluster_crash` (`MC_Cluster_crash.cfg`) | `ClusterTypeOK`, `ViewsAgreeWhenQuiet`, `GaugesAccurate` | With one crash and restart and three connects/disconnects, the views still agree when quiet. This covers counts published by the old incarnation and the dead, departed and joined events. Every process's `Nodes` gauge matches its view throughout, also after a restart resets it. |
| `cluster_crash_twice` (`MC_Cluster_crash2.cfg`, module `MC_Cluster_sym`) | `ClusterTypeOK`, `ViewsAgreeWhenQuiet`, `GaugesAccurate` | Two crashes. A process can crash while another is still down, or crash again after it rejoined, while its joins and its peers' joins are still in flight. Views agree whenever quiet, and every gauge matches its view. This is a safety-only run, with the processes as a symmetry set. |
| `cluster_unordered` (`MC_Cluster_unordered.cfg`, expect violation) | `ViewsAgreeWhenQuiet` | The reordering the spec allows breaks convergence (finding below). |
| `proxy_routing` (`MC_Proxy.cfg`) | `ProxyTypeOK`, `NoFalseNotFound` | Requests routed while connections come and go: a request that arrives where the endpoint is served, on a quiet cluster, is never answered "not found", whatever order the local attempt and the loop guard meet it in. |

Each property has a mutant in PROJECT.json, a plausible bug in the mapped code
that TLC finds:

| Property | Mutant |
|---|---|
| `TypeOK` (RPC) | `writeCh` sends without waiting for room |
| `ResponseIsOwn`, `MonitorErrNonNil`, `ImplementsService` | `closeStream` closing `shutdownCh` before it sets `shutdownErr` |
| `RPCTerminates` | an unbuffered response chan, so the reader's send waits for a caller that may have gone |
| `PeerRequestAnswered` | no NotSupported reply |
| `NoGoroutineLeak` | no `conn.Close` |
| `TypeOK` (ClusterState) | `RemoveLocalEndpoint` without its count check |
| `LocalViewAuthoritative` | `AddNode` without its local-ID guard |
| `ClusterTypeOK` | the proxy table removing a connection it does not hold |
| `ViewsAgreeWhenQuiet` | no subscriber call when the key is deleted (`cluster_ordered`); `RemoveNode` that keeps a node no longer active (`cluster_crash`, `cluster_crash_twice`) |
| `GaugesAccurate` | `updateMetricsNode` with the old and new statuses swapped |
| `ProxyTypeOK` | the Host label taken without checking for a "." |
| `NoFalseNotFound` | the loop guard tested before the local attempt |

## Findings

**spec_gap (`cluster_unordered`).** Spec §5 says that out-of-order delivery of
endpoint counts is benign because counts are absolute: "the final converged
value is whatever the last delivered update asserted". TLC gives this
counterexample:

1. Process n1 publishes 1.
2. Then n1 publishes 2.
3. A peer applies 2, then 1.
4. The peer is left believing n1 has 1 listener while n1 has 2.

The last *delivered* value is not the last *sent* one. Absolute counts converge
only with in-order delivery per sender, or with a version to compare.
`UpdateRemoteEndpoint` (part_000:260) has neither.

**code_bug (`cluster_state_metrics`).** `AddNode` on an ID that is already in
the map overwrites the node. The code warns that this "should not happen" and
then calls `addMetricsNode(node.Status)` (part_000:188). It never calls
`removeMetricsNode` for the node it replaced. After two `AddNode` calls for n2,
n1's gauge reads `active = 3` while n1 holds two active nodes, and the error is
permanent. In the composed `Cluster` model the transport reports a join only for
a node the peer does not hold, and `GaugesAccurate` holds there. A repeated
join event breaks the gauge.

## Bounds and why they are enough

| Model | Bounds | Why |
|---|---|---|
| RPCStream, safety | 2 callers with 1 call each, `writeCh` capacity 1, 1 peer request | Two callers are needed for responses to cross. A capacity of 1 makes the channel fill, so the blocking send is exercised. |
| RPCStream, liveness | 1 caller with 2 calls | Makes IDs and handlers be reused across calls. The peer-request and leak properties are checked with 1 caller to keep the state space within minutes. |
| RPCStream, crossing | 2 callers with 1 call each, capacity 1, no peer request, no `Monitor` | Two callers are needed for a response to sit in the reader while its caller leaves: with one caller the reader's send has no other goroutine to wait behind. |
| RPCStream, refinement | 2 callers with 1 call each, capacity 1, no peer request | Two callers make responses cross, which is what the ID mapping must survive. The peer's own requests are checked by the other runs and left out to keep the run within minutes. |
| ClusterState | 2 processes, 2 endpoints, at most 2 listeners, every argument | `cluster_state` keys states by `StateView` (the map and `published`): no guard reads the gauge, and its properties do not mention it. `cluster_state_metrics` bounds the gauge at `MaxGauge`, the number of processes, because duplicate `AddNode` calls make it grow without bound. |
| Cluster | 3 processes, 1 endpoint, at most 2 listeners, 4 connects/disconnects | Enough for two connections of one endpoint to overlap on one process while their updates are in flight to two peers. That is the shortest interleaving that tells ordered from unordered delivery. With a crash: 1 crash, 1 listener and 3 connects/disconnects, enough for a restarted process to rejoin while peers still hold counts its old incarnation published. `cluster_crash_twice` allows 2 crashes with the same listener and churn bounds. This is the smallest bound at which one process can go down while another is down, or go down again after rejoining. |
| Proxy | 2 processes, 1 request, 4 connects/disconnects, 1 listener | Enough for both processes to hold stale views pointing at each other, which is what the loop guard is for. One crash. |

Model values are strings, not symmetry sets, in the runs that check liveness.
`cluster_crash_twice` checks safety only, and `MC_Cluster_sym` declares the processes as
model values with `SYMMETRY NodeSymmetry`. This is sound because no definition
singles out a process. With a third crash the run takes over four minutes, so it
stops at two.

## Fairness

- **RPCStream.** Reader, writer, handler goroutines and the peer are weakly
  fair. A send on the shared `writeCh` is strongly fair, because Go queues
  blocked senders FIFO. Callers, `ctx` cancellation, `Close`, connection failure
  and peer requests have no fairness: they are the environment. `Monitor`'s
  loop is weakly fair (its ticker fires), and so is its start of each
  heartbeat; cancelling its `ctx` is not fair.
- **Cluster.** Connection goroutines finish their State call, and the gossip
  transport delivers what it was given (weak fairness). Agents connecting and
  disconnecting are not fair. A crashed process is restarted (weak fairness);
  crashes are not fair.
- **Proxy.** The HTTP server's goroutine for a request runs (weak fairness).
  A forward failure is weakly fair: a forward whose target died ends at the
  gateway timeout.

No run checks a liveness property of `Cluster` or `Proxy`: the ones stated
(views converge, every request is answered) held by the shape of the fairness
alone. The fairness is kept in their specifications for a later composition.

## Not modelled

- The CLI (`part_002`, `cli/status`): command wiring and HTTP calls to the admin
  API that print what they get. This is pure I/O with no shared state.
- The system tests and the demo compose file.
- `recoverPanic`: the model has no panics to recover from.
- Read-only copies from `State` (`Node`, `Nodes`, `LocalNode`), and logging.
- The HTTP forwarder's wire format and the JSON error body.
- Round-robin choice among local connections.
- A peer that breaks the protocol, for example by sending two responses with
  one ID. The peer is a correct Piko end.
- The header codec (`header.Encode`/`Decode`). It is not in `src/`, and it
  would be modelled only from the spec.

The comment on `Proxy.Request` says that a missing endpoint ID gives 401. The
code returns 400 (`http.StatusBadRequest`). The model follows the code.

## Plan for later sittings

1. Give the local proxy table's connections a stream each (compose `RPCStream`
   per agent connection with `Proxy`), so that a request served locally can
   fail with `StreamClosed`.
2. `LookupEndpoint` ignores `Status` (part_000:94), as spec.md allows; a
   property about forwarding to unreachable nodes needs a stated contract
   first.
3. Larger instances of `cluster_crash` (two crashes, two endpoints), if they fit
   in the time limit.
