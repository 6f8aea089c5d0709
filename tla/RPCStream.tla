----------------------------- MODULE RPCStream ------------------------------
(***************************************************************************)
(* One end of pkg/rpc/stream.go: a bi-directional RPC stream multiplexing  *)
(* request/response pairs over one message-oriented connection.           *)
(*                                                                         *)
(* Goroutines of the local end are actors with a program counter pc:      *)
(*   - Callers: goroutines calling RPC(), one call at a time each;        *)
(*   - "reader" and "writer": the two loops started by NewStream;         *)
(*   - "app": the owner of the stream, which may call Close();            *)
(*   - tasks: one handleRequest goroutine per incoming request frame;     *)
(*   - Monitors: callers that run Monitor(), a loop of heartbeat RPCs.     *)
(* The remote end runs the same code and is abstracted to what it does on *)
(* the wire: it answers each request frame once, in any order, with       *)
(* ErrNotSupported when it has no handler, and it may send requests.      *)
(* The connection is two FIFO queues of whole frames that the network may *)
(* fail at any moment, losing what is in flight.                          *)
(***************************************************************************)
EXTENDS Integers, Sequences, FiniteSets

CONSTANTS
  Callers,        \* goroutines calling RPC() on the local end
  RPCTypes,       \* RPC types that appear on the wire
  LocalHandled,   \* types the local Handler has a function for
  PeerHandled,    \* types the remote Handler has a function for
  MaxCalls,       \* bound on the calls each caller makes
  WriteChCap,     \* capacity of writeCh (64 in the code)
  PeerRequests,   \* bound on the requests the remote end sends
  NoPayload,      \* model value: an empty payload (nil []byte)
  Monitors,       \* callers running Monitor() instead of plain RPC() calls
  HeartbeatType   \* TypeHeartbeat

ASSUME /\ LocalHandled \subseteq RPCTypes /\ PeerHandled \subseteq RPCTypes
       /\ MaxCalls \in Nat \ {0} /\ WriteChCap \in Nat \ {0}
       /\ PeerRequests \in Nat
       /\ Monitors \subseteq Callers /\ HeartbeatType \in RPCTypes

Closers == {"reader", "writer", "app"}
Actors  == Callers \cup Closers
\* nextMessageID is a uint64 that starts at 0: with the calls bounded it
\* stays below Cardinality(Callers) * MaxCalls + 1 and never wraps.
IDs     == 0..(Cardinality(Callers) * MaxCalls)
PeerIDs == 1..PeerRequests

\* A request's payload names its caller and which of its calls it is, so a
\* response can be traced to the request it answers whatever its ID says.
Payloads == (Callers \X (1..MaxCalls)) \cup ({"peer"} \X PeerIDs) \cup {NoPayload}

Msg == [type: RPCTypes, id: Nat, response: BOOLEAN, notSupported: BOOLEAN,
        payload: Payloads]

VARIABLES
  nextMessageID,     \* stream.nextMessageID
  writeCh,           \* stream.writeCh
  responseHandlers,  \* the IDs that are keys of stream.responseHandlers
  slot,              \* slot[id]: buffer of the chan RPC() made for id (cap 1)
  tasks,             \* requests held by running handleRequest goroutines
  readerMsg,         \* <<m>>: the response whose chan the reader found
  shutdown,          \* stream.shutdown, the atomic flag
  shutdownCh,        \* TRUE once stream.shutdownCh is closed
  shutdownErr,       \* stream.shutdownErr: "nil" or "StreamClosed"
  connClosed,        \* conn.Close() was called
  connFailed,        \* the network failed the connection
  toPeer, fromPeer,  \* frames in flight in each direction
  peerPending,       \* responses the remote end has computed, not yet sent
  peerSent,          \* requests the remote end has sent
  peerAnswered,      \* remote requests whose response reached the remote end
  pc,                \* program counter of every actor
  rpcID,             \* rpcID[c]: ID of c's current call
  calls,             \* calls[c]: calls c has started
  ctxDone,           \* ctxDone[c]: the context of c's current call is done
  result,            \* result[c]: what c's last call returned
  parentDone,        \* parentDone[m]: the ctx passed to Monitor() is done
  monitorErr         \* monitorErr[m]: what Monitor() returned

streamVars == <<nextMessageID, writeCh, responseHandlers, slot, tasks, readerMsg>>
closeVars  == <<shutdown, shutdownCh, shutdownErr, connClosed>>
wireVars   == <<connFailed, toPeer, fromPeer, peerPending, peerSent, peerAnswered>>
monitorVars == <<parentDone, monitorErr>>
callerVars == <<rpcID, calls, ctxDone, result, monitorVars>>
vars == <<streamVars, closeVars, wireVars, callerVars, pc>>

\* Both ends can read and write while the conn neither failed nor closed.
ConnOpen == ~connFailed /\ ~connClosed

Goto(a, to) == pc' = [pc EXCEPT ![a] = to]

\* The response the Handler of an end with handled types H gives to m: its
\* function's result (modelled as an echo of the payload), or an empty
\* response flagged ErrNotSupported when H has no function for the type.
Answer(m, H) ==
  [type |-> m.type, id |-> m.id, response |-> TRUE,
   notSupported |-> m.type \notin H,
   payload |-> IF m.type \in H THEN m.payload ELSE NoPayload]

\* The response-handler table, keyed by message ID under its own mutex.
RegisterResponseHandler(id) == responseHandlers' = responseHandlers \cup {id}
FindResponseHandler(id) == id \in responseHandlers

-----------------------------------------------------------------------------
(* RPC(), registerResponseHandler, unregisterResponseHandler.             *)

\* s.nextMessageID.Inc(), make the chan and register it for the new ID.
RPCBegin(c) ==
  /\ pc[c] = "idle" /\ calls[c] < MaxCalls
  /\ nextMessageID' = nextMessageID + 1
  /\ rpcID' = [rpcID EXCEPT ![c] = nextMessageID + 1]
  /\ RegisterResponseHandler(nextMessageID + 1)
  /\ calls' = [calls EXCEPT ![c] = @ + 1]
  /\ ctxDone' = [ctxDone EXCEPT ![c] = c \in Monitors /\ parentDone[c]]
  /\ result' = [result EXCEPT ![c] = [kind |-> "none", payload |-> NoPayload]]
  /\ Goto(c, "send")
  /\ UNCHANGED <<readerMsg, writeCh, slot, tasks, closeVars, wireVars, monitorVars>>

\* Returning from RPC() runs the deferred unregisterResponseHandler; a
\* heartbeat returns into Monitor().
Return(c, kind, payload) ==
  /\ Goto(c, IF c \in Monitors THEN "beat" ELSE "idle")
  /\ responseHandlers' = responseHandlers \ {rpcID[c]}
  /\ result' = [result EXCEPT ![c] = [kind |-> kind, payload |-> payload]]

\* return nil, s.shutdownErr: a nil error reads as success with no payload.
ReturnShutdownErr(c) ==
  IF shutdownErr = "nil" THEN Return(c, "ok", NoPayload)
                         ELSE Return(c, "closed", NoPayload)

\* First select: enqueue the request of type t, or give up on shutdownCh or
\* ctx.Done(), whichever case is ready.
\* Mutant: the request is queued without waiting for room in writeCh, as
\* an unbounded queue in place of the buffered channel would.
RPCSendNoCapacity(c, t) ==
  /\ pc[c] = "send"
  /\ c \in Monitors => t = HeartbeatType
  /\ \/ /\ writeCh' = Append(writeCh,
             [type |-> t, id |-> rpcID[c], response |-> FALSE,
              notSupported |-> FALSE, payload |-> <<c, calls[c]>>])
        /\ Goto(c, "wait")
        /\ UNCHANGED <<responseHandlers, result>>
     \/ shutdownCh /\ ReturnShutdownErr(c) /\ UNCHANGED writeCh
     \/ ctxDone[c] /\ Return(c, "ctx", NoPayload) /\ UNCHANGED writeCh
  /\ UNCHANGED <<readerMsg, nextMessageID, slot, tasks, closeVars, wireVars,
                 rpcID, calls, ctxDone, monitorVars>>

RPCSend(c, t) ==
  /\ pc[c] = "send"
  /\ c \in Monitors => t = HeartbeatType
  /\ \/ /\ Len(writeCh) < WriteChCap
        /\ writeCh' = Append(writeCh,
             [type |-> t, id |-> rpcID[c], response |-> FALSE,
              notSupported |-> FALSE, payload |-> <<c, calls[c]>>])
        /\ Goto(c, "wait")
        /\ UNCHANGED <<responseHandlers, result>>
     \/ shutdownCh /\ ReturnShutdownErr(c) /\ UNCHANGED writeCh
     \/ ctxDone[c] /\ Return(c, "ctx", NoPayload) /\ UNCHANGED writeCh
  /\ UNCHANGED <<readerMsg, nextMessageID, slot, tasks, closeVars, wireVars,
                 rpcID, calls, ctxDone, monitorVars>>

\* Second select: the response on the chan, shutdownCh or ctx.Done().
RPCWait(c) ==
  /\ pc[c] = "wait"
  /\ \/ /\ slot[rpcID[c]] # <<>>
        /\ LET resp == Head(slot[rpcID[c]]) IN
             IF resp.notSupported THEN Return(c, "notSupported", NoPayload)
                                  ELSE Return(c, "ok", resp.payload)
        /\ slot' = [slot EXCEPT ![rpcID[c]] = Tail(@)]
     \/ shutdownCh /\ ReturnShutdownErr(c) /\ UNCHANGED slot
     \/ ctxDone[c] /\ Return(c, "ctx", NoPayload) /\ UNCHANGED slot
  /\ UNCHANGED <<readerMsg, nextMessageID, writeCh, tasks, closeVars, wireVars,
                 rpcID, calls, ctxDone, monitorVars>>

\* The context of c's call is cancelled or reaches its deadline.
CtxCancel(c) ==
  /\ pc[c] \in {"send", "wait"} /\ ~ctxDone[c]
  /\ ctxDone' = [ctxDone EXCEPT ![c] = TRUE]
  /\ UNCHANGED <<streamVars, closeVars, wireVars, pc, rpcID, calls, result,
                 monitorVars>>

-----------------------------------------------------------------------------
(* Monitor(ctx, interval, timeout) and heartbeat(): monitor m loops over a *)
(* heartbeat RPC, whose ctx (a timeout derived from Monitor's ctx) is      *)
(* ctxDone[m], and a select on ctx.Done(), shutdownCh and the ticker.      *)

\* The ctx passed to Monitor() is cancelled; the heartbeat's ctx with it.
MonitorCancel(m) ==
  /\ ~parentDone[m] /\ pc[m] # "done"
  /\ parentDone' = [parentDone EXCEPT ![m] = TRUE]
  /\ ctxDone' = [ctxDone EXCEPT ![m] = pc[m] \in {"send", "wait"} \/ @]
  /\ UNCHANGED <<streamVars, closeVars, wireVars, pc, rpcID, calls, result,
                 monitorErr>>

\* heartbeat() returns nil exactly when its RPC returned a nil error.
heartbeat(m) == result[m].kind = "ok"

\* Monitor's loop after heartbeat(): an error ends it with that error.
MonitorCheck(m) ==
  /\ pc[m] = "beat"
  /\ IF heartbeat(m) THEN Goto(m, "tick") /\ UNCHANGED monitorErr
     ELSE /\ Goto(m, "done")
          /\ monitorErr' = [monitorErr EXCEPT ![m] = "heartbeat"]
  /\ UNCHANGED <<streamVars, closeVars, wireVars, rpcID, calls, ctxDone,
                 result, parentDone>>

\* select: ctx.Done() returns ctx.Err(), shutdownCh returns s.shutdownErr,
\* ticker.C starts the next heartbeat (the heartbeats are bounded).
MonitorTick(m) ==
  /\ pc[m] = "tick"
  /\ \/ /\ parentDone[m] /\ Goto(m, "done")
        /\ monitorErr' = [monitorErr EXCEPT ![m] = "ctx"]
     \/ /\ shutdownCh /\ Goto(m, "done")
        /\ monitorErr' = [monitorErr EXCEPT ![m] =
                            IF shutdownErr = "nil" THEN "nil" ELSE "closed"]
     \/ calls[m] < MaxCalls /\ Goto(m, "idle") /\ UNCHANGED monitorErr
  /\ UNCHANGED <<streamVars, closeVars, wireVars, rpcID, calls, ctxDone,
                 result, parentDone>>

-----------------------------------------------------------------------------
(* closeStream(err), run by actor a (the reader, the writer or Close()), *)
(* one step per statement: the CAS, shutdownErr = ErrStreamClosed,        *)
(* close(shutdownCh), conn.Close(). Other goroutines run in between.      *)

\* if !s.shutdown.CompareAndSwap(false, true) { return ErrStreamClosed }
CloseCAS(a, next) ==
  /\ pc[a] = "close"
  /\ IF ~shutdown THEN shutdown' = TRUE /\ Goto(a, next)
                  ELSE Goto(a, "exit") /\ UNCHANGED shutdown
  /\ UNCHANGED <<shutdownCh, shutdownErr, connClosed>>

CloseSetErr(a, next) ==
  /\ pc[a] = "setErr"
  /\ shutdownErr' = "StreamClosed"
  /\ Goto(a, next)
  /\ UNCHANGED <<shutdown, shutdownCh, connClosed>>

CloseCh(a, next) ==
  /\ pc[a] = "closeCh"
  /\ shutdownCh' = TRUE
  /\ Goto(a, next)
  /\ UNCHANGED <<shutdown, shutdownErr, connClosed>>

CloseConn(a) ==
  /\ pc[a] = "closeConn"
  /\ connClosed' = TRUE
  /\ Goto(a, "exit")
  /\ UNCHANGED <<shutdown, shutdownCh, shutdownErr>>

\* Mutants of closeStream: close(shutdownCh) before shutdownErr is set, and
\* no s.conn.Close().
CloseStreamChFirst(a) ==
  /\ \/ CloseCAS(a, "closeCh") \/ CloseCh(a, "setErr")
     \/ CloseSetErr(a, "closeConn") \/ CloseConn(a)
  /\ UNCHANGED <<streamVars, wireVars, callerVars>>

CloseStreamNoConnClose(a) ==
  /\ \/ CloseCAS(a, "setErr") \/ CloseSetErr(a, "closeCh") \/ CloseCh(a, "exit")
  /\ UNCHANGED <<streamVars, wireVars, callerVars>>

CloseStream(a) ==
  /\ \/ CloseCAS(a, "setErr") \/ CloseSetErr(a, "closeCh")
     \/ CloseCh(a, "closeConn") \/ CloseConn(a)
  /\ UNCHANGED <<streamVars, wireVars, callerVars>>

\* Close() by the owner of the stream.
Close ==
  /\ pc["app"] = "idle"
  /\ Goto("app", "close")
  /\ UNCHANGED <<streamVars, closeVars, wireVars, callerVars>>

-----------------------------------------------------------------------------
(* reader(), handleResponse, findResponseHandler.                         *)

\* After handling a frame the loop exits if shutdownCh is closed.
ReaderLoop == Goto("reader", IF shutdownCh THEN "exit" ELSE "read")

\* conn.ReadMessage() fails: closeStream(read error), then return.
ReaderError ==
  /\ pc["reader"] = "read" /\ ~ConnOpen
  /\ Goto("reader", "close")
  /\ UNCHANGED <<streamVars, closeVars, wireVars, callerVars>>

\* handleResponse, first half: find the chan registered for m's ID under
\* responseHandlersMu; with none the RPC has returned and m is discarded.
HandleResponse(m) ==
  IF FindResponseHandler(m.id)
  THEN readerMsg' = <<m>> /\ Goto("reader", "deliver")
  ELSE ReaderLoop /\ UNCHANGED readerMsg

\* conn.ReadMessage() returns a frame. A response goes to handleResponse;
\* a request is handed to a new handleRequest goroutine.
ReaderRead ==
  /\ pc["reader"] = "read" /\ ConnOpen /\ fromPeer # <<>>
  /\ LET m == Head(fromPeer) IN
       IF m.response
       THEN HandleResponse(m) /\ UNCHANGED tasks
       ELSE tasks' = tasks \cup {m} /\ ReaderLoop /\ UNCHANGED readerMsg
  /\ fromPeer' = Tail(fromPeer)
  /\ UNCHANGED <<nextMessageID, writeCh, responseHandlers, slot, closeVars,
                 connFailed, toPeer, peerPending, peerSent, peerAnswered,
                 callerVars>>

\* Mutant: the chan made by RPC() is unbuffered, so the send completes only
\* into the second select of a caller still waiting for that ID.
ReaderDeliverUnbuffered ==
  /\ pc["reader"] = "deliver"
  /\ LET m == Head(readerMsg) IN
       \E c \in Callers :
         /\ pc[c] = "wait" /\ rpcID[c] = m.id
         /\ pc' = [pc EXCEPT ![c] = IF c \in Monitors THEN "beat" ELSE "idle",
                             !["reader"] = IF shutdownCh THEN "exit" ELSE "read"]
         /\ responseHandlers' = responseHandlers \ {m.id}
         /\ result' = [result EXCEPT ![c] =
              IF m.notSupported THEN [kind |-> "notSupported", payload |-> NoPayload]
              ELSE [kind |-> "ok", payload |-> m.payload]]
  /\ readerMsg' = <<>>
  /\ UNCHANGED <<nextMessageID, writeCh, slot, tasks, closeVars, wireVars,
                 rpcID, calls, ctxDone, monitorVars>>

\* handleResponse, second half, after the mutex is released: ch <- m,
\* which blocks while the chan's one buffer slot is full. The RPC may have
\* returned in between; the response then lies in a chan no one reads.
ReaderDeliver ==
  /\ pc["reader"] = "deliver"
  /\ LET m == Head(readerMsg) IN
       /\ Len(slot[m.id]) < 1
       /\ slot' = [slot EXCEPT ![m.id] = Append(@, m)]
  /\ readerMsg' = <<>>
  /\ ReaderLoop
  /\ UNCHANGED <<nextMessageID, writeCh, responseHandlers, tasks, closeVars,
                 wireVars, callerVars>>

-----------------------------------------------------------------------------
(* writer() and write().                                                  *)

\* Take the next message, or return once shutdownCh is closed. A write on
\* a failed or closed conn errors: closeStream(write error), then return.
WriterStep ==
  /\ pc["writer"] = "run"
  /\ \/ /\ writeCh # <<>>
        /\ writeCh' = Tail(writeCh)
        /\ IF ConnOpen THEN toPeer' = Append(toPeer, Head(writeCh))
                            /\ UNCHANGED pc
                       ELSE Goto("writer", "close") /\ UNCHANGED toPeer
     \/ shutdownCh /\ Goto("writer", "exit") /\ UNCHANGED <<writeCh, toPeer>>
  /\ UNCHANGED <<readerMsg, nextMessageID, responseHandlers, slot, tasks,
                 closeVars, connFailed, fromPeer, peerPending, peerSent,
                 peerAnswered, callerVars>>

-----------------------------------------------------------------------------
(* handleRequest(m): reply with the handler's response, or with an empty  *)
(* ErrNotSupported response when no handler is found; give up once       *)
(* shutdownCh is closed.                                                  *)

\* Mutant: no reply at all when no handler is found.
HandleRequestNoNotSupported(m) ==
  /\ m \in tasks
  /\ \/ /\ m.type \in LocalHandled /\ Len(writeCh) < WriteChCap
        /\ writeCh' = Append(writeCh, Answer(m, LocalHandled))
     \/ m.type \notin LocalHandled /\ UNCHANGED writeCh
     \/ shutdownCh /\ UNCHANGED writeCh
  /\ tasks' = tasks \ {m}
  /\ UNCHANGED <<readerMsg, nextMessageID, responseHandlers, slot, closeVars,
                 wireVars, pc, callerVars>>

HandleRequest(m) ==
  /\ m \in tasks
  /\ \/ /\ Len(writeCh) < WriteChCap
        /\ writeCh' = Append(writeCh, Answer(m, LocalHandled))
     \/ shutdownCh /\ UNCHANGED writeCh
  /\ tasks' = tasks \ {m}
  /\ UNCHANGED <<readerMsg, nextMessageID, responseHandlers, slot, closeVars,
                 wireVars, pc, callerVars>>

-----------------------------------------------------------------------------
(* The remote end and the network.                                        *)

\* The remote reader takes a frame: a request is answered by its Handler,
\* a response completes the remote call with its ID.
PeerRecv ==
  /\ ConnOpen /\ toPeer # <<>>
  /\ LET m == Head(toPeer) IN
       /\ peerPending' = IF m.response THEN peerPending
                         ELSE peerPending \cup {Answer(m, PeerHandled)}
       /\ peerAnswered' = IF m.response THEN peerAnswered \cup {m.id}
                          ELSE peerAnswered
  /\ toPeer' = Tail(toPeer)
  /\ UNCHANGED <<streamVars, closeVars, connFailed, fromPeer, peerSent, pc,
                 callerVars>>

\* The remote writer sends one of the responses it has, in any order.
PeerRespond(r) ==
  /\ ConnOpen /\ r \in peerPending
  /\ fromPeer' = Append(fromPeer, r)
  /\ peerPending' = peerPending \ {r}
  /\ UNCHANGED <<streamVars, closeVars, connFailed, toPeer, peerSent,
                 peerAnswered, pc, callerVars>>

\* The remote end calls RPC() with type t.
PeerRequest(t) ==
  /\ ConnOpen /\ peerSent < PeerRequests
  /\ peerSent' = peerSent + 1
  /\ fromPeer' = Append(fromPeer,
       [type |-> t, id |-> peerSent + 1, response |-> FALSE,
        notSupported |-> FALSE, payload |-> <<"peer", peerSent + 1>>])
  /\ UNCHANGED <<streamVars, closeVars, connFailed, toPeer, peerPending,
                 peerAnswered, pc, callerVars>>

\* The network fails the connection; frames in flight are lost.
ConnFail ==
  /\ ~connFailed
  /\ connFailed' = TRUE
  /\ toPeer' = <<>> /\ fromPeer' = <<>> /\ peerPending' = {}
  /\ UNCHANGED <<streamVars, closeVars, peerSent, peerAnswered, pc, callerVars>>

-----------------------------------------------------------------------------
Init ==
  /\ nextMessageID = 0
  /\ writeCh = <<>>
  /\ responseHandlers = {}
  /\ slot = [id \in IDs |-> <<>>]
  /\ tasks = {}
  /\ readerMsg = <<>>
  /\ shutdown = FALSE /\ shutdownCh = FALSE /\ shutdownErr = "nil"
  /\ connClosed = FALSE
  /\ connFailed = FALSE /\ toPeer = <<>> /\ fromPeer = <<>>
  /\ peerPending = {} /\ peerSent = 0
  /\ peerAnswered = {}
  /\ pc = [a \in Actors |-> CASE a = "reader" -> "read"
                              [] a = "writer" -> "run"
                              [] OTHER        -> "idle"]
  /\ rpcID = [c \in Callers |-> 0]
  /\ calls = [c \in Callers |-> 0]
  /\ ctxDone = [c \in Callers |-> FALSE]
  /\ result = [c \in Callers |-> [kind |-> "none", payload |-> NoPayload]]
  /\ parentDone = [m \in Monitors |-> FALSE]
  /\ monitorErr = [m \in Monitors |-> "none"]

Next ==
  \/ \E c \in Callers : \/ RPCBegin(c) \/ RPCWait(c) \/ CtxCancel(c)
                        \/ \E t \in RPCTypes : RPCSend(c, t)
  \/ \E m \in Monitors : MonitorCancel(m) \/ MonitorCheck(m) \/ MonitorTick(m)
  \/ \E a \in Closers : CloseStream(a)
  \/ Close
  \/ ReaderError \/ ReaderRead \/ ReaderDeliver \/ WriterStep
  \/ \E m \in tasks : HandleRequest(m)
  \/ PeerRecv \/ \E r \in peerPending : PeerRespond(r)
  \/ \E t \in RPCTypes : PeerRequest(t)
  \/ ConnFail

\* Every goroutine of both ends is scheduled: weak fairness for each step
\* that stays enabled until taken. A send on the shared writeCh can be
\* disabled by other senders filling it; Go queues blocked senders in FIFO
\* order, so those sends are strongly fair. Calls, cancellations, Close()
\* and network failure are up to the environment and are not fair; the
\* Monitor loop itself runs (its ticker fires) and starts each heartbeat.
Fairness ==
  /\ \A c \in Callers : SF_vars(\E t \in RPCTypes : RPCSend(c, t))
                     /\ WF_vars(RPCWait(c))
  /\ \A a \in Closers : WF_vars(CloseStream(a))
  /\ WF_vars(ReaderError) /\ WF_vars(ReaderRead) /\ WF_vars(ReaderDeliver)
  /\ WF_vars(WriterStep)
  /\ \A i \in PeerIDs : SF_vars(\E m \in tasks : m.id = i /\ HandleRequest(m))
  /\ WF_vars(PeerRecv) /\ WF_vars(\E r \in peerPending : PeerRespond(r))
  /\ \A m \in Monitors : /\ WF_vars(RPCBegin(m)) /\ WF_vars(MonitorCheck(m))
                        /\ WF_vars(MonitorTick(m))

Spec == Init /\ [][Next]_vars /\ Fairness

-----------------------------------------------------------------------------
TypeOK ==
  /\ nextMessageID \in IDs
  /\ writeCh \in Seq(Msg) /\ Len(writeCh) <= WriteChCap
  /\ responseHandlers \subseteq IDs
  /\ slot \in [IDs -> Seq(Msg)]
  /\ tasks \subseteq Msg
  /\ readerMsg \in Seq(Msg) /\ Len(readerMsg) <= 1
  /\ {shutdown, shutdownCh, connClosed, connFailed} \subseteq BOOLEAN
  /\ shutdownErr \in {"nil", "StreamClosed"}
  /\ toPeer \in Seq(Msg) /\ fromPeer \in Seq(Msg) /\ peerPending \subseteq Msg
  /\ peerSent \in 0..PeerRequests /\ peerAnswered \subseteq PeerIDs
  /\ pc \in [Actors -> {"idle", "send", "wait", "read", "deliver", "run",
                        "close", "setErr", "closeCh", "closeConn", "exit",
                        "beat", "tick", "done"}]
  /\ rpcID \in [Callers -> IDs] /\ calls \in [Callers -> 0..MaxCalls]
  /\ ctxDone \in [Callers -> BOOLEAN]
  /\ result \in [Callers -> [kind: {"none", "ok", "notSupported", "closed",
                                    "ctx"}, payload: Payloads]]
  /\ parentDone \in [Monitors -> BOOLEAN]
  /\ monitorErr \in [Monitors -> {"none", "nil", "heartbeat", "ctx", "closed"}]

-----------------------------------------------------------------------------
(* Properties.                                                            *)

\* An RPC() that returns no error returns the payload of the response to
\* its own request: never another call's response (IDs from the atomic
\* counter, chans keyed by ID), and never nil because shutdownErr was read
\* before closeStream had set it.
ResponseIsOwn ==
  \A c \in Callers : result[c].kind = "ok" => result[c].payload = <<c, calls[c]>>

\* Every RPC() returns, even when no context is ever cancelled: the reader
\* delivers each response to a waiting caller, a late response to a caller
\* that gave up never blocks the reader, and a shutdown releases everyone.
RPCTerminates ==
  \A c \in Callers : pc[c] \in {"send", "wait"} ~> pc[c] \notin {"send", "wait"}

\* Every request the remote end sends is answered on the wire, also when
\* the local Handler has no function for its type, unless the connection
\* goes down.
PeerRequestAnswered ==
  \A i \in PeerIDs : peerSent >= i ~> (i \in peerAnswered \/ ~ConnOpen)

\* Once the stream shuts down, the reader and writer loops and every
\* handleRequest goroutine terminate: closeStream closes the conn, which
\* unblocks the reader's ReadMessage.
NoGoroutineLeak ==
  shutdown ~> (pc["reader"] = "exit" /\ pc["writer"] = "exit" /\ tasks = {})

\* Monitor() returns only with an error (the heartbeat's, ctx.Err() or
\* shutdownErr): its caller takes any return as the connection's death,
\* and a nil return would read as a clean stop.
MonitorErrNonNil ==
  \A m \in Monitors : pc[m] = "done" => monitorErr[m] \notin {"none", "nil"}

-----------------------------------------------------------------------------
(* Refinement of RPCService. A caller is calling while in RPC(); its      *)
(* context counts only then; the peer has answered its current call when  *)
(* a response frame with the call's ID exists anywhere between the peer   *)
(* and the caller's chan (IDs are never reused); the stream is closed     *)
(* once shutdownCh is.                                                     *)

InCall(c) == pc[c] \in {"send", "wait"}

\* The response frames to c's current call, wherever they are on the way.
ResponsesTo(c) ==
  LET inSeq(q) == {q[i] : i \in 1..Len(q)}
  IN {m \in peerPending \cup inSeq(fromPeer) \cup inSeq(readerMsg)
          \cup inSeq(slot[rpcID[c]]) :
        m.response /\ m.id = rpcID[c]}

ReplyOf(c) ==
  IF ~InCall(c) \/ ResponsesTo(c) = {} THEN "none"
  ELSE IF \E m \in ResponsesTo(c) : m.notSupported THEN "notSupported"
  ELSE "ok"

Service == INSTANCE RPCService WITH
  phase     <- [c \in Callers |-> IF InCall(c) THEN "calling" ELSE "idle"],
  n         <- calls,
  cancelled <- [c \in Callers |-> InCall(c) /\ ctxDone[c]],
  reply     <- [c \in Callers |-> ReplyOf(c)],
  out       <- result,
  closed    <- shutdownCh,
  broken    <- connFailed

\* The stream implements what RPC() promises its callers (spec 7): each
\* call returns its own response, "not supported", StreamClosed or its
\* context's error, nothing else, and it returns; reaching it takes the
\* ID counter, the response-handler table, the reader, closeStream and
\* the two selects of RPC() all to be right together.
ImplementsService == Service!Spec

=============================================================================
