---------------------------- MODULE RPCService ------------------------------
(***************************************************************************)
(* What Stream.RPC promises each of its callers (spec 4.1 and 7): a call   *)
(* submitted on the stream returns the payload of the peer's response to  *)
(* that very request, or "not supported" when the peer flagged it, or     *)
(* StreamClosed once the stream has shut down, or the error of a context  *)
(* that is done. No other outcome. Every call returns, and a connection   *)
(* that breaks shuts the stream down.                                      *)
(*                                                                         *)
(* The peer is a black box that may answer a pending call, with a result  *)
(* or with "not supported"; a broken connection may lose answers that     *)
(* have not reached the caller.                                            *)
(***************************************************************************)
EXTENDS Naturals

CONSTANTS Callers, MaxCalls, NoPayload

VARIABLES
  phase,      \* phase[c]: "idle" or "calling"
  n,          \* n[c]: calls c has made
  cancelled,  \* cancelled[c]: the context of c's current call is done
  reply,      \* reply[c]: the peer's answer to c's current call, if any
  out,        \* out[c]: what c's last call returned
  closed,     \* the stream has shut down
  broken      \* the connection under the stream has failed

vars == <<phase, n, cancelled, reply, out, closed, broken>>

Outcome(c, kind, payload) ==
  /\ phase[c] = "calling"
  /\ phase' = [phase EXCEPT ![c] = "idle"]
  /\ out' = [out EXCEPT ![c] = [kind |-> kind, payload |-> payload]]
  /\ reply' = [reply EXCEPT ![c] = "none"]
  /\ cancelled' = [cancelled EXCEPT ![c] = FALSE]
  /\ UNCHANGED <<n, closed, broken>>

\* RPC(ctx, ...) is called, possibly with a context that is already done.
Call(c) ==
  /\ phase[c] = "idle" /\ n[c] < MaxCalls
  /\ phase' = [phase EXCEPT ![c] = "calling"]
  /\ n' = [n EXCEPT ![c] = @ + 1]
  /\ out' = [out EXCEPT ![c] = [kind |-> "none", payload |-> NoPayload]]
  /\ \E b \in BOOLEAN : cancelled' = [cancelled EXCEPT ![c] = b]
  /\ UNCHANGED <<reply, closed, broken>>

Cancel(c) ==
  /\ phase[c] = "calling" /\ ~cancelled[c]
  /\ cancelled' = [cancelled EXCEPT ![c] = TRUE]
  /\ UNCHANGED <<phase, n, reply, out, closed, broken>>

\* The peer answers c's request while the connection is up. closeStream
\* closes the connection after shutdownCh, so an answer can still come
\* once the stream is closed.
Serve(c) ==
  /\ phase[c] = "calling" /\ reply[c] = "none" /\ ~broken
  /\ \E a \in {"ok", "notSupported"} : reply' = [reply EXCEPT ![c] = a]
  /\ UNCHANGED <<phase, n, cancelled, out, closed, broken>>

\* The connection fails; answers still on the wire are lost.
Break ==
  /\ ~broken
  /\ broken' = TRUE
  /\ \E lost \in SUBSET Callers :
       reply' = [c \in Callers |-> IF c \in lost THEN "none" ELSE reply[c]]
  /\ UNCHANGED <<phase, n, cancelled, out, closed>>

Close ==
  /\ ~closed
  /\ closed' = TRUE
  /\ UNCHANGED <<phase, n, cancelled, reply, out, broken>>

Return(c) ==
  \/ reply[c] = "ok" /\ Outcome(c, "ok", <<c, n[c]>>)
  \/ reply[c] = "notSupported" /\ Outcome(c, "notSupported", NoPayload)
  \/ cancelled[c] /\ Outcome(c, "ctx", NoPayload)
  \/ closed /\ Outcome(c, "closed", NoPayload)

Init ==
  /\ phase = [c \in Callers |-> "idle"]
  /\ n = [c \in Callers |-> 0]
  /\ cancelled = [c \in Callers |-> FALSE]
  /\ reply = [c \in Callers |-> "none"]
  /\ out = [c \in Callers |-> [kind |-> "none", payload |-> NoPayload]]
  /\ closed = FALSE
  /\ broken = FALSE

Next ==
  \/ \E c \in Callers : Call(c) \/ Cancel(c) \/ Serve(c) \/ Return(c)
  \/ Break \/ Close

\* A call that can return does; a broken connection closes the stream.
Spec ==
  /\ Init /\ [][Next]_vars
  /\ \A c \in Callers : WF_vars(Return(c))
  /\ WF_vars(broken /\ Close)

=============================================================================
