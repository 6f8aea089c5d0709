\* Liveness of the stream: one Monitor() making two heartbeat calls in
\* turn, one remote request, a writeCh of capacity 1.
CONSTANTS
  Callers <- MCOneCaller
  RPCTypes <- MCLiveTypes
  LocalHandled <- MCLiveHandled
  PeerHandled <- MCLiveHandled
  MaxCalls = 2
  WriteChCap = 1
  PeerRequests = 1
  NoPayload = NoPayload
  Monitors <- MCOneCaller
  HeartbeatType = "Heartbeat"
SPECIFICATION Spec
INVARIANT TypeOK
INVARIANT MonitorErrNonNil
PROPERTY PeerRequestAnswered
PROPERTY NoGoroutineLeak
CHECK_DEADLOCK FALSE
