\* Safety of the stream: two concurrent callers, one remote request,
\* a writeCh of capacity 1.
CONSTANTS
  Callers <- MCCallers
  RPCTypes <- MCRPCTypes
  LocalHandled <- MCHandled
  PeerHandled <- MCHandled
  MaxCalls = 1
  WriteChCap = 1
  PeerRequests = 1
  NoPayload = NoPayload
  Monitors <- MCNoMonitors
  HeartbeatType = "HTTPRequest"
SPECIFICATION Spec
INVARIANT TypeOK
INVARIANT ResponseIsOwn
CHECK_DEADLOCK FALSE
