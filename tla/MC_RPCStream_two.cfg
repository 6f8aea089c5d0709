\* Liveness of RPC() with two concurrent callers whose responses cross on
\* the wire and whose contexts may be done, a writeCh of capacity 1.
CONSTANTS
  Callers <- MCCallers
  RPCTypes <- MCRPCTypes
  LocalHandled <- MCHandled
  PeerHandled <- MCHandled
  MaxCalls = 1
  WriteChCap = 1
  PeerRequests = 0
  NoPayload = NoPayload
  Monitors <- MCNoMonitors
  HeartbeatType = "HTTPRequest"
SPECIFICATION Spec
PROPERTY RPCTerminates
CHECK_DEADLOCK FALSE
