\* Refinement of RPCService: two callers with one call each (their
\* requests and responses cross on the wire), no remote request, a
\* writeCh of capacity 1.
CONSTANTS
  Callers <- MCCallers
  RPCTypes <- MCRPCTypes
  LocalHandled <- MCHandled
  PeerHandled <- MCHandled
  MaxCalls = 1
  WriteChCap = 1
  PeerRequests = 0
  NoPayload = NoPayload
  Monitors <- MCNoMonitors
  HeartbeatType = "HTTPRequest"
SPECIFICATION Spec
PROPERTY ImplementsService
CHECK_DEADLOCK FALSE
