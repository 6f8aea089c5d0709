\* One request routed while agents connect and disconnect on two processes,
\* one of which may crash and restart; gossip is delivered in order.
CONSTANTS
  Nodes <- MCNodes
  Endpoints <- MCEndpoints
  Reqs <- MCReqs
  MaxListeners = 1
  MaxChurn = 4
  MaxCrashes = 1
  Ordered = TRUE
SPECIFICATION ProxySpec
INVARIANT ProxyTypeOK
INVARIANT NoFalseNotFound
CHECK_DEADLOCK FALSE
