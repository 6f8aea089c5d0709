\* Gossip updates delivered in any order: the reordering spec 5 allows.
CONSTANTS
  Nodes <- MCNodes
  Endpoints <- MCEndpoints
  MaxListeners = 2
  MaxChurn = 4
  MaxCrashes = 0
  Ordered = FALSE
SPECIFICATION ClusterSpec
INVARIANT ViewsAgreeWhenQuiet
CHECK_DEADLOCK FALSE
