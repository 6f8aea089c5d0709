\* Gossip updates delivered in order between each pair of processes.
CONSTANTS
  Nodes <- MCNodes
  Endpoints <- MCEndpoints
  MaxListeners = 2
  MaxChurn = 4
  MaxCrashes = 0
  Ordered = TRUE
SPECIFICATION ClusterSpec
INVARIANT ClusterTypeOK
INVARIANT ViewsAgreeWhenQuiet
CHECK_DEADLOCK FALSE
