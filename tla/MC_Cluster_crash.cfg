\* Three processes, one of which may crash and restart, with gossip
\* delivered in order between each pair of processes.
CONSTANTS
  Nodes <- MCNodes
  Endpoints <- MCEndpoints
  MaxListeners = 1
  MaxChurn = 3
  MaxCrashes = 1
  Ordered = TRUE
SPECIFICATION ClusterSpec
INVARIANT ClusterTypeOK
INVARIANT ViewsAgreeWhenQuiet
INVARIANT GaugesAccurate
CHECK_DEADLOCK FALSE
