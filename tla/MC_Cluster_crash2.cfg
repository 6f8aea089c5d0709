\* Three processes, two crashes: a process can crash while another is still
\* down, or crash again after it rejoined, while gossip is in flight.
CONSTANTS
  n1 = n1
  n2 = n2
  n3 = n3
  Nodes <- SymNodes
  Endpoints <- SymEndpoints
  MaxListeners = 1
  MaxChurn = 3
  MaxCrashes = 2
  Ordered = TRUE
SPECIFICATION ClusterSpec
SYMMETRY NodeSymmetry
INVARIANT ClusterTypeOK
INVARIANT ViewsAgreeWhenQuiet
INVARIANT GaugesAccurate
CHECK_DEADLOCK FALSE
