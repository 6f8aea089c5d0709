\* The Nodes gauge under every State method with every argument.
CONSTANTS
  Nodes <- MCNodes
  Endpoints <- MCEndpoints
  MaxListeners = 1
SPECIFICATION Spec
INVARIANT NodesMetricAccurate
CONSTRAINT GaugeBound
CHECK_DEADLOCK FALSE
