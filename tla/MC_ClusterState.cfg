\* Every State method with every argument on two processes.
CONSTANTS
  Nodes <- MCNodes
  Endpoints <- MCEndpoints
  MaxListeners = 2
SPECIFICATION Spec
INVARIANT TypeOK
INVARIANT LocalViewAuthoritative
CHECK_DEADLOCK FALSE
VIEW StateView
