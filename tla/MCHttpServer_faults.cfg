\* A leftover pid, failing forks, dying processes, two SIGINTs.
SPECIFICATION Spec
CONSTANTS
  Connections = {c1, c2}
  NoConnection = NoConnection
  c1 = c1
  c2 = c2
  MaxConnections = 2
  Leftover = 1
  MaxSigints = 2
  ForkMayFail = TRUE
  MayAbort = TRUE
SYMMETRY AnyConnection
INVARIANTS
  AnnouncingNeverBlocks
\* The server stops after SIGINT, and is idle once all clients have left.
CHECK_DEADLOCK FALSE
