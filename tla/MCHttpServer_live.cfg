\* One worker, three clients that leave some day, one SIGINT or none.
SPECIFICATION FairSpec
CONSTANTS
  Connections = {c1, c2, c3}
  NoConnection = NoConnection
  c1 = c1
  c2 = c2
  c3 = c3
  MaxConnections = 1
  Leftover = 0
  MaxSigints = 1
  ForkMayFail = FALSE
  MayAbort = FALSE
PROPERTIES
  EveryConnectionEnds
  ShutdownEnds
\* The server stops after SIGINT, and is idle once all clients have left.
CHECK_DEADLOCK FALSE
