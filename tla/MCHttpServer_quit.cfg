\* Two workers: it need not.
SPECIFICATION FairSpec
CONSTANTS
  Connections = {c1, c2}
  NoConnection = NoConnection
  c1 = c1
  c2 = c2
  MaxConnections = 2
  Leftover = 0
  MaxSigints = 1
  ForkMayFail = FALSE
  MayAbort = FALSE
PROPERTY ShutdownEnds
\* The server stops after SIGINT, and is idle once all clients have left.
CHECK_DEADLOCK FALSE
