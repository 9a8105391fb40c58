\* Two workers, three clients, one SIGINT; forks fail, processes die.
SPECIFICATION Spec
CONSTANTS
  Connections = {c1, c2, c3}
  NoConnection = NoConnection
  c1 = c1
  c2 = c2
  c3 = c3
  MaxConnections = 2
  Leftover = 0
  MaxSigints = 1
  ForkMayFail = TRUE
  MayAbort = TRUE
SYMMETRY AnyConnection
INVARIANTS
  IInv
  OnePlace
  AnnouncedWhenFree
  HandOver
  NoOrphans
PROPERTY HandsOverInOrder
\* The server stops after SIGINT, and is idle once all clients have left.
CHECK_DEADLOCK FALSE
