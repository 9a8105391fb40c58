\* Two connections, one SIGINT, room for two log lines.
SPECIFICATION FairSpec
CONSTANTS
  LogMax = 2
  Dialogues <- ShortDialogues
  MaxConnections = 2
  BufferSize = 4
  FilebufSize = 5
INVARIANTS
  IInv
  SessionsEndOnce
  InStep
  UploadsAreStored
  AnswersFit
  SendersAreHeard
PROPERTIES
  RequestsEnd
  WorkerIsReaped
\* The server waits for clients, and stops after SIGINT.
CHECK_DEADLOCK FALSE
