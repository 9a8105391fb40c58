\* Directories in directories.
SPECIFICATION Spec
CONSTANTS
  Items = {2, 3, 4}
  Chain <- LongChain
  Names = {"A", "B", "C"}
  Kinds = {"none", "dir", "file"}
  Nested = TRUE
  LastMark = 65535
  RootEntries = 3
  PerCluster = 2
  ClusterSize = 2
  RootSector = 9
  StackFrames = 4
INVARIANT NeverInsideItself
\* The program ends with exit.
CHECK_DEADLOCK FALSE
