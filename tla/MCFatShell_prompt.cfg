\* Directories in the root only, every command.
SPECIFICATION FairSpec
CONSTANTS
  Items = {2, 3, 4}
  Chain <- LongChain
  Names = {"A", "B", "C"}
  Kinds = {"none", "dir", "file", "empty", "readonly"}
  Nested = FALSE
  LastMark = 65535
  RootEntries = 3
  PerCluster = 2
  ClusterSize = 2
  RootSector = 9
  StackFrames = 4
INVARIANTS
  IInv
  ListsDirectory
  
  PromptNamesDirectory
  TreeShowsAll
PROPERTIES
  CdFollowsTree
  CommandsEnd
\* The program ends with exit.
CHECK_DEADLOCK FALSE
