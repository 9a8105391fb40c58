\* Three threads contend, so that two of them are in the list.
SPECIFICATION FairSpec
CONSTANTS
  MaxGThreads = 4
  MinPriority = 1
  IntMax = 2
  Creates <- FourCreates
  InitialValue = 1
  Cells = {c1, c2}
  NULL = NULL
  c1 = c1
  c2 = c2
INVARIANTS
  ListIsChain
PROPERTIES
  ImplementsDemo
  NoBarging
  WaitersAreServed
  ReadyThreadsRun
