SPECIFICATION Spec
CONSTANTS
  MaxGThreads = 3
  MinPriority = 2
  IntMax = 3
  Creates <- TwoCreates
  InitialValue = 1
  MayReturn = FALSE
INVARIANT MutualExclusion
