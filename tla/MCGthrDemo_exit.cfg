\* The free in gt_return may end the process: Abort has no next step.
CHECK_DEADLOCK FALSE
SPECIFICATION FairSpec
CONSTANTS
  MaxGThreads = 3
  MinPriority = 2
  IntMax = 3
  Creates <- TwoCreates
  InitialValue = 1
  MayReturn = TRUE
PROPERTY MainExits
