\* One alarm inside gt_schedule is enough.
SPECIFICATION Spec
CONSTANTS
  MaxGThreads = 3
  MinPriority = 1
  IntMax = 2
  Creates <- TwoCreates
  MaxFrames = 2
INVARIANT OwnContext
