\* Two threads that may return; slices of no time, of 0.6 and of 1.2 seconds.
SPECIFICATION StatsSpec
CONSTANTS
  MaxGThreads = 3
  MinPriority = 1
  IntMax = 2
  Creates <- ThreeCreates
  InitialValue = 1
  MayReturn = TRUE
  Durations = {600000}
  MaxTime = 1200000
  MaxCount = 3
INVARIANTS
  IInv
  RunningIsCurrent
  WaitersAreBlocked
  PermitsConserved
  NoResurrection
  AgingBound
  TicketsDisjoint
  StatsTypeOK
  TimeAccounted
  OneProcessor
  ExtremesFit
\* The bounds of the clock and of the slices stop it.
CHECK_DEADLOCK FALSE
