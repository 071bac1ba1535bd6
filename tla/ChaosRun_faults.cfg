SPECIFICATION FairSpec
CONSTANTS
  Starts = {"none", "replay", "baseline"}
  Actions = {"zc", "pg", "net"}
  MaxEvents = 2
  MaxFailures = 2
  Slow = TRUE
  Interrupts = TRUE
INVARIANTS
  PassMeansRestored
  UnpausedAtEnd
PROPERTIES
  DisturbancePasses
  RunEnds
