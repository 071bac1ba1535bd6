SPECIFICATION FairSpec
CONSTANTS
  Plan <- MCPlan
  WaveSize = 2
  Faults = {"none", "wrong"}
  FaultyKeys <- MCKeys
  TableOf <- MCTableOf
  Impact <- MCImpact
  AnswersToo = TRUE
  Slow = TRUE
  Drops = TRUE
INVARIANTS
  AttributionExact
  EvictsOnlyRejected
  WrongValueFails
  SoundVerdict
  LeavesNoTrace
PROPERTY
  RunEnds
