SPECIFICATION FairSpec
CONSTANTS
  Plan <- MCPlan
  WaveSize = 2
  Faults = {"lost"}
  FaultyKeys <- MCKeys
  TableOf <- MCTableOf
  Impact <- MCImpact
  AnswersToo = FALSE
  Slow = FALSE
  Drops = FALSE
INVARIANT
  PersistentDivergenceFails
