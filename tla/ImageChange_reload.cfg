INIT ReloadInit
NEXT ChangeNext
CONSTANTS
  Images <- Image
  BootBudget = 3
  HydrateBudget = 2
  TotalBudget = 4
  MaxDbWrites = 2
  MaxHitches = 1
INVARIANT ReloadPasses
CHECK_DEADLOCK FALSE
