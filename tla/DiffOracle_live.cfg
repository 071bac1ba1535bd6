SPECIFICATION FairSpec
CONSTANTS
  Queries = {"q1", "q2"}
  Initial = {"q1"}
  Keys = {"a"}
  Rows <- OneRow
  Mutations = TRUE
  Cycles = 1
  ResumeWrites = 0
  Prompt = FALSE
  DropIn <- Early
  ConnectFails = FALSE
  Cancels = TRUE
  Faults = {"drop"}
  FaultyKey = "a"
  FaultyQuery = "q2"
  MaxWrites = 0
  MaxDrops = 1
  MaxErrors = 0
  PostsFail = TRUE
PROPERTY
  Concludes
