SPECIFICATION Spec
CONSTANTS
  Queries = {"q1", "q2"}
  Initial = {"q1"}
  Keys = {"a"}
  Rows <- OneRow
  Mutations = TRUE
  Cycles = 1
  ResumeWrites = 1
  Prompt = TRUE
  DropIn <- Early
  ConnectFails = TRUE
  Cancels = FALSE
  Faults <- AllFaults
  FaultyKey = "a"
  FaultyQuery = "q2"
  MaxWrites = 1
  MaxDrops = 1
  MaxErrors = 1
  PostsFail = TRUE
INVARIANTS
  StateIsVersion
  SoundVerdict
  PassMeansConverged
  DivergenceReported
  EveryWriteApplies
