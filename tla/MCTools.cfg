INIT ToolsInit
NEXT ToolsNext
CONSTANTS
  Containers <- MCContainers
  Cgs = {"cg"}
  LogKinds <- MCLogKinds
  MaxLogLines = 2
  MaxReadFails = 1
  HealLimit = 1
  ErrorLimit = 1
  SigLimit = 1
  MaxTrouble = 2
  ScriptModes <- MCModes
  SearchStart = 2
  SearchMax = 16
  Tolerance = 2
  Rungs = {2, 5, 9}
  Blessed = 5
  MaxNoReport = 1
  Defects <- Defect
  Noise = {0, 10}
  MaxMishaps = 2
  ServerFaults <- ServerFault
  TeardownSlow = 3
  MaxDelays = 2
  Clients <- MCClients
  c1 = c1
  c2 = c2
  Drainers <- Drainer
  MaxUnread = 2
  MaxSetbacks = 1
  Trace <- MCTrace
  PoolSize = 2
  MaxVersion = 2
  MaxFrames = 1
  MaxFaults = 1
  Images <- Image
  BootBudget = 3
  HydrateBudget = 2
  TotalBudget = 4
  MaxDbWrites = 2
  MaxHitches = 1
  PortFaults <- PortFault
  MaxPortTroubles = 2
  MaxTables = 2
  EdgeValues = 1
  CacheFaults <- CacheFault
  MaxUpsets = 1
  Worlds <- MCWorlds
  ParityModes <- MCParityModes
  ParityQueries = {"all", "mine"}
  CascadeQuery = "all"
  DriveCounts = {0, 4, 5, 6}
  MinSamples = 6
  BudgetFloor = 6
  Factor = 2
  MinDelta = 1
  MinBaseline = 1
  ProdFactor = 3
  OversampleMax = 2
  Cycles = 4
  CascadeTimeout = 5
  Silence = 10
  WriteSamples = 6
  Hiccup = 9
  MaxJolts = 1
INVARIANTS
  LogsJudged
  AcceptMeansNoFinding
  ComparesWithOther
  KneeWithinTolerance
  OneMishapForgiven
  DefectFails
  SuiteJudged
  DrainJudged
  JarNeverAhead
  ChangeJudged
  ProbesJudged
  AdvancementJudged
  ClonesRemoved
  ParityJudged
SYMMETRY ClientSymmetry
