INIT SuiteInit
NEXT SuiteNext
CONSTANTS
  ServerFaults <- ServerFault
  TeardownSlow = 3
  MaxDelays = 2
INVARIANT LeakStaysOnRecord
CHECK_DEADLOCK FALSE
