SPECIFICATION Spec
CONSTANTS
  Transport = "ws"
  PushResponses = FALSE
  Lifecycle = TRUE
  PostHandshake = FALSE
  MaxSent = 2
  MaxSessions = 3
  MaxCids = 2
  MaxVersion = 2
  MaxDown = 3
INVARIANTS
  TypeOK
  ClaimBacked
  NoGap
  NoFalseAlarm
  SettledBetweenSessions
  ResumeSound
PROPERTIES
  ImplementsLedger
