SPECIFICATION FairSpec
CONSTANTS
  Transport = "ws"
  PushResponses = TRUE
  Lifecycle = TRUE
  PostHandshake = FALSE
  MaxSent = 1
  MaxSessions = 2
  MaxCids = 2
  MaxVersion = 1
  MaxDown = 3
PROPERTIES
  DropEndsSession
  ClientReturns
