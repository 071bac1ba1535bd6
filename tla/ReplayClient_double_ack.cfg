SPECIFICATION Spec
CONSTANTS
  Transport = "http"
  PushResponses = FALSE
  Lifecycle = FALSE
  PostHandshake = FALSE
  MaxSent = 1
  MaxSessions = 1
  MaxCids = 1
  MaxVersion = 1
  MaxDown = 3
INVARIANTS
  AllAcknowledgedPasses
