SPECIFICATION Spec
CONSTANTS
  Transport = "http"
  PushResponses = FALSE
  Lifecycle = TRUE
  PostHandshake = TRUE
  MaxSent = 2
  MaxSessions = 2
  MaxCids = 2
  MaxVersion = 2
  MaxDown = 3
INVARIANT
  ClaimBacked
