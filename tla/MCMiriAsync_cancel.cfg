\* One control thread cancels (with or without waiting) a bulk session of a
\* device that never fails: the normal teardown of an application.
CONSTANTS
  c1 = c1
  c2 = c2
  NumXfers = 2
  Clients <- OneClient
  ClientOps = {"cancel", "cancel_now"}
  Transfer = "bulk"
  SubmitMayFail = FALSE
  XferMayFail = FALSE
  EventsMayFail = FALSE
  ConsumerCancels = FALSE
SPECIFICATION Spec
INVARIANT TypeOK SessionDriven
INVARIANT NoFreeWhileInFlight
PROPERTY CancelingEnds Lifecycle
