\* A transfer fails; no control thread.
CONSTANTS
  c1 = c1
  c2 = c2
  NumXfers = 2
  Clients <- NoClient
  ClientOps = {}
  Transfer = "bulk"
  SubmitMayFail = FALSE
  XferMayFail = TRUE
  EventsMayFail = FALSE
  ConsumerCancels = FALSE
SPECIFICATION Spec
CHECK_DEADLOCK FALSE
INVARIANT NoFreeWhileInFlight
