\* Pause, resume, then cancel.
CONSTANTS
  c1 = c1
  c2 = c2
  NumXfers = 2
  Clients <- OneClient
  ClientOps = {"cancel", "cancel_now", "pause", "resume"}
  Transfer = "bulk"
  SubmitMayFail = FALSE
  XferMayFail = FALSE
  EventsMayFail = FALSE
  ConsumerCancels = FALSE
SPECIFICATION Spec
INVARIANT NoFreeWhileInFlight
