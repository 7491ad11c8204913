\* cancel_async_now, then the device may be closed.
CONSTANTS
  c1 = c1
  c2 = c2
  NumXfers = 2
  Clients <- OneClient
  ClientOps = {"cancel", "cancel_now"}
  Transfer = "bulk"
  SubmitMayFail = FALSE
  XferMayFail = FALSE
  EventsMayFail = FALSE
  ConsumerCancels = FALSE
SPECIFICATION Spec
PROPERTY CancelNowQuiesces
