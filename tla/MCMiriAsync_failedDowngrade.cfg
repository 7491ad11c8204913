\* A control thread cancels while a transfer fails.
CONSTANTS
  c1 = c1
  c2 = c2
  NumXfers = 2
  Clients <- OneClient
  ClientOps = {"cancel", "cancel_now"}
  Transfer = "bulk"
  SubmitMayFail = FALSE
  XferMayFail = TRUE
  EventsMayFail = FALSE
  ConsumerCancels = FALSE
SPECIFICATION Spec
CHECK_DEADLOCK FALSE
PROPERTY FailedIsTerminal
