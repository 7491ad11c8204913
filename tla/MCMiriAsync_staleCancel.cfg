\* A control thread cancels while the consumer callback cancels too.
CONSTANTS
  c1 = c1
  c2 = c2
  NumXfers = 2
  Clients <- OneClient
  ClientOps = {"cancel", "cancel_now"}
  Transfer = "bulk"
  SubmitMayFail = FALSE
  XferMayFail = FALSE
  EventsMayFail = FALSE
  ConsumerCancels = TRUE
SPECIFICATION Spec
INVARIANT SessionDriven
