\* libusb_handle_events_timeout fails in the drive loop.
CONSTANTS
  c1 = c1
  c2 = c2
  NumXfers = 2
  Clients <- OneClient
  ClientOps = {"cancel", "cancel_now"}
  Transfer = "bulk"
  SubmitMayFail = FALSE
  XferMayFail = FALSE
  EventsMayFail = TRUE
  ConsumerCancels = FALSE
SPECIFICATION Spec
CHECK_DEADLOCK FALSE
INVARIANT SessionDriven
