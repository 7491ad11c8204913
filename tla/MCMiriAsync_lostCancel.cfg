\* A control thread pauses the stream while a signal handler (as in
\* miri_sdr) cancels it, on a device that never fails.
CONSTANTS
  c1 = c1
  c2 = c2
  NumXfers = 1
  Clients <- OneClient
  ClientOps = {"pause", "signal"}
  Transfer = "isoc"
  SubmitMayFail = FALSE
  XferMayFail = FALSE
  EventsMayFail = FALSE
  ConsumerCancels = FALSE
SPECIFICATION Spec
PROPERTY Lifecycle
