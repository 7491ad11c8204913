\* One control thread pauses, resumes and cancels an isochronous session of a
\* device that never fails.
CONSTANTS
  c1 = c1
  c2 = c2
  NumXfers = 2
  Clients <- OneClient
  ClientOps = {"cancel", "cancel_now", "pause", "resume"}
  Transfer = "isoc"
  SubmitMayFail = FALSE
  XferMayFail = FALSE
  EventsMayFail = FALSE
  ConsumerCancels = FALSE
SPECIFICATION Spec
INVARIANT SessionDriven
PROPERTY CancelingEnds Lifecycle
