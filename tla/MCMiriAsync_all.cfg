\* Every behaviour at once: two control threads making every API call, every
\* fault, a cancelling consumer.  The states reached stay well-typed.  FAILED
\* and a failed pump end all activity: deadlock is not checked.
CONSTANTS
  c1 = c1
  c2 = c2
  NumXfers = 2
  Clients <- TwoClients
  ClientOps = {"cancel", "cancel_now", "pause", "resume"}
  Transfer = "bulk"
  SubmitMayFail = TRUE
  XferMayFail = TRUE
  EventsMayFail = TRUE
  ConsumerCancels = TRUE
SPECIFICATION Spec
CHECK_DEADLOCK FALSE
INVARIANT TypeOK
