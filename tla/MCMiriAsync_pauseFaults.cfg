\* One control thread pauses while event pumps, transfers and the consumer may
\* fail or cancel.  After a fatal pump error read_async has returned and no
\* step of the library is enabled any more: deadlock is not checked.
CONSTANTS
  c1 = c1
  c2 = c2
  NumXfers = 2
  Clients <- OneClient
  ClientOps = {"pause"}
  Transfer = "bulk"
  SubmitMayFail = FALSE
  XferMayFail = TRUE
  EventsMayFail = TRUE
  ConsumerCancels = TRUE
SPECIFICATION Spec
CHECK_DEADLOCK FALSE
PROPERTY PauseQuiesces
