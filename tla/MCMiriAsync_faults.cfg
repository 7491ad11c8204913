\* The receiver miri_sdr: no control thread, its consumer callback and its
\* signal handler cancel; transfers and resubmissions may fail.  A FAILED session is terminal (nothing in the library
\* leaves it), so the system may stop there: deadlock is not checked.
CONSTANTS
  c1 = c1
  c2 = c2
  NumXfers = 2
  Clients <- NoClient
  ClientOps = {"signal"}
  Transfer = "bulk"
  SubmitMayFail = TRUE
  XferMayFail = TRUE
  EventsMayFail = FALSE
  ConsumerCancels = TRUE
SPECIFICATION Spec
CHECK_DEADLOCK FALSE
INVARIANT SessionDriven
PROPERTY FailedIsTerminal CancelingEnds Lifecycle
