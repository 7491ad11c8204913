----------------------------- MODULE MiriAsync ------------------------------
(***************************************************************************)
(* The asynchronous transfer engine of libmirisdr (src/src/async.c).       *)
(*                                                                         *)
(* Two kinds of thread share one device handle p:                          *)
(*  - the drive thread, blocked in mirisdr_read_async: it submits the pool *)
(*    of libusb transfers and pumps libusb_handle_events_timeout; the      *)
(*    completion callback _libusb_callback runs inside that pump;          *)
(*  - control threads (Clients) calling mirisdr_cancel_async,              *)
(*    mirisdr_cancel_async_now, mirisdr_stop_async (pause) and             *)
(*    mirisdr_start_async (resume).  stop_async pumps events itself, so    *)
(*    callbacks also run inside its pump.                                  *)
(* The only shared word is p->async_status; it is read and written without *)
(* a lock, so every read-then-write of it is split into two steps here.   *)
(*                                                                         *)
(* libusb is modelled by what the code relies on: a submitted transfer is *)
(* in flight until its callback runs once; the callback reports COMPLETED  *)
(* (data arrived: only while the device streams), CANCELLED (only after    *)
(* libusb_cancel_transfer on that submission) or, as a fault, an error.    *)
(* libusb_submit_transfer fails with BUSY on a transfer in flight and does *)
(* not reset transfer->status; libusb_cancel_transfer of a transfer not in *)
(* flight does nothing.  Sample data is abstracted away (see the codec and *)
(* framer modules); a COMPLETED callback stands for one delivery.          *)
(***************************************************************************)
EXTENDS Integers, FiniteSets

CONSTANTS
  NumXfers,      \* p->xfer_buf_num, the number of transfers in the pool
  Clients,       \* control threads calling the public API
  ClientOps,     \* the API calls they make in a run
  Transfer,      \* p->transfer: "bulk" or "isoc"
  SubmitMayFail, \* libusb_submit_transfer may return an error
  XferMayFail,   \* a transfer may complete with an error status
  EventsMayFail, \* libusb_handle_events_timeout may return a fatal error
  ConsumerCancels \* the consumer callback p->cb may call mirisdr_cancel_async

ASSUME NumXfersAssumption == NumXfers \in Nat \ {0}
ASSUME ClientOpsAssumption ==
         ClientOps \subseteq {"cancel", "cancel_now", "pause", "resume", "signal"}
ASSUME TransferAssumption == Transfer \in {"bulk", "isoc"}
ASSUME FaultAssumption ==
         {SubmitMayFail, XferMayFail, EventsMayFail, ConsumerCancels}
           \subseteq BOOLEAN

Xfers == 1 .. NumXfers

\* enum async_status of struct mirisdr_dev
Status == {"INACTIVE", "CANCELING", "RUNNING", "PAUSED", "FAILED"}

\* enum libusb_transfer_status, the errors folded into one "error"
XferStatus == {"completed", "cancelled", "error"}

\* xfer->length of a bulk transfer: DEFAULT_BULK_BUFFER or 512 bytes less
XferLen == {"full", "short"}

\* Program counters.  The drive thread is "idle" outside read_async,
\* "pump" inside the loop's handle_events, "drain" between the CANCELING
\* test (line 470) and the end of the cancel round, "final" in the last
\* handle_events (line 492).
DrivePc == {"idle", "pump", "drain", "final"}

ClientPc == {"idle", "cancel_write", "now_write", "now_poll",
             "stop_round", "stop_pump", "stop_check", "stop_write",
             "resume_check", "resume_write"}

VARIABLES
  async_status,  \* p->async_status
  pool,          \* p->xfer /= NULL: the transfers are allocated
  inflight,      \* transfer i is submitted and its callback has not run
  xstatus,       \* p->xfer[i]->status, as the last callback reported it
  cancelled,     \* libusb_cancel_transfer was called on this submission
  xlen,          \* p->xfer[i]->length (bulk)
  sync_loss_cnt, \* p->sync_loss_cnt
  streaming,     \* the device streams (mirisdr_streaming_start/stop)
  drv,           \* program counter of the drive thread
  cli            \* program counters of the control threads

vars == <<async_status, pool, inflight, xstatus, cancelled, xlen,
          sync_loss_cnt, streaming, drv, cli>>

xferVars == <<inflight, xstatus, cancelled, xlen>>

TypeOK ==
  /\ async_status \in Status
  /\ pool \in BOOLEAN
  /\ inflight \in [Xfers -> BOOLEAN]
  /\ xstatus \in [Xfers -> XferStatus]
  /\ cancelled \in [Xfers -> BOOLEAN]
  /\ xlen \in [Xfers -> XferLen]
  /\ sync_loss_cnt \in -NumXfers + 1 .. NumXfers
  /\ streaming \in BOOLEAN
  /\ drv \in DrivePc
  /\ cli \in [Clients -> ClientPc]

\* mirisdr_open: the device structure is zeroed, mirisdr_setup stops any
\* streaming left on by a previous user.
Init ==
  /\ async_status = "INACTIVE"
  /\ pool = FALSE
  /\ inflight = [i \in Xfers |-> FALSE]
  /\ xstatus = [i \in Xfers |-> "completed"]
  /\ cancelled = [i \in Xfers |-> FALSE]
  /\ xlen = [i \in Xfers |-> "full"]
  /\ sync_loss_cnt = 0
  /\ streaming = FALSE
  /\ drv = "idle"
  /\ cli = [c \in Clients |-> "idle"]

\* mirisdr_streaming_start / mirisdr_streaming_stop (streaming.c): one
\* vendor control request each (0x43 / 0x45) whose result is ignored; the
\* NULL checks of p and p->dh never fail on an open device.
StreamingStart == streaming' = TRUE

StreamingStop == streaming' = FALSE

\* A thread is inside libusb_handle_events_timeout, so callbacks can run.
Pumping == drv \in {"pump", "final"} \/ \E c \in Clients : cli[c] = "stop_pump"

(***************************************************************************)
(* Drive thread: mirisdr_read_async.                                      *)
(***************************************************************************)

\* Mutants of ReadAsync: a guard that refuses only a live session, and the
\* RUNNING write moved before the submit loop.
ReadAsyncFromFailed ==
  /\ drv = "idle"
  /\ async_status \in {"INACTIVE", "FAILED"}
  /\ xstatus' = [i \in Xfers |-> "completed"]
  /\ cancelled' = [i \in Xfers |-> FALSE]
  /\ xlen' = [i \in Xfers |-> "full"]
  /\ sync_loss_cnt' = 0
  /\ pool' = TRUE /\ inflight' = [i \in Xfers |-> TRUE] /\ streaming' = TRUE
  /\ async_status' = "RUNNING" /\ drv' = "pump" /\ UNCHANGED cli

ReadAsyncRunningFirst ==
  /\ drv = "idle"
  /\ async_status = "INACTIVE"
  /\ xstatus' = [i \in Xfers |-> "completed"]
  /\ cancelled' = [i \in Xfers |-> FALSE]
  /\ xlen' = [i \in Xfers |-> "full"]
  /\ sync_loss_cnt' = 0
  /\ async_status' = "RUNNING"
  /\ \/ pool' = TRUE /\ inflight' = [i \in Xfers |-> TRUE] /\ streaming' = TRUE
        /\ drv' = "pump"
     \/ SubmitMayFail /\ \E k \in Xfers : inflight' = [i \in Xfers |-> i < k]
        /\ pool' = FALSE /\ UNCHANGED <<streaming, drv>>
  /\ UNCHANGED cli

\* Lines 370-459: refuse unless INACTIVE, reset the counters, allocate the
\* pool (freshly: every exit of read_async frees it), submit transfers
\* 1..NumXfers in order.  A failed submission frees the pool, the ones
\* already submitted included, and returns -1.  Otherwise start streaming
\* and enter the loop as RUNNING.
ReadAsync ==
  /\ drv = "idle"
  /\ async_status = "INACTIVE"
  /\ xstatus' = [i \in Xfers |-> "completed"]
  /\ cancelled' = [i \in Xfers |-> FALSE]
  /\ xlen' = [i \in Xfers |-> "full"]
  /\ sync_loss_cnt' = 0
  /\ \/ /\ pool' = TRUE
        /\ inflight' = [i \in Xfers |-> TRUE]
        /\ StreamingStart
        /\ async_status' = "RUNNING"
        /\ drv' = "pump"
     \/ /\ SubmitMayFail
        /\ \E k \in Xfers :
             inflight' = [i \in Xfers |-> i < k]
        /\ pool' = FALSE
        /\ UNCHANGED <<streaming, async_status, drv>>
  /\ UNCHANGED cli

\* Lines 463-497: handle_events returned.  A fatal error frees the pool
\* and returns -1, whatever the status; CANCELING starts a cancel round;
\* FAILED frees the pool and returns -1.
DriveCheck ==
  /\ drv = "pump"
  /\ \/ /\ EventsMayFail
        /\ pool' = FALSE
        /\ drv' = "idle"
     \/ /\ async_status = "CANCELING"
        /\ drv' = "drain"
        /\ UNCHANGED pool
     \/ /\ async_status = "FAILED"
        /\ pool' = FALSE
        /\ drv' = "idle"
  /\ UNCHANGED <<async_status, xferVars, sync_loss_cnt, streaming, cli>>

\* The transfers a cancel round (lines 478-486, 562-570) calls
\* libusb_cancel_transfer on: those whose last status is not CANCELLED.
ToCancel == {i \in Xfers : xstatus[i] /= "cancelled"}

\* Mutant: the call of libusb_cancel_transfer is missing.
CancelRoundNoCancel == UNCHANGED cancelled

CancelRound ==
  cancelled' = [i \in Xfers |-> cancelled[i] \/ (i \in ToCancel /\ inflight[i])]

\* Mutants of DrainRound: INACTIVE after one round without waiting for the
\* cancellations; leaving the loop without writing INACTIVE.
DrainRoundNoWait ==
  /\ drv = "drain" /\ CancelRound
  /\ async_status' = "INACTIVE" /\ drv' = "final"
  /\ UNCHANGED <<pool, inflight, xstatus, xlen, sync_loss_cnt, streaming, cli>>

DrainRoundNoInactive ==
  /\ drv = "drain" /\ CancelRound
  /\ drv' = IF ToCancel = {} THEN "final" ELSE "pump"
  /\ UNCHANGED <<async_status, pool, inflight, xstatus, xlen, sync_loss_cnt,
                 streaming, cli>>

\* Lines 477-494: cancel the transfers not yet reported cancelled.  When
\* there was none, write INACTIVE (without reading the status again) and
\* go to the last handle_events; otherwise pump again.
DrainRound ==
  /\ drv = "drain"
  /\ CancelRound
  /\ IF ToCancel = {}
       THEN /\ async_status' = "INACTIVE"
            /\ drv' = "final"
       ELSE /\ drv' = "pump"
            /\ UNCHANGED async_status
  /\ UNCHANGED <<pool, inflight, xstatus, xlen, sync_loss_cnt, streaming, cli>>

\* Lines 492-512: the last handle_events returned; free the pool, stop
\* streaming and return 0.
FinalReturn ==
  /\ drv = "final"
  /\ pool' = FALSE
  /\ StreamingStop
  /\ drv' = "idle"
  /\ UNCHANGED <<async_status, xferVars, sync_loss_cnt, cli>>

(***************************************************************************)
(* The completion callback _libusb_callback (lines 177-230), run inside   *)
(* some thread's handle_events.                                            *)
(***************************************************************************)

\* The statuses libusb can report for transfer i.
Outcomes(i) ==
     (IF streaming THEN {"completed"} ELSE {})
  \cup (IF cancelled[i] THEN {"cancelled"} ELSE {})
  \cup (IF XferMayFail THEN {"error"} ELSE {})

\* Mutant: the failed: label only calls mirisdr_cancel_async.
CallbackFailedNoFailed ==
  async_status' = IF async_status \in {"RUNNING", "PAUSED"}
                    THEN "CANCELING" ELSE async_status

\* The failed: label (lines 226-229): mirisdr_cancel_async, then FAILED.
\* Both writes happen on this thread back to back; the last one stays.
CallbackFailed == async_status' = "FAILED"

\* Mutant: the counter re-armed to -xfer_buf_num instead of -xfer_buf_num+1.
SyncLossRearmOffByOne(i) ==
  IF Transfer = "bulk"
    THEN \E loss \in {0, 1} :
           IF sync_loss_cnt + loss > NumXfers
             THEN sync_loss_cnt' = -NumXfers /\ xlen' = [xlen EXCEPT ![i] = "short"]
             ELSE sync_loss_cnt' = sync_loss_cnt + loss
                  /\ xlen' = [xlen EXCEPT ![i] = "full"]
    ELSE UNCHANGED <<sync_loss_cnt, xlen>>

\* Lines 202-213: the codec may report a sample-address discontinuity
\* (convert.c, sync_loss_cnt++).  In bulk mode, once the counter exceeds
\* the pool size it is re-armed and the next submission is 512 bytes
\* short; the isochronous path never reads the counter, so it is left out.
SyncLoss(i) ==
  IF Transfer = "bulk"
    THEN \E loss \in {0, 1} :
           IF sync_loss_cnt + loss > NumXfers
             THEN /\ sync_loss_cnt' = -NumXfers + 1
                  /\ xlen' = [xlen EXCEPT ![i] = "short"]
             ELSE /\ sync_loss_cnt' = sync_loss_cnt + loss
                  /\ xlen' = [xlen EXCEPT ![i] = "full"]
    ELSE UNCHANGED <<sync_loss_cnt, xlen>>

\* mirisdr_feed_async hands the data to p->cb, which may call
\* mirisdr_cancel_async (miri_sdr.c does, once it has read enough): on
\* this thread, so its read and write of the status are one step.
Deliver ==
  \/ UNCHANGED async_status
  \/ /\ ConsumerCancels
     /\ async_status \in {"RUNNING", "PAUSED"}
     /\ async_status' = "CANCELING"

\* A COMPLETED transfer: convert and deliver, adjust the bulk length and
\* resubmit (whatever the status); a failed resubmission goes to failed:.
CallbackCompleted(i) ==
  /\ xstatus' = [xstatus EXCEPT ![i] = "completed"]
  /\ SyncLoss(i)
  /\ \/ /\ Deliver
        /\ cancelled' = [cancelled EXCEPT ![i] = FALSE]
        /\ UNCHANGED inflight
     \/ /\ SubmitMayFail
        /\ inflight' = [inflight EXCEPT ![i] = FALSE]
        /\ CallbackFailed
        /\ UNCHANGED cancelled

LibusbCallback(i) ==
  /\ Pumping
  /\ inflight[i]
  /\ \E st \in Outcomes(i) :
       \/ /\ st = "completed"
          /\ CallbackCompleted(i)
       \/ /\ st = "cancelled"
          /\ inflight' = [inflight EXCEPT ![i] = FALSE]
          /\ xstatus' = [xstatus EXCEPT ![i] = "cancelled"]
          /\ UNCHANGED <<async_status, cancelled, xlen, sync_loss_cnt>>
       \/ /\ st = "error"
          /\ inflight' = [inflight EXCEPT ![i] = FALSE]
          /\ xstatus' = [xstatus EXCEPT ![i] = "error"]
          /\ CallbackFailed
          /\ UNCHANGED <<cancelled, xlen, sync_loss_cnt>>
  /\ UNCHANGED <<pool, streaming, drv, cli>>

(***************************************************************************)
(* Control threads.                                                        *)
(***************************************************************************)

\* Moves control thread c from pc a to pc b and leaves the rest of cli.
Goto(c, a, b) == cli[c] = a /\ cli' = [cli EXCEPT ![c] = b]

\* Mutant: the INACTIVE case falls through to the RUNNING case.
CancelAsyncFromInactive(c) ==
  /\ "cancel" \in ClientOps
  /\ async_status \in {"INACTIVE", "RUNNING", "PAUSED"}
  /\ Goto(c, "idle", "cancel_write")
  /\ UNCHANGED <<async_status, pool, xferVars, sync_loss_cnt, streaming, drv>>

\* mirisdr_cancel_async (233-246) and mirisdr_cancel_async_now (258-272)
\* read the status; from RUNNING or PAUSED they go on to write CANCELING.
\* From any other status they return at once (no state changes), except
\* cancel_async_now from CANCELING, which goes straight to its poll loop.
CancelAsync(c) ==
  /\ "cancel" \in ClientOps
  /\ async_status \in {"RUNNING", "PAUSED"}
  /\ Goto(c, "idle", "cancel_write")
  /\ UNCHANGED <<async_status, pool, xferVars, sync_loss_cnt, streaming, drv>>

CancelAsyncNow(c) ==
  /\ "cancel_now" \in ClientOps
  /\ \/ /\ async_status \in {"RUNNING", "PAUSED"}
        /\ Goto(c, "idle", "now_write")
     \/ /\ async_status = "CANCELING"
        /\ Goto(c, "idle", "now_poll")
  /\ UNCHANGED <<async_status, pool, xferVars, sync_loss_cnt, streaming, drv>>

\* Line 242 / 268: the write of CANCELING, on the value read before.
CancelWrite(c) ==
  /\ \/ Goto(c, "cancel_write", "idle")
     \/ Goto(c, "now_write", "now_poll")
  /\ async_status' = "CANCELING"
  /\ UNCHANGED <<pool, xferVars, sync_loss_cnt, streaming, drv>>

\* Lines 275-284: poll every 20 ms until INACTIVE or FAILED, return 0.
CancelNowPoll(c) ==
  /\ async_status \in {"INACTIVE", "FAILED"}
  /\ Goto(c, "now_poll", "idle")
  /\ UNCHANGED <<async_status, pool, xferVars, sync_loss_cnt, streaming, drv>>

\* mirisdr_stop_async, line 558: only from RUNNING.
StopAsync(c) ==
  /\ "pause" \in ClientOps
  /\ async_status = "RUNNING"
  /\ Goto(c, "idle", "stop_round")
  /\ UNCHANGED <<async_status, pool, xferVars, sync_loss_cnt, streaming, drv>>

\* Mutant: stop_async leaves its loop right after issuing the cancels.
StopRoundNoWait(c) ==
  /\ \/ async_status = "RUNNING" /\ pool /\ CancelRound
        /\ Goto(c, "stop_round", "stop_check")
     \/ async_status /= "RUNNING" /\ Goto(c, "stop_round", "idle")
        /\ UNCHANGED cancelled
  /\ UNCHANGED <<async_status, pool, inflight, xstatus, xlen, sync_loss_cnt,
                 streaming, drv>>

\* Lines 560-572: while RUNNING, cancel the transfers not reported
\* cancelled; break out when there was none, pump otherwise.  When the
\* status is no longer RUNNING the check at line 582 fails: return -1.
StopRound(c) ==
  /\ \/ /\ async_status = "RUNNING"
        /\ pool   \* p->xfer[i] of a freed pool dereferences NULL
        /\ CancelRound
        /\ IF ToCancel = {}
             THEN Goto(c, "stop_round", "stop_check")
             ELSE Goto(c, "stop_round", "stop_pump")
     \/ /\ async_status /= "RUNNING"
        /\ Goto(c, "stop_round", "idle")
        /\ UNCHANGED cancelled
  /\ UNCHANGED <<async_status, pool, inflight, xstatus, xlen, sync_loss_cnt,
                 streaming, drv>>

\* Lines 575-579: handle_events returned; a fatal error returns -1.
StopPump(c) ==
  /\ \/ Goto(c, "stop_pump", "stop_round")
     \/ EventsMayFail /\ Goto(c, "stop_pump", "idle")
  /\ UNCHANGED <<async_status, pool, xferVars, sync_loss_cnt, streaming, drv>>

\* Line 582: the status must still be RUNNING.
StopCheck(c) ==
  /\ \/ async_status = "RUNNING" /\ Goto(c, "stop_check", "stop_write")
     \/ async_status /= "RUNNING" /\ Goto(c, "stop_check", "idle")
  /\ UNCHANGED <<async_status, pool, xferVars, sync_loss_cnt, streaming, drv>>

\* Lines 584-591: sleep, stop streaming, write PAUSED.
StopWrite(c) ==
  /\ Goto(c, "stop_write", "idle")
  /\ StreamingStop
  /\ async_status' = "PAUSED"
  /\ UNCHANGED <<pool, xferVars, sync_loss_cnt, drv>>

\* mirisdr_start_async, lines 526-537: only from PAUSED; reset the framer
\* and resubmit the transfers in order.  A transfer still in flight makes
\* libusb_submit_transfer fail with BUSY, as may a fault: return -1,
\* leaving submitted the ones before it.
StartAsync(c) ==
  /\ "resume" \in ClientOps
  /\ async_status = "PAUSED"
  /\ pool   \* p->xfer[i] of a freed pool dereferences NULL
  /\ \E k \in Xfers \cup {NumXfers + 1} :
       /\ \A i \in 1 .. k - 1 : ~inflight[i]
       /\ inflight' = [i \in Xfers |-> inflight[i] \/ i < k]
       /\ cancelled' = [i \in Xfers |-> IF i < k THEN FALSE ELSE cancelled[i]]
       /\ IF k = NumXfers + 1
            THEN Goto(c, "idle", "resume_check")
            ELSE /\ inflight[k] \/ SubmitMayFail
                 /\ Goto(c, "idle", "idle")
  /\ UNCHANGED <<async_status, pool, xstatus, xlen, sync_loss_cnt, streaming, drv>>

\* Line 539: the status must still be PAUSED.
ResumeCheck(c) ==
  /\ \/ async_status = "PAUSED" /\ Goto(c, "resume_check", "resume_write")
     \/ async_status /= "PAUSED" /\ Goto(c, "resume_check", "idle")
  /\ UNCHANGED <<async_status, pool, xferVars, sync_loss_cnt, streaming, drv>>

\* Lines 541-543: start streaming, write RUNNING.
ResumeWrite(c) ==
  /\ Goto(c, "resume_write", "idle")
  /\ StreamingStart
  /\ async_status' = "RUNNING"
  /\ UNCHANGED <<pool, xferVars, sync_loss_cnt, drv>>

\* miri_sdr's sighandler (miri_sdr.c): on SIGINT/SIGTERM it calls
\* mirisdr_cancel_async.  The handler runs on the thread it interrupts, the
\* drive thread blocked in read_async, so the read and the write of the
\* status cannot be separated by a step of that thread: one step.
SignalCancel ==
  /\ "signal" \in ClientOps
  /\ async_status \in {"RUNNING", "PAUSED"}
  /\ async_status' = "CANCELING"
  /\ UNCHANGED <<pool, xferVars, sync_loss_cnt, streaming, drv, cli>>

ClientStep(c) ==
  \/ CancelAsync(c) \/ CancelAsyncNow(c) \/ CancelWrite(c) \/ CancelNowPoll(c)
  \/ StopAsync(c) \/ StopRound(c) \/ StopPump(c) \/ StopCheck(c)
  \/ StopWrite(c) \/ StartAsync(c) \/ ResumeCheck(c) \/ ResumeWrite(c)

Next ==
  \/ ReadAsync \/ DriveCheck \/ DrainRound \/ FinalReturn
  \/ \E i \in Xfers : LibusbCallback(i)
  \/ \E c \in Clients : ClientStep(c)
  \/ SignalCancel

(***************************************************************************)
(* Fairness.  The drive thread runs while it is inside read_async; the    *)
(* application decides when to call it, so ReadAsync is not fair.  A     *)
(* control thread that has entered an API call finishes it; when to call  *)
(* one is the application's choice.  libusb eventually reports a transfer *)
(* that was asked to cancel, as long as events keep being pumped          *)
(* (strong fairness: the pump is entered and left repeatedly).            *)
(***************************************************************************)
CancelReported(i) ==
  /\ LibusbCallback(i)
  /\ xstatus'[i] = "cancelled"

Fairness ==
  /\ WF_vars(DriveCheck) /\ WF_vars(DrainRound) /\ WF_vars(FinalReturn)
  /\ \A i \in Xfers : SF_vars(CancelReported(i))
  /\ \A c \in Clients :
       /\ WF_vars(CancelWrite(c))
       /\ WF_vars(CancelNowPoll(c))
       /\ WF_vars(StopRound(c)) /\ WF_vars(StopPump(c))
       /\ WF_vars(StopCheck(c)) /\ WF_vars(StopWrite(c))
       /\ WF_vars(ResumeCheck(c)) /\ WF_vars(ResumeWrite(c))

Spec == Init /\ [][Next]_vars /\ Fairness

(***************************************************************************)
(* Properties.                                                             *)
(***************************************************************************)

\* libusb forbids libusb_free_transfer on a transfer in flight: a transfer
\* that is still submitted belongs to a live pool, i.e. read_async never
\* frees the pool (mirisdr_async_free, lines 501 and 515) under a transfer
\* libusb still holds, on the normal exit or on a failure path.
NoFreeWhileInFlight == \A i \in Xfers : inflight[i] => pool

\* "FAILED dominates all other pending-state writes" (spec 4.1, comment at
\* line 228): once the callback has written FAILED, no later write of a
\* control thread or of the drive loop replaces it.
FailedIsTerminal ==
  [][async_status = "FAILED" => async_status' = "FAILED"]_vars

\* A session that is RUNNING, PAUSED or CANCELING has its pool and a drive
\* thread still looping in read_async that will drain it; otherwise
\* stop_async/start_async dereference a freed pool and a cancel is never
\* acted on.
SessionDriven ==
  async_status \in {"RUNNING", "PAUSED", "CANCELING"} =>
    /\ pool
    /\ drv \in {"pump", "drain"}

\* A cancel request is honoured: CANCELING is eventually followed by
\* INACTIVE (drain complete) or FAILED (the drive loop of read_async).
CancelingEnds ==
  async_status = "CANCELING" ~> async_status \in {"INACTIVE", "FAILED"}

\* "cancel_and_wait ... used for deterministic teardown before closing a
\* device" (spec 4.1): when mirisdr_cancel_async_now returns, read_async
\* has returned, so mirisdr_close may free the device.
CancelNowQuiesces ==
  [][\A c \in Clients :
       (cli[c] = "now_poll" /\ cli'[c] = "idle") => drv = "idle"]_vars

\* When mirisdr_stop_async writes PAUSED (line 591) no transfer of the pool
\* is in flight: "waits ... for all transfers to report canceled, then
\* sets PAUSED" (spec 4.1).
PauseQuiesces ==
  [][\A c \in Clients :
       (cli[c] = "stop_write" /\ cli'[c] = "idle") =>
          \A i \in Xfers : ~inflight[i]]_vars

\* The session lifecycle of spec 4.1 (module AsyncLifecycle), with the
\* status word for its state and "the drive thread is inside read_async"
\* for its session flag.
Life == INSTANCE AsyncLifecycle
          WITH status <- async_status, session <- drv /= "idle"

\* The engine implements that lifecycle: every write of async_status, by
\* the drive loop, a callback or any API call, is one the lifecycle
\* allows at that point, and read_async returns only from INACTIVE or
\* FAILED.  Broken by a write decided on a status read before another
\* actor's write (a stale CANCELING, PAUSED or RUNNING).
Lifecycle == Life!Spec

\* "On exit, the engine stops the hardware streaming signal" (spec 4.1):
\* outside read_async the device does not stream.
StreamingStoppedOnExit == drv = "idle" => ~streaming

=============================================================================
