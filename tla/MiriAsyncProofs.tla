-------------------------- MODULE MiriAsyncProofs ---------------------------
(***************************************************************************)
(* Proofs about the transfer engine of MiriAsync, for every pool size and *)
(* every set of control threads.                                          *)
(***************************************************************************)
EXTENDS MiriAsync, TLAPS

(***************************************************************************)
(* Type correctness.  Every step keeps the variables in their types; the  *)
(* only arithmetic is the bulk sync-loss counter, whose re-arming at      *)
(* -xfer_buf_num + 1 keeps it inside -NumXfers + 1 .. NumXfers.           *)
(***************************************************************************)

\* The sync-loss update of one completed bulk transfer keeps the counter
\* and the lengths typed.
LEMMA SyncLossTyped ==
  ASSUME TypeOK, NEW i \in Xfers, SyncLoss(i)
  PROVE  /\ sync_loss_cnt' \in -NumXfers + 1 .. NumXfers
         /\ xlen' \in [Xfers -> XferLen]
<1>1. CASE Transfer = "bulk"
  <2>1. PICK loss \in {0, 1} :
          IF sync_loss_cnt + loss > NumXfers
            THEN /\ sync_loss_cnt' = -NumXfers + 1
                 /\ xlen' = [xlen EXCEPT ![i] = "short"]
            ELSE /\ sync_loss_cnt' = sync_loss_cnt + loss
                 /\ xlen' = [xlen EXCEPT ![i] = "full"]
    BY <1>1 DEF SyncLoss
  <2>2. QED
    BY <2>1, NumXfersAssumption DEF TypeOK, XferLen
<1>2. CASE Transfer /= "bulk"
  BY <1>2 DEF SyncLoss, TypeOK
<1>3. QED
  BY <1>1, <1>2

\* A control-thread step keeps the variables typed.
LEMMA ClientStepTyped ==
  ASSUME TypeOK, NEW c \in Clients, ClientStep(c)
  PROVE  TypeOK'
<1> USE DEF TypeOK, Goto, ClientPc, Status
<1>1. CASE CancelAsync(c) \/ CancelAsyncNow(c) \/ CancelWrite(c)
           \/ CancelNowPoll(c) \/ StopAsync(c)
  BY <1>1 DEF CancelAsync, CancelAsyncNow, CancelWrite, CancelNowPoll,
              StopAsync, xferVars
<1>2. CASE StopRound(c)
  BY <1>2 DEF StopRound, CancelRound
<1>3. CASE StopPump(c) \/ StopCheck(c) \/ StopWrite(c)
           \/ ResumeCheck(c) \/ ResumeWrite(c)
  BY <1>3 DEF StopPump, StopCheck, StopWrite, ResumeCheck, ResumeWrite,
              StreamingStop, StreamingStart, xferVars
<1>4. CASE StartAsync(c)
  BY <1>4 DEF StartAsync, Xfers
<1>5. QED
  BY <1>1, <1>2, <1>3, <1>4 DEF ClientStep

\* A completion callback keeps the variables typed.
LEMMA CallbackTyped ==
  ASSUME TypeOK, NEW i \in Xfers, LibusbCallback(i)
  PROVE  TypeOK'
<1> USE DEF TypeOK
<1>1. PICK st \in Outcomes(i) :
        \/ st = "completed" /\ CallbackCompleted(i)
        \/ /\ st = "cancelled"
           /\ inflight' = [inflight EXCEPT ![i] = FALSE]
           /\ xstatus' = [xstatus EXCEPT ![i] = "cancelled"]
           /\ UNCHANGED <<async_status, cancelled, xlen, sync_loss_cnt>>
        \/ /\ st = "error"
           /\ inflight' = [inflight EXCEPT ![i] = FALSE]
           /\ xstatus' = [xstatus EXCEPT ![i] = "error"]
           /\ CallbackFailed
           /\ UNCHANGED <<cancelled, xlen, sync_loss_cnt>>
  BY DEF LibusbCallback
<1>2. UNCHANGED <<pool, streaming, drv, cli>>
  BY DEF LibusbCallback
<1>3. CASE CallbackCompleted(i)
  <2>1. /\ sync_loss_cnt' \in -NumXfers + 1 .. NumXfers
        /\ xlen' \in [Xfers -> XferLen]
    BY <1>3, SyncLossTyped DEF CallbackCompleted
  <2>2. QED
    BY <1>2, <1>3, <2>1 DEF CallbackCompleted, Deliver, CallbackFailed,
                            XferStatus, Status
<1>4. QED
  BY <1>1, <1>2, <1>3 DEF CallbackFailed, XferStatus, Status

\* Every step of Next keeps the variables typed.
LEMMA TypeStep ==
  TypeOK /\ [Next]_vars => TypeOK'
<1> SUFFICES ASSUME TypeOK, [Next]_vars PROVE TypeOK'
  OBVIOUS
<1>1. CASE ReadAsync
  <2>1. /\ inflight' \in [Xfers -> BOOLEAN]
        /\ pool' \in BOOLEAN
        /\ streaming' \in BOOLEAN
        /\ async_status' \in Status
        /\ drv' \in DrivePc
    <3>1. CASE /\ pool' = TRUE
               /\ inflight' = [i \in Xfers |-> TRUE]
               /\ streaming' = TRUE
               /\ async_status' = "RUNNING"
               /\ drv' = "pump"
      BY <3>1 DEF Status, DrivePc
    <3>2. CASE /\ \E k \in Xfers : inflight' = [i \in Xfers |-> i < k]
               /\ pool' = FALSE
               /\ UNCHANGED <<streaming, async_status, drv>>
      <4>1. PICK k \in Xfers : inflight' = [i \in Xfers |-> i < k]
        BY <3>2
      <4>2. inflight' \in [Xfers -> BOOLEAN]
        BY <4>1
      <4>3. QED
        BY <3>2, <4>2 DEF TypeOK
    <3>3. QED
      BY <1>1, <3>1, <3>2 DEF ReadAsync, StreamingStart
  <2>2. sync_loss_cnt' \in -NumXfers + 1 .. NumXfers
    BY <1>1, NumXfersAssumption DEF ReadAsync
  <2>3. QED
    BY <1>1, <2>1, <2>2 DEF ReadAsync, TypeOK, XferStatus, XferLen
<1>2. CASE DriveCheck
  BY <1>2 DEF DriveCheck, TypeOK, DrivePc, xferVars
<1>3. CASE DrainRound
  BY <1>3 DEF DrainRound, CancelRound, TypeOK, DrivePc, Status
<1>4. CASE FinalReturn
  BY <1>4 DEF FinalReturn, StreamingStop, TypeOK, DrivePc, xferVars
<1>9. CASE SignalCancel
  BY <1>9 DEF SignalCancel, TypeOK, Status, xferVars
<1>5. ASSUME NEW i \in Xfers, LibusbCallback(i) PROVE TypeOK'
  BY <1>5, CallbackTyped
<1>6. ASSUME NEW c \in Clients, ClientStep(c) PROVE TypeOK'
  BY <1>6, ClientStepTyped
<1>7. CASE UNCHANGED vars
  BY <1>7 DEF vars, TypeOK
<1>8. QED
  BY <1>1, <1>2, <1>3, <1>4, <1>5, <1>6, <1>7, <1>9 DEF Next

\* The initial state of an opened device is typed.
LEMMA InitTyped ==
  Init => TypeOK
<1> SUFFICES ASSUME Init PROVE TypeOK
  OBVIOUS
<1>1. sync_loss_cnt \in -NumXfers + 1 .. NumXfers
  BY NumXfersAssumption DEF Init
<1>2. cli \in [Clients -> ClientPc]
  BY DEF Init, ClientPc
<1>3. QED
  BY <1>1, <1>2 DEF Init, TypeOK, Status, XferStatus, XferLen, DrivePc

\* The variables keep their types in every behaviour of the engine: the
\* status, the program counters, and the bulk sync-loss counter stays in
\* -xfer_buf_num + 1 .. xfer_buf_num whatever the codec reports.
THEOREM TypeCorrect == Spec => []TypeOK
<1>1. Init => TypeOK
  BY InitTyped
<1>2. TypeOK /\ [Next]_vars => TypeOK'
  BY TypeStep
<1>3. QED
  BY <1>1, <1>2, PTL DEF Spec

(***************************************************************************)
(* The pool outlives its transfers.  Without libusb faults and without    *)
(* mirisdr_start_async, read_async frees the pool only once every         *)
(* transfer has reported CANCELLED (the semafor of lines 477-494), and a  *)
(* transfer that reported CANCELLED is not resubmitted.  The strengthening *)
(* IInv records both, and that FAILED (which would free the pool at once)  *)
(* is never written.                                                       *)
(***************************************************************************)

\* The configurations the theorem covers: no libusb fault, no resume.
NoFaultNoResume ==
  /\ ~SubmitMayFail /\ ~XferMayFail /\ ~EventsMayFail
  /\ "resume" \notin ClientOps

\* A transfer whose last report is CANCELLED is not in flight.
CancelledIdle == \A i \in Xfers : xstatus[i] = "cancelled" => ~inflight[i]

\* In the last handle_events no transfer is in flight.
FinalIdle == drv = "final" => \A i \in Xfers : ~inflight[i]

IInv ==
  /\ TypeOK
  /\ async_status /= "FAILED"
  /\ CancelledIdle
  /\ NoFreeWhileInFlight
  /\ FinalIdle

\* A control-thread step touches neither the transfers, nor the pool, nor
\* the drive thread, and never writes FAILED.
LEMMA ClientStepFrame ==
  ASSUME NoFaultNoResume, NEW c \in Clients, ClientStep(c),
         async_status /= "FAILED"
  PROVE  /\ UNCHANGED <<inflight, xstatus, pool, drv>>
         /\ async_status' /= "FAILED"
<1>1. CASE \/ CancelAsync(c) \/ CancelAsyncNow(c) \/ CancelNowPoll(c)
           \/ StopAsync(c) \/ StopPump(c) \/ StopCheck(c) \/ ResumeCheck(c)
  BY <1>1 DEF CancelAsync, CancelAsyncNow, CancelNowPoll, StopAsync,
              StopPump, StopCheck, ResumeCheck, xferVars
<1>2. CASE StopRound(c)
  BY <1>2 DEF StopRound
<1>3. CASE CancelWrite(c) \/ StopWrite(c) \/ ResumeWrite(c)
  BY <1>3 DEF CancelWrite, StopWrite, ResumeWrite, xferVars
<1>4. ~StartAsync(c)
  BY DEF NoFaultNoResume, StartAsync
<1>5. QED
  BY <1>1, <1>2, <1>3, <1>4 DEF ClientStep

\* A completion callback never submits a transfer that was not in flight,
\* leaves the pool and the drive thread alone, and, without faults, never
\* writes FAILED; a transfer it reports CANCELLED leaves flight.
LEMMA CallbackStep ==
  ASSUME NoFaultNoResume, IInv, NEW i \in Xfers, LibusbCallback(i)
  PROVE  /\ async_status' /= "FAILED"
         /\ UNCHANGED <<pool, drv>>
         /\ \A j \in Xfers : inflight'[j] => inflight[j]
         /\ CancelledIdle'
<1> USE DEF IInv, TypeOK
<1>1. PICK st \in Outcomes(i) :
        \/ st = "completed" /\ CallbackCompleted(i)
        \/ /\ st = "cancelled"
           /\ inflight' = [inflight EXCEPT ![i] = FALSE]
           /\ xstatus' = [xstatus EXCEPT ![i] = "cancelled"]
           /\ UNCHANGED <<async_status, cancelled, xlen, sync_loss_cnt>>
        \/ /\ st = "error"
           /\ inflight' = [inflight EXCEPT ![i] = FALSE]
           /\ xstatus' = [xstatus EXCEPT ![i] = "error"]
           /\ CallbackFailed
           /\ UNCHANGED <<cancelled, xlen, sync_loss_cnt>>
  BY DEF LibusbCallback
<1>2. UNCHANGED <<pool, drv>>
  BY DEF LibusbCallback
<1>3. st /= "error"
  BY DEF Outcomes, NoFaultNoResume
<1>4. CASE st = "completed"
  <2>1. /\ xstatus' = [xstatus EXCEPT ![i] = "completed"]
        /\ UNCHANGED inflight
        /\ async_status' \in {async_status, "CANCELING"}
    BY <1>1, <1>4 DEF CallbackCompleted, Deliver, NoFaultNoResume
  <2>2. QED
    BY <1>2, <2>1 DEF CancelledIdle
<1>5. CASE st = "cancelled"
  BY <1>1, <1>2, <1>5 DEF CancelledIdle
<1>6. QED
  BY <1>1, <1>3, <1>4, <1>5

\* IInv holds initially and is preserved by every step.
LEMMA IInvStep ==
  ASSUME NoFaultNoResume
  PROVE  IInv /\ [Next]_vars => IInv'
<1> SUFFICES ASSUME IInv, [Next]_vars PROVE IInv'
  OBVIOUS
<1>1. TypeOK'
  BY TypeStep DEF IInv
<1>2. CASE ReadAsync
  <2>1. /\ pool' = TRUE
        /\ inflight' = [j \in Xfers |-> TRUE]
        /\ xstatus' = [j \in Xfers |-> "completed"]
        /\ async_status' = "RUNNING"
        /\ drv' = "pump"
    BY <1>2 DEF ReadAsync, NoFaultNoResume
  <2>2. QED
    BY <1>1, <2>1 DEF IInv, CancelledIdle, NoFreeWhileInFlight, FinalIdle
<1>3. CASE DriveCheck
  <2>1. /\ async_status = "CANCELING"
        /\ drv' = "drain"
        /\ UNCHANGED <<async_status, pool, inflight, xstatus>>
    BY <1>3 DEF DriveCheck, NoFaultNoResume, IInv, xferVars
  <2>2. QED
    BY <1>1, <2>1 DEF IInv, CancelledIdle, NoFreeWhileInFlight, FinalIdle
<1>4. CASE DrainRound
  <2>1. UNCHANGED <<pool, inflight, xstatus>>
    BY <1>4 DEF DrainRound
  <2>2. async_status' \in {async_status, "INACTIVE"}
    BY <1>4 DEF DrainRound
  <2>3. drv' = "final" => \A j \in Xfers : xstatus[j] = "cancelled"
    BY <1>4 DEF DrainRound, ToCancel
  <2>4. QED
    BY <1>1, <2>1, <2>2, <2>3
       DEF IInv, CancelledIdle, NoFreeWhileInFlight, FinalIdle
<1>5. CASE FinalReturn
  <2>1. /\ drv = "final"
        /\ pool' = FALSE
        /\ drv' = "idle"
        /\ UNCHANGED <<async_status, inflight, xstatus>>
    BY <1>5 DEF FinalReturn, xferVars
  <2>2. QED
    BY <1>1, <2>1 DEF IInv, CancelledIdle, NoFreeWhileInFlight, FinalIdle
<1>6. ASSUME NEW i \in Xfers, LibusbCallback(i) PROVE IInv'
  <2>1. /\ async_status' /= "FAILED"
        /\ UNCHANGED <<pool, drv>>
        /\ \A j \in Xfers : inflight'[j] => inflight[j]
        /\ CancelledIdle'
    BY <1>6, CallbackStep
  <2>2. QED
    BY <1>1, <2>1 DEF IInv, NoFreeWhileInFlight, FinalIdle
<1>7. ASSUME NEW c \in Clients, ClientStep(c) PROVE IInv'
  <2>1. /\ UNCHANGED <<inflight, xstatus, pool, drv>>
        /\ async_status' /= "FAILED"
    BY <1>7, ClientStepFrame DEF IInv
  <2>2. QED
    BY <1>1, <2>1 DEF IInv, CancelledIdle, NoFreeWhileInFlight, FinalIdle
<1>10. CASE SignalCancel
  <2>1. /\ UNCHANGED <<inflight, xstatus, pool, drv>>
        /\ async_status' = "CANCELING"
    BY <1>10 DEF SignalCancel, xferVars
  <2>2. QED
    BY <1>1, <2>1 DEF IInv, CancelledIdle, NoFreeWhileInFlight, FinalIdle
<1>8. CASE UNCHANGED vars
  BY <1>8 DEF vars, IInv, TypeOK, CancelledIdle, NoFreeWhileInFlight,
              FinalIdle
<1>9. QED
  BY <1>2, <1>3, <1>4, <1>5, <1>6, <1>7, <1>8, <1>10 DEF Next

\* Without libusb faults and without mirisdr_start_async, read_async never
\* frees the transfer pool (mirisdr_async_free, line 501) while libusb
\* still holds one of its transfers, for every pool size, transfer type
\* and number of control threads calling cancel, cancel_now and pause.
THEOREM PoolOutlivesTransfers ==
  ASSUME NoFaultNoResume
  PROVE  Spec => []NoFreeWhileInFlight
<1>1. Init => IInv
  BY InitTyped DEF Init, IInv, CancelledIdle, NoFreeWhileInFlight, FinalIdle
<1>2. IInv /\ [Next]_vars => IInv'
  BY IInvStep
<1>3. IInv => NoFreeWhileInFlight
  BY DEF IInv
<1>4. QED
  BY <1>1, <1>2, <1>3, PTL DEF Spec

=============================================================================
