--------------------------- MODULE LifecycleProofs ---------------------------
(***************************************************************************)
(* The engine implements the session lifecycle (AsyncLifecycle) when one  *)
(* control thread drives the API and libusb does not fail, and in every    *)
(* such configuration the status is backed by a drive loop and streaming   *)
(* stops when read_async returns.                                          *)
(*                                                                         *)
(* Every status write of a control call is decided on a value read in an  *)
(* earlier step (CancelWrite, StopWrite, ResumeWrite).  The write is one   *)
(* the lifecycle allows only if nobody else changed the status in between: *)
(* with a single control thread, no cancelling consumer or signal handler  *)
(* and no failing transfer, the only other writer is the drive loop, and   *)
(* it only writes after a CANCELING that none of these writes can follow.  *)
(* LInv records the value each pending write was decided on, and ties the *)
(* status, the pool and the stream to the drive thread's position.         *)
(***************************************************************************)
EXTENDS MiriAsyncProofs

\* The configurations the theorems cover: one control thread (it may
\* cancel, cancel and wait, pause and resume), no signal handler, no
\* cancelling consumer, no libusb fault.
SoleController ==
  /\ \A c, d \in Clients : c = d
  /\ "signal" \notin ClientOps
  /\ ~ConsumerCancels
  /\ ~SubmitMayFail /\ ~XferMayFail /\ ~EventsMayFail

\* A pending status write still holds the value it was decided on.
PendingWrites ==
  \A c \in Clients :
    /\ cli[c] \in {"cancel_write", "now_write"} =>
         async_status \in {"RUNNING", "PAUSED"}
    /\ cli[c] = "stop_write" => async_status = "RUNNING"
    /\ cli[c] = "resume_write" => async_status = "PAUSED"

\* Where the drive thread is, given the status.
DrivePlace ==
  /\ async_status \in {"RUNNING", "PAUSED"} => drv = "pump"
  /\ async_status = "CANCELING" => drv \in {"pump", "drain"}
  /\ drv = "drain" => async_status = "CANCELING"
  /\ drv = "final" => async_status = "INACTIVE"
  /\ drv /= "idle" => pool
  /\ drv = "idle" => ~streaming

LInv ==
  /\ TypeOK
  /\ async_status /= "FAILED"
  /\ DrivePlace
  /\ PendingWrites

(***************************************************************************)
(* Frame lemmas: what callbacks and control steps leave alone.            *)
(***************************************************************************)

\* Without faults and a cancelling consumer, a completion callback changes
\* only the transfers and the bulk counters.
LEMMA CallbackQuiet ==
  ASSUME SoleController, NEW i \in Xfers, LibusbCallback(i)
  PROVE  UNCHANGED <<async_status, pool, streaming, drv, cli>>
<1>1. PICK st \in Outcomes(i) :
        \/ st = "completed" /\ CallbackCompleted(i)
        \/ /\ st = "cancelled"
           /\ UNCHANGED <<async_status, cancelled, xlen, sync_loss_cnt>>
        \/ st = "error"
  BY DEF LibusbCallback
<1>2. UNCHANGED <<pool, streaming, drv, cli>>
  BY DEF LibusbCallback
<1>3. st /= "error"
  BY DEF Outcomes, SoleController
<1>4. CASE st = "completed"
  <2>1. ~SubmitMayFail /\ ~ConsumerCancels
    BY DEF SoleController
  <2>2. Deliver
    BY <1>1, <1>4, <2>1 DEF CallbackCompleted
  <2>3. UNCHANGED async_status
    BY <2>1, <2>2 DEF Deliver
  <2>4. QED
    BY <1>2, <2>3
<1>5. QED
  BY <1>1, <1>2, <1>3, <1>4

\* A control step changes neither the pool nor the drive thread, and the
\* status only through one of its three writes.
LEMMA ClientQuiet ==
  ASSUME NEW c \in Clients, ClientStep(c)
  PROVE  /\ UNCHANGED <<pool, drv>>
         /\ \/ UNCHANGED async_status
            \/ CancelWrite(c) \/ StopWrite(c) \/ ResumeWrite(c)
<1>1. CASE CancelWrite(c) \/ StopWrite(c) \/ ResumeWrite(c)
  BY <1>1 DEF CancelWrite, StopWrite, ResumeWrite
<1>2. CASE \/ CancelAsync(c) \/ CancelAsyncNow(c) \/ CancelNowPoll(c)
           \/ StopAsync(c) \/ StopRound(c) \/ StopPump(c) \/ StopCheck(c)
           \/ StartAsync(c) \/ ResumeCheck(c)
  BY <1>2 DEF CancelAsync, CancelAsyncNow, CancelNowPoll, StopAsync,
              StopRound, StopPump, StopCheck, StartAsync, ResumeCheck
<1>3. QED
  BY <1>1, <1>2 DEF ClientStep

(***************************************************************************)
(* The inductive invariant.                                                *)
(***************************************************************************)

\* A step of the sole control thread keeps LInv: a write it makes is on
\* the value it read, and the drive thread is then in its pump.
LEMMA ClientLInv ==
  ASSUME SoleController, LInv, NEW c \in Clients, ClientStep(c)
  PROVE  LInv'
<1>1. TypeOK'
  BY ClientStepTyped DEF LInv
<1>2. \A d \in Clients : d = c
  BY DEF SoleController
<1>3. UNCHANGED <<pool, drv>>
  BY ClientQuiet
<1>4. cli \in [Clients -> ClientPc]
  BY DEF LInv, TypeOK
<1> USE <1>1, <1>2, <1>3, <1>4 DEF LInv, DrivePlace, PendingWrites, Goto
<1>5. CASE CancelAsync(c) \/ CancelAsyncNow(c) \/ CancelNowPoll(c)
  BY <1>5 DEF CancelAsync, CancelAsyncNow, CancelNowPoll
<1>6. CASE StopAsync(c) \/ StopRound(c) \/ StopPump(c) \/ StopCheck(c)
  BY <1>6 DEF StopAsync, StopRound, StopPump, StopCheck
<1>7. CASE StartAsync(c) \/ ResumeCheck(c)
  <2>1. UNCHANGED <<async_status, streaming>>
    BY <1>7 DEF StartAsync, ResumeCheck
  <2>2. cli'[c] \in {"resume_check", "idle"}
        \/ (cli'[c] = "resume_write" /\ async_status = "PAUSED")
    BY <1>7 DEF StartAsync, ResumeCheck
  <2>3. QED
    BY <2>1, <2>2
<1>8. CASE CancelWrite(c)
  <2>1. /\ cli[c] \in {"cancel_write", "now_write"}
        /\ cli'[c] \in {"idle", "now_poll"}
        /\ async_status' = "CANCELING"
        /\ UNCHANGED streaming
    BY <1>8 DEF CancelWrite
  <2>2. QED
    BY <2>1
<1>9. CASE StopWrite(c)
  <2>1. /\ cli[c] = "stop_write" /\ cli'[c] = "idle"
        /\ async_status' = "PAUSED" /\ streaming' = FALSE
    BY <1>9 DEF StopWrite, StreamingStop
  <2>2. QED
    BY <2>1
<1>10. CASE ResumeWrite(c)
  <2>1. /\ cli[c] = "resume_write" /\ cli'[c] = "idle"
        /\ async_status' = "RUNNING" /\ streaming' = TRUE
    BY <1>10 DEF ResumeWrite, StreamingStart
  <2>2. QED
    BY <2>1
<1>11. QED
  BY <1>5, <1>6, <1>7, <1>8, <1>9, <1>10 DEF ClientStep

\* LInv holds initially and is preserved by every step.
LEMMA LInvStep ==
  ASSUME SoleController
  PROVE  LInv /\ [Next]_vars => LInv'
<1> SUFFICES ASSUME LInv, [Next]_vars PROVE LInv'
  OBVIOUS
<1>1. TypeOK'
  BY TypeStep DEF LInv
<1> USE <1>1 DEF LInv, DrivePlace, PendingWrites
<1>2. CASE ReadAsync
  <2>1. /\ async_status = "INACTIVE" /\ async_status' = "RUNNING"
        /\ drv' = "pump" /\ pool' = TRUE /\ UNCHANGED cli
    BY <1>2 DEF ReadAsync, SoleController
  <2>2. QED
    BY <2>1
<1>3. CASE DriveCheck
  <2>1. /\ async_status = "CANCELING" /\ drv' = "drain"
        /\ UNCHANGED <<async_status, pool, streaming, cli>>
    BY <1>3 DEF DriveCheck, SoleController
  <2>2. QED
    BY <2>1
<1>4. CASE DrainRound
  <2>1. /\ drv = "drain" /\ UNCHANGED <<pool, streaming, cli>>
        /\ \/ async_status' = "INACTIVE" /\ drv' = "final"
           \/ UNCHANGED async_status /\ drv' = "pump"
    BY <1>4 DEF DrainRound
  <2>2. QED
    BY <2>1
<1>5. CASE FinalReturn
  <2>1. /\ drv = "final" /\ drv' = "idle" /\ streaming' = FALSE
        /\ UNCHANGED <<async_status, cli>>
    BY <1>5 DEF FinalReturn, StreamingStop
  <2>2. QED
    BY <2>1
<1>6. ASSUME NEW i \in Xfers, LibusbCallback(i) PROVE LInv'
  <2>1. UNCHANGED <<async_status, pool, streaming, drv, cli>>
    BY <1>6, CallbackQuiet
  <2>2. QED
    BY <2>1
<1>7. CASE SignalCancel
  BY <1>7 DEF SignalCancel, SoleController
<1>8. ASSUME NEW c \in Clients, ClientStep(c) PROVE LInv'
  BY <1>8, ClientLInv
<1>9. CASE UNCHANGED vars
  BY <1>9 DEF vars
<1>10. QED
  BY <1>2, <1>3, <1>4, <1>5, <1>6, <1>7, <1>8, <1>9 DEF Next

\* The initial state of an opened device satisfies LInv.
LEMMA LInvInit ==
  Init => LInv
BY InitTyped DEF Init, LInv, DrivePlace, PendingWrites

(***************************************************************************)
(* The refinement.                                                         *)
(***************************************************************************)

\* Under LInv every step of the engine is a step of the lifecycle or
\* leaves the status and the session flag unchanged.
LEMMA RefineStep ==
  ASSUME SoleController
  PROVE  LInv /\ [Next]_vars => [Life!Next]_Life!vars
<1> SUFFICES ASSUME LInv, [Next]_vars PROVE [Life!Next]_Life!vars
  OBVIOUS
<1> USE DEF LInv, DrivePlace, PendingWrites, Life!vars
<1>1. CASE ReadAsync
  <2>1. /\ drv = "idle" /\ async_status = "INACTIVE"
        /\ async_status' = "RUNNING" /\ drv' = "pump"
    BY <1>1 DEF ReadAsync, SoleController
  <2>2. QED
    BY <2>1 DEF Life!Next, Life!Start
<1>2. CASE DriveCheck
  BY <1>2 DEF DriveCheck, SoleController
<1>3. CASE DrainRound
  <2>1. /\ drv = "drain" /\ async_status = "CANCELING"
        /\ \/ async_status' = "INACTIVE" /\ drv' = "final"
           \/ UNCHANGED async_status /\ drv' = "pump"
    BY <1>3 DEF DrainRound
  <2>2. QED
    BY <2>1 DEF Life!Next, Life!Drained
<1>4. CASE FinalReturn
  <2>1. /\ drv = "final" /\ async_status = "INACTIVE"
        /\ drv' = "idle" /\ UNCHANGED async_status
    BY <1>4 DEF FinalReturn
  <2>2. QED
    BY <2>1 DEF Life!Next, Life!Return
<1>5. ASSUME NEW i \in Xfers, LibusbCallback(i) PROVE [Life!Next]_Life!vars
  BY <1>5, CallbackQuiet
<1>6. CASE SignalCancel
  BY <1>6 DEF SignalCancel, SoleController
<1>7. ASSUME NEW c \in Clients, ClientStep(c) PROVE [Life!Next]_Life!vars
  <2>1. /\ UNCHANGED drv
        /\ \/ UNCHANGED async_status
           \/ CancelWrite(c) \/ StopWrite(c) \/ ResumeWrite(c)
    BY <1>7, ClientQuiet
  <2>2. CASE CancelWrite(c)
    <3>1. /\ cli[c] \in {"cancel_write", "now_write"}
          /\ async_status' = "CANCELING"
      BY <2>2 DEF CancelWrite, Goto
    <3>2. QED
      BY <2>1, <3>1 DEF Life!Next, Life!Cancel
  <2>3. CASE StopWrite(c)
    <3>1. cli[c] = "stop_write" /\ async_status' = "PAUSED"
      BY <2>3 DEF StopWrite, Goto
    <3>2. QED
      BY <2>1, <3>1 DEF Life!Next, Life!Pause
  <2>4. CASE ResumeWrite(c)
    <3>1. cli[c] = "resume_write" /\ async_status' = "RUNNING"
      BY <2>4 DEF ResumeWrite, Goto
    <3>2. QED
      BY <2>1, <3>1 DEF Life!Next, Life!Resume
  <2>5. QED
    BY <2>1, <2>2, <2>3, <2>4
<1>8. CASE UNCHANGED vars
  BY <1>8 DEF vars
<1>9. QED
  BY <1>1, <1>2, <1>3, <1>4, <1>5, <1>6, <1>7, <1>8 DEF Next

\* With one control thread, no signal handler, no cancelling consumer and
\* no libusb fault, the engine implements the session lifecycle of spec
\* 4.1: every status write of read_async, the callback, cancel, pause and
\* resume is a lifecycle transition, and read_async returns only from
\* INACTIVE or FAILED.
THEOREM Implements ==
  ASSUME SoleController
  PROVE  Spec => Lifecycle
<1>1. Init => LInv
  BY LInvInit
<1>2. LInv /\ [Next]_vars => LInv'
  BY LInvStep
<1>3. Init => Life!Init
  BY DEF Init, Life!Init
<1>4. LInv /\ [Next]_vars => [Life!Next]_Life!vars
  BY RefineStep
<1>5. QED
  BY <1>1, <1>2, <1>3, <1>4, PTL DEF Spec, Lifecycle, Life!Spec

\* In the same configurations a RUNNING, PAUSED or CANCELING status always
\* has its pool and a drive loop of read_async that will act on it.
THEOREM StatusDriven ==
  ASSUME SoleController
  PROVE  Spec => []SessionDriven
<1>1. LInv => SessionDriven
  BY DEF LInv, DrivePlace, SessionDriven
<1>2. QED
  BY <1>1, LInvInit, LInvStep, PTL DEF Spec

\* In the same configurations the device does not stream once read_async
\* has returned (mirisdr_streaming_stop at the end of the drive loop).
THEOREM StreamStopped ==
  ASSUME SoleController
  PROVE  Spec => []StreamingStoppedOnExit
<1>1. LInv => StreamingStoppedOnExit
  BY DEF LInv, DrivePlace, StreamingStoppedOnExit
<1>2. QED
  BY <1>1, LInvInit, LInvStep, PTL DEF Spec

=============================================================================
