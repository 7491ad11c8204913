---------------------------- MODULE ReceiverProofs ----------------------------
(***************************************************************************)
(* The receiver's own configuration.  miri_sdr runs no control thread:    *)
(* its cancels come from the consumer callback and the signal handler,    *)
(* both on the drive thread, and libusb may fail in every way.  The only  *)
(* writers of the status are then the drive loop, the completion callback *)
(* and those two atomic cancels.                                           *)
(*                                                                         *)
(* FAILED is terminal: every writer but the drain's INACTIVE write checks  *)
(* the status first; the drain writes without reading it again, and is    *)
(* safe because nothing runs a callback while the drive thread is between *)
(* its pumps.  A live status is driven as long as the event pump does not *)
(* fail.                                                                   *)
(***************************************************************************)
EXTENDS MiriAsyncProofs

\* The drain is entered on CANCELING and, with nobody else pumping, the
\* status cannot change before its INACTIVE write.
DrainOnCanceling == drv = "drain" => async_status = "CANCELING"

DInv == TypeOK /\ DrainOnCanceling

\* With no control thread only the drive loop pumps events, so no callback
\* runs while it is in the drain.
LEMMA NoPumpInDrain ==
  ASSUME Clients = {}, drv = "drain"
  PROVE  ~Pumping
BY DEF Pumping

\* A callback never writes anything but FAILED, or CANCELING from RUNNING or
\* PAUSED.
LEMMA CallbackWrites ==
  ASSUME NEW i \in Xfers, LibusbCallback(i)
  PROVE  \/ async_status' = async_status
         \/ async_status' = "FAILED"
         \/ async_status \in {"RUNNING", "PAUSED"}
<1>1. PICK st \in Outcomes(i) :
        \/ st = "completed" /\ CallbackCompleted(i)
        \/ st = "cancelled" /\ UNCHANGED async_status
        \/ st = "error" /\ CallbackFailed
  BY DEF LibusbCallback
<1>2. QED
  BY <1>1 DEF CallbackCompleted, Deliver, CallbackFailed

\* Every step keeps the drain on CANCELING.
LEMMA DInvStep ==
  ASSUME Clients = {}
  PROVE  DInv /\ [Next]_vars => DInv'
<1> SUFFICES ASSUME DInv, [Next]_vars PROVE DInv'
  OBVIOUS
<1>1. TypeOK'
  BY TypeStep DEF DInv
<1>2. DrainOnCanceling'
  <2>1. CASE ReadAsync
    BY <2>1 DEF ReadAsync, DrainOnCanceling
  <2>2. CASE DriveCheck
    BY <2>2 DEF DriveCheck, DrainOnCanceling
  <2>3. CASE DrainRound
    BY <2>3 DEF DrainRound, DrainOnCanceling
  <2>4. CASE FinalReturn
    BY <2>4 DEF FinalReturn, DrainOnCanceling
  <2>5. ASSUME NEW i \in Xfers, LibusbCallback(i) PROVE DrainOnCanceling'
    <3>1. drv /= "drain"
      BY <2>5, NoPumpInDrain DEF LibusbCallback
    <3>2. drv' = drv
      BY <2>5 DEF LibusbCallback
    <3>3. QED
      BY <3>1, <3>2 DEF DrainOnCanceling
  <2>6. CASE SignalCancel
    BY <2>6 DEF SignalCancel, DrainOnCanceling
  <2>7. CASE UNCHANGED vars
    BY <2>7 DEF vars, DInv, DrainOnCanceling
  <2>8. QED
    BY <2>1, <2>2, <2>3, <2>4, <2>5, <2>6, <2>7 DEF Next
<1>3. QED
  BY <1>1, <1>2 DEF DInv

\* With the invariant, no step replaces FAILED.
LEMMA FailedStep ==
  ASSUME Clients = {}, DInv, [Next]_vars
  PROVE  async_status = "FAILED" => async_status' = "FAILED"
<1> SUFFICES ASSUME async_status = "FAILED" PROVE async_status' = "FAILED"
  OBVIOUS
<1>1. CASE ReadAsync \/ DriveCheck \/ FinalReturn \/ SignalCancel
  BY <1>1 DEF ReadAsync, DriveCheck, FinalReturn, SignalCancel
<1>2. CASE DrainRound
  BY <1>2 DEF DrainRound, DInv, DrainOnCanceling
<1>3. ASSUME NEW i \in Xfers, LibusbCallback(i) PROVE async_status' = "FAILED"
  BY <1>3, CallbackWrites
<1>4. CASE UNCHANGED vars
  BY <1>4 DEF vars
<1>5. QED
  BY <1>1, <1>2, <1>3, <1>4 DEF Next

\* In miri_sdr's configuration (no control thread; cancels from the
\* consumer callback and the signal handler; every libusb fault), once a
\* callback has written FAILED nothing replaces it: for every pool size
\* and transfer type, "FAILED dominates all other pending-state writes".
THEOREM FailedStays ==
  ASSUME Clients = {}
  PROVE  Spec => FailedIsTerminal
<1>1. Init => DInv
  BY InitTyped DEF Init, DInv, DrainOnCanceling
<1>2. Spec => []DInv
  BY <1>1, DInvStep, PTL DEF Spec
<1>3. DInv /\ [Next]_vars =>
        [async_status = "FAILED" => async_status' = "FAILED"]_vars
  BY FailedStep
<1>4. QED
  BY <1>2, <1>3, PTL DEF Spec, FailedIsTerminal

(***************************************************************************)
(* A live status is driven.  With no control thread and a pump that does  *)
(* not fail, every RUNNING, PAUSED or CANCELING status has its pool and   *)
(* a drive loop that will act on it.  The strengthening says where the    *)
(* drive thread is for each status: the drain runs on CANCELING, the last *)
(* pump on INACTIVE or FAILED (a callback of that pump may still fail),   *)
(* and the pool lives as long as the drive thread is inside read_async.   *)
(***************************************************************************)
SInv ==
  /\ TypeOK
  /\ SessionDriven
  /\ DrainOnCanceling
  /\ drv = "final" => async_status \in {"INACTIVE", "FAILED"}
  /\ drv /= "idle" => pool

\* The receiver's configuration with a pump that does not fail.
Receiver == Clients = {} /\ ~EventsMayFail

LEMMA SInvInit ==
  Init => SInv
BY InitTyped DEF Init, SInv, SessionDriven, DrainOnCanceling

\* A callback may write FAILED, or CANCELING from RUNNING or PAUSED, and
\* touches neither the pool nor the drive thread.
LEMMA CallbackSInv ==
  ASSUME Clients = {}, SInv, NEW i \in Xfers, LibusbCallback(i)
  PROVE  SInv'
<1>1. UNCHANGED <<pool, drv>>
  BY DEF LibusbCallback
<1>2. drv /= "drain"
  BY NoPumpInDrain DEF LibusbCallback
<1>3. \/ async_status' = async_status
      \/ async_status' = "FAILED"
      \/ async_status \in {"RUNNING", "PAUSED"} /\ async_status' = "CANCELING"
  <2>1. PICK st \in Outcomes(i) :
          \/ st = "completed" /\ CallbackCompleted(i)
          \/ st = "cancelled" /\ UNCHANGED async_status
          \/ st = "error" /\ CallbackFailed
    BY DEF LibusbCallback
  <2>2. QED
    BY <2>1 DEF CallbackCompleted, Deliver, CallbackFailed
<1>4. TypeOK'
  BY TypeStep DEF SInv, Next
<1>5. QED
  BY <1>1, <1>2, <1>3, <1>4 DEF SInv, SessionDriven, DrainOnCanceling

LEMMA SInvStep ==
  ASSUME Receiver
  PROVE  SInv /\ [Next]_vars => SInv'
<1> SUFFICES ASSUME SInv, [Next]_vars PROVE SInv'
  OBVIOUS
<1>1. TypeOK'
  BY TypeStep DEF SInv
<1> USE DEF SInv, SessionDriven, DrainOnCanceling
<1>2. CASE ReadAsync
  BY <1>1, <1>2 DEF ReadAsync
<1>3. CASE DriveCheck
  BY <1>1, <1>3 DEF DriveCheck, Receiver
<1>4. CASE DrainRound
  BY <1>1, <1>4 DEF DrainRound
<1>5. CASE FinalReturn
  BY <1>1, <1>5 DEF FinalReturn
<1>6. ASSUME NEW i \in Xfers, LibusbCallback(i) PROVE SInv'
  BY <1>6, CallbackSInv DEF Receiver
<1>7. CASE SignalCancel
  BY <1>1, <1>7 DEF SignalCancel
<1>8. CASE UNCHANGED vars
  BY <1>1, <1>8 DEF vars
<1>9. QED
  BY <1>2, <1>3, <1>4, <1>5, <1>6, <1>7, <1>8 DEF Next, Receiver

\* In miri_sdr's configuration, whenever the status is RUNNING, PAUSED or
\* CANCELING the pool is allocated and the drive loop of read_async is
\* still running to act on it, for every pool size, transfer type and
\* every transfer and submission fault (a failing event pump excluded: the
\* eventErr configuration shows it returns with the status still RUNNING).
THEOREM ReceiverDriven ==
  ASSUME Receiver
  PROVE  Spec => []SessionDriven
<1>1. Spec => []SInv
  BY SInvInit, SInvStep, PTL DEF Spec
<1>2. QED
  BY <1>1, PTL DEF SInv

(***************************************************************************)
(* The receiver implements the session lifecycle.                          *)
(***************************************************************************)

\* In the receiver's configuration every step maps to a lifecycle step or
\* a stutter: the callback's FAILED is Fail (or a stutter on FAILED), its
\* consumer cancel and the signal handler's cancel are Cancel, the drain's
\* INACTIVE is Drained, and the drive loop returns (Return) from the last
\* pump or on FAILED.
LEMMA ReceiverRefineStep ==
  ASSUME Receiver
  PROVE  SInv /\ [Next]_vars => [Life!Next]_Life!vars
<1> SUFFICES ASSUME SInv, [Next]_vars PROVE [Life!Next]_Life!vars
  OBVIOUS
<1> USE DEF SInv, SessionDriven, DrainOnCanceling, Life!vars
<1>1. CASE ReadAsync
  BY <1>1 DEF ReadAsync, Life!Next, Life!Start
<1>2. CASE DriveCheck
  BY <1>2 DEF DriveCheck, Receiver, Life!Next, Life!Return
<1>3. CASE DrainRound
  BY <1>3 DEF DrainRound, Life!Next, Life!Drained
<1>4. CASE FinalReturn
  BY <1>4 DEF FinalReturn, Life!Next, Life!Return
<1>5. ASSUME NEW i \in Xfers, LibusbCallback(i) PROVE [Life!Next]_Life!vars
  <2>1. UNCHANGED drv /\ drv \in {"pump", "final"}
    BY <1>5 DEF LibusbCallback, Pumping, Receiver
  <2>2. \/ async_status' = async_status
        \/ async_status' = "FAILED"
        \/ async_status \in {"RUNNING", "PAUSED"} /\ async_status' = "CANCELING"
    <3>1. PICK st \in Outcomes(i) :
            \/ st = "completed" /\ CallbackCompleted(i)
            \/ st = "cancelled" /\ UNCHANGED async_status
            \/ st = "error" /\ CallbackFailed
      BY <1>5 DEF LibusbCallback
    <3>2. QED
      BY <3>1 DEF CallbackCompleted, Deliver, CallbackFailed
  <2>3. QED
    BY <2>1, <2>2 DEF Life!Next, Life!Fail, Life!Cancel
<1>6. CASE SignalCancel
  BY <1>6 DEF SignalCancel, Life!Next, Life!Cancel
<1>7. CASE UNCHANGED vars
  BY <1>7 DEF vars
<1>8. QED
  BY <1>1, <1>2, <1>3, <1>4, <1>5, <1>6, <1>7 DEF Next, Receiver

\* In miri_sdr's configuration (no control thread; cancels from the
\* consumer and the signal handler; failing transfers and submissions;
\* an event pump that does not fail) the engine implements the session
\* lifecycle of spec 4.1, FAILED included.
THEOREM ReceiverImplements ==
  ASSUME Receiver
  PROVE  Spec => Lifecycle
<1>1. Init => Life!Init
  BY DEF Init, Life!Init
<1>2. SInv /\ [Next]_vars => [Life!Next]_Life!vars
  BY ReceiverRefineStep
<1>3. QED
  BY <1>1, <1>2, SInvInit, SInvStep, PTL DEF Spec, Lifecycle, Life!Spec

=============================================================================
