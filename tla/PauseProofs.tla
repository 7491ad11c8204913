----------------------------- MODULE PauseProofs ------------------------------
(***************************************************************************)
(* mirisdr_stop_async writes PAUSED only when no transfer is in flight,   *)
(* when pause is the only call the control threads make, whatever libusb, *)
(* the event pump and the consumer do.                                     *)
(*                                                                         *)
(* The pause loop leaves for its check (line 582) only after a cancel     *)
(* round found every transfer reported CANCELLED (ToCancel = {}), and a   *)
(* CANCELLED transfer is not in flight: it is resubmitted only by resume. *)
(* What must be shown is that nothing resubmits a transfer between that   *)
(* round and the PAUSED write: no callback can (none is in flight), and   *)
(* read_async cannot start again, because the status stays RUNNING or     *)
(* PAUSED while a pause is pending and the drain, which alone writes      *)
(* INACTIVE, runs only on CANCELING or FAILED.                             *)
(***************************************************************************)
EXTENDS MiriAsyncProofs

\* The configurations the theorem covers: the control threads only pause.
OnlyPause == ClientOps \subseteq {"pause"}

\* The drain loop runs on a cancelled or failed session only.
DrainNotLive == drv = "drain" => async_status \in {"CANCELING", "FAILED"}

\* A pause past its last cancel round sees every transfer reported
\* CANCELLED and the session still RUNNING or PAUSED.
PausePending ==
  \A c \in Clients :
    cli[c] \in {"stop_check", "stop_write"} =>
      /\ async_status \in {"RUNNING", "PAUSED"}
      /\ \A i \in Xfers : xstatus[i] = "cancelled"

\* The threads are inside mirisdr_stop_async or outside the API.
InPause ==
  \A c \in Clients :
    cli[c] \in {"idle", "stop_round", "stop_pump", "stop_check", "stop_write"}

PInv == TypeOK /\ CancelledIdle /\ DrainNotLive /\ PausePending /\ InPause

\* While a pause is past its last cancel round no transfer is in flight.
LEMMA PendingIdle ==
  ASSUME PInv, NEW c \in Clients, cli[c] \in {"stop_check", "stop_write"}
  PROVE  \A i \in Xfers : ~inflight[i]
BY DEF PInv, PausePending, CancelledIdle

\* Under OnlyPause a control step is one of the steps of stop_async.
LEMMA PauseSteps ==
  ASSUME OnlyPause, PInv, NEW c \in Clients, ClientStep(c)
  PROVE  StopAsync(c) \/ StopRound(c) \/ StopPump(c) \/ StopCheck(c)
           \/ StopWrite(c)
<1>1. cli[c] \in {"idle", "stop_round", "stop_pump", "stop_check", "stop_write"}
  BY DEF PInv, InPause
<1>2. ~CancelAsync(c) /\ ~CancelAsyncNow(c) /\ ~StartAsync(c)
  BY DEF OnlyPause, CancelAsync, CancelAsyncNow, StartAsync
<1>3. ~CancelWrite(c) /\ ~CancelNowPoll(c) /\ ~ResumeCheck(c)
      /\ ~ResumeWrite(c)
  BY <1>1 DEF CancelWrite, CancelNowPoll, ResumeCheck, ResumeWrite, Goto
<1>4. QED
  BY <1>2, <1>3 DEF ClientStep

\* A completion callback: the transfer was in flight, so no pause is past
\* its last round, and the report keeps CancelledIdle.
LEMMA CallbackPInv ==
  ASSUME PInv, NEW i \in Xfers, LibusbCallback(i)
  PROVE  /\ CancelledIdle'
         /\ DrainNotLive'
         /\ PausePending'
         /\ InPause'
<1> USE DEF PInv, TypeOK
<1>1. inflight[i] /\ UNCHANGED <<drv, cli>>
  BY DEF LibusbCallback
<1>2. PICK st \in Outcomes(i) :
        \/ st = "completed" /\ CallbackCompleted(i)
        \/ /\ st = "cancelled"
           /\ inflight' = [inflight EXCEPT ![i] = FALSE]
           /\ xstatus' = [xstatus EXCEPT ![i] = "cancelled"]
           /\ UNCHANGED async_status
        \/ /\ st = "error"
           /\ inflight' = [inflight EXCEPT ![i] = FALSE]
           /\ xstatus' = [xstatus EXCEPT ![i] = "error"]
           /\ CallbackFailed
  BY DEF LibusbCallback
<1>3. /\ inflight' \in [Xfers -> BOOLEAN]
      /\ xstatus' \in [Xfers -> XferStatus]
      /\ \A j \in Xfers \ {i} : inflight'[j] = inflight[j] /\ xstatus'[j] = xstatus[j]
      /\ xstatus'[i] = "cancelled" => ~inflight'[i]
  <2>1. CASE st = "completed" /\ CallbackCompleted(i)
    <3>1. /\ xstatus' = [xstatus EXCEPT ![i] = "completed"]
          /\ \/ inflight' = inflight
             \/ inflight' = [inflight EXCEPT ![i] = FALSE]
      BY <2>1 DEF CallbackCompleted
    <3>2. QED
      BY <3>1 DEF XferStatus
  <2>2. CASE st = "cancelled" /\ inflight' = [inflight EXCEPT ![i] = FALSE]
                             /\ xstatus' = [xstatus EXCEPT ![i] = "cancelled"]
    BY <2>2 DEF XferStatus
  <2>3. CASE st = "error" /\ inflight' = [inflight EXCEPT ![i] = FALSE]
                         /\ xstatus' = [xstatus EXCEPT ![i] = "error"]
    BY <2>3 DEF XferStatus
  <2>4. QED
    BY <1>2, <2>1, <2>2, <2>3
<1>4. CancelledIdle'
  BY <1>3 DEF CancelledIdle
<1>5. async_status' \in {async_status, "FAILED", "CANCELING"}
  BY <1>2 DEF CallbackCompleted, Deliver, CallbackFailed
<1>6. DrainNotLive'
  BY <1>1, <1>5 DEF DrainNotLive
<1>7. \A c \in Clients : cli[c] \notin {"stop_check", "stop_write"}
  BY <1>1 DEF PausePending, CancelledIdle
<1>8. QED
  BY <1>1, <1>4, <1>6, <1>7 DEF PausePending, InPause

\* A step of stop_async keeps the pause invariant.
LEMMA PauseStepPInv ==
  ASSUME OnlyPause, PInv, NEW c \in Clients, ClientStep(c)
  PROVE  /\ CancelledIdle'
         /\ DrainNotLive'
         /\ PausePending'
         /\ InPause'
<1> USE DEF PInv, TypeOK
<1>1. CASE StopAsync(c) \/ StopPump(c) \/ StopCheck(c)
  BY <1>1 DEF StopAsync, StopPump, StopCheck, Goto, xferVars,
              CancelledIdle, DrainNotLive, PausePending, InPause
<1>2. CASE StopRound(c)
  <2>1. UNCHANGED <<async_status, inflight, xstatus, drv>>
    BY <1>2 DEF StopRound
  <2>2. \/ /\ async_status = "RUNNING" /\ ToCancel = {}
           /\ cli' = [cli EXCEPT ![c] = "stop_check"]
        \/ cli' = [cli EXCEPT ![c] = "stop_pump"]
        \/ cli' = [cli EXCEPT ![c] = "idle"]
    BY <1>2 DEF StopRound, Goto
  <2>3. QED
    BY <2>1, <2>2 DEF ToCancel, CancelledIdle, DrainNotLive, PausePending,
                      InPause
<1>3. CASE StopWrite(c)
  <2>1. /\ cli[c] = "stop_write" /\ cli' = [cli EXCEPT ![c] = "idle"]
        /\ async_status' = "PAUSED"
        /\ UNCHANGED <<inflight, xstatus, drv>>
    BY <1>3 DEF StopWrite, Goto, xferVars
  <2>2. drv /= "drain"
    BY <2>1 DEF PausePending, DrainNotLive
  <2>3. QED
    BY <2>1, <2>2 DEF CancelledIdle, DrainNotLive, PausePending, InPause
<1>4. QED
  BY <1>1, <1>2, <1>3, PauseSteps

\* The drive loop and read_async keep the pause invariant: read_async starts
\* only from INACTIVE, and the drain only runs on CANCELING or FAILED,
\* neither of which a pending pause can see.
LEMMA DrivePInv ==
  ASSUME PInv, ReadAsync \/ DriveCheck \/ DrainRound \/ FinalReturn
  PROVE  /\ CancelledIdle'
         /\ DrainNotLive'
         /\ PausePending'
         /\ InPause'
<1> USE DEF PInv, TypeOK
<1>1. CASE ReadAsync
  <2>1. \A c \in Clients : cli[c] \notin {"stop_check", "stop_write"}
    BY <1>1 DEF ReadAsync, PausePending
  <2>2. \A i \in Xfers : xstatus'[i] = "completed"
    BY <1>1 DEF ReadAsync
  <2>3. QED
    BY <1>1, <2>1, <2>2 DEF ReadAsync, CancelledIdle, DrainNotLive,
                            PausePending, InPause
<1>2. CASE DriveCheck
  BY <1>2 DEF DriveCheck, xferVars, CancelledIdle, DrainNotLive,
              PausePending, InPause
<1>3. CASE DrainRound
  <2>1. \A c \in Clients : cli[c] \notin {"stop_check", "stop_write"}
    BY <1>3 DEF DrainRound, DrainNotLive, PausePending
  <2>2. QED
    BY <1>3, <2>1 DEF DrainRound, CancelledIdle, DrainNotLive,
                      PausePending, InPause
<1>4. CASE FinalReturn
  BY <1>4 DEF FinalReturn, xferVars, CancelledIdle, DrainNotLive,
              PausePending, InPause
<1>5. QED
  BY <1>1, <1>2, <1>3, <1>4

LEMMA PInvInit ==
  Init => PInv
BY InitTyped DEF Init, PInv, CancelledIdle, DrainNotLive, PausePending,
                 InPause

LEMMA PInvStep ==
  ASSUME OnlyPause
  PROVE  PInv /\ [Next]_vars => PInv'
<1> SUFFICES ASSUME PInv, [Next]_vars PROVE PInv'
  OBVIOUS
<1>1. TypeOK'
  BY TypeStep DEF PInv
<1>2. CASE ReadAsync \/ DriveCheck \/ DrainRound \/ FinalReturn
  BY <1>1, <1>2, DrivePInv DEF PInv
<1>3. ASSUME NEW i \in Xfers, LibusbCallback(i) PROVE PInv'
  BY <1>1, <1>3, CallbackPInv DEF PInv
<1>4. ASSUME NEW c \in Clients, ClientStep(c) PROVE PInv'
  BY <1>1, <1>4, PauseStepPInv DEF PInv
<1>5. ~SignalCancel
  BY DEF OnlyPause, SignalCancel
<1>6. CASE UNCHANGED vars
  BY <1>6 DEF vars, PInv, TypeOK, CancelledIdle, DrainNotLive,
              PausePending, InPause
<1>7. QED
  BY <1>2, <1>3, <1>4, <1>5, <1>6 DEF Next

\* When the control threads only pause, for every pool size, number of
\* threads, transfer type and every libusb, pump and consumer fault,
\* mirisdr_stop_async writes PAUSED only when no transfer is in flight
\* ("waits for all transfers to report canceled, then sets PAUSED").
THEOREM PauseIsQuiet ==
  ASSUME OnlyPause
  PROVE  Spec => PauseQuiesces
<1>1. Spec => []PInv
  BY PInvInit, PInvStep, PTL DEF Spec
<1>2. PInv =>
        \A c \in Clients :
          (cli[c] = "stop_write" /\ cli'[c] = "idle") =>
             \A i \in Xfers : ~inflight[i]
  BY PendingIdle
<1>3. PInv /\ [Next]_vars =>
        [\A c \in Clients :
           (cli[c] = "stop_write" /\ cli'[c] = "idle") =>
              \A i \in Xfers : ~inflight[i]]_vars
  BY <1>2
<1>4. QED
  BY <1>1, <1>3, PTL DEF Spec, PauseQuiesces

=============================================================================
