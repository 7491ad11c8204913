--------------------------- MODULE AsyncLifecycle ----------------------------
(***************************************************************************)
(* What the asynchronous engine promises its users (spec section 4.1),    *)
(* independent of transfers, pumps and threads: the life of one device's  *)
(* streaming sessions as seen through the status word and the blocking    *)
(* mirisdr_read_async call.                                                *)
(*                                                                         *)
(*   status   the session state (async_status);                            *)
(*   session  a mirisdr_read_async call is in progress and drives it.      *)
(*                                                                         *)
(* A session starts only from INACTIVE with no call in progress; pause,   *)
(* resume and cancel move it along RUNNING -> PAUSED -> RUNNING and on to *)
(* CANCELING, only while it is driven; the drive loop ends a cancel with  *)
(* INACTIVE; FAILED may replace any other state of a driven session and   *)
(* nothing replaces FAILED; the call returns only once the session is     *)
(* INACTIVE or FAILED.                                                     *)
(***************************************************************************)

VARIABLES status, session

vars == <<status, session>>

Live == {"RUNNING", "PAUSED", "CANCELING"}

TypeOK ==
  /\ status \in Live \cup {"INACTIVE", "FAILED"}
  /\ session \in BOOLEAN

Init == status = "INACTIVE" /\ ~session

Start ==
  /\ ~session /\ status = "INACTIVE"
  /\ status' = "RUNNING" /\ session' = TRUE

Pause  == session /\ status = "RUNNING" /\ status' = "PAUSED" /\ UNCHANGED session

Resume == session /\ status = "PAUSED" /\ status' = "RUNNING" /\ UNCHANGED session

Cancel ==
  /\ session /\ status \in {"RUNNING", "PAUSED"}
  /\ status' = "CANCELING" /\ UNCHANGED session

Drained == session /\ status = "CANCELING" /\ status' = "INACTIVE" /\ UNCHANGED session

Fail == session /\ status /= "FAILED" /\ status' = "FAILED" /\ UNCHANGED session

Return ==
  /\ session /\ status \in {"INACTIVE", "FAILED"}
  /\ session' = FALSE /\ UNCHANGED status

Next == Start \/ Pause \/ Resume \/ Cancel \/ Drained \/ Fail \/ Return

Spec == Init /\ [][Next]_vars

=============================================================================
