---------------------------- MODULE MCMiriAsync -----------------------------
(* Model-checking instance of MiriAsync: the constants the .cfg files give *)
(* as model values or definitions.                                         *)
EXTENDS MiriAsync

CONSTANTS c1, c2

\* One control thread, or two racing each other.
OneClient == {c1}
TwoClients == {c1, c2}
\* No control thread: only the drive thread and the device act.
NoClient == {}

=============================================================================
