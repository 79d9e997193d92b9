---------------------------- MODULE MCInterrupts ----------------------------
(* A small instance of Interrupts: the clock (line 0) and the keyboard      *)
(* (line 1), each with a task to notify.                                   *)
EXTENDS Interrupts, TLC

CONSTANTS ClockTask, TtyTask

TwoLines == 0 :> ClockTask @@ 1 :> TtyTask

\* The clock goes on; the keyboard might be turned off.
Either == 0 :> {TRUE} @@ 1 :> BOOLEAN
=============================================================================
