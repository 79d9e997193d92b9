------------------------------- MODULE MCIpc -------------------------------
(* A small instance of Ipc: CLOCK is the one task interrupts notify, TTY    *)
(* another task, FS a server that users may call.                          *)
EXTENDS Ipc

CONSTANTS Clock, Tty, FS, U1, Empty

BootTasks == [task |-> <<Clock, Tty>>, server |-> <<FS>>, user |-> <<U1>>]
=============================================================================
