------------------------------ MODULE MCClock -------------------------------
(* Small instances of Clock: the tasks of table.c, with servers that ask   *)
(* the clock, or a server and a user.                                      *)
EXTENDS Clock

CONSTANTS FS, MM, U1

BootOne == [task |-> <<CLOCK>>, server |-> <<FS>>, user |-> <<U1>>]

BootServers == [task |-> <<CLOCK>>, server |-> <<MM, FS>>, user |-> <<>>]
=============================================================================
