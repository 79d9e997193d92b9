---------------------------- MODULE MCReadyQueue ----------------------------
(* Small instances of ReadyQueue: a queue of three and one of two let a    *)
(* process leave from the head, return to the tail and meet its old        *)
(* neighbours in another order.                                            *)
EXTENDS ReadyQueue

CONSTANTS T1, T2, T3, S1, U1, U2
=============================================================================
