---------------------------- MODULE MCPollLock ----------------------------
(* Instances of PollLock for TLC: two processes; Mongo is configured, is   *)
(* not, or either.                                                         *)
EXTENDS PollLock

Either == {TRUE, FALSE}
Local == {FALSE}
Mongo == {TRUE}
=============================================================================
