--------------------------- MODULE MCHostSessions ---------------------------
(* Instances of HostSessions: processes and bots are interchangeable.       *)
EXTENDS HostSessions, TLC
Symmetry == Permutations(Procs) \cup Permutations(Bots)
=============================================================================
