------------------------- MODULE MCBalanceLifecycle -------------------------
(* Instances of BalanceLifecycle: one machine, or one per process.         *)
EXTENDS BalanceLifecycle, TLC

OneNode == [p \in Procs |-> "n1"]
NodeEach == [p \in Procs |-> p]
SmallCharges == {4, 6}
=============================================================================
