----------------------------- MODULE MCCharging -----------------------------
(* Instances of Charging: one run beside a report that costs credits, and a *)
(* build followed by a repair of the same project with no reports at all.   *)
EXTENDS Charging, TLC

SameDir == "build" :> "d1" @@ "repair" :> "d1"
OneDir == "build" :> "d1"
Reports == {"u1"}
PaidCosts == [u \in Usage |-> 2]

RateKeys == {RateKey(id) : id \in Id}
\* LlmKeys, not through its instance, which needs the keys in turn.
CallKeys == {<<"llm", Dir[r], s, i>> :
    r \in Runs, s \in 1..MaxSteps, i \in 1..(MaxSteps + MaxAttempts + Recovery + 1)}
LedgerKeys == CallKeys \cup RateKeys \cup {<<"topup", 3>>}
Ledger == [k \in LedgerKeys |->
    IF k \in CallKeys THEN [op |-> "deduct", amt |-> 1, exp |-> 0]
    ELSE IF k \in RateKeys THEN [op |-> "deduct", amt |-> Cost[k[2]], exp |-> 0]
    ELSE [op |-> "credit", amt |-> k[2], exp |-> 0]]
=============================================================================
