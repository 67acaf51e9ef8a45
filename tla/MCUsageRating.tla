--------------------------- MODULE MCUsageRating ---------------------------
(* Instances of UsageRating: two reports that cost credits, and what the   *)
(* ledger may be asked.                                                    *)
EXTENDS UsageRating, TLC

Reports == {"u1", "u2"}
PaidCosts == "u1" :> 2 @@ "u2" :> 1
Purchases == <<1, 2>>

RateKeys == {<<"rate", k, p>> : k \in {u \in Usage : Cost[u] > 0}, p \in Senders}
LedgerKeys == RateKeys \cup {<<"topup", n>> : n \in DOMAIN Purchases}
Ledger == [k \in LedgerKeys |->
    IF k \in RateKeys THEN [op |-> "deduct", amt |-> Cost[k[2]], exp |-> 0]
    ELSE [op |-> "credit", amt |-> Purchases[k[2]], exp |-> 0]]
=============================================================================
