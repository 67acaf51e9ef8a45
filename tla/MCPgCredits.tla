---------------------------- MODULE MCPgCredits ----------------------------
(* Instances of PgCredits: who calls, and with which requests.             *)
EXTENDS PgCredits, TLC

Req3(op, amt, exp) == [op |-> op, amt |-> amt, exp |-> exp]

\* Every operation, with amounts that can and cannot be covered.
AllOps ==
  "welcome" :> Req3("credit", 2, 1) @@ "topup" :> Req3("credit", 2, 0)
  @@ "charge" :> Req3("deduct", 2, 0) @@ "hold" :> Req3("reserve", 2, 0)
  @@ "free" :> Req3("release", 3, 0) @@ "settle" :> Req3("capture", 1, 0)
  @@ "look" :> Req3("get_wallet", 1, 0)
AllKeys == DOMAIN AllOps

\* One promotional grant, purchases and charges; nothing reserved.
PlainOps ==
  "welcome" :> Req3("credit", 3, 1) @@ "topup" :> Req3("credit", 2, 0)
  @@ "charge" :> Req3("deduct", 2, 0) @@ "charge2" :> Req3("deduct", 1, 0)
  @@ "look" :> Req3("get_wallet", 1, 0)
PlainKeys == DOMAIN PlainOps

\* A 14-day welcome grant and a 365-day referral bonus.
GrantOps ==
  "welcome" :> Req3("credit", 2, 1) @@ "referral" :> Req3("credit", 2, 3)
  @@ "charge" :> Req3("deduct", 2, 0)
GrantKeys == DOMAIN GrantOps
=============================================================================
