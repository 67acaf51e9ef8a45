----------------------------- MODULE PgCredits -----------------------------
(***************************************************************************)
(* PostgresCreditsStore behind CreditService, for one tenant: its row of   *)
(* credit_wallets, the ledger tables, and callers (bot processes, API      *)
(* workers, the scheduler) that run the service's operations concurrently. *)
(*                                                                         *)
(* A caller's steps are the points where another caller can get between:   *)
(* the unlocked reads (the wallet read of expire_promotional, the lookup   *)
(* of the idempotency key) and the transactions.  From SELECT ... FOR      *)
(* UPDATE to COMMIT the wallet row is locked and all that the transaction  *)
(* reads hangs off that row, so the locked part is one step.  A            *)
(* UniqueViolation rolls it back and the lookup that follows finds the key.*)
(***************************************************************************)
EXTENDS Integers, FiniteSets, FiniteSetsExt

CONSTANTS
  Callers,      \* processes calling the CreditService
  Keys,         \* idempotency keys of the requests
  NoKey,        \* no request yet
  Call,         \* Call[k]: operation, amount and promotional expiry (0: none)
  MaxTime,      \* bound of the clock
  RlsEnforced   \* migrations 0002 and 0003 applied: no tenant set, no rows

VARIABLES
  wallet,   \* the tenant's row of credit_wallets
  posted,   \* keys with a row in credit_transactions
  expired,  \* e with a credit_transactions row keyed promo-expire-<tenant>-e
  net,      \* per account, the sum of credit_legs (credit +, debit -)
  clock,
  pc,       \* where each caller is
  key,      \* the request it runs
  at,       \* time.time() as it last read it
  seen,     \* the wallet row as it last read it
  reply,    \* how its last call ended
  burnt     \* history: promotional credits taken back, by kind

locals == <<pc, key, at, seen, reply>>
vars == <<wallet, posted, expired, net, clock, pc, key, at, seen, reply, burnt>>

Account == INSTANCE CreditAccount
             WITH available <- wallet.cur - wallet.res,
                  held <- wallet.res,
                  done <- posted

ASSUME KeyAssumption == NoKey \notin Keys
ASSUME CallAssumption == Call \in [Keys -> Account!Request]
ASSUME MaxTimeAssumption == MaxTime \in Nat
ASSUME RlsAssumption == RlsEnforced \in BOOLEAN

Accounts == {"wallet", "hold", "holds", "treasury", "revenue"}

Replies == {"none", "ok", "replay", "insufficient", "nothing_reserved",
            "check_violation", "wallet", "lost"}

\* current_balance, reserved_balance, promotional_balance, promo_expires_at.
WalletRow(cur, res, promo, exp) ==
  [cur |-> cur, res |-> res, promo |-> promo, exp |-> exp]

EmptyRow == WalletRow(0, 0, 0, 0)

-----------------------------------------------------------------------------
(* What the SQL of each operation makes of the wallet row.                 *)

Least(a, b) == IF a < b THEN a ELSE b

\* Faulty variants (named Op_Fault) stand before the operator they break;
\* no action uses them.
PromoExpired_NoClock(w, now) == w.promo > 0 /\ w.exp > 0

PromoExpired(w, now) == w.promo > 0 /\ w.exp > 0 /\ now >= w.exp

\* credit(): promotional grants share one balance and its earliest expiry.
EarliestExpiry(old, new) == IF old = 0 THEN new ELSE Least(old, new)

Credited_Overwrites(w, r) == WalletRow(r.amt, w.res, w.promo, w.exp)

Credited(w, r) ==
  IF r.exp > 0
    THEN WalletRow(w.cur + r.amt, w.res, w.promo + r.amt, EarliestExpiry(w.exp, r.exp))
    ELSE WalletRow(w.cur + r.amt, w.res, w.promo, w.exp)

\* deduct(): promotional credits go first.
Deducted(w, x) ==
  WalletRow(w.cur - x, w.res, w.promo - Least(w.promo, x), w.exp)

SweptAmount_Everything(w, now) == IF PromoExpired(w, now) THEN w.cur ELSE 0

\* reserve(): the burn of expired promotional credits under the row lock.
SweptAmount(w, now) ==
  IF PromoExpired(w, now) THEN Least(w.promo, w.cur) ELSE 0

Swept(w, now) ==
  IF SweptAmount(w, now) > 0
    THEN WalletRow(w.cur - SweptAmount(w, now), w.res, 0, 0)
    ELSE w

Reserved(w, x) == WalletRow(w.cur, w.res + x, w.promo, w.exp)
Released_Unclamped(w, x) == WalletRow(w.cur, w.res - x, w.promo, w.exp)

Released(w, x) == WalletRow(w.cur, w.res - Least(x, w.res), w.promo, w.exp)
Captured(w, x) == WalletRow(w.cur - x, w.res - x, w.promo, w.exp)

\* One pair of legs of a transaction: debit one account, credit another.
Post(n, debit, credit, x) == [n EXCEPT ![debit] = @ - x, ![credit] = @ + x]

-----------------------------------------------------------------------------

Init ==
  /\ wallet = EmptyRow
  /\ posted = {} /\ expired = {}
  /\ net = [a \in Accounts |-> 0]
  /\ clock = 0
  /\ pc = [c \in Callers |-> "idle"]
  /\ key = [c \in Callers |-> NoKey]
  /\ at = [c \in Callers |-> 0]
  /\ seen = [c \in Callers |-> EmptyRow]
  /\ reply = [c \in Callers |-> "none"]
  /\ burnt = [ledgered |-> 0, silent |-> 0, paid |-> 0]

Req(c) == Call[key[c]]

Return(c, r) ==
  /\ pc' = [pc EXCEPT ![c] = "idle"]
  /\ reply' = [reply EXCEPT ![c] = r]
  /\ at' = [at EXCEPT ![c] = 0]
  /\ seen' = [seen EXCEPT ![c] = EmptyRow]
  /\ key' = key

Goto(c, label) ==
  /\ pc' = [pc EXCEPT ![c] = label]
  /\ UNCHANGED <<key, at, seen, reply>>

\* Grants compute their expiry as now + ttl.  The service runs
\* expire_promotional before every operation but credit_credits.
Invoke(c, k) ==
  /\ pc[c] = "idle"
  /\ Call[k].exp > 0 => Call[k].exp > clock
  /\ pc' = [pc EXCEPT ![c] = IF Call[k].op = "credit" THEN "fetch" ELSE "expire"]
  /\ key' = [key EXCEPT ![c] = k]
  /\ reply' = [reply EXCEPT ![c] = "none"]
  /\ at' = [at EXCEPT ![c] = 0]
  /\ seen' = [seen EXCEPT ![c] = EmptyRow]
  /\ UNCHANGED <<wallet, posted, expired, net, clock, burnt>>

AfterExpire(c) == IF Req(c).op = "get_wallet" THEN "read" ELSE "fetch"

\* expire_promotional: decides on a row it does not lock.
ExpireRead(c) ==
  /\ pc[c] = "expire"
  /\ seen' = [seen EXCEPT ![c] = wallet]
  /\ at' = [at EXCEPT ![c] = clock]
  /\ pc' = [pc EXCEPT ![c] = IF SweptAmount(wallet, clock) > 0
                               THEN "burnFetch" ELSE AfterExpire(c)]
  /\ UNCHANGED <<wallet, posted, expired, net, clock, key, reply, burnt>>

\* deduct() of the expired amount: the lookup of promo-expire-<tenant>-<exp>.
BurnFetch(c) ==
  /\ pc[c] = "burnFetch"
  /\ Goto(c, IF seen[c].exp \in expired THEN "zero" ELSE "burn")
  /\ UNCHANGED <<wallet, posted, expired, net, clock, burnt>>

BurnRefused(c) ==
  /\ pc[c] = "burn"
  /\ wallet.cur - wallet.res < SweptAmount(seen[c], at[c])
  /\ Goto(c, AfterExpire(c))
  /\ UNCHANGED <<wallet, posted, expired, net, clock, burnt>>

BurnTx(c) ==
  LET x == SweptAmount(seen[c], at[c]) IN
  /\ pc[c] = "burn"
  /\ wallet.cur - wallet.res >= x
  /\ \/ seen[c].exp \in expired /\ UNCHANGED <<wallet, expired, net, burnt>>
     \/ /\ seen[c].exp \notin expired
        /\ wallet' = Deducted(wallet, x)
        /\ expired' = expired \cup {seen[c].exp}
        /\ net' = Post(net, "wallet", "revenue", x)
        /\ burnt' = [burnt EXCEPT !.ledgered = @ + x,
                                  !.paid = @ + x - Least(wallet.promo, x)]
  /\ Goto(c, "zero")
  /\ UNCHANGED <<posted, clock>>

\* The second connection of expire_promotional sets no tenant: under row
\* level security its UPDATE matches no row.
Zero(c) ==
  /\ pc[c] = "zero"
  /\ wallet' = IF RlsEnforced THEN wallet ELSE WalletRow(wallet.cur, wallet.res, 0, 0)
  /\ Goto(c, AfterExpire(c))
  /\ UNCHANGED <<posted, expired, net, clock, burnt>>

\* get_wallet: what the caller is shown.
ReadWallet(c) ==
  /\ pc[c] = "read"
  /\ pc' = [pc EXCEPT ![c] = "idle"]
  /\ reply' = [reply EXCEPT ![c] = "wallet"]
  /\ seen' = [seen EXCEPT ![c] = wallet]
  /\ UNCHANGED <<wallet, posted, expired, net, clock, key, at, burnt>>

\* The lookup of the request's own key, before any lock is taken.
Fetch(c) ==
  /\ pc[c] = "fetch"
  /\ \/ key[c] \in posted /\ Return(c, "replay")
     \/ /\ key[c] \notin posted
        /\ pc' = [pc EXCEPT ![c] = "tx"]
        /\ at' = [at EXCEPT ![c] = clock]
        /\ seen' = [seen EXCEPT ![c] = EmptyRow]
        /\ UNCHANGED <<key, reply>>
  /\ UNCHANGED <<wallet, posted, expired, net, clock, burnt>>

InTx(c, op) == pc[c] = "tx" /\ Req(c).op = op

Refuse(c, r) ==
  Return(c, r) /\ UNCHANGED <<wallet, posted, expired, net, clock, burnt>>

Commit_NotUnique(c, row, legs) ==
  /\ Return(c, "ok")
  /\ wallet' = row /\ net' = legs /\ posted' = posted \cup {key[c]}

Commit_NoLedgerRow(c, row, legs) ==
  /\ Return(c, "ok")
  /\ wallet' = row /\ net' = legs /\ posted' = posted

\* INSERT INTO credit_transactions, whose idempotency_key is UNIQUE.
Commit(c, row, legs) ==
  IF key[c] \in posted
    THEN Return(c, "replay") /\ UNCHANGED <<wallet, posted, net>>
    ELSE /\ Return(c, "ok")
         /\ wallet' = row
         /\ net' = legs
         /\ posted' = posted \cup {key[c]}

CreditTx(c) ==
  /\ InTx(c, "credit")
  /\ Commit(c, Credited(wallet, Req(c)), Post(net, "treasury", "wallet", Req(c).amt))
  /\ UNCHANGED <<expired, clock, burnt>>

CanDeduct_Unguarded(w, x) == TRUE
CanDeduct_IgnoresHolds(w, x) == w.cur >= x

CanDeduct(w, x) == w.cur - w.res >= x

DeductTx(c) ==
  /\ InTx(c, "deduct")
  /\ CanDeduct(wallet, Req(c).amt)
  /\ Commit(c, Deducted(wallet, Req(c).amt), Post(net, "wallet", "revenue", Req(c).amt))
  /\ UNCHANGED <<expired, clock, burnt>>

DeductRefused(c) ==
  InTx(c, "deduct") /\ ~CanDeduct(wallet, Req(c).amt) /\ Refuse(c, "insufficient")

\* The burn updates the row first: the CHECK reserved <= current stops it
\* when what is left does not cover the reservations.
ReserveRaises(c) ==
  /\ InTx(c, "reserve")
  /\ Swept(wallet, at[c]).cur < wallet.res
  /\ Refuse(c, "check_violation")

ReserveRefused(c) ==
  LET row == Swept(wallet, at[c]) IN
  /\ InTx(c, "reserve")
  /\ row.cur >= row.res /\ row.cur - row.res < Req(c).amt
  /\ Refuse(c, "insufficient")

ReserveTx(c) ==
  LET row == Swept(wallet, at[c]) IN
  /\ InTx(c, "reserve")
  /\ row.cur - row.res >= Req(c).amt
  /\ Commit(c, Reserved(row, Req(c).amt), Post(net, "hold", "holds", Req(c).amt))
  /\ burnt' = IF key[c] \in posted THEN burnt
              ELSE [burnt EXCEPT !.silent = @ + SweptAmount(wallet, at[c])]
  /\ UNCHANGED <<expired, clock>>

ReleaseTx(c) ==
  /\ InTx(c, "release")
  /\ wallet.res > 0
  /\ Commit(c, Released(wallet, Req(c).amt),
            Post(net, "holds", "hold", Least(Req(c).amt, wallet.res)))
  /\ UNCHANGED <<expired, clock, burnt>>

ReleaseRefused(c) ==
  InTx(c, "release") /\ wallet.res = 0 /\ Refuse(c, "nothing_reserved")

CanCapture_IgnoresHolds(w, x) == w.cur >= x

CanCapture(w, x) == w.res >= x /\ w.cur >= x

CaptureTx(c) ==
  LET x == Req(c).amt IN
  /\ InTx(c, "capture")
  /\ CanCapture(wallet, x)
  /\ Commit(c, Captured(wallet, x),
            Post(Post(net, "holds", "hold", x), "wallet", "revenue", x))
  /\ UNCHANGED <<expired, clock, burnt>>

CaptureRefused(c) ==
  InTx(c, "capture") /\ ~CanCapture(wallet, Req(c).amt) /\ Refuse(c, "insufficient")

\* The process dies, or its connection does: the answer never arrives.
Crash(c) ==
  /\ pc[c] # "idle"
  /\ Return(c, "lost")
  /\ UNCHANGED <<wallet, posted, expired, net, clock, burnt>>

\* Time passes; a grant's ttl (days) outlasts the call that makes it.
Tick ==
  /\ clock < MaxTime
  /\ \A c \in Callers : pc[c] \in {"fetch", "tx"} /\ Req(c).exp > 0 => Req(c).exp > clock + 1
  /\ clock' = clock + 1
  /\ UNCHANGED <<wallet, posted, expired, net, burnt, locals>>

Transaction(c) ==
  \/ BurnTx(c) \/ Zero(c)
  \/ CreditTx(c) \/ DeductTx(c) \/ ReserveTx(c) \/ ReleaseTx(c) \/ CaptureTx(c)

Step(c) ==
  \/ ExpireRead(c) \/ BurnFetch(c) \/ BurnRefused(c) \/ ReadWallet(c) \/ Fetch(c)
  \/ DeductRefused(c) \/ ReserveRaises(c) \/ ReserveRefused(c)
  \/ ReleaseRefused(c) \/ CaptureRefused(c)
  \/ Transaction(c)

Next ==
  \/ \E c \in Callers : (\E k \in Keys : Invoke(c, k)) \/ Step(c) \/ Crash(c)
  \/ Tick

Spec == Init /\ [][Next]_vars

-----------------------------------------------------------------------------
(* Properties.                                                             *)

Row == [cur : Nat, res : Nat, promo : Nat, exp : Nat]

Labels == {"idle", "expire", "burnFetch", "burn", "zero", "read", "fetch", "tx"}

StoreTypes ==
  /\ wallet \in Row
  /\ posted \subseteq Keys
  /\ expired \subseteq Nat
  /\ net \in [Accounts -> Int]
  /\ clock \in Nat
  /\ burnt \in [ledgered : Nat, silent : Nat, paid : Nat]

CallerTypes ==
  /\ pc \in [Callers -> Labels]
  /\ key \in [Callers -> Keys \cup {NoKey}]
  /\ \A c \in Callers : pc[c] # "idle" => key[c] \in Keys
  /\ at \in [Callers -> Nat]
  /\ seen \in [Callers -> Row]
  /\ reply \in [Callers -> Replies]

\* Types of the variables; in particular no balance is ever negative.
TypeOK == StoreTypes /\ CallerTypes

\* No overdraft, no negative hold and no more held than there is, however the
\* callers interleave: the CHECKs of credit_wallets (schema.sql) never have
\* to stop a committed step.  Only reserve's burn relies on one of them.
WithinBalance == 0 <= wallet.res /\ wallet.res <= wallet.cur

Explains(n, w, silent) ==
  /\ n["wallet"] = w.cur + silent
  /\ n["hold"] = -w.res
  /\ n["holds"] = w.res
  /\ n["wallet"] + n["hold"] + n["holds"] + n["treasury"] + n["revenue"] = 0

\* The ledger against the wallet row: the wallet account's legs add up to
\* the balance but for what reserve burned without writing legs; the hold
\* accounts mirror the reservations; all legs together cancel out.
LedgerMatchesWallet == Explains(net, wallet, burnt.silent)

Amount(ks) == MapThenSumSet(LAMBDA k : Call[k].amt, ks)

PostedAs(op) == {k \in posted : Call[k].op = op}

\* Exactly once per key: what the tenant was given and charged is the sum of
\* the distinct requests posted, whatever was retried, lost or raced.
ChargedOncePerKey ==
  /\ -net["treasury"] = Amount(PostedAs("credit"))
  /\ net["revenue"] = Amount(PostedAs("deduct") \cup PostedAs("capture")) + burnt.ledgered

\* A caller that was told yes can rely on the ledger row being there.
AcknowledgedIsPosted ==
  \A c \in Callers : reply[c] \in {"ok", "replay"} => key[c] \in posted

\* The store implements the account it promises.
ImplementsAccount == Account!Spec
-----------------------------------------------------------------------------
(* What the repository says of promotional credits and of reconciliation.  *)
(* These hold when nothing races, reserves or captures (MCPgCredits runs   *)
(* them both ways).                                                        *)

\* reconcile(): reads on a connection that sets no tenant.
VisibleWallet == IF RlsEnforced THEN EmptyRow ELSE wallet

\* "double-entry legs + immutable ledger + wallet projection" (schema.sql:1):
\* the report of reconcile() is ok.
Reconciles == net["wallet"] = VisibleWallet.cur

\* "Promotional / trial credits (subset of current_balance)" (types.py:16).
PromoWithinBalance == wallet.promo <= wallet.cur

\* "Always surface post-expiry truth (no stale promotional balance)"
\* (service.py:33): get_wallet shows no promotional balance already expired
\* when the call began.
FreshWallet ==
  \A c \in Callers : reply[c] = "wallet" =>
    ~(seen[c].promo > 0 /\ seen[c].exp \in 1..at[c])

\* "paid credits remain after auto-expire" (tests/test_welcome_credits.py:113):
\* the expiry of promotional credits takes no other credits.
PaidCreditsSurvive == burnt.paid = 0

\* A grant lasts as long as it was granted for: what expiry has taken is
\* covered by the grants whose own expiry has passed.
GrantsLastTheirTtl ==
  burnt.ledgered + burnt.silent
    <= Amount({k \in PostedAs("credit") : Call[k].exp \in 1..clock})

\* A retry of a request that took effect is answered as a replay, never as
\* refused for lack of credits.
RetryNotRefused ==
  \A c \in Callers : reply[c] = "insufficient" => key[c] \notin posted
=============================================================================
