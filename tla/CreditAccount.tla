--------------------------- MODULE CreditAccount ---------------------------
(***************************************************************************)
(* What a credits store promises its callers, whatever backs it: one       *)
(* wallet, and a set of requests each named by its idempotency key.  Every *)
(* operation is one step, a key takes effect at most once, and no step     *)
(* spends or holds credits the wallet does not have.  It is the contract   *)
(* of the CreditsStore protocol (src/lumen/platform/credits/service.py).   *)
(***************************************************************************)
EXTENDS Integers

CONSTANTS
  Keys,     \* idempotency keys of the requests that may be made
  Call      \* Call[k]: the request a key stands for

VARIABLES
  available,  \* credits free to spend
  held,       \* credits put aside by reservations
  done        \* keys that have taken effect

vars == <<available, held, done>>

Ops == {"credit", "deduct", "reserve", "release", "capture", "get_wallet"}

Request == [op : Ops, amt : Nat \ {0}, exp : Nat]

Init == available = 0 /\ held = 0 /\ done = {}

Once(k, op) == k \in Keys \ done /\ Call[k].op = op /\ done' = done \cup {k}

Deposit(k) ==
  /\ Once(k, "credit")
  /\ available' = available + Call[k].amt
  /\ held' = held

Spend(k) ==
  /\ Once(k, "deduct")
  /\ available >= Call[k].amt
  /\ available' = available - Call[k].amt
  /\ held' = held

\* A hold may first forfeit promotional credits that have lapsed.
Hold(k) ==
  /\ Once(k, "reserve")
  /\ \E lapsed \in 0..available :
       /\ available - lapsed >= Call[k].amt
       /\ available' = available - lapsed - Call[k].amt
       /\ held' = held + Call[k].amt

\* A release gives back what is held, up to the amount asked for.
Unhold(k) ==
  /\ Once(k, "release")
  /\ \E back \in 1..Call[k].amt :
       /\ back <= held
       /\ held' = held - back
       /\ available' = available + back

Settle(k) ==
  /\ Once(k, "capture")
  /\ held >= Call[k].amt
  /\ held' = held - Call[k].amt
  /\ available' = available

\* Promotional credits past their expiry are forfeited, on no caller's key.
Lapse ==
  /\ available' \in 0..(available - 1)
  /\ UNCHANGED <<held, done>>

Next ==
  \/ \E k \in Keys : Deposit(k) \/ Spend(k) \/ Hold(k) \/ Unhold(k) \/ Settle(k)
  \/ Lapse

Spec == Init /\ [][Next]_vars
=============================================================================
