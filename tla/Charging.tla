------------------------------ MODULE Charging ------------------------------
(* The two parts that deduct what was used, over the one wallet of a tenant: *)
(* the rating of usage batches (UsageRating) and the live charge of model    *)
(* calls (LlmMetering).  They meet in the balance and in the set of posted   *)
(* keys: each may spend what the other counts on, and neither may post, or   *)
(* find posted, a key of the other.                                          *)
EXTENDS UsageRating

CONSTANTS
    Runs, Dir, MaxSteps, MaxAttempts, Recovery, MaxOutages  \* see LlmMetering

VARIABLES
    run, served, outages    \* see LlmMetering

Llm == INSTANCE LlmMetering

llm == <<run, served, outages>>
rating == <<rows, rated, proc, stops>>

ASSUME ChargingAssumption ==
    /\ Llm!Parameters
    /\ \A k \in Keys : Call[k].amt \in Nat

ChargingInit == Init /\ Llm!Init

\* The wallet's deposits are among the steps of UsageRating.
ChargingNext ==
    \/ Next /\ UNCHANGED llm
    \/ (\E r \in Runs : Llm!Act(r)) /\ UNCHANGED rating

ChargingSpec == ChargingInit /\ [][ChargingNext]_<<vars, llm>>

---------------------------------------------------------------------------
(* Properties *)

\* Every answer a run goes on with has a charge of its own, but for those the
\* ledger failed, whatever the ratings post and spend in between.
CallsArePaid == Llm!CallsArePaid

\* "After every real provider call ... deducts them" (llm_live.py:1-15): no
\* call is free.  See LlmRepair.cfg and LlmOutage.cfg.
NoFreeCall == Llm!NoFreeCall
=============================================================================
