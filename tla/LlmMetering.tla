---------------------------- MODULE LlmMetering ----------------------------
(* One tenant's agent runs and the charge for each call of a model         *)
(* (platform/credits/llm_live.py, engine/services/cline_runtime).          *)
(*                                                                         *)
(* A step binds a context: where the run works, the step, and how many     *)
(* decisions the run has used.  Each answered call bumps the index and     *)
(* deducts under llm:<dir>:<step>:<index>, so that a retry of the charge   *)
(* is answered as a replay.  decide() may call again when it cannot parse, *)
(* and a failed tool is followed by a recovery call 1000 indexes away.     *)
(* Charging puts the runs beside the other user of the ledger.             *)
EXTENDS Integers, FiniteSets

CONSTANTS
    Runs,         \* agent runs: builds and repairs
    Dir,          \* where each run works, which names its charges
    MaxSteps,     \* steps the governor allows
    MaxAttempts,  \* CLINE_LLM_RETRIES, from 1 to 4
    Recovery,     \* offset of a recovery call: 1000 in the code
    MaxOutages,   \* bound: charges the ledger does not answer
    Keys, Call    \* the ledger: every key, and the request it stands for

Step == 1..MaxSteps
Index == 1..(MaxSteps + MaxAttempts + Recovery + 1)
LlmKey(d, s, i) == <<"llm", d, s, i>>
LlmKeys == {LlmKey(Dir[r], s, i) : r \in Runs, s \in Step, i \in Index}

Parameters ==
    /\ MaxSteps \in Nat \ {0} /\ MaxAttempts \in Nat \ {0}
    /\ Recovery \in Nat /\ MaxAttempts <= Recovery /\ MaxOutages \in Nat
    /\ Runs = DOMAIN Dir
    /\ \A k \in LlmKeys : k \in Keys /\ Call[k].op = "deduct" /\ Call[k].amt = 1

VARIABLES
    available, held, done,   \* the ledger
    run,       \* each run: where it is, its context and its usage counter
    served,    \* history: calls with tokens that a run went on to use
    outages    \* history: calls used although the charge raised an error

account == <<available, held, done>>

Account == INSTANCE CreditAccount

Init ==
    /\ Account!Init
    /\ run = [r \in Runs |-> [pc |-> "new", step |-> 1, calls |-> 0, index |-> 0,
                              attempt |-> 1, recovering |-> FALSE]]
    /\ served = 0
    /\ outages = 0

Goto(r, pc) == run' = [run EXCEPT ![r].pc = pc]

\* assert_llm_spend_allowed.  The check of the daily cap calls a function
\* that is gone, and the error is swallowed: only the balance counts.
Start(r) ==
    /\ run[r].pc = "new"
    /\ Goto(r, IF available > 0 THEN "call" ELSE "over")
    /\ UNCHANGED <<account, served, outages>>

\* bind_charge_context for the decision of a step, or for its recovery.
Bind(r, step, calls, index, recovering) ==
    run' = [run EXCEPT ![r] = [pc |-> "call", step |-> step, calls |-> calls,
              index |-> index, attempt |-> 1, recovering |-> recovering]]

\* A provider answers, and _record_usage bumps the index.
Respond_SameIndex(r) ==
    /\ run[r].pc = "call"
    /\ run' = [run EXCEPT ![r].pc = "charge",
                          ![r].index = IF run[r].attempt = 1 THEN @ + 1 ELSE @]
    /\ UNCHANGED <<account, served, outages>>

Respond(r) ==
    /\ run[r].pc = "call"
    /\ run' = [run EXCEPT ![r].pc = "charge", ![r].index = @ + 1]
    /\ UNCHANGED <<account, served, outages>>

\* The cache has the decision, or the last attempt failed too.
NoCall(r) ==
    /\ run[r].pc = "call" /\ run[r].attempt \in {1, MaxAttempts}
    /\ run' = [run EXCEPT ![r].pc = "decided", ![r].attempt = MaxAttempts]
    /\ UNCHANGED <<account, served, outages>>

TheKey(r) == LlmKey(Dir[r], run[r].step, run[r].index)

\* charge_llm_step: a credit for any tokens (estimate_cost_usd is a stub, so
\* the floor is the price).  The run goes on with the answer.
Charge(r) ==
    /\ run[r].pc = "charge"
    /\ \/ Account!Spend(TheKey(r))
       \/ TheKey(r) \in done /\ UNCHANGED account
    /\ served' = served + 1
    /\ Goto(r, "decided")
    /\ UNCHANGED outages

\* A body without token counts costs nothing.
Unmetered(r) ==
    /\ run[r].pc = "charge"
    /\ Goto(r, "decided")
    /\ UNCHANGED <<account, served, outages>>

\* InsufficientCreditsError ends the run.
Broke(r) ==
    /\ run[r].pc = "charge"
    /\ TheKey(r) \notin done /\ available < 1
    /\ Goto(r, "over")
    /\ UNCHANGED <<account, served, outages>>

\* The ledger raises something else: _record_usage turns it into an error
\* that should stop the run, and _safe_record_usage swallows that.
Outage(r) ==
    /\ run[r].pc = "charge"
    /\ outages < MaxOutages
    /\ outages' = outages + 1
    /\ served' = served + 1
    /\ Goto(r, "decided")
    /\ UNCHANGED account

\* decide() calls again: it could not parse the answer, or the call failed.
Retry(r) ==
    /\ run[r].pc \in {"call", "decided"}
    /\ run[r].attempt < MaxAttempts
    /\ run' = [run EXCEPT ![r].pc = "call", ![r].attempt = @ + 1]
    /\ UNCHANGED <<account, served, outages>>

\* Decisions the run has used: recovery decisions are not counted, nor need
\* one be that came without usage.
Used(r) == IF run[r].recovering THEN {run[r].calls}
           ELSE {run[r].calls, run[r].calls + 1}

\* The tool of the decision failed: one recovery decision in the same step.
Recover(r) ==
    /\ run[r].pc = "decided" /\ ~run[r].recovering
    /\ \E calls \in Used(r) : Bind(r, run[r].step, calls, calls + Recovery, TRUE)
    /\ UNCHANGED <<account, served, outages>>

NextStep(r) ==
    /\ run[r].pc = "decided" /\ run[r].step < MaxSteps
    /\ \E calls \in Used(r) : Bind(r, run[r].step + 1, calls, calls, FALSE)
    /\ UNCHANGED <<account, served, outages>>

Finish(r) ==
    /\ run[r].pc = "decided"
    /\ Goto(r, "over")
    /\ UNCHANGED <<account, served, outages>>

\* The process dies: what the provider answered was not used.
Die(r) ==
    /\ run[r].pc \notin {"new", "over"}
    /\ Goto(r, "over")
    /\ UNCHANGED <<account, served, outages>>

Act(r) == \/ Start(r) \/ Respond(r) \/ NoCall(r) \/ Charge(r) \/ Unmetered(r) \/ Broke(r)
          \/ Outage(r) \/ Retry(r) \/ Recover(r) \/ NextStep(r) \/ Finish(r) \/ Die(r)

---------------------------------------------------------------------------
(* Properties *)

Running == [pc : {"new", "call", "charge", "decided", "over"}, step : Step,
            calls : 0..MaxSteps, index : Index \cup {0}, attempt : 1..MaxAttempts,
            recovering : BOOLEAN]

\* The counters stay in the range the keys are drawn from.
TypeOK ==
    /\ run \in [Runs -> Running]
    /\ served \in Nat /\ outages \in 0..MaxOutages

\* Every answer a run goes on with has been paid for under a key of its own,
\* but for the charges the ledger failed: no two calls of a step, of its
\* retries or of its recovery share a key (agent_loop.py:503-512, 1040-1046).
CallsArePaid == served = Cardinality(done \cap LlmKeys) + outages

\* "After every real provider call ... deducts them" (llm_live.py:1-15), and
\* "cannot safely give free LLM" (agent_brain.py:85): no call is free.
NoFreeCall == served = Cardinality(done \cap LlmKeys)
=============================================================================
