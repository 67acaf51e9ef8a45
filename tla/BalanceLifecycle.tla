-------------------------- MODULE BalanceLifecycle --------------------------
(***************************************************************************)
(* BalanceLifecycle (platform/balance_lifecycle.py) for one tenant: what   *)
(* happens to its hosted bots as its credits run out and come back.        *)
(*                                                                         *)
(* The bot process, the API and the hosting workers all call it; each      *)
(* reads the tenant's row, then the wallet, then saves the row under an    *)
(* optimistic version check.  A process keeps what it read in st and saw;  *)
(* stamp says how that reading stands to the row: "current" (the version   *)
(* it would match), "stale" (saved since), or "absent" (there was no row,  *)
(* version 0).  Deadlines are kept as time left, in units of Pass.         *)
(***************************************************************************)
EXTENDS Integers, FiniteSets, FiniteSetsExt

CONSTANTS
  Callers,     \* processes charging, crediting and hosting for the tenant
  Schedulers,  \* the periodic ticks: ops_scheduler and the hosting workers
  Node,        \* Node[p]: the machine p runs on, whose containers it can list
  Postgres,    \* PostgresLifecycleStore, or MemoryLifecycleStore
  Grace,       \* GRACE_SEC, in units of Pass
  Pack,        \* credits in one purchase
  Charges,     \* amounts charged
  MaxInflow,   \* bound on all credits bought
  Crashes      \* processes may die

VARIABLES
  row,      \* the tenant's row of balance_lifecycle
  exists,   \* it has been saved (version > 0)
  avail,    \* credits available in the wallet
  inflow,   \* credits ever bought: the inflow legs of the ledger
  running,  \* nodes on which the tenant's bots run
  pc, st, stamp, saw, tries,
  reply,    \* the action a process's last call returned
  wrote,    \* whether that call's save changed the row
  zeroFor   \* history: time since nothing was available, up to Grace

store == <<row, exists>>
locals == <<st, stamp, saw, tries>>
vars == <<store, avail, inflow, running, pc, locals, reply, wrote, zeroFor>>

Procs == Callers \cup Schedulers

ASSUME GraceAssumption == Grace \in Nat \ {0}
ASSUME AmountAssumption == Pack \in Nat \ {0} /\ Charges \subseteq Nat \ {0} /\ MaxInflow \in Nat
ASSUME FlagAssumption == {Postgres, Crashes} \subseteq BOOLEAN

NoGrace == -1      \* grace_until = 0
Thresholds == {80, 90, 95}

Phases == {"active", "warning", "grace", "suspended"}

\* phase (suspended is always set and cleared with it), last_alert_pct,
\* grace_until - now, baseline_credits.
Row == [phase : Phases, pct : Thresholds \cup {0}, left : {NoGrace} \cup 0..Grace, base : Nat]

NewRow == [phase |-> "active", pct |-> 0, left |-> NoGrace, base |-> 0]

Larger(a, b) == IF a > b THEN a ELSE b

-----------------------------------------------------------------------------

Init ==
  /\ row = NewRow /\ exists = FALSE
  /\ avail = 0 /\ inflow = 0 /\ running = {}
  /\ pc = [p \in Procs |-> "idle"]
  /\ st = [p \in Procs |-> NewRow]
  /\ stamp = [p \in Procs |-> "stale"]
  /\ saw = [p \in Procs |-> 0]
  /\ tries = [p \in Procs |-> 0]
  /\ reply = [p \in Procs |-> "none"]
  /\ wrote = [p \in Procs |-> FALSE]
  /\ zeroFor = Grace

At(p, label) == pc[p] = label
Goto(p, label) == pc' = [pc EXCEPT ![p] = label]

\* What a finished call had read is forgotten.
Forget(p) ==
  /\ st' = [st EXCEPT ![p] = NewRow]
  /\ saw' = [saw EXCEPT ![p] = 0]
  /\ tries' = [tries EXCEPT ![p] = 0]

Says(p, answer, saved) ==
  /\ reply' = [reply EXCEPT ![p] = answer]
  /\ wrote' = [wrote EXCEPT ![p] = saved]

Return(p, answer, saved) == Goto(p, "idle") /\ Says(p, answer, saved) /\ Forget(p)

Answer(p, answer) ==
  /\ Return(p, answer, FALSE)
  /\ stamp' = [stamp EXCEPT ![p] = "stale"]
  /\ UNCHANGED <<store, avail, inflow, running, zeroFor>>

\* store.get()
Get(p) ==
  /\ st' = [st EXCEPT ![p] = row]
  /\ stamp' = [stamp EXCEPT ![p] = IF exists THEN "current" ELSE "absent"]

CanWrite_Unversioned(p) == TRUE
\* The version the process read is still the row's.
CanWrite(p) == stamp[p] = "current" \/ (stamp[p] = "absent" /\ ~exists)

SaysSaved_Always(p) == TRUE

\* Postgres: a first INSERT that conflicts does nothing, the UPDATE that
\* follows matches no version, and the row being there counts as saved.
SaysSaved(p) == CanWrite(p) \/ (Postgres /\ stamp[p] = "absent")

\* A save that takes effect: whoever had read the row is stale now.
Write(p, new) ==
  /\ row' = new /\ exists' = TRUE
  /\ stamp' = [q \in Procs |-> IF q = p \/ stamp[q] = "current" THEN "stale" ELSE stamp[q]]

DropWrite(p) ==
  /\ UNCHANGED store
  /\ stamp' = [stamp EXCEPT ![p] = "stale"]

\* A save whose result is not looked at.
Put(p, new) == IF CanWrite(p) THEN Write(p, new) ELSE DropWrite(p)

SaveBlind(p, new, answer) == Put(p, new) /\ Return(p, answer, CanWrite(p))

\* A save of on_balance_changed: three attempts, each from a fresh read.
Save(p, new, answer) ==
  \/ /\ SaysSaved(p)
     /\ SaveBlind(p, new, answer)
  \/ /\ ~SaysSaved(p) /\ tries[p] < 2
     /\ tries' = [tries EXCEPT ![p] = @ + 1]
     /\ Goto(p, "get")
     /\ DropWrite(p)
     /\ UNCHANGED <<st, saw, reply, wrote>>
  \/ /\ ~SaysSaved(p) /\ tries[p] = 2
     /\ DropWrite(p)
     /\ Return(p, "concurrency_conflict", FALSE)

-----------------------------------------------------------------------------
(* on_balance_changed                                                      *)

GetRow(p) ==
  /\ At(p, "get")
  /\ IF row.phase = "suspended"
       THEN Answer(p, "already_suspended")
       ELSE /\ Get(p) /\ Goto(p, "wallet")
            /\ UNCHANGED <<store, avail, inflow, running, saw, tries, reply, wrote, zeroFor>>

\* _funded_baseline: a ledger entry of a purchase adds its net amount and
\* its wallet leg, which are the same credits.
Funded(base) == Larger(base, Larger(avail, inflow + inflow))

GetWallet(p) ==
  /\ At(p, "wallet")
  /\ saw' = [saw EXCEPT ![p] = avail]
  /\ st' = [st EXCEPT ![p].base = Funded(@)]
  /\ Goto(p, "decide")
  /\ UNCHANGED <<store, avail, inflow, running, stamp, tries, reply, wrote, zeroFor>>

PctUsed(base, available) ==
  IF base > 0 THEN (Larger(0, base - available) * 100) \div base ELSE 0

\* The thresholds reached and not alerted yet; the lowest is alerted.
Due(p) == {th \in Thresholds : PctUsed(st[p].base, saw[p]) >= th /\ st[p].pct < th}

GraceOver_Early(p) == st[p].left # NoGrace

GraceOver(p) == st[p].left = 0

\* _grace_or_suspend, for a tenant with nothing available.
EnterGrace(p) ==
  /\ At(p, "decide") /\ saw[p] = 0 /\ st[p].left = NoGrace
  /\ Save(p, [st[p] EXCEPT !.phase = "grace", !.left = Grace], "enter_grace")
  /\ UNCHANGED <<avail, inflow, running, zeroFor>>

InGrace(p) ==
  /\ At(p, "decide") /\ saw[p] = 0 /\ st[p].left # NoGrace /\ ~GraceOver(p)
  /\ Save(p, [st[p] EXCEPT !.phase = "grace"], "in_grace")
  /\ UNCHANGED <<avail, inflow, running, zeroFor>>

\* _snapshot_and_stop: the containers this machine can list are stopped.
StillRunning(p) == running \ {Node[p]}

StopBots(p) ==
  /\ At(p, "decide") /\ saw[p] = 0 /\ GraceOver(p)
  /\ running' = StillRunning(p)
  /\ Goto(p, "suspend")
  /\ UNCHANGED <<store, avail, inflow, locals, reply, wrote, zeroFor>>

\* The rest of _do_suspend; "suspend" is answered whatever the save did.
Suspend(p) ==
  /\ At(p, "suspend")
  /\ SaveBlind(p, [st[p] EXCEPT !.phase = "suspended"], "suspend")
  /\ UNCHANGED <<avail, inflow, running, zeroFor>>

Recover(p) ==
  /\ At(p, "decide") /\ saw[p] > 0 /\ st[p].phase \in {"grace", "warning"}
  /\ Save(p, [st[p] EXCEPT !.phase = "active", !.left = NoGrace], "recovered")
  /\ UNCHANGED <<avail, inflow, running, zeroFor>>

Alert(p) ==
  /\ At(p, "decide") /\ saw[p] > 0 /\ st[p].phase = "active" /\ Due(p) # {}
  /\ Save(p, [st[p] EXCEPT !.phase = "warning", !.pct = Min(Due(p))], "alert")
  /\ UNCHANGED <<avail, inflow, running, zeroFor>>

NothingDue(p) ==
  /\ At(p, "decide") /\ saw[p] > 0 /\ st[p].phase = "active" /\ Due(p) = {}
  /\ Save(p, st[p], "none")
  /\ UNCHANGED <<avail, inflow, running, zeroFor>>

-----------------------------------------------------------------------------
(* clear_suspension_on_credit and set_baseline, run by credit_credits      *)

ClearGet(p) ==
  /\ At(p, "clearGet")
  /\ Get(p) /\ Goto(p, "clearWallet")
  /\ UNCHANGED <<store, avail, inflow, running, saw, tries, reply, wrote, zeroFor>>

\* A purchase goes on to set_baseline, another credit ends here.
AfterClear(p, answer, saved) ==
  /\ Says(p, answer, saved)
  /\ \E label \in {"idle", "baseGet"} : Goto(p, label)

ClearEmpty(p) ==
  /\ At(p, "clearWallet") /\ avail = 0
  /\ AfterClear(p, "still_empty", FALSE)
  /\ UNCHANGED <<store, avail, inflow, running, locals, zeroFor>>

ClearWallet(p) ==
  /\ At(p, "clearWallet") /\ avail > 0
  /\ st' = [st EXCEPT ![p].base = Larger(@, avail)]
  /\ Goto(p, "clearSave")
  /\ UNCHANGED <<store, avail, inflow, running, stamp, saw, tries, reply, wrote, zeroFor>>

Cleared_FlagOnly(s) == [s EXCEPT !.pct = 0, !.left = NoGrace]
Cleared(s) == [s EXCEPT !.phase = "active", !.pct = 0, !.left = NoGrace]

ClearSave(p) ==
  /\ At(p, "clearSave")
  /\ Put(p, Cleared(st[p]))
  /\ AfterClear(p, "unsuspended", CanWrite(p))
  /\ UNCHANGED <<avail, inflow, running, st, saw, tries, zeroFor>>

BaseGet(p) ==
  /\ At(p, "baseGet")
  /\ Get(p) /\ Goto(p, "baseSave")
  /\ UNCHANGED <<store, avail, inflow, running, saw, tries, reply, wrote, zeroFor>>

BaseSave(p) ==
  /\ At(p, "baseSave")
  /\ Put(p, [st[p] EXCEPT !.base = Larger(@, saw[p])])
  /\ Goto(p, "idle") /\ Forget(p)
  /\ UNCHANGED <<avail, inflow, running, reply, wrote, zeroFor>>

-----------------------------------------------------------------------------
(* The callers                                                             *)

Begin(p, label) ==
  /\ Goto(p, label)
  /\ reply' = [reply EXCEPT ![p] = "none"]
  /\ wrote' = [wrote EXCEPT ![p] = FALSE]

Affordable(x) == avail >= x

Empty == zeroFor' = IF avail > 0 /\ avail' = 0 THEN 0 ELSE zeroFor

\* A purchase, or the replay of one already posted: both come back ok, and
\* both clear the suspension.
TopUp(p) ==
  /\ At(p, "idle")
  /\ \/ inflow + Pack <= MaxInflow /\ avail' = avail + Pack /\ inflow' = inflow + Pack
     \/ inflow > 0 /\ UNCHANGED <<avail, inflow>>
  /\ Begin(p, "clearGet")
  /\ saw' = [saw EXCEPT ![p] = avail']
  /\ UNCHANGED <<store, running, st, stamp, tries, zeroFor>>

\* An LLM step: a charge that succeeds drives the lifecycle.
ChargeLlm(p) ==
  /\ At(p, "idle")
  /\ \E x \in Charges : Affordable(x) /\ avail' = avail - x
  /\ Begin(p, "get")
  /\ Empty
  /\ UNCHANGED <<store, inflow, running, locals>>

\* Rated usage, settled hosting: only a charge that fails does.
ChargeUsage(p) ==
  /\ At(p, "idle")
  /\ \E x \in Charges :
       \/ Affordable(x) /\ avail' = avail - x /\ UNCHANGED <<pc, reply, wrote>>
       \/ ~Affordable(x) /\ avail' = avail /\ Begin(p, "get")
  /\ Empty
  /\ UNCHANGED <<store, inflow, running, locals>>

\* is_hosting_allowed, then the start.
HostGate == row.phase # "suspended"

StartHost(p) ==
  /\ At(p, "idle") /\ Node[p] \notin running
  /\ HostGate
  /\ Begin(p, "start")
  /\ UNCHANGED <<store, avail, inflow, running, locals, zeroFor>>

HostStarted(p) ==
  /\ At(p, "start")
  /\ running' = running \cup {Node[p]}
  /\ Goto(p, "idle")
  /\ UNCHANGED <<store, avail, inflow, locals, reply, wrote, zeroFor>>

TickDue_NotGrace == row.phase = "suspended"

TickDue == row.phase \in {"grace", "warning", "suspended"} \/ row.left # NoGrace

\* tick(): the rows whose phase may change with time.
Tick(s) ==
  /\ At(s, "idle") /\ exists /\ TickDue
  /\ Begin(s, "get")
  /\ UNCHANGED <<store, avail, inflow, running, locals, zeroFor>>

\* Time passes: every deadline comes nearer, read or stored.
Less(left) == IF left > 0 THEN left - 1 ELSE left

Pass ==
  /\ row.left > 0 \/ (avail = 0 /\ zeroFor < Grace)
  /\ row' = [row EXCEPT !.left = Less(@)]
  /\ st' = [p \in Procs |-> [st[p] EXCEPT !.left = Less(@)]]
  /\ zeroFor' = IF avail = 0 /\ zeroFor < Grace THEN zeroFor + 1 ELSE zeroFor
  /\ UNCHANGED <<exists, avail, inflow, running, pc, stamp, saw, tries, reply, wrote>>

Crash(p) ==
  /\ Crashes /\ ~At(p, "idle")
  /\ Answer(p, "lost")

Work(p) ==
  \/ GetRow(p) \/ GetWallet(p)
  \/ EnterGrace(p) \/ InGrace(p) \/ StopBots(p) \/ Suspend(p)
  \/ Recover(p) \/ Alert(p) \/ NothingDue(p)
  \/ ClearGet(p) \/ ClearEmpty(p) \/ ClearWallet(p) \/ ClearSave(p)
  \/ BaseGet(p) \/ BaseSave(p)
  \/ HostStarted(p)

Next ==
  \/ \E c \in Callers : TopUp(c) \/ ChargeLlm(c) \/ ChargeUsage(c) \/ StartHost(c)
  \/ \E s \in Schedulers : Tick(s)
  \/ \E p \in Procs : Work(p) \/ Crash(p)
  \/ Pass

\* A process that is in a call goes on with it, the schedulers keep ticking,
\* and time passes.
Fairness ==
  /\ \A p \in Procs : WF_vars(Work(p))
  /\ \A s \in Schedulers : SF_vars(Tick(s))
  /\ WF_vars(Pass)

Spec == Init /\ [][Next]_vars /\ Fairness

-----------------------------------------------------------------------------
(* Properties.                                                             *)

Labels == {"idle", "get", "wallet", "decide", "suspend", "clearGet", "clearWallet",
           "clearSave", "baseGet", "baseSave", "start"}

Answers == {"none", "enter_grace", "in_grace", "suspend", "recovered", "alert",
            "already_suspended", "concurrency_conflict", "still_empty", "unsuspended", "lost"}

\* Types of the variables.
TypeOK ==
  /\ row \in Row /\ exists \in BOOLEAN
  /\ avail \in Nat /\ inflow \in Nat
  /\ running \subseteq {Node[p] : p \in Procs}
  /\ pc \in [Procs -> Labels]
  /\ st \in [Procs -> Row]
  /\ stamp \in [Procs -> {"current", "stale", "absent"}]
  /\ saw \in [Procs -> Nat] /\ tries \in [Procs -> 0..2]
  /\ reply \in [Procs -> Answers] /\ wrote \in [Procs -> BOOLEAN]
  /\ zeroFor \in 0..Grace

\* Whoever saves, from however old a reading, a tenant is suspended only out
\* of a grace period, and leaves suspension only to active.
PhaseStep ==
  /\ row'.phase = "suspended" => row.phase \in {"grace", "suspended"}
  /\ row.phase = "suspended" => row'.phase \in {"suspended", "active"}
PhaseSteps == [][PhaseStep]_vars

\* "Grace is timed" (balance_lifecycle.py:6): a suspended tenant had a grace
\* period, and it has run out.
SuspendedAfterGrace == row.phase = "suspended" => row.left = 0

\* A grace period is only ever stored with its deadline, and no deadline
\* outlives the grace period it belongs to.
DeadlineIffGrace == row.left # NoGrace <=> row.phase \in {"grace", "suspended"}

\* What on_balance_changed says it did, it did: its save took effect.
AnswersAreTrue ==
  \A p \in Procs :
    reply[p] \in {"enter_grace", "in_grace", "recovered", "alert"} => wrote[p]

\* A grace period ends: in suspension, or because there are credits again.
GraceEnds == row.phase = "grace" ~> (row.phase # "grace" \/ avail > 0)

-----------------------------------------------------------------------------
(* Properties that hold while one process does everything, one call after  *)
(* another; MCBalanceLifecycle runs them both ways.                        *)

\* "host_start is fail-closed when suspended" (balance_lifecycle.py:6).
HostFailClosed == [][running' \ running # {} => row.phase # "suspended"]_vars

\* A suspension stops the tenant's bots, wherever they run.
SuspendStopsBots == row.phase = "suspended" => running = {}

\* on_balance_changed answers "suspend" for a tenant it has suspended
\* (tests/test_balance_lifecycle.py:46-48).
SuspendIsRecorded == \A p \in Procs : reply[p] = "suspend" => wrote[p]

\* Every suspension follows a whole grace period with nothing available.
GraceIsFull ==
  [][row'.phase = "suspended" /\ row.phase # "suspended"
       => avail = 0 /\ zeroFor = Grace]_vars

\* "Balance restored - suspension cleared" (balance_lifecycle.py:503): a
\* tenant with credits does not stay suspended.
CreditRestores == row.phase = "suspended" /\ avail > 0 ~> (row.phase # "suspended" \/ avail = 0)

\* "Stop future hosting if balance exhausted" (hosting/usage_billing.py:164):
\* a tenant that has spent its last credit does not stay active.
ZeroIsNoticed == avail = 0 /\ inflow > 0 ~> (row.phase # "active" \/ avail > 0)

\* The baseline of the alerts is what the tenant was credited: "SUM of credit
\* ledger legs on wallet that are inflows" (balance_lifecycle.py:5).
BaselineIsInflow == row.base <= inflow
=============================================================================
