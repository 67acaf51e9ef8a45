# Lumen in TLA+

Lumen is a Telegram bot and an API that generate bots from a description and
host them. This directory models the parts of it whose correctness depends on
the order in which concurrent processes read and write shared state: the money
and everything that moves it, the suspension of tenants that ran out of it, the
queues of deployments and of generation jobs, the bots that are hosted, and the
lock that lets one process poll Telegram. Every definition is translated from
the source, at the lines `PROJECT.json` ("map") names; a document is only
quoted where a property states what it claims. All paths below are under
`src/`; `P/` is `lumen/platform/`, `H/` is `lumen/engine/services/hosting/`,
`A/` is `lumen/application/handlers/` and `C/` is
`lumen/engine/services/cline_runtime/`.

## 1. Inventory

The system runs as several processes: a bot process that polls Telegram, API
workers, RQ workers for generation jobs, and hosting workers, one per node.
They share Postgres (credits, lifecycle, usage batches, deploy queue), Redis
(jobs, the hosting registry's copy, caches, counters) and Mongo (users,
referrals, the polling lease). Nearly every hard behaviour comes from a
sequence "read, decide, write" across two of them.

| Component | State | Operations | Talks to | What is hard | What makes it correct |
|---|---|---|---|---|---|
| **Credits ledger** `P/credits/pg_store.py`, `service.py` | wallet row, transactions by idempotency key, double-entry legs | credit, deduct, reserve, release, capture, expire_promotional, get_wallet, reconcile | called by LLM charging, rating, host billing, referrals; a credit calls the lifecycle | key lookups and the expiry read before the row lock, retries, crashes between commits, row level security | no overdraft, a key takes effect once, legs explain the row |
| **Balance lifecycle** `P/balance_lifecycle.py` | versioned row per tenant: phase, alert, deadline, baseline | on_balance_changed, clear_suspension_on_credit, set_baseline, tick, is_hosting_allowed | reads the wallet and the ledger, stops containers, gates hosting | optimistic saves that fail, some unchecked; time; several machines | suspended only after a whole grace period; grace ends; credit restores |
| **Deploy queue** `H/pg_deploy_queue.py`, `worker.py`, `capacity.py` | rows with status, node, attempts, heartbeat, sealed token | enqueue, claim with reclaim, heartbeat, mark_building, mark_running, mark_failed | the service enqueues, workers claim, the sandbox runs bots | dying and slow workers, rows written by id, counts taken before inserts | one worker per job, bounded attempts, every job settles |
| **Job queue** `P/jobs.py`, `task_queue.py` | hash per job and a set of active ids in Redis; ids in RQ | enqueue, cancel, pause, resume, steer, _run | API routes call it, RQ runs it | no transaction around any update; control calls race the worker | ended jobs stay ended, slots of the limits match live jobs, jobs end |
| **Usage batches and rating** `P/usage_batches.py`, `rating_engine.py` | append-only batches, rating rows | ingest, rate_batch, rate_pending (sweep) | credits; called by the API and the ops loop | two requests with one key; three transactions; a sweep with a limit | each report charged once, a rating row is backed, a charge is rated in the end |
| **Live LLM charging** `P/credits/llm_live.py`, `C/agent_loop.py`, `agent_brain.py` | usage counter and bound context of a run | bind, record, charge, end of the run | credits | keys made of counters that retries, failovers and recoveries move | one key per call that is used |
| **Referrals** `P/referrals/`, `A/referral_handlers.py` | a row per invited user, a stats document per referrer | create_pending, mark_qualified, stats_for, claim_milestone_slot, credit | credits | count and roll back at the cap; claim before credit; counters rebuilt from a count | the cap, one granter per milestone, no milestone missed |
| **Hosting registry** `H/service.py`, `health_monitor.py`, `redis_state.py`, `pg_state_store.py` | each process's map of instances, stored whole | start, stop, restart, status, monitor | sandboxes, billing | every process writes back all it remembers | no bot forgotten, plan kept, one sandbox per bot |
| **Host billing** `lumen/hosting/usage_billing.py` | the key of each settlement | settle at a stop | credits | stops in several processes, keys reused over a restart | every session charged, and once |
| **Polling lease** `lumen/bot/singleton.py` | a Mongo document, or a lock file with a pid | acquire, wait, take over, renew, release | Telegram polling | a takeover while the owner renews; unlink by path | one process polls, a start ends |
| Credits in memory `P/credits/memory_store.py` | dictionaries under one lock | as the ledger | - | differences from Postgres | the same contract |
| Backpressure and rate limits `P/queue_backpressure.py`, `rate_limit.py` | counters in Redis | acquire, release | API, bot | slots whose owner died | counters return to zero |
| Subscriptions `P/subscription_store.py`, `entitlement.py` | Mongo document with a Redis copy | get with repair, set, delete | payments, entitlement | repair races deletion; a payment whose handler dies | a revoked plan stays revoked, a paid one is granted |
| LLM key pool `lumen/engine/services/llm/key_pool.py` | cool-downs in Redis and a mirror | pick, cool down, restore | LLM calls | two views of one cool-down | a cooling key is not used |
| Generation cancel, progress | flags and events in memory | set, clear, publish | bot handlers | a flag cleared by the next run | a cancel reaches the run it meant |
| Agent runtime, Telegram interface, API and tenants, sandboxes, code tools | mostly external effects, or requests served alone | - | the parts above | - | - |

The components in bold are modelled here. `PROJECT.json` lists all of them with
their sources, and under "hazards" the places where each can go wrong, each
with its line and the property that covers it, or the counterexample that shows
it does go wrong.

How they meet: `UsageRating` and `LlmMetering` charge one ledger, and `Charging`
composes them over one instance of `CreditAccount`; `PgCredits` is proved to
implement that account, so what is checked of the composition is about the
Postgres ledger too. `HostSessions` and `Referrals` need only
one fact of it, that a key takes effect once. `BalanceLifecycle` needs the
credits available after each operation. `HostSessions` models a start on the
node that was asked; `DeployQueue` models the start that is queued for a worker.

## 2. Modules

| Module | Models |
|---|---|
| `CreditAccount` | what a credits store promises (`CreditsStore` in `P/credits/service.py`): every operation one step, each key at most once |
| `PgCredits` | `PostgresCreditsStore` behind `CreditService`; implements `CreditAccount` |
| `BalanceLifecycle` | `P/balance_lifecycle.py`, with the charges, purchases and hosting starts that drive it |
| `JobBoard` | what a deploy queue promises its fleet: a job is in one hand at a time, launched once by it, and settled for good |
| `DeployQueue` | the deploy queue, the service that fills it, the workers; implements `JobBoard` |
| `JobQueue` | the job store on Redis, the calls and the RQ workers |
| `UsageRating` | usage batches and their rating, over an instance of `CreditAccount` |
| `LlmMetering` | the actions of an agent's runs: its model calls and their charges, on the same ledger |
| `Charging` | `UsageRating` and `LlmMetering` together: what is reported and what agents use, one wallet |
| `Referrals` | invitations, qualification and milestone rewards |
| `HostSessions` | the registry of hosted bots and the charge for each session |
| `PollLock` | the lease and the lock file of the polling process |
| `MC*` | instances for TLC: which requests, whose jobs, which machines |
| `PgCreditsProofs`, `BalanceLifecycleProofs`, `DeployQueueProofs`, `JobQueueProofs`, `ChargingProofs` (of `UsageRating`, `LlmMetering` and `Charging`), `ReferralsProofs`, `HostSessionsProofs`, `PollLockProofs` | theorems (section 4) |

Operators whose names end in a fault (`CanDeduct_IgnoresHolds`, ...) stand
before the operator they would break. No action uses them: each is a plausible
mistake in the code that a property must notice (`PROJECT.json`, "mutants").
Every module has a `TypeOK`; where no run lists it, it can be added to any of
the module's configurations.

### PgCredits

One tenant. `wallet` is its row of `credit_wallets`, `posted` the keys with a
row in `credit_transactions`, `expired` the keys of expirations
(`promo-expire-<tenant>-<expiry>`), `net` the sum of `credit_legs` per account.
A caller's `pc` stops wherever another caller can get between: the unlocked
read of `expire_promotional` (`ExpireRead`), its own deduct (`BurnFetch`,
`BurnTx`, `BurnRefused`), the second connection that zeroes the promotional
balance (`Zero`), the lookup of the request's key (`Fetch`), and the transaction
(`CreditTx`, `DeductTx`, ...). From `SELECT ... FOR UPDATE` to `COMMIT` all that
a transaction reads is locked, so that part is one step. The UNIQUE key is in
`Commit`, the CHECK on the row in `ReserveRaises`, row level security in `Zero`
and in what `reconcile` sees. `Crash` loses the answer at any point, and any
request may be invoked again under its key. `burnt` is history: promotional
credits taken back, with legs, without, and out of paid credits.

Bounds: 2 callers and 7 requests, one of every operation, with amounts that can
and cannot be covered; time 0..1, so that the grant expires during the run. Two
callers are enough for every race here: each is between one unlocked read and
one committed transaction. The proofs lift all of these bounds.

### BalanceLifecycle

One tenant. `row` is its lifecycle row; `stamp[p]` says how what a process read
stands to it, which is all the version number is used for: "current", "stale",
or "absent" (read when there was no row). `Save` is the versioned save with its
three attempts, `SaveBlind` and `Put` are the saves whose result nobody looks
at. `Postgres` selects between the two stores' answers to a first insert that
conflicts. Deadlines are kept as the time left, and `Pass` lets time go by for
the row and for every copy read, so no clock grows. `running` is the set of
machines on which the tenant's bots run; a suspension stops those its own
machine can list. `zeroFor` is history: for how long nothing has been available.

Bounds: grace of 1 or 2 units, one or two purchases of 10 credits, charges of 4
and 6, so that the thresholds 80 and 90, zero and the refused charge all
happen. LifecycleRace has two processes, one of which also ticks, with crashes;
LifecycleSerial has one, without. The wallet itself is reduced to the credits
available, which `PgCredits` justifies.

Fairness: weak on the steps of a call (a call that began goes on), on `Pass`
(time passes), and strong on `Tick`: the scheduler wakes every period for ever
(`lumen/hosting/ops_scheduler.py`, and every hosting worker), while its process
may be in the middle of another call each time.

### DeployQueue

`job` holds the rows of `tbe_deploy_jobs`, `beat` whether the heartbeat is
younger than `TBE_JOB_STALE_SECONDS`, `bots[j]` the nodes on which a bot of job
j runs. Clients go through the plan check, the count and the insert; workers
through `Poll`, `Claim` (one transaction: stale rows back to queued, then the
oldest claimed), `Build`, `Heartbeat`, `Limits`, `Start`, `MarkRunning`, or on
any failure `FailGet` and then `GiveUp` or `Requeue`. Updates are by job id, as
in the code. `Crash` restarts a worker and leaves its sandboxes running. `Stop`
is the owner stopping a bot. `Prompt` is the assumption that a worker that is
alive is never as late as the stale limit; DeployTwice drops it.

Bounds: DeployFleet has three requests of one user with a queue cap of 2 (so the
cap refuses one), one node for one bot and one for two, two attempts, one crash.
Requests are bounded and a full fleet waits, so the system may stop:
`CHECK_DEADLOCK FALSE` in the Deploy runs. Fairness: weak on a
worker's steps (they poll for ever) and on the ageing of a heartbeat.

`JobBoard` is the queue without rows, heartbeats, attempts or limits. The
mapping `Board` reads a job's stage off its row (queued and in work are both
"open": who works on it is the hand), the hand is `mine`, a worker has launched
once its `pc` is "mark", and the bots are as they are. A claim maps to `Take`, also when it reclaims a stale row,
a start to `Launch`, `MarkRunning` and `GiveUp` to `Settle`, `Requeue` and a
crash to `Return`; polling, building, heartbeats and the ageing of rows are
stutters. `Take` needs a job that is in nobody's hand, which is what a late
heartbeat breaks: `ImplementsBoard` fails in DeployFleet with Prompt = FALSE.

### JobQueue

A job is a hash (`status`, `started`, `payload`) and perhaps an id in `active`
and in `rq`. Redis runs one command at a time, so an update is two steps: the
HSET and then the SREM or SADD (`WriteStatus` and `FileCall`, `Begin`/`End` and
`FileWorker`). A control call reads (`Read`), keeps what it decided in
`call[c]`, and writes without checking that the record is still the same.
`ReadOnly` is the early return. `SendFails` is the connection to RQ failing
before or after the id arrived; `Die` is a worker killed anywhere; `Expire` the
time to live of a week.

Bounds: JobsCalls has three jobs: two of one tenant at a cap of 1, of which the
first may be cancelled, and one of another tenant on which every call is made.
One process enqueues, another controls, one worker runs, one loss. The roles
are split because two processes that can make every call exceed what can be
enumerated; the proofs do not have this bound.
Fairness: weak on the steps of a call and of a worker; no caller has to call.

### UsageRating

`rows` is the table of batches in the order of their creation, `rated` the
table of rating rows, and the ledger is an instance of `CreditAccount`. An
ingest is the SELECT by key (`Ingest`) and the INSERT (`Insert`), which the
UNIQUE key refuses when another request came first; the winner's request then
rates. Rating is `Look` (a rating row, or a cost of nothing?), `Charge` (the
deduct under `rate-<batch>`, or a replay) and `Record`, each a transaction of
its own. `Sweep` takes the window of `list_unrated`: the oldest batches still
`accepted`, which a rated batch stays, so a later one is reached only when the
earlier fit in the limit with it. `Stop` is a crash or a swallowed exception in
the middle.

Bounds: two reports, two requests that may carry either, one ops loop, one
stop; two purchases that cover the first or both. A limit of 2 holds every
batch, which is what `UsageSettles` needs; RatingStarves has a limit of 1.
Fairness: weak on the sweep (the ops loop comes round) and on the steps of a
rating that began; no request has to arrive.

### LlmMetering and Charging

A run binds a context per decision (`Bind`): directory, step, and the number of
decisions used. A call's index is moved by each answer, by `decide`'s retries,
and by the recovery after a failed tool, which starts `Recovery` (1000 in the
code) further on. The key `llm:<dir>:<step>:<index>` is charged on the ledger;
a charge that raises is swallowed by the caller (`outages`) and a refusal ends
the run. `served` counts the calls a run went on to use.

`LlmMetering` has actions and no specification of its own: the wallet that a
run charges is also charged by the rating of usage reports, and refilled by
purchases. `Charging` composes the two: a step is one of `UsageRating`'s or one
of a run's (`Llm!...`), on one account, so a report may take the credits that a
run's next call needs, between any two steps of either.

Bounds: LlmRuns has a run of two steps with two attempts each, beside one
report, one request and one ops loop, and a recovery offset of 3 that stands
for 1000, larger than any index the steps can reach. LlmRepair has a build and
a repair in one directory, LlmOutage a ledger that fails once.

### Referrals

`row` is the collection of referrals, `claimed` and `stats` the stats
documents, `granted` the ledger's keys of milestones. Each action is one Mongo
command of a handler: check, insert, count again, roll back, bump the counter
(`Register` to `BumpInvited`); mark from pending, bump, aggregate and rebuild
the counters, count, and then for each milestone in reach check, claim and
credit (`Use` to `Grant`). `GrantFails` is a credit that raises: the claim stays
and only a log says so. `Die` ends a handler anywhere.

Bounds: two handlers, two referrers and three users at a cap of 2, so that a
third invitation meets the cap while another rolls back; milestones at 1 and 2
stand for 10 to 50; one failure. The proofs do not have these bounds.

### HostSessions

`row` is the registry, `mem[p]` what process p holds in memory, `live` the
sandboxes. A process reads all of it and writes all of it back (`Over`), under
a file lock that covers each of the two and not the time between. A start looks
for instances of the same bot and counts the running ones, stops what it
replaces, launches and enrols. A stop ends the sandbox, settles under
`host_settle:<id>` and saves; the settlement may be refused or fail, and the
stop itself may raise. A restart stops, starts, and files the new sandbox under
the old id (`renamed`). `status` and the monitor look whether a sandbox still
runs and save. `strays` holds the sandboxes a crash or a failed stop left.

Bounds: two processes, two bots, a plan of one bot, two sandboxes, one fault.
Two sandboxes are what a replacement, a restart or a pair of starts needs.

### PollLock

`lease` is the document of the Mongo lock and the ticks it has left; `path`,
`pid` and `flock` are the file at the lock's path, what each file says and who
has locked it, by file and not by name, since a process may hold a file that
has been unlinked. `Connect` is the ping that chooses between the two. On Mongo
a starter attempts, sleeps and at its deadline forces (`Attempt`, `Sleep`,
`Seize`); `Renew` is the thread that extends the owner's lease and does not
look at what it matched; `Release` and `Crash` end a process. On the file every
system call is a step: `Check`, `Unlink`, `Open`, `Flock`, `Write`, `Blocked`,
and at the end `LetGo` and `Clean`. `Tick` lets time go by for the lease and
for all who wait, once every owner's renewal of the period is done: renewals
are assumed to be on time.

Bounds: two processes, a lease of three ticks (a renewal is due at each), a
wait of two so that it ends before and after an expiry, one command that Mongo
does not answer. Fairness: weak on time and on each process's own steps; no
process has to start, and none has to end.

## 3. Runs

Runs that pass:

| Run | Question | Properties |
|---|---|---|
| PgCreditsRace | do two callers that race, crash and retry keep the ledger right? | TypeOK, WithinBalance (no overdraft), LedgerMatchesWallet (legs = row, but for what reserve burned), ChargedOncePerKey, AcknowledgedIsPosted, ImplementsAccount (refinement) |
| PgCreditsPlain | do promotional credits and reconciliation work with one caller, one grant and no holds? | Reconciles, PaidCreditsSurvive, GrantsLastTheirTtl |
| LifecycleRace | can an interleaving of stale saves suspend a tenant wrongly? (1.9 million states) | SuspendedAfterGrace, AnswersAreTrue, PhaseSteps |
| LifecycleSerial | does the lifecycle keep its promises, one call after another? | GraceIsFull, CreditRestores, GraceEnds |
| DeployFleet | do two prompt workers, crashes included, run every job once? | OwnerWorks, SealedWhileNeeded, ImplementsBoard (refinement), JobSettles |
| JobsCalls | do control calls, the worker and the limits agree? | TypeOK, SlotsMatch, EndedForGood, PlainSettles |
| RatingSweeps | is a usage report charged once and rated in the end, whoever rates it and whatever stops half way? | UsageChargedOnce, RatingIsBacked, ChargedIsRated, UsageSettles |
| LlmRuns | do the calls of a run, its retries and its recoveries have a key each, while a report is rated from the same wallet? | CallsArePaid |
| ReferralRewards | do handlers that interleave command by command keep the cap and pay each milestone by one of them? | TypeOK, CapHolds, OneGranter, NoMilestoneMissed |
| HostCalls | is every bot that runs listed, every session charged once, and the plan kept, while processes overwrite each other's rows? | LiveIsListed, StoppedIsPaid, PaidOnce, SerialStartsKeepPlan |
| PollLocks | do crashes, expiries, releases and stale locks let two processes poll, or leave a start waiting? | LeaseExcludes, FileExcludes, GivesWay, StartSettles |

Several properties hold only in a smaller setting than the code has: of one
caller (PgCreditsPlain, LifecycleSerial), prompt workers (DeployFleet), one run
per directory (LlmRuns), calls that do not overlap (SerialStartsKeepPlan), a
sweep that holds all batches (RatingSweeps). That is deliberate: the pair of a
passing run and a counterexample below says exactly what breaks the property.

`CHECK_DEADLOCK FALSE` stands where requests are bounded and the system may
stop: every run but PgCredits, Lifecycle and Jobs.

One run ends in a counterexample that contradicts a comment of the source
(`PROJECT.json`, "findings"):

| Run | Refutes | Because |
|---|---|---|
| HostTwins | OneSandboxPerBot | the lock that "closes TOCTOU race between concurrent start requests" (`H/service.py:539`) is let go before the old instance is stopped and the new one launched: two starts of one bot both launch |

More counterexamples, to be run by hand (`tlc -config X.cfg M`). A config with
several properties has one active and the others commented out, since TLC stops
at the first; each of them is violated:

| Config | Module | Property | What happens |
|---|---|---|---|
| PgOpen | MCPgCredits | Reconciles | `reserve()` burns expired credits without legs (`pg_store.py:460`): `reconcile()` reports drift ever after |
| | | FreshWallet | an expiry that holds cover is refused, and the wallet shows expired credits |
| | | PromoWithinBalance | capture spends promotional credits without counting them as spent |
| PgOpenPlain | MCPgCredits | PaidCreditsSurvive | the amount to expire is read without a lock (`pg_store.py:656`); a deduct in between has used it, and paid credits burn |
| | | RetryNotRefused | a retry that looked its key up before its first attempt committed is told there are no credits |
| | | Reconciles, with RlsEnforced = TRUE | under forced row level security `reconcile()` sees no wallet |
| PgGrantTtl | MCPgCredits | GrantsLastTheirTtl | a later grant expires with the earlier one |
| LifecycleOpen | MCBalanceLifecycle | CreditRestores | the save in `clear_suspension_on_credit` is not checked (`balance_lifecycle.py:502`); if it loses, a tenant with credits stays suspended |
| | | HostFailClosed | suspended between the gate and the start |
| | | ZeroIsNoticed | usage charged in full down to zero tells nobody |
| | | SuspendIsRecorded | "suspend" is answered and the bots are stopped, the row was not saved |
| | | BaselineIsInflow | an inflow is counted by its entry and by its leg |
| | | SuspendStopsBots | bots on another machine go on |
| LifecycleAnswers | MCBalanceLifecycle | AnswersAreTrue | Postgres: a first insert that conflicts counts another's row as its own save |
| DeployTwice | MCDeployQueue | StartedOnce | one heartbeat before a build of any length (`worker.py:102`): a slow worker's job is started twice |
| DeployDenied | MCDeployQueue | DeniedAtPlanLimit | no row leaves `running` when its bot stops (`pg_deploy_queue.py:223`): the plan limit counts stopped bots |
| DeployPlan | MCDeployQueue | PlanRespected | two workers count, then both start |
| JobsOpen | MCJobQueue | PollEnds | `pause()` writes over a status stored since it read (`jobs.py:383`): a finished job reads paused for ever |
| | | ResultKept | steer writes the old result field over the result |
| | | LiveWithinCap | a cancelled job frees its slot and is run all the same |
| | | CancelledIsNotRun | `_run` does not look at the status |
| | | EveryJobSettles | nobody revisits a job whose send failed or whose worker died |
| RatingStarves | MCUsageRating | UsageSettles | a rated batch stays `accepted` and fills the window of the sweep (`rating_engine.py:290`): later ones are never reached |
| LlmRepair | MCCharging | NoFreeCall | a repair in the build's directory starts from step 1 again: its keys are replays, its calls free |
| LlmOutage | MCCharging | NoFreeCall | an error of the ledger is swallowed and the answer used (`agent_brain.py:98`) |
| ReferralOpen | MCReferrals | RewardIsNotLost | the claim is made before the credit (`referral_handlers.py:198`); when the credit fails it is never made again |
| | | LeaderboardIsTrue | counters are written from a count taken earlier |
| | | QualifiedForGood | a rollback deletes the row of a user who qualified meanwhile (`mongo_repository.py:128`) |
| HostPlan | MCHostSessions | WithinPlan | two starts count before either launches |
| HostRestart | MCHostSessions | EverySessionIsPaid | a restart keeps the id and so the settlement's key (`service.py:1363`): the second session is a replay |
| HostStale | MCHostSessions | StoppedStaysStopped | a save writes back a row that another process has stopped |
| PollOpen | MCPollLock | OnePoller | a takeover by force while the owner polls, and nothing tells the owner (`singleton.py:182`) |
| | | OnePoller, with Configured <- Local | two starts at a stale file: one unlinks what the other has just made and locked |

## 4. Proofs

Every invariant and every action property that a passing run checks, and both
refinements, is a theorem for every value of the constants. Beyond these, some
theorems state properties that no passing run lists: DeadlineIffGrace,
AttemptsBounded, QueueWithinCap, StartsBounded, StartedOnce, SettledForGood,
QueuedWithinCap, PlanOverrun, ClaimsArePaid, or TypeOK where a run does not. And
where section 3 has a counterexample, a theorem says how much of the code's
freedom it needs: the same property holds of the whole specification once that
freedom is taken away (PromoWithinBalance, RetryNotRefused, FreshWallet,
SuspendStopsBots, SuspendIsRecorded, HostFailClosed, PlanRespected, NoFreeCall,
RewardIsNotLost, QualifiedForGood, LeaderboardIsTrue, EverySessionIsPaid,
WithinPlan, StoppedStaysStopped, OneSandboxPerBot).

The theorems hold for all constants that satisfy the modules' named
assumptions, which TLC evaluates on every run: limits and amounts are numbers,
requests are well formed, a special value such as "nobody" is no process. Where
a theorem has a hypothesis of its own, the property is false without it, as TLC
finds in a configuration, or in one that is changed as the table says (which
also names those that only the proof needs):

| Theorem | Hypothesis | Without it |
|---|---|---|
| `ReconciledWithoutHolds` | NoHolds (nobody reserves); RlsEnforced = FALSE | PgOpen; PgOpenPlain with the flag set |
| `ExpiryTakesNoPaidCredits` | OneCaller | PgOpenPlain |
| `GrantsLast` | OneCaller; OneExpiry (grants expire together) | GrantsLastTheirTtl in PgCreditsRace; PgGrantTtl |
| `PromoIsAPart` | NoCaptures | PgOpen |
| `RetriesAreReplays` | OneCaller | PgOpenPlain |
| `WalletIsFresh` | OneCaller; NoHolds; RlsEnforced = FALSE | FreshWallet in PgOpenPlain; PgOpen; with the flag, two grants that expire at 1 and 3, and a get_wallet |
| `TransitionsAreWritten` | Postgres = FALSE | LifecycleAnswers |
| `GraceIsWhole` | Alone (one process); Crashes = FALSE | LifecycleSerial with Callers = {a, b}, or with Crashes = TRUE |
| `SuspensionIsDone` | Alone | LifecycleOpen; LifecycleSerial with Callers = {a, b} |
| `OwnersWork`, `TokensLast` | Prompt (no live worker is later than the stale limit) | DeployFleet with Prompt = FALSE |
| `TriesAreBounded` | Prompt; MaxAttempts > 0 (it is 3, `H/pg_deploy_queue.py:68`) | AttemptsBounded in DeployFleet with Prompt = FALSE |
| `QueueIsCapped` | Prompt; OneClient | QueueWithinCap in DeployFleet with Prompt = FALSE, or with two clients |
| `StartsAreBounded` | Prompt | DeployFleet with Prompt = FALSE |
| `JobsStartOnce` | Prompt; MaxCrashes = 0 | DeployTwice; StartedOnce in DeployFleet |
| `OverPlanIsBounded` | Prompt; SomeWorkers (a finite fleet, not empty: the bound counts it) | PlanOverrun in DeployPlan with Prompt = FALSE and three jobs |
| `OneWorkerKeepsPlan` | OneWorker; MaxCrashes = 0; Prompt | DeployPlan; DeployPlan with one worker and a crash; Prompt is only the proof's, which goes by `OverPlanIsBounded` |
| `OverrunIsBounded` | Enqueuers finite, and one of them or of the limit at least 1 | the invariant counts them; within it, "only cancelled" is needed (a resumed job is queued uncounted: one tenant, all calls, one enqueuer) |
| `QueueIsABoard`, `SettledJobsStay` | Prompt | ImplementsBoard in DeployFleet with Prompt = FALSE |
| `OwnRunsPay` | DirsAreOwn (no two runs share a directory) | LlmRepair |
| `NoneIsFree` | DirsAreOwn; MaxOutages = 0 | LlmRepair; LlmOutage |
| `ClaimsAreCredited` | MaxFailures = 0 (no credit fails, no handler dies) | ReferralOpen |
| `QualifiedStayQualified`, `LeaderboardShowsRows` | OneHandler | ReferralOpen |
| `PaidWithoutRestarts` | "restart" is not among the calls | HostRestart |
| `OneProcessKeepsPlan` | OneProcess | HostPlan |
| `OneProcessKeepsStops` | OneProcess | HostStale |
| `SerialStartsAreSingle` | no two calls have overlapped (~raced, in the theorem) | HostTwins |

### PgCreditsProofs

For any callers, requests and bound of the clock, with or without row level
security.

- `Typing`, `NoOverdraft`, `LedgerExplainsWallet`, `YesMeansPosted`: TypeOK,
  WithinBalance, LedgerMatchesWallet and AcknowledgedIsPosted. They are proved
  together: IInv is their conjunction and is inductive. WithinBalance needs the
  types (amounts are positive, rows natural); the types need WithinBalance (a
  deduct leaves a natural number because reserved credits are within the
  balance); LedgerMatchesWallet needs the history of silent burns. The proof has
  one lemma per row operator, one per pair of legs, and one step per action.
- `Refinement`: `Spec => Account!Spec`. Every transaction maps to the account's
  operation of the same name or, when its key is posted already, to a stutter; a
  burn maps to `Lapse`; everything else stutters. It rests on IInv for the
  amounts that a lapse or a release may take.
- `EachKeyChargesOnce`: ChargedOncePerKey, an equation between the legs and
  the sum of amounts over the posted keys. The sum is a fold of the community
  modules, and the section "Sums of amounts" proves what is needed of it: the
  function that the fold chooses exists, and the sum over a set with one key
  more is greater by its amount, whichever key the fold takes first. This is by
  induction on the size of the set, written as the well-foundedness of the
  naturals, since the induction theorems of the library are out of reach. After
  that the step is one line per operation: what is committed adds one new key.
- `ReconciledWithoutHolds`: Reconciles. LedgerMatchesWallet leaves the silent
  burns between row and legs; they are all `reserve()`'s.
- `ExpiryTakesNoPaidCredits`: PaidCreditsSurvive, from `AsRead`: with one caller
  the row is still what was read when the burn is posted.
- `GrantsLast`: GrantsLastTheirTtl. The invariant adds to what was taken what
  can still be taken: the two are at most the sum of the promotional grants
  posted (`Backed`), and once anything is taken, the expiry of some grant, and
  so of all, has passed. It uses the sums again.
- `PromoIsAPart`: PromoWithinBalance. Every row operator but `Captured` keeps the
  promotional part within the balance (`PromoOfRow`); a burn takes at most what
  the row holds, however old the row it was decided on.
- `RetriesAreReplays`: RetryNotRefused, from `NoLateRefusal`: with one caller a
  key that was looked up and not found is still not posted in the transaction
  that may refuse it.
- `WalletIsFresh`: FreshWallet. Nothing is held, so the expiry's deduct is never
  refused; the row is still as it was read, so the burn takes all of the
  promotional part; and `Zero` clears what a replayed burn leaves. Under row
  level security `Zero` writes nothing: the old expiry stays on the row, the
  next grant takes it over, and the burn of that grant is a replay of the first.

### BalanceLifecycleProofs

For any callers, schedulers, machines, amounts and length of the grace period.

- `TypeCorrect`, `SuspensionIsTimed`, `GraceHasDeadline`, `PhasesFollow`: over
  both stores, with losses and crashes. The inductive invariant says what a
  process's copy is worth: while its version would match, the copy has the
  row's phase and deadline (`Mirrors`), and a process about to suspend had found
  a tenant in grace and the deadline passed (`Decides`). A save takes effect
  only from a copy that mirrors, and leaves no other copy that could be saved;
  time moves row and copies alike.
- `TransitionsAreWritten`: AnswersAreTrue, for a store whose save does not
  claim what it lost.
- `GraceIsWhole`: GraceIsFull. With one process no copy is ever stale
  (`Serial`); while a deadline stands and nothing is available, the time left
  and the time spent at zero make a whole grace period (`Full`); and a deadline
  stands with credits available only during the purchase that is about to clear
  it. The last is what a crash, or a charge by another process, breaks: the
  purchase is in the wallet, the clear never comes or comes too late, and when
  the credits are spent the old deadline counts.
- `SuspensionIsDone`: SuspendStopsBots, SuspendIsRecorded and HostFailClosed,
  with crashes. The process that saves a suspension holds a version that
  matches and has stopped all there is, on the one machine; and between its
  check and its start nobody suspends (`Stopping`). All three turn on calls of
  two processes, none on one that is cut off.

### DeployQueueProofs

For any fleet, jobs, limits, queue cap and crashes.

- `TypeCorrect`: TypeOK needs that a worker in the middle of a job has one in
  hand, and a client in the middle of an enqueue its own request (`Basis`).
- `OwnersWork`, `TokensLast`: OwnerWorks and SealedWhileNeeded, with `Timely`
  (the heartbeat of a job in hand is young). The three are one induction: a
  claim reclaims only what is stale, so by `Timely` no job of a live worker; so
  by OwnerWorks no two workers update one row; so a token is cleared only by
  the worker that has no further use of it.
- `TriesAreBounded`: a claim adds one to the attempts, and a job goes back to
  the queue with an attempt left (`TryLeft`) or because its worker crashed.
- `QueueIsCapped`: with one client, what it counted is still true when it
  inserts (`RoomLeft`), since workers only take jobs out of the queue or put
  back those that count already.
- `StartsAreBounded`, `JobsStartOnce`: a job has at most one bot more than there
  were crashes, and none more while it is not placed, that is, while it neither
  runs nor has a worker about to say that it does (`BotsCounted`). A worker
  starts only what it holds in the middle of a build, by OwnerWorks nobody else
  holds it, so it is not placed; a crash is what turns a placed job back into
  one that is not, and it is counted.
- `OverPlanIsBounded`, `OneWorkerKeepsPlan`: PlanOverrun, and PlanRespected for
  one worker. The last check before a start counts the running rows and locks
  nothing. A user's running rows and the workers past that check are together at
  most the plan's limit and all workers but one (`LaunchesCounted`): whoever
  passes found fewer rows than the limit, and a worker that marks a row running
  leaves the other sum. A bot that is neither's was left by a crash; those jobs
  are no more than the crashes (`NextLeft`).
- `QueueIsABoard`: `Spec => ImplementsBoard`, step by step. A claim is a `Take`
  only if the job is in nobody's hand: a job in hand is claimed or building
  (OwnerWorks), so it is not queued, and what is reclaimed is stale, while by
  `Timely` a job in hand has a young heartbeat. The updates by job id hit the worker's own row by
  OwnerWorks, so each is the board's step of the same worker and changes no
  other stage.
- `SettledJobsStay`: no row leaves running or failed. It follows from the
  refinement, since the only step of the board that moves a stage settles a job
  in hand, and a job in hand is not settled (OwnerWorks).

### JobQueueProofs

For any number of jobs, processes and workers, any owners, limits, calls and
losses.

- `Typing`: TypeOK is inductive.
- `EndedJobsStayEnded`: EndedForGood. The state "terminal or gone, and in
  nobody's hands" is not disturbed by any step (lemma `RestIsKept`): to touch
  the job a caller or worker must first take it in hand, RQ never gets an id
  twice because only `Send` puts one there, and a call takes it in hand only if
  `Applies`, which is false of a terminal status.
- `SlotsAreGivenBack`: SlotsMatch. The id of a job is in one hand at a time: the
  call's that sends it, RQ's, one worker's (`OneHand`). A job that can only be
  cancelled, and whose id is nowhere under way, has ended and left the set
  (`Ended`), because after an end only ends are written and filed (`Cancels`,
  `Leaves`), whichever of cancel and worker comes last.
- `OverrunIsBounded`: QueuedWithinCap. The jobs a tenant has waiting and the calls
  it has admitted, which counted below the limit and have yet to create
  (`Admitted`), are together less than the limit and the enqueuers (`Room`). A
  call is admitted only while fewer wait than the limit, and then at most every
  enqueuer is admitted; a create moves one from the admitted to the waiting; and
  by `Cancels` a call puts nothing back in the queue. The bound is exact: TLC
  finds two enqueuers one above the limit.

### ChargingProofs

For any reports, requests, ops loops, runs, costs, limits, stops and outages,
of `UsageRating` alone and of the composition `Charging`.

- `RatingTyping`, `ChargedOnce`, `RatedIsPaid`: TypeOK, UsageChargedOnce and
  RatingIsBacked, for any reports, requests, ops loops, costs, limits and stops.
  The inductive invariant adds what a process in the middle of a rating knows
  (`Sound`: what it rates is stored, what it is about to record has been
  deducted), that the UNIQUE key holds (`OneRowPerKey`) and that only stored
  batches are charged (`ChargeIsStored`). UsageChargedOnce follows from the
  last two: two charged batches with one key are one row. `Grows` carries what
  a process knows over the steps of the others: neither batches nor deductions
  are taken back.
- `OwnRunsPay`: CallsArePaid of `ChargingSpec`, a count of keys against a count
  of calls. The invariant says which keys a run can have posted: those of
  earlier steps, and of this step up to its index (`Past`, `Fresh`), so that the
  key it charges is new and the count grows by one. The steps of a rating post
  keys of another kind, so they leave the count alone. That a decision's
  retries stay below what a recovery skips to rests on
  `MaxAttempts <= Recovery`, an assumption of the module.
- `NoneIsFree`: with no outage either, every call a run went on to use has a
  charge of its own.
- `RatingBesideRuns`: UsageChargedOnce and RatingIsBacked of `ChargingSpec`, for
  any runs, also those that share a directory: a run's charge is, to the rating,
  a step of the ledger that takes back no deduction (`Grows`).

### ReferralsProofs

For any referrers, users, handlers, cap, milestones and failures.

- `ReferralsTyping`, `InvitesCapped`, `RewardHasOneGranter`: TypeOK, CapHolds
  and OneGranter. CapHolds needs that the row a handler may have to delete is
  still there and is no other handler's (`OwnRow`), or a rollback would not
  lower the count; its arithmetic is that an insert adds one to both sides, a
  rollback takes one from both, and a second count that is within the cap needs
  no handler to excuse it. OneGranter needs that what is being credited, or has
  been, is claimed (`GrantsAreClaimed`), so that the claim, which fails when the
  milestone is there, keeps a second handler out. The nine steps that leave the
  rows, claims and ledger alone share one lemma (`Elsewhere`).
- `MilestonesAreClaimed`: NoMilestoneMissed. A milestone in reach is claimed,
  or some handler has yet to count, or has counted and has the milestone before
  it (`Pursued`), as long as none died there.
- `ClaimsAreAnswered`: a claim is credited, in hand, or lost to a failure.
- `ClaimsAreCredited`: RewardIsNotLost without failures, from the former.
- `QualifiedStayQualified`: with one handler nothing comes between the count
  below the cap and the insert, so its second count is within the cap
  (`Roomy`), and the rollback, which asks nothing of the row, is never reached.
- `LeaderboardShowsRows`: with one handler the counters are those of the rows,
  less what the handler has written to a row and has yet to add (`Behind`, in
  `Shows`), and what it counted is what a count would still give (`Carries`).
  At rest nothing is behind. Each insert, mark and bump moves one from the one
  side to the other; the aggregate that rebuilds the counters changes nothing.

### HostSessionsProofs

For any processes, bots, sandboxes, plan and faults.

- `RunningIsListed`, `StoppedSessionsArePaid`, `SessionsPaidOnce`: LiveIsListed,
  StoppedIsPaid and PaidOnce. A process writes back all it remembers, so the
  invariant has to say of every memory what it says of the registry: an entry
  names its own sandbox, as running while it runs, or one that a restart filed
  there (`RowsFit`), and says stopped only of a session that was settled or is
  being settled (`RowsSettled`). For PaidOnce, a settlement's key is used only
  for a session that is covered, and one that was not renamed is charged under
  its own key (`Keyed`).
- `SerialStartsWithinPlan`: SerialStartsKeepPlan, from `OneCall`: while calls do
  not overlap, what was counted before a launch is what runs.
- `OneProcessKeepsPlan`: WithinPlan, since one process never makes `raced` true.
- `OneProcessKeepsStops`: StoppedStaysStopped, with all calls and crashes. A save
  can revive a stopped row only from a map that remembers its sandbox as
  running, and one process's map never does (`Remembers`): a row becomes stopped
  only as the map already says so, and a read takes over what the row says. A restart files a new sandbox under the stopped
  id, never the old one, because a sandbox that is being enrolled is in no row
  that says stopped (`Fresh`).
- `PaidWithoutRestarts`: EverySessionIsPaid. Without restarts nothing is renamed
  and no call keeps an old id, so the exception in StoppedIsPaid is empty.
- `SerialStartsAreSingle`: the registry does not say which bot a sandbox is of
  once its row is overwritten or filed elsewhere, so the invariant carries a
  witness: there is an f that gives each sandbox its bot, agrees with every row
  in the registry and in every memory and with the call under way (`Named`),
  and no two live sandboxes but strays have the same (`OneEach`); what runs of
  the bot that a start is about to launch is still on its list to stop
  (`Clear`). Each action extends or keeps f.

### PollLockProofs

For any number of processes, any lease of two ticks or more, and any wait.

- `TypeCorrect`, `LeaseExclusion`: LeaseExcludes. Unless the lease was forced or
  Mongo failed, whoever polls under it owns the document, whose time left is a
  whole lease or, while the renewal of the period is due, a tick less
  (`LeaseIsOwned`); so nobody else's attempt finds it expired.
- `FileExclusion`: FileExcludes. Unless two starts crossed, a poller's file is
  the one at the path, names it, and is locked by it, and what another is about
  to unlink is nobody's (`OwnsFile`). Since the path is one file, and a lock has
  one holder, there is one poller. That a pid found in a file is a live one's
  needs `PidsAreLive`.
- `StartsGiveWay`: GivesWay, the action property: a start that ends in vain
  read another's claim, and the claimant still polls or is at the lock file.

### What TLC alone checks

Liveness: GraceEnds, CreditRestores, JobSettles, PlainSettles, ChargedIsRated,
UsageSettles, StartSettles. The prover has no rules for ENABLED, on which every
argument from fairness rests.

## 5. Not modelled

Of the modelled components:

- Credits: the hash chain of ledger entries, several currencies, and the
  serialisation failures Postgres may raise, which look like a crash before the
  commit.
- Lifecycle: the alerts' wording and delivery, snapshots of containers, and a
  wallet that cannot be read.
- Deploy queue: the SQLite queue, which has the same protocol on one machine,
  health restarts, and the artifact store.
- Job queue: progress updates, which change no field modelled here, and the
  in-memory and thread variants for development.
- Rating: how a batch's cost is computed (a constant here), and the hold helper
  `P/rating_engine.py:316`, which only tests call.
- LLM charging: the daily cap. Its check calls a function that is gone and
  swallows the error, so it never refuses.
- Hosting: the API's delete, two calls at once in one process, the serverless
  track, the queued start (see `DeployQueue`), and the routing table.
  `redeploy()` (`H/service.py:1372-1401`) names a variable that is no parameter
  of it and raises before it changes anything. The hold before a start has no
  caller outside of tests.
- Polling: the branch for systems without `fcntl`, the webhook calls, renewals
  that are late, and a lock file shared by several hosts.
- Referrals: the in-memory repository of the tests.

Of the rest, with the reason:

- Credits in memory, backpressure, the key pool, generation cancel and
  progress, subscriptions: each has state of its own and is planned (section
  6). None of them moves credits.
- Agent runtime and orchestration: the order of its steps comes from a model's
  output and from LangGraph and Temporal; its charging is `LlmMetering`.
- Telegram screens, API requests, sandboxes and live runner, code tools and
  integrations: presentation, requests served alone, or effects outside the
  program.

## 6. Plan

Done, in the order of importance: `CreditAccount` and `PgCredits`,
`BalanceLifecycle`, `JobBoard` and `DeployQueue`, `JobQueue`, `UsageRating`,
`LlmMetering` and their composition `Charging`, `Referrals`, `HostSessions`,
`PollLock`, each with proofs of all that its passing runs check but liveness.

Next, models: `MemCredits`, a second refinement of `CreditAccount`;
`Subscriptions` (`P/subscription_store.py:246`: the copy in Redis heals from
Mongo while a deletion is under way; updates are handled concurrently,
`main.py:517`, and a handler that dies between a payment and its grant
loses it); then backpressure, the key pool and generation cancel.
