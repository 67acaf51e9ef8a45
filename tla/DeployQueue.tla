----------------------------- MODULE DeployQueue -----------------------------
(***************************************************************************)
(* The deploy queue of the hosting fleet (hosting/pg_deploy_queue.py) with *)
(* the service that fills it (hosting/service.py) and the workers that     *)
(* claim, build and start its jobs (hosting/worker.py).                    *)
(*                                                                         *)
(* A worker writes a job's row by job id alone, whoever owns it by then;   *)
(* a row whose heartbeat is old is given to another worker.  Prompt says   *)
(* that a worker that is alive is never that late.                         *)
(***************************************************************************)
EXTENDS Integers, FiniteSets, FiniteSetsExt

CONSTANTS
  Clients,      \* processes serving hosting requests
  Workers,      \* worker processes, each a node of its own
  Jobs,         \* bound on requests: jobs are 1..Jobs, by created_at
  UserOf,       \* UserOf[j]: who asks for job j
  MaxBots,      \* plan limit: bots of one user
  Capacity,     \* Capacity[w]: TBE_NODE_MAX_BOTS of its node
  MaxQueued,    \* TBE_MAX_QUEUED_PER_USER
  MaxAttempts,  \* max_attempts
  Prompt,       \* a live worker never exceeds TBE_JOB_STALE_SECONDS
  MaxCrashes    \* bound on worker crashes

VARIABLES
  asked,    \* requests made
  job,      \* rows of tbe_deploy_jobs
  beat,     \* heartbeat_at: "none" (0), "fresh", or older than the limit
  bots,     \* bots[j]: the nodes on which a bot of job j runs
  cpc, want,              \* clients: where, for which job
  pc, mine, token, seen,  \* workers: where, which job, its token, bots counted
  why,      \* why a client turned a request down, a worker is failing a job
  crashes

client == <<cpc, want>>
worker == <<pc, mine, token, seen>>
vars == <<asked, job, beat, bots, client, worker, why, crashes>>

ASSUME CountAssumption == {Jobs, MaxBots, MaxQueued, MaxAttempts, MaxCrashes} \subseteq Nat
ASSUME CapacityAssumption == Capacity \in [Workers -> Nat]
ASSUME PromptAssumption == Prompt \in BOOLEAN

Job == 1..Jobs
NoJob == 0
Nobody == "nobody"

ASSUME NobodyAssumption == Nobody \notin Workers

Status == {"absent", "queued", "claimed", "building", "running", "failed"}
Active == {"queued", "claimed", "building"}

\* status, node_id, attempts, and whether sealed_token is still there.
Row == [status : Status, node : Workers \cup {Nobody}, attempts : Nat, sealed : BOOLEAN]

NewRow == [status |-> "queued", node |-> Nobody, attempts |-> 0, sealed |-> TRUE]

-----------------------------------------------------------------------------

Init ==
  /\ asked = 0
  /\ job = [j \in Job |-> [NewRow EXCEPT !.status = "absent", !.sealed = FALSE]]
  /\ beat = [j \in Job |-> "none"]
  /\ bots = [j \in Job |-> {}]
  /\ cpc = [c \in Clients |-> "idle"] /\ want = [c \in Clients |-> NoJob]
  /\ pc = [w \in Workers |-> "idle"] /\ mine = [w \in Workers |-> NoJob]
  /\ token = [w \in Workers |-> FALSE] /\ seen = [w \in Workers |-> 0]
  /\ why = [x \in Clients \cup Workers |-> "none"]
  /\ crashes = 0

RowsOf(user, statuses) ==
  Cardinality({j \in Job : UserOf[j] = user /\ job[j].status \in statuses})

\* count_running_for_user, count_running_on_node
RunningFor(user) == RowsOf(user, {"running"})
RunningOn(w) == Cardinality({j \in Job : job[j].status = "running" /\ job[j].node = w})

-----------------------------------------------------------------------------
(* The service: HostingService.start in scale mode, and enqueue            *)

Settle(c, reason) ==
  /\ cpc' = [cpc EXCEPT ![c] = "idle"]
  /\ want' = [want EXCEPT ![c] = NoJob]
  /\ why' = [why EXCEPT ![c] = reason]

Step(c, label) == cpc' = [cpc EXCEPT ![c] = label] /\ UNCHANGED <<want, why>>

Ask(c) ==
  /\ cpc[c] = "idle" /\ asked < Jobs
  /\ asked' = asked + 1
  /\ cpc' = [cpc EXCEPT ![c] = "plan"]
  /\ want' = [want EXCEPT ![c] = asked']
  /\ why' = [why EXCEPT ![c] = "none"]
  /\ UNCHANGED <<job, beat, bots, worker, crashes>>

CheckPlan(c) ==
  /\ cpc[c] = "plan"
  /\ IF RunningFor(UserOf[want[c]]) >= MaxBots THEN Settle(c, "plan") ELSE Step(c, "count")
  /\ UNCHANGED <<asked, job, beat, bots, worker, crashes>>

QueueFull(user) == RowsOf(user, Active) >= MaxQueued

\* The count and the insert are one transaction that locks nothing.
CountQueued(c) ==
  /\ cpc[c] = "count"
  /\ IF QueueFull(UserOf[want[c]]) THEN Settle(c, "queue_full") ELSE Step(c, "insert")
  /\ UNCHANGED <<asked, job, beat, bots, worker, crashes>>

Insert(c) ==
  /\ cpc[c] = "insert"
  /\ job' = [job EXCEPT ![want[c]] = NewRow]
  /\ Settle(c, "none")
  /\ UNCHANGED <<asked, beat, bots, worker, crashes>>

-----------------------------------------------------------------------------
(* The worker: process_one                                                 *)

Goto(w, label) == pc' = [pc EXCEPT ![w] = label]

Deny(w, reason) ==
  /\ Goto(w, "failGet")
  /\ why' = [why EXCEPT ![w] = reason]

Done(w) ==
  /\ Goto(w, "idle")
  /\ mine' = [mine EXCEPT ![w] = NoJob]
  /\ token' = [token EXCEPT ![w] = FALSE]
  /\ seen' = [seen EXCEPT ![w] = 0]
  /\ why' = [why EXCEPT ![w] = "none"]

CanAccept(w) == RunningOn(w) < Capacity[w]

Poll(w) ==
  /\ pc[w] = "idle" /\ CanAccept(w)
  /\ seen' = [seen EXCEPT ![w] = RunningOn(w)]
  /\ Goto(w, "claim")
  /\ UNCHANGED <<asked, job, beat, bots, client, mine, token, why, crashes>>

Reclaimable_NoHeartbeat(j) == job[j].status \in {"claimed", "building"}
Reclaimable_ClaimedOnly(j) == job[j].status = "claimed" /\ beat[j] = "stale"

Reclaimable(j) == job[j].status \in {"claimed", "building"} /\ beat[j] = "stale"

Reclaimed ==
  [j \in Job |-> IF Reclaimable(j) THEN [job[j] EXCEPT !.status = "queued", !.node = Nobody]
                                   ELSE job[j]]

Claimed(row, w) ==
  [row EXCEPT !.status = "claimed", !.node = w, !.attempts = @ + 1]

\* claim_next: one transaction, over the rows as stale jobs come back.
Claim(w) ==
  /\ pc[w] = "claim"
  /\ LET queued == {j \in Job : Reclaimed[j].status = "queued"} IN
     \/ /\ queued = {}
        /\ job' = Reclaimed /\ Done(w) /\ UNCHANGED beat
     \/ /\ queued # {}
        /\ LET j == Min(queued) IN
           /\ job' = [Reclaimed EXCEPT ![j] = Claimed(@, w)]
           /\ beat' = [beat EXCEPT ![j] = "fresh"]
           /\ mine' = [mine EXCEPT ![w] = j]
           /\ token' = [token EXCEPT ![w] = job[j].sealed]
        /\ Goto(w, "build") /\ UNCHANGED <<seen, why>>
  /\ UNCHANGED <<asked, bots, client, crashes>>

Build(w) ==
  /\ pc[w] = "build"
  /\ job' = [job EXCEPT ![mine[w]].status = "building"]
  /\ Goto(w, "beat")
  /\ UNCHANGED <<asked, beat, bots, client, mine, token, seen, why, crashes>>

\* The last heartbeat until the bot runs; then the token is unsealed.
Heartbeat(w) ==
  /\ pc[w] = "beat"
  /\ beat' = [beat EXCEPT ![mine[w]] = "fresh"]
  /\ IF token[w] THEN Goto(w, "limits") /\ UNCHANGED why ELSE Deny(w, "token")
  /\ UNCHANGED <<asked, job, bots, client, mine, token, seen, crashes>>

OverPlan(user) == RunningFor(user) >= MaxBots

\* Once the artifact is there: the plan limit over the cluster, then the
\* rate limiter, which is told the bots this node ran when it polled.
Limits(w) ==
  /\ pc[w] = "limits"
  /\ \/ Deny(w, "artifact")
     \/ OverPlan(UserOf[mine[w]]) /\ Deny(w, "plan")
     \/ ~OverPlan(UserOf[mine[w]]) /\ seen[w] >= MaxBots /\ Deny(w, "rate")
     \/ ~OverPlan(UserOf[mine[w]]) /\ seen[w] < MaxBots /\ Goto(w, "start") /\ UNCHANGED why
  /\ UNCHANGED <<asked, job, beat, bots, client, mine, token, seen, crashes>>

Start_LeavesSandbox(w) ==
  /\ pc[w] = "start"
  /\ bots' = [bots EXCEPT ![mine[w]] = @ \cup {w}]
  /\ \/ Deny(w, "sandbox")
     \/ Goto(w, "mark") /\ UNCHANGED why
  /\ UNCHANGED <<asked, job, beat, client, mine, token, seen, crashes>>

\* Prepare the project and start the sandbox.
Start(w) ==
  /\ pc[w] = "start"
  /\ \/ Deny(w, "sandbox") /\ UNCHANGED bots
     \/ bots' = [bots EXCEPT ![mine[w]] = @ \cup {w}] /\ Goto(w, "mark") /\ UNCHANGED why
  /\ UNCHANGED <<asked, job, beat, client, mine, token, seen, crashes>>

Running_KeepsToken(row) == [row EXCEPT !.status = "running"]

Running(row) == [row EXCEPT !.status = "running", !.sealed = FALSE]

MarkRunning(w) ==
  /\ pc[w] = "mark"
  /\ job' = [job EXCEPT ![mine[w]] = Running(@)]
  /\ beat' = [beat EXCEPT ![mine[w]] = "fresh"]
  /\ Done(w)
  /\ UNCHANGED <<asked, bots, client, crashes>>

OutOfAttempts(row) == row.attempts >= MaxAttempts

\* mark_failed reads the row, then updates it.
FailGet(w) ==
  /\ pc[w] = "failGet"
  /\ Goto(w, IF OutOfAttempts(job[mine[w]]) THEN "giveUp" ELSE "requeue")
  /\ UNCHANGED <<asked, job, beat, bots, client, mine, token, seen, why, crashes>>

GiveUp(w) ==
  /\ pc[w] = "giveUp"
  /\ job' = [job EXCEPT ![mine[w]] = [@ EXCEPT !.status = "failed", !.sealed = FALSE]]
  /\ Done(w)
  /\ UNCHANGED <<asked, beat, bots, client, crashes>>

Requeue(w) ==
  /\ pc[w] = "requeue"
  /\ job' = [job EXCEPT ![mine[w]] = [@ EXCEPT !.status = "queued", !.node = Nobody]]
  /\ Done(w)
  /\ UNCHANGED <<asked, beat, bots, client, crashes>>

-----------------------------------------------------------------------------
(* What happens to them                                                    *)

\* A heartbeat grows too old.
Expire(j) ==
  /\ job[j].status \in {"claimed", "building"} /\ beat[j] = "fresh"
  /\ Prompt => \A w \in Workers : mine[w] # j
  /\ beat' = [beat EXCEPT ![j] = "stale"]
  /\ UNCHANGED <<asked, job, bots, client, worker, why, crashes>>

\* A worker dies and is restarted; the sandboxes it started go on.
Crash(w) ==
  /\ pc[w] # "idle" /\ crashes < MaxCrashes
  /\ crashes' = crashes + 1
  /\ Done(w)
  /\ UNCHANGED <<asked, job, beat, bots, client>>

\* The owner stops a bot: no row of the queue hears of it.
Stop(j) ==
  /\ bots[j] # {}
  /\ bots' = [bots EXCEPT ![j] = {}]
  /\ UNCHANGED <<asked, job, beat, client, worker, why, crashes>>

Serve(c) == CheckPlan(c) \/ CountQueued(c) \/ Insert(c)

Work(w) ==
  \/ Poll(w) \/ Claim(w) \/ Build(w) \/ Heartbeat(w) \/ Limits(w) \/ Start(w)
  \/ MarkRunning(w) \/ FailGet(w) \/ GiveUp(w) \/ Requeue(w)

Next ==
  \/ \E c \in Clients : Ask(c) \/ Serve(c)
  \/ \E w \in Workers : Work(w) \/ Crash(w)
  \/ \E j \in Job : Expire(j) \/ Stop(j)

\* The workers poll for ever, and a heartbeat nobody renews grows old.
Fairness ==
  /\ \A w \in Workers : WF_vars(Work(w))
  /\ \A j \in Job : WF_vars(Expire(j))

Spec == Init /\ [][Next]_vars /\ Fairness

-----------------------------------------------------------------------------
(* Properties.                                                             *)

\* Types of the variables.
TypeOK ==
  /\ asked \in 0..Jobs
  /\ job \in [Job -> Row]
  /\ beat \in [Job -> {"none", "fresh", "stale"}]
  /\ bots \in [Job -> SUBSET Workers]
  /\ cpc \in [Clients -> {"idle", "plan", "count", "insert"}]
  /\ want \in [Clients -> Job \cup {NoJob}]
  /\ pc \in [Workers -> {"idle", "claim", "build", "beat", "limits", "start", "mark",
                         "failGet", "giveUp", "requeue"}]
  /\ mine \in [Workers -> Job \cup {NoJob}]
  /\ token \in [Workers -> BOOLEAN] /\ seen \in [Workers -> 0..Jobs]
  /\ why \in [Clients \cup Workers ->
                {"none", "plan", "queue_full", "token", "artifact", "rate", "sandbox"}]
  /\ crashes \in 0..MaxCrashes

\* A worker at work on a job owns its row, so no two work on the same one.
OwnerWorks ==
  \A w \in Workers : mine[w] # NoJob =>
    job[mine[w]].node = w /\ job[mine[w]].status \in {"claimed", "building"}

\* "Drop sealed token once running - reduce secret retention"
\* (deploy_queue.py:211), and not before: a job that is still to be started
\* has the token it needs.
SealedWhileNeeded == \A j \in Job : job[j].sealed <=> job[j].status \in Active

\* A job is tried at most max_attempts times, but for tries that crashed.
AttemptsBounded == \A j \in Job : job[j].attempts <= MaxAttempts + crashes

\* "Cap queued jobs per user to prevent flood" (deploy_queue.py:130): a
\* user has no more jobs waiting or at work than the cap, whatever is tried
\* again - as long as one process at a time enqueues.
QueueWithinCap ==
  \A u \in {UserOf[j] : j \in Job} : RowsOf(u, Active) <= MaxQueued

\* A queued job ends up running or failed, also when its worker dies, unless
\* every node is full.
JobSettles ==
  \A j \in Job : job[j].status = "queued" ~>
    (job[j].status \in {"running", "failed"} \/ \A w \in Workers : ~CanAccept(w))

\* A job's bot runs on one node: it is "Atomically claim[ed]"
\* (deploy_queue.py:155), and "reclaim stale" is for a "worker died"
\* (pg_deploy_queue.py:119).
StartedOnce == \A j \in Job : Cardinality(bots[j]) <= 1

\* The worker's check is "the authoritative gate: count the user's running
\* bots across the cluster and block if at/over the plan limit"
\* (worker.py:134): no user has more bots than the plan allows.
PlanRespected ==
  \A u \in {UserOf[j] : j \in Job} :
    Cardinality({j \in Job : UserOf[j] = u /\ bots[j] # {}}) <= MaxBots

\* The rows are a board of jobs: a row that is queued, claimed or building
\* is an open job, a worker holds the job it works on, and has launched its
\* bot when all that is left is to say so.
StageOf(j) == IF job[j].status \in Active THEN "open" ELSE job[j].status

Board == INSTANCE JobBoard WITH
  stage <- [j \in Job |-> StageOf(j)],
  hand <- mine,
  launched <- [w \in Workers |-> pc[w] = "mark"]

\* Every behaviour of the queue and its workers is one of that board: "API
\* enqueues, workers claim and execute" (deploy_queue.py:1) with one worker
\* at a time on a job, one launch for each time it is claimed, and no way
\* back from running or failed, although no update asks whose row it is.
ImplementsBoard == Board!Spec

\* A hosting request is turned down for its user's limit only when the user
\* has that many bots: "count the user's running bots across the cluster and
\* block if at/over the plan limit" (worker.py:134).
DeniedAtLimit ==
  LET Denied(x) == why'[x] \in {"plan", "rate"} /\ why'[x] # why[x]
      Full(j) == Cardinality({i \in Job : UserOf[i] = UserOf[j] /\ bots[i] # {}}) >= MaxBots IN
  /\ \A c \in Clients : Denied(c) => Full(want[c])
  /\ \A w \in Workers : Denied(w) => Full(mine[w])
DeniedAtPlanLimit == [][DeniedAtLimit]_vars
=============================================================================
