------------------------------ MODULE JobQueue ------------------------------
(* The job store on Redis, the calls that enqueue and control jobs, and    *)
(* the RQ workers that run them (platform/jobs.py, task_queue.py).         *)
(*                                                                         *)
(* A job is a hash; an id set `active` is kept beside it.  Redis runs each *)
(* command by itself: an update is an HSET and then an SREM or SADD, a     *)
(* control call is a read, a decision and such an update, and no step      *)
(* checks that the record is still what it read.  The in-process lock of   *)
(* enqueue does not bind other processes, so every caller is a process.    *)
EXTENDS Naturals, FiniteSets

CONSTANTS
    Jobs,        \* ids that may be handed out, a number
    Callers,     \* API processes
    Enqueuers,   \* ... those that enqueue
    Controllers, \* ... those that cancel, pause, resume and steer
    Workers,     \* RQ workers
    Owner,       \* the tenant of each job
    Ops,         \* the control calls made on each job
    GlobalCap,   \* JOB_MAX_QUEUED_GLOBAL
    TenantCap,   \* JOB_MAX_QUEUED_PER_TENANT
    MaxLosses    \* bound: workers that die and sends that fail

Job == 1..Jobs
Op == {"cancel", "pause", "resume", "steer"}

ASSUME JobQueueAssumption ==
    /\ Jobs \in Nat /\ GlobalCap \in Nat /\ TenantCap \in Nat /\ MaxLosses \in Nat
    /\ Enqueuers \subseteq Callers /\ Controllers \subseteq Callers
    /\ Ops \in [Job -> SUBSET Op]
    /\ DOMAIN Owner = Job

VARIABLES
    status,    \* the hash of a job: its status, "none" before and "gone" after
    started,   \* ... whether started_at is set
    payload,   \* ... what its result field holds
    active,    \* the id set jobs:active
    rq,        \* ids RQ holds for its workers
    worker,    \* what each worker is doing
    call,      \* what each caller is doing
    lost       \* history: jobs whose send failed or whose worker died

vars == <<status, started, payload, active, rq, worker, call, lost>>
record == <<status, started, payload>>

Terminal == {"succeeded", "failed", "cancelled"}
Live == {"queued", "running", "paused"}
Stored == Terminal \cup Live

Idle == [pc |-> "idle"]

Init ==
    /\ status = [j \in Job |-> "none"]
    /\ started = [j \in Job |-> FALSE]
    /\ payload = [j \in Job |-> "empty"]
    /\ active = {}
    /\ rq = {}
    /\ worker = [w \in Workers |-> Idle]
    /\ call = [c \in Callers |-> Idle]
    /\ lost = {}

\* The second half of an update: where the new status puts the id.  "paused"
\* and an update without a status leave the set alone.
Filed_KeepsFailed(j, s) ==
    IF s \in {"succeeded", "cancelled"} THEN active \ {j}
    ELSE IF s \in {"queued", "running"} THEN active \cup {j} ELSE active

Filed(j, s) ==
    IF s \in Terminal THEN active \ {j}
    ELSE IF s \in {"queued", "running"} THEN active \cup {j} ELSE active

---------------------------------------------------------------------------
(* enqueue *)

\* count_active(tenant): paused jobs are not counted.
CountedFor(t) == {j \in Job : Owner[j] = t /\ status[j] \in {"queued", "running"}}

\* The next id of each tenant: uuids never repeat.
Fresh(j) == status[j] = "none" /\ \A i \in Job : (Owner[i] = Owner[j] /\ i < j) => status[i] # "none"

CheckGlobal(c, t) ==
    /\ call[c] = Idle
    /\ \E j \in Job : Owner[j] = t /\ status[j] = "none"
    /\ Cardinality(active) < GlobalCap
    /\ call' = [call EXCEPT ![c] = [pc |-> "count", tenant |-> t]]
    /\ UNCHANGED <<record, active, rq, worker, lost>>

CheckTenant(c) ==
    /\ call[c].pc = "count"
    /\ call' = [call EXCEPT ![c] =
         IF Cardinality(CountedFor(@.tenant)) < TenantCap THEN [@ EXCEPT !.pc = "create"] ELSE Idle]
    /\ UNCHANGED <<record, active, rq, worker, lost>>

\* create is one transaction of HSET and SADD.
Create(c) ==
    /\ call[c].pc = "create"
    /\ \E j \in Job :
         /\ Fresh(j) /\ Owner[j] = call[c].tenant
         /\ status' = [status EXCEPT ![j] = "queued"]
         /\ active' = active \cup {j}
         /\ call' = [call EXCEPT ![c] = [pc |-> "send", job |-> j]]
    /\ UNCHANGED <<started, payload, rq, worker, lost>>

Send_Nowhere(c) ==
    /\ call[c].pc = "send"
    /\ call' = [call EXCEPT ![c] = Idle]
    /\ UNCHANGED <<record, active, rq, worker, lost>>

\* The record exists before RQ knows of it, and stays when RQ refuses it.
Send(c) ==
    /\ call[c].pc = "send"
    /\ rq' = rq \cup {call[c].job}
    /\ call' = [call EXCEPT ![c] = Idle]
    /\ UNCHANGED <<record, active, worker, lost>>

\* The connection fails; RQ may have taken the id before it did.
SendFails(c) ==
    /\ call[c].pc = "send"
    /\ Cardinality(lost) < MaxLosses
    /\ lost' = lost \cup {call[c].job}
    /\ call' = [call EXCEPT ![c] = Idle]
    /\ rq' \in {rq, rq \cup {call[c].job}}
    /\ UNCHANGED <<record, active, worker>>

---------------------------------------------------------------------------
(* cancel, pause, resume, steer: read, decide, write *)

\* What a call does to a job it read as s: it answers without a write where
\* the source returns early.
Applies_AfterEnd(op, s) ==
    CASE op = "resume" -> s = "paused"
      [] op = "pause"  -> s # "paused"
      [] OTHER         -> s \in Live

Applies(op, s) ==
    CASE op = "resume" -> s = "paused"
      [] op = "pause"  -> s \in {"queued", "running"}
      [] OTHER         -> s \in Live

NextStatus_Misspelt(op, wasStarted) ==
    CASE op = "cancel" -> "canceled"
      [] op = "pause"  -> "paused"
      [] op = "resume" -> IF wasStarted THEN "running" ELSE "queued"

NextStatus(op, wasStarted) ==
    CASE op = "cancel" -> "cancelled"
      [] op = "pause"  -> "paused"
      [] op = "resume" -> IF wasStarted THEN "running" ELSE "queued"

Read(c, op, j) ==
    /\ call[c] = Idle
    /\ op \in Ops[j] /\ status[j] \in Stored
    /\ Applies(op, status[j])
    /\ call' = [call EXCEPT ![c] =
         [pc |-> "write", op |-> op, job |-> j, started |-> started[j],
          result |-> payload[j] = "result"]]
    /\ UNCHANGED <<record, active, rq, worker, lost>>

\* A call that finds nothing to do, or no record, only answers.
ReadOnly(c, op, j) ==
    /\ call[c] = Idle
    /\ op \in Ops[j] /\ status[j] # "none"
    /\ ~Applies(op, status[j])
    /\ UNCHANGED vars

WriteStatus(c) ==
    /\ call[c].pc = "write" /\ call[c].op # "steer"
    /\ LET j == call[c].job
           s == NextStatus(call[c].op, call[c].started)
       IN /\ status' = [status EXCEPT ![j] = s]
          /\ call' = [call EXCEPT ![c] = [pc |-> "file", job |-> j, to |-> s]]
    /\ UNCHANGED <<started, payload, active, rq, worker, lost>>

\* steer writes the result field it read with one more note in it: a result
\* stored since is overwritten.
WriteSteer(c) ==
    /\ call[c].pc = "write" /\ call[c].op = "steer"
    /\ payload' = [payload EXCEPT ![call[c].job] = IF call[c].result THEN "result" ELSE "notes"]
    /\ call' = [call EXCEPT ![c] = Idle]
    /\ UNCHANGED <<status, started, active, rq, worker, lost>>

FileCall(c) ==
    /\ call[c].pc = "file"
    /\ active' = Filed(call[c].job, call[c].to)
    /\ call' = [call EXCEPT ![c] = Idle]
    /\ UNCHANGED <<record, rq, worker, lost>>

---------------------------------------------------------------------------
(* _run, on an RQ worker *)

\* RQ gives an id to one worker.  The record is read for its kind and input;
\* its status is not looked at.
Begin(w, j) ==
    /\ worker[w] = Idle /\ j \in rq /\ status[j] \in Stored
    /\ rq' = rq \ {j}
    /\ status' = [status EXCEPT ![j] = "running"]
    /\ started' = [started EXCEPT ![j] = TRUE]
    /\ worker' = [worker EXCEPT ![w] = [pc |-> "join", job |-> j, to |-> "running"]]
    /\ UNCHANGED <<payload, active, call, lost>>

\* A worker that knows no handler for the kind fails the job unrun.
NoHandler(w, j) ==
    /\ worker[w] = Idle /\ j \in rq /\ status[j] \in Stored
    /\ rq' = rq \ {j}
    /\ status' = [status EXCEPT ![j] = "failed"]
    /\ worker' = [worker EXCEPT ![w] = [pc |-> "leave", job |-> j, to |-> "failed"]]
    /\ UNCHANGED <<started, payload, active, call, lost>>

Missing(w, j) ==
    /\ worker[w] = Idle /\ j \in rq /\ status[j] = "gone"
    /\ rq' = rq \ {j}
    /\ UNCHANGED <<record, active, worker, call, lost>>

FileWorker(w) ==
    /\ worker[w].pc \in {"join", "leave"}
    /\ active' = Filed(worker[w].job, worker[w].to)
    /\ worker' = [worker EXCEPT ![w] =
         IF @.pc = "join" THEN [pc |-> "work", job |-> @.job] ELSE Idle]
    /\ UNCHANGED <<record, rq, call, lost>>

\* The handler returns a result, reports a failure or raises (a time limit
\* raises too); each writes a status and a result of its own.
End(w, s) ==
    /\ worker[w].pc = "work"
    /\ status' = [status EXCEPT ![worker[w].job] = s]
    /\ payload' = [payload EXCEPT ![worker[w].job] = "result"]
    /\ worker' = [worker EXCEPT ![w] = [pc |-> "leave", job |-> @.job, to |-> s]]
    /\ UNCHANGED <<started, active, rq, call, lost>>

\* A worker dies and is started again.  RQ files the job under failed, and
\* nobody tells the job store.
Die(w) ==
    /\ worker[w] # Idle
    /\ Cardinality(lost) < MaxLosses
    /\ lost' = lost \cup {worker[w].job}
    /\ worker' = [worker EXCEPT ![w] = Idle]
    /\ UNCHANGED <<record, active, rq, call>>

---------------------------------------------------------------------------
Holds(x, j) == x # Idle /\ "job" \in DOMAIN x /\ x.job = j

Held(j) == (\E w \in Workers : Holds(worker[w], j)) \/ (\E c \in Callers : Holds(call[c], j))

\* The hash lives JOB_REDIS_TTL_SEC, a week: longer than any call or run.
Expire(j) ==
    /\ status[j] \in Stored /\ ~Held(j)
    /\ status' = [status EXCEPT ![j] = "gone"]
    /\ started' = [started EXCEPT ![j] = FALSE]
    /\ payload' = [payload EXCEPT ![j] = "empty"]
    /\ UNCHANGED <<active, rq, worker, call, lost>>

CallStep(c) == CheckTenant(c) \/ Create(c) \/ Send(c) \/ WriteStatus(c) \/ WriteSteer(c) \/ FileCall(c)

WorkStep(w) ==
    \/ \E j \in Job : Begin(w, j) \/ NoHandler(w, j) \/ Missing(w, j)
    \/ FileWorker(w)
    \/ \E s \in {"succeeded", "failed"} : End(w, s)

Next ==
    \/ \E c \in Callers :
         \/ c \in Enqueuers /\ \E j \in Job : CheckGlobal(c, Owner[j])
         \/ c \in Controllers /\ \E j \in Job, op \in Op : Read(c, op, j) \/ ReadOnly(c, op, j)
         \/ CallStep(c)
         \/ SendFails(c)
    \/ \E w \in Workers : WorkStep(w) \/ Die(w)
    \/ \E j \in Job : Expire(j)

\* A call that began comes to its end, and RQ's workers keep working.
Fairness ==
    /\ \A c \in Callers : WF_vars(CallStep(c))
    /\ \A w \in Workers : WF_vars(WorkStep(w))

Spec == Init /\ [][Next]_vars /\ Fairness

---------------------------------------------------------------------------
(* Properties *)

InFlight == [pc : {"write"}, op : Op, job : Job, started : BOOLEAN, result : BOOLEAN]
       \cup [pc : {"file"}, job : Job, to : Stored]
       \cup [pc : {"send"}, job : Job]
       \cup [pc : {"count", "create"}, tenant : {Owner[j] : j \in Job}]

\* The type of every variable; statuses are those of jobs.py:36-44.
TypeOK ==
    /\ status \in [Job -> Stored \cup {"none", "gone"}]
    /\ started \in [Job -> BOOLEAN]
    /\ payload \in [Job -> {"empty", "notes", "result"}]
    /\ active \subseteq Job /\ rq \subseteq Job /\ lost \subseteq Job
    /\ worker \in [Workers -> {Idle} \cup [pc : {"join", "leave"}, job : Job, to : Stored]
                                     \cup [pc : {"work"}, job : Job]]
    /\ call \in [Callers -> {Idle} \cup InFlight]

\* Nobody has the job in hand: no worker, no call, not RQ.
Quiet(j) == ~Held(j) /\ j \notin rq

\* A job that ended and that nobody has in hand never comes back: whatever is
\* called later, its status is terminal until the record expires (the early
\* returns of cancel, pause, resume and steer).
EndedForGood ==
    \A j \in Job :
        [](status[j] \in Terminal /\ Quiet(j) => [](status[j] \in Terminal \cup {"gone"}))

\* Jobs that are only ever cancelled.
Plain == {j \in Job : Ops[j] \subseteq {"cancel"}}

\* A slot of the global limit is held by exactly the jobs that have not ended,
\* once nobody is in the middle of an update: cancelling never leaks a slot,
\* whichever of cancel and worker files the id last.  (A worker that dies
\* between its status and the set leaks one: jobs in `lost` are left out.)
SlotsMatch ==
    \A j \in Plain \ lost : Quiet(j) /\ status[j] \in Stored
        => (j \in active <=> status[j] \in Live)

\* The tenant limit counts before it creates, in each process by itself: the
\* jobs that wait exceed it by at most the calls that race.  (Jobs that run
\* may exceed it: see LiveWithinCap.)
QueuedWithinCap ==
    \A t \in {Owner[j] : j \in Job} :
        LET own == {j \in Job : Owner[j] = t}
        IN own \subseteq Plain
             => Cardinality({j \in own : status[j] = "queued"}) < TenantCap + Cardinality(Enqueuers)

\* A created job ends, cancelled or not, unless its send failed, its worker
\* died or it waited longer than its record lives.
PlainSettles ==
    \A j \in Plain : status[j] = "queued"
        ~> status[j] \in Terminal \cup {"gone"} \/ j \in lost

---------------------------------------------------------------------------
(* What a doc, a comment or a route says, and the code does not do *)

\* "Poll job status until terminal": a job whose handler came to an end has a
\* terminal status once nobody writes it any more, unless its worker died.
PollEnds ==
    \A j \in Job \ lost : started[j] /\ Quiet(j) => status[j] \in Terminal \cup {"gone"}

\* "max non-terminal jobs per tenant": a cancelled job frees its slot before
\* it is run all the same, and a paused job is not counted.
LiveWithinCap ==
    \A t \in {Owner[j] : j \in Job} :
        Cardinality({j \in Job : Owner[j] = t /\ status[j] \in Live})
          < TenantCap + Cardinality(Enqueuers)

\* A steer appends a note: a job that succeeded has its result.
ResultKept ==
    \A j \in Job : Quiet(j) /\ status[j] = "succeeded" => payload[j] = "result"

\* A job that was cancelled is not run.
CancelledIsNotRun ==
    [][\A j \in Job : status[j] = "cancelled" => status'[j] # "running"]_vars

\* Every created job leaves the queue, without exceptions.
EveryJobSettles ==
    \A j \in Job : status[j] = "queued" ~> status[j] \in Terminal \cup {"gone"}
=============================================================================
