---------------------------- MODULE HostSessions ----------------------------
(* The bots of one user, the processes that host them and the charge for   *)
(* each session (engine/services/hosting/service.py, health_monitor.py,    *)
(* hosting/usage_billing.py).                                              *)
(*                                                                         *)
(* Every process keeps a map of instances.  It is read from the registry   *)
(* and written back whole, both under a file lock that covers the read or  *)
(* the write and not what comes in between.  The registry is the durable   *)
(* store and its copy in Redis, which are written together.  A stop ends   *)
(* the sandbox and settles the session under host_settle:<instance id>;    *)
(* a restart stops, starts and gives the new sandbox the old id.           *)
EXTENDS Integers, FiniteSets, FiniteSetsExt

CONSTANTS
    Procs,       \* bot and API processes; one call at a time in each
    Bots,        \* projects with their tokens
    MaxBots,     \* bots the user's plan allows
    Calls,       \* which operations are called
    MaxBoxes,    \* bound: sandboxes ever started
    MaxFaults    \* bound: crashes, stops that raise, charges that fail

ASSUME HostSessionsAssumption ==
    /\ MaxBots \in Nat /\ MaxBoxes \in Nat /\ MaxFaults \in Nat
    /\ Calls \subseteq {"start", "stop", "restart", "status", "monitor"}

VARIABLES
    row,      \* the registry: what is stored under each instance id
    mem,      \* each process's map
    call,     \* what each process is doing
    live,     \* sandboxes that run
    boxes,    \* sandboxes started so far; a new instance has its box's number
    keys,     \* the ledger: instance ids whose settlement was posted
    paid,     \* the ledger: how often each sandbox's session was charged
    unpaid,   \* history: sandboxes whose charge was refused or failed
    strays,   \* history: sandboxes a crash or a failed stop left running
    renamed,  \* history: sandboxes a restart filed under an older id
    raced,    \* history: two calls were in progress at once
    faults    \* history: faults so far

history == <<unpaid, strays, renamed, raced, faults>>
ledger == <<keys, paid>>
vars == <<row, mem, call, live, boxes, ledger, history>>

Ids == 1..MaxBoxes
None == [status |-> "none"]
Instance(status, bot, box) == [status |-> status, bot |-> bot, box |-> box]
Over(f, g) == [i \in Ids |-> IF f[i] # None THEN f[i] ELSE g[i]]
Running(f) == {i \in Ids : f[i].status = "running"}

Idle == [pc |-> "idle"]
\* A call: the instances it still has to stop, what follows them, the bot it
\* starts, and the id that a restart keeps; 0 for none.
Doing(pc, todo, next, bot, keep) ==
    [pc |-> pc, todo |-> todo, next |-> next, bot |-> bot, keep |-> keep]

Init ==
    /\ row = [i \in Ids |-> None] /\ mem = [p \in Procs |-> row]
    /\ call = [p \in Procs |-> Idle]
    /\ live = {} /\ boxes = 0
    /\ keys = {} /\ paid = [i \in Ids |-> 0]
    /\ unpaid = {} /\ strays = {} /\ renamed = {} /\ raced = FALSE /\ faults = 0

Goto(p, pc) == call' = [call EXCEPT ![p].pc = pc]
Fault == faults < MaxFaults /\ faults' = faults + 1

Begin(p, op, c) ==
    /\ call[p] = Idle /\ op \in Calls
    /\ call' = [call EXCEPT ![p] = c]
    /\ raced' = (raced \/ \E q \in Procs \ {p} : call[q] # Idle)
    /\ UNCHANGED <<row, live, boxes, ledger, unpaid, strays, renamed, faults>>

\* get: from the map, else from Redis.
Get(p, i) == IF mem[p][i] # None THEN mem[p][i] ELSE row[i]
Fetch(p, i) == Get(p, i) # None /\ mem' = [mem EXCEPT ![p][i] = Get(p, i)]

\* _save: the whole map, over whatever the registry says.
Save(p) == row' = Over(mem'[p], row)

---------------------------------------------------------------------------
(* Calls *)

CallStart(p, b) ==
    Begin(p, "start", Doing("load", {}, "limit", b, 0)) /\ UNCHANGED mem

CallStop(p, i) ==
    Fetch(p, i) /\ Begin(p, "stop", Doing("stop", {i}, "end", 0, 0))

CallRestart(p, i) ==
    Fetch(p, i) /\ Begin(p, "restart", Doing("stop", {i}, "load", Get(p, i).bot, i))

\* list_for_user takes what Redis has; then the instance is probed.
CallStatus(p, i) ==
    /\ mem' = [mem EXCEPT ![p] = Over(row, @)]
    /\ mem'[p][i].status = "running" /\ mem'[p][i].box \notin live
    /\ Begin(p, "status", Doing("fail", {i}, "end", 0, 0))

\* iter_running_instances takes the rows that say running.
CallMonitor(p) ==
    /\ mem' = [mem EXCEPT ![p] = [i \in Ids |-> IF i \in Running(row) THEN row[i] ELSE @[i]]]
    /\ Begin(p, "monitor", Doing("probe", Running(mem'[p]), "end", 0, 0))

---------------------------------------------------------------------------
(* start, up to the sandbox *)

\* Under the lock: the registry, and the instances that run the same bot.
Load(p) ==
    /\ call[p].pc = "load"
    /\ mem' = [mem EXCEPT ![p] = row]
    /\ LET same == {i \in Running(row) : row[i].bot = call[p].bot} IN
       call' = [call EXCEPT ![p].pc = IF same = {} THEN "limit" ELSE "stop",
                            ![p].todo = same, ![p].next = "limit"]
    /\ UNCHANGED <<row, live, boxes, ledger, history>>

Limit_OffByOne(p) ==
    /\ call[p].pc = "limit"
    /\ mem' = [mem EXCEPT ![p] = Over(row, @)]
    /\ IF Cardinality(Running(mem'[p])) <= MaxBots
         THEN Goto(p, "launch") ELSE call' = [call EXCEPT ![p] = Idle]
    /\ UNCHANGED <<row, live, boxes, ledger, history>>

\* The plan's limit, on the map with what Redis has.
Limit(p) ==
    /\ call[p].pc = "limit"
    /\ mem' = [mem EXCEPT ![p] = Over(row, @)]
    /\ IF Cardinality(Running(mem'[p])) < MaxBots
         THEN Goto(p, "launch") ELSE call' = [call EXCEPT ![p] = Idle]
    /\ UNCHANGED <<row, live, boxes, ledger, history>>

\* Quotas, the token or the sandbox may refuse.
Refused(p) ==
    /\ call[p].pc = "launch"
    /\ call' = [call EXCEPT ![p] = Idle]
    /\ UNCHANGED <<row, mem, live, boxes, ledger, history>>

Launch(p) ==
    /\ call[p].pc = "launch" /\ boxes < MaxBoxes
    /\ boxes' = boxes + 1
    /\ live' = live \cup {boxes'}
    /\ call' = [call EXCEPT ![p].pc = "enrol", ![p].todo = {boxes'}]
    /\ UNCHANGED <<row, mem, ledger, history>>

Box(p) == Max(call[p].todo)

Enrol_NoSave(p) ==
    /\ call[p].pc = "enrol"
    /\ mem' = [mem EXCEPT ![p][Box(p)] = Instance("running", call[p].bot, Box(p))]
    /\ Goto(p, "plane")
    /\ UNCHANGED <<row, live, boxes, ledger, history>>

\* The instance, and a first save; the sandbox may already have failed.
Enrol(p) ==
    /\ call[p].pc = "enrol"
    /\ \E status \in {"running"} \cup (IF Box(p) \in live THEN {} ELSE {"failed"}) :
         /\ mem' = [mem EXCEPT ![p][Box(p)] = Instance(status, call[p].bot, Box(p))]
         /\ IF status = "running" THEN Goto(p, "plane") ELSE call' = [call EXCEPT ![p] = Idle]
    /\ Save(p)
    /\ UNCHANGED <<live, boxes, ledger, history>>

\* Webhook, routes and manifest, then a second save unless one of them raised.
Plane(p) ==
    /\ call[p].pc = "plane"
    /\ mem' = mem
    /\ Save(p) \/ row' = row
    /\ IF call[p].keep \notin {0, Box(p)} THEN Goto(p, "rename")
                                          ELSE call' = [call EXCEPT ![p] = Idle]
    /\ UNCHANGED <<live, boxes, ledger, history>>

\* restart: the new instance takes the old id; its own row stays behind.
Rename(p) ==
    /\ call[p].pc = "rename"
    /\ mem' = [mem EXCEPT ![p][Box(p)] = None, ![p][call[p].keep] = mem[p][Box(p)]]
    /\ Save(p)
    /\ renamed' = renamed \cup {Box(p)}
    /\ call' = [call EXCEPT ![p] = Idle]
    /\ UNCHANGED <<live, boxes, ledger, unpaid, strays, raced, faults>>

---------------------------------------------------------------------------
(* stop *)

Target(p) == Min(call[p].todo)

StopBox_SavesFirst(p) ==
    /\ call[p].pc = "stop"
    /\ mem' = [mem EXCEPT ![p][Target(p)].status = "stopped"]
    /\ Save(p)
    /\ live' = live \ {mem[p][Target(p)].box}
    /\ Goto(p, "settle")
    /\ UNCHANGED <<boxes, ledger, history>>

\* The sandbox ends, or its stop raises; the instance is stopped either way.
StopBox(p) ==
    /\ call[p].pc = "stop"
    /\ mem' = [mem EXCEPT ![p][Target(p)].status = "stopped"]
    /\ Goto(p, "settle")
    /\ LET box == mem[p][Target(p)].box IN
       \/ live' = live \ {box} /\ UNCHANGED <<strays, faults>>
       \/ box \in live /\ Fault /\ strays' = strays \cup {box} /\ UNCHANGED live
    /\ UNCHANGED <<row, boxes, ledger, unpaid, renamed, raced>>

Charge(i, box) == keys' = keys \cup {i} /\ paid' = [paid EXCEPT ![box] = @ + 1]

\* settle_instance: a deduction, its replay, or a failure that is logged.
Settle_AnyKey(p) ==
    /\ call[p].pc = "settle"
    /\ Charge(Target(p), mem[p][Target(p)].box)
    /\ Goto(p, "save")
    /\ UNCHANGED <<row, mem, live, boxes, history>>

Settle(p) ==
    /\ call[p].pc = "settle"
    /\ LET i == Target(p)
           box == mem[p][i].box
       IN \/ i \notin keys /\ Charge(i, box) /\ UNCHANGED <<unpaid, faults>>
          \/ i \in keys /\ UNCHANGED <<ledger, unpaid, faults>>
          \/ i \notin keys /\ Fault /\ unpaid' = unpaid \cup {box} /\ UNCHANGED ledger
    /\ Goto(p, "save")
    /\ UNCHANGED <<row, mem, live, boxes, strays, renamed, raced>>

Stopped(p) ==
    /\ call[p].pc = "save"
    /\ mem' = mem
    /\ Save(p)
    /\ LET c == call[p]
           rest == c.todo \ {Target(p)}
       IN call' = [call EXCEPT ![p] =
            IF rest = {} /\ c.next = "end" THEN Idle
            ELSE Doing(IF rest = {} THEN c.next ELSE "stop", rest, c.next, c.bot, c.keep)]
    /\ UNCHANGED <<live, boxes, ledger, history>>

---------------------------------------------------------------------------
(* status and the health monitor *)

Fail(p) ==
    /\ call[p].pc = "fail"
    /\ mem' = [mem EXCEPT ![p][Target(p)].status = "failed"]
    /\ Save(p)
    /\ call' = [call EXCEPT ![p] = Idle]
    /\ UNCHANGED <<live, boxes, ledger, history>>

\* A bot that is down or not confirmed: failed, and its sandbox is ended.
Probe(p) ==
    /\ call[p].pc = "probe" /\ call[p].todo # {}
    /\ LET box == mem[p][Target(p)].box IN
       \/ box \in live /\ UNCHANGED <<mem, live, strays, faults>>
       \/ /\ mem' = [mem EXCEPT ![p][Target(p)].status = "failed"]
          /\ \/ live' = live \ {box} /\ UNCHANGED <<strays, faults>>
             \/ box \in live /\ Fault /\ strays' = strays \cup {box} /\ UNCHANGED live
    /\ call' = [call EXCEPT ![p].todo = call[p].todo \ {Target(p)}]
    /\ UNCHANGED <<row, boxes, ledger, unpaid, renamed, raced>>

ProbesDone(p) ==
    /\ call[p].pc = "probe" /\ call[p].todo = {}
    /\ mem' = mem
    /\ Save(p)
    /\ call' = [call EXCEPT ![p] = Idle]
    /\ UNCHANGED <<live, boxes, ledger, history>>

---------------------------------------------------------------------------

BotDies(box) ==
    /\ box \in live
    /\ live' = live \ {box}
    /\ UNCHANGED <<row, mem, call, boxes, ledger, history>>

\* A process dies and comes back with the registry.
Crash(p) ==
    /\ call[p] # Idle /\ Fault
    /\ mem' = [mem EXCEPT ![p] = row]
    /\ call' = [call EXCEPT ![p] = Idle]
    /\ strays' = IF call[p].pc = "enrol" THEN strays \cup call[p].todo ELSE strays
    /\ UNCHANGED <<row, live, boxes, ledger, unpaid, renamed, raced>>

Steps(p) ==
    \/ Load(p) \/ Limit(p) \/ Refused(p) \/ Launch(p) \/ Enrol(p) \/ Plane(p) \/ Rename(p)
    \/ StopBox(p) \/ Settle(p) \/ Stopped(p)
    \/ Fail(p) \/ Probe(p) \/ ProbesDone(p)

Next ==
    \/ \E p \in Procs :
         \/ \E b \in Bots : CallStart(p, b)
         \/ \E i \in Ids : CallStop(p, i) \/ CallRestart(p, i) \/ CallStatus(p, i)
         \/ CallMonitor(p) \/ Steps(p) \/ Crash(p)
    \/ \E box \in Ids : BotDies(box)

Spec == Init /\ [][Next]_vars

---------------------------------------------------------------------------
(* Properties *)

Rows == {None} \cup [status : {"running", "stopped", "failed"}, bot : Bots, box : Ids]

\* The registry, the maps and the calls keep their types.
TypeOK ==
    /\ row \in [Ids -> Rows] /\ mem \in [Procs -> [Ids -> Rows]]
    /\ \A p \in Procs : call[p] # Idle => call[p].todo \subseteq Ids /\ call[p].bot \in Bots \cup {0}
    /\ live \subseteq 1..boxes /\ boxes \in 0..MaxBoxes
    /\ keys \subseteq Ids /\ paid \in [Ids -> Nat]

Enrolling(box) == \E p \in Procs : call[p].pc = "enrol" /\ call[p].todo = {box}

\* A bot that runs is in the registry as running, where a stop, a suspension
\* and the monitor find it, however the processes overwrite each other's
\* rows; but for what a crash or a failed stop left (service.py:106-130).
LiveIsListed == \A box \in live \ strays :
    Enrolling(box) \/ \E i \in Running(row) : row[i].box = box

\* Once the registry says stopped, the session was charged or its charge
\* failed: a stop, a crash in the middle of it and a stop of the same
\* instance elsewhere never lose the charge.  Not so after a restart: see
\* HostRestart.cfg (service.py:1227-1280).
StoppedIsPaid == \A i \in Ids : row[i].status = "stopped" =>
    \/ paid[row[i].box] > 0
    \/ row[i].box \in unpaid \cup renamed

\* A session is charged once, whoever stops it and however often.
PaidOnce == \A box \in Ids \ renamed : paid[box] <= 1

\* Calls that come one after the other, in whichever process, keep to the
\* plan, whatever each process remembers of what the others did: a bot that
\* a restart moved to an older id is still counted (service.py:559-583).
SerialStartsKeepPlan == ~raced => Cardinality(live \ strays) <= MaxBots

Duplicates == {box \in live \ strays : \E twin \in live \ (strays \cup {box}) :
    \E i, j \in Running(row) : row[i].box = box /\ row[j].box = twin /\ row[i].bot = row[j].bot}

\* "closes TOCTOU race between concurrent start requests" (service.py:539):
\* refuted by HostTwins.cfg, since the lock is let go before the launch.
OneSandboxPerBot == Duplicates = {}

\* Concurrent starts keep to the plan as well (service.py:567-576 refuses a
\* start at the limit): refuted by HostPlan.cfg, since the count and the
\* launch are apart.
WithinPlan == Cardinality(live \ strays) <= MaxBots

\* A stopped session was paid for or its charge failed, restarts included:
\* refuted by HostRestart.cfg.
EverySessionIsPaid == \A i \in Ids : row[i].status = "stopped" =>
    paid[row[i].box] > 0 \/ row[i].box \in unpaid

\* What was stopped stays stopped, while no restart gives its id to another:
\* refuted by HostStale.cfg, since a save writes all that a process remembers.
StoppedStaysStopped == [][\A i \in Ids :
    row[i].status = "stopped" /\ row'[i].box = row[i].box => row'[i].status # "running"]_vars
=============================================================================
