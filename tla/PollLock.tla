------------------------------ MODULE PollLock ------------------------------
(* One process at a time polls Telegram with the platform's token          *)
(* (bot/singleton.py).                                                     *)
(*                                                                         *)
(* With Mongo configured the lock is a lease: one document with an owner   *)
(* and an expiry, which the owner's thread renews three times per lease,   *)
(* and which a starter that has waited long enough takes by force.         *)
(* Otherwise, and when Mongo does not answer at the start, it is an flock  *)
(* on a file that holds the owner's pid: whoever finds no pid in it, or    *)
(* that of a dead process, unlinks the file, and so does who releases it.  *)
EXTENDS Integers, FiniteSets

CONSTANTS
    Procs,        \* bot processes, each with its pid
    Configured,   \* is MONGODB_URI set: the cases to look at
    Lease,        \* length of a lease, in ticks; a renewal is due every tick
    Wait,         \* how long a starter waits, in ticks
    MaxErrors     \* bound: commands Mongo does not answer

ASSUME PollLockAssumption ==
    /\ IsFiniteSet(Procs) /\ Configured \subseteq BOOLEAN
    /\ Lease \in Nat \ {0, 1} /\ Wait \in Nat /\ MaxErrors \in Nat

VARIABLES
    mongo,     \* is Mongo configured
    lease,     \* the document: its owner, and the ticks it has left
    path,      \* the file at the lock's path; 0 for none
    pid,       \* what each file holds
    flock,     \* who has locked each file
    proc,      \* each process: where it is, its open file, ticks waited
    errors,    \* history: commands Mongo did not answer
    forced,    \* history: a lease was taken by force
    crossed    \* history: two processes were at the lock file at once

files == <<path, pid, flock>>
history == <<errors, forced, crossed>>
vars == <<mongo, lease, files, proc, history>>

Files == 1..(Cardinality(Procs) + 1)
Nobody == "nobody"
Dead == "dead"        \* the pid of a process that has ended

ASSUME PidAssumption == Procs \cap {Nobody, Dead} = {}

Off == [pc |-> "off", fd |-> 0, waited |-> 0, renewed |-> TRUE]
Free == [owner |-> Nobody, left |-> 0]

Init ==
    /\ mongo \in Configured
    /\ lease = Free
    /\ path = 0
    /\ pid = [i \in Files |-> Nobody]
    /\ flock = [i \in Files |-> Nobody]
    /\ proc = [p \in Procs |-> Off]
    /\ errors = 0 /\ forced = FALSE /\ crossed = FALSE

Goto(p, pc) == proc' = [proc EXCEPT ![p].pc = pc]
Error == errors < MaxErrors /\ errors' = errors + 1
InLease(p) == proc[p].pc = "leased"
InFile(p) == proc[p].pc = "locked"
Polls(p) == InLease(p) \/ InFile(p)

Start(p) ==
    /\ proc[p].pc = "off"
    /\ Goto(p, "connect")
    /\ UNCHANGED <<mongo, lease, files, history>>

Begin(p, pc) == proc' = [proc EXCEPT ![p].pc = pc, ![p].waited = 0]

\* The ping of _try_acquire_mongo_lock, if there is a Mongo to ask; either
\* loop then sets a deadline of its own.
Connect(p) ==
    /\ proc[p].pc = "connect"
    /\ \/ mongo /\ Begin(p, "ask") /\ UNCHANGED errors
       \/ ~mongo /\ Begin(p, "check") /\ UNCHANGED errors
       \/ mongo /\ Error /\ Begin(p, "check")
    /\ UNCHANGED <<mongo, lease, files, forced, crossed>>

---------------------------------------------------------------------------
(* The lease *)

Expired == lease.left = 0
Sleep_Exits(p) == Goto(p, IF proc[p].waited < Wait THEN "nap" ELSE "out")

\* After an attempt in vain: a second's sleep, or the attempt by force.
Sleep(p) == Goto(p, IF proc[p].waited < Wait THEN "nap" ELSE "force")

Acquire(p) ==
    /\ lease' = [owner |-> p, left |-> Lease]
    /\ proc' = [proc EXCEPT ![p].pc = "leased", ![p].renewed = TRUE]

Attempt_Extends(p) ==
    /\ proc[p].pc = "ask"
    /\ Acquire(p)
    /\ UNCHANGED <<mongo, files, history>>

\* find_one_and_update: a lease that is missing, expired or p's own.
Attempt(p) ==
    /\ proc[p].pc = "ask"
    /\ \/ (Expired \/ lease.owner = p) /\ Acquire(p) /\ UNCHANGED errors
       \/ ~Expired /\ lease.owner # p /\ Sleep(p) /\ UNCHANGED <<lease, errors>>
       \/ Error /\ Sleep(p) /\ UNCHANGED lease
    /\ UNCHANGED <<mongo, files, forced, crossed>>

\* The filter without the condition; when Mongo fails, SystemExit.
Seize(p) ==
    /\ proc[p].pc = "force"
    /\ \/ /\ Acquire(p)
          /\ forced' = (forced \/ (~Expired /\ lease.owner # p))
          /\ UNCHANGED errors
       \/ Error /\ Goto(p, "out") /\ UNCHANGED <<lease, forced>>
    /\ UNCHANGED <<mongo, files, crossed>>

\* The renewer's update of its own lease.  What it matched is not looked
\* at, and an error is logged: the process polls on.
Renew(p) ==
    /\ InLease(p) /\ ~proc[p].renewed
    /\ \/ /\ lease' = IF lease.owner = p THEN [lease EXCEPT !.left = Lease] ELSE lease
          /\ UNCHANGED errors
       \/ Error /\ UNCHANGED lease
    /\ proc' = [proc EXCEPT ![p].renewed = TRUE]
    /\ UNCHANGED <<mongo, files, forced, crossed>>

\* atexit: delete_one of its own lease.
Release(p) ==
    /\ InLease(p)
    /\ lease' = IF lease.owner = p THEN Free ELSE lease
    /\ proc' = [proc EXCEPT ![p] = Off]
    /\ UNCHANGED <<mongo, files, history>>

---------------------------------------------------------------------------
(* The lock file *)

AtFile(p) == proc[p].pc \in {"check", "unlink", "open", "flock", "write", "blocked",
                             "unlink again", "clean"}
Crossing(p) == crossed' = (crossed \/ \E q \in Procs \ {p} : AtFile(q))

Stale_Any(i) == TRUE

\* _break_stale_lock: no pid in the file, or one that is not alive.
Stale(i) == pid[i] \in {Nobody, Dead}

\* Before the file is opened, and again when its lock was not to be had.
Check(p) ==
    /\ proc[p].pc = "check"
    /\ Goto(p, IF path # 0 /\ Stale(path) THEN "unlink" ELSE "open")
    /\ Crossing(p)
    /\ UNCHANGED <<mongo, lease, files, errors, forced>>

\* unlink takes the path, whatever file is there by now.
Unlink(p) ==
    /\ proc[p].pc \in {"unlink", "unlink again"}
    /\ path' = 0
    /\ Goto(p, IF proc[p].pc = "unlink" THEN "open" ELSE "check")
    /\ Crossing(p)
    /\ UNCHANGED <<mongo, lease, pid, flock, errors, forced>>

InUse == {path} \cup {proc[q].fd : q \in Procs}

Open(p) ==
    /\ proc[p].pc = "open"
    /\ \E i \in Files :
         /\ IF path # 0 THEN i = path /\ UNCHANGED <<path, pid>>
                        ELSE /\ i = CHOOSE j \in Files : j \notin InUse
                             /\ path' = i /\ pid' = [pid EXCEPT ![i] = Nobody]
         /\ proc' = [proc EXCEPT ![p].pc = "flock", ![p].fd = i]
    /\ Crossing(p)
    /\ UNCHANGED <<mongo, lease, flock, errors, forced>>

\* LOCK_EX | LOCK_NB; a file that another has locked is closed again.
Flock(p) ==
    /\ proc[p].pc = "flock"
    /\ IF flock[proc[p].fd] = Nobody
         THEN flock' = [flock EXCEPT ![proc[p].fd] = p] /\ Goto(p, "write")
         ELSE flock' = flock /\ proc' = [proc EXCEPT ![p].pc = "blocked", ![p].fd = 0]
    /\ Crossing(p)
    /\ UNCHANGED <<mongo, lease, path, pid, errors, forced>>

Write(p) ==
    /\ proc[p].pc = "write"
    /\ pid' = [pid EXCEPT ![proc[p].fd] = p]
    /\ Goto(p, "locked")
    /\ Crossing(p)
    /\ UNCHANGED <<mongo, lease, path, flock, errors, forced>>

Blocked_Anew(p) ==
    /\ proc[p].pc = "blocked"
    /\ proc' = [proc EXCEPT ![p].waited = 0,
         ![p].pc = IF path = 0 \/ Stale(path) THEN "unlink again" ELSE "nap at file"]
    /\ Crossing(p)
    /\ UNCHANGED <<mongo, lease, files, errors, forced>>

\* No file to look at counts as no pid: unlink finds nothing to do.
Blocked(p) ==
    /\ proc[p].pc = "blocked"
    /\ Goto(p, IF path = 0 \/ Stale(path) THEN "unlink again"
               ELSE IF proc[p].waited < Wait THEN "nap at file" ELSE "out")
    /\ Crossing(p)
    /\ UNCHANGED <<mongo, lease, files, errors, forced>>

Ended(p) == [i \in Files |-> IF pid[i] = p THEN Dead ELSE pid[i]]
Unlocked(p) == [i \in Files |-> IF flock[i] = p THEN Nobody ELSE flock[i]]

\* atexit: the lock is let go, the file closed, and then unlinked.
LetGo(p) ==
    /\ InFile(p)
    /\ flock' = Unlocked(p)
    /\ proc' = [proc EXCEPT ![p].pc = "clean", ![p].fd = 0]
    /\ Crossing(p)
    /\ UNCHANGED <<mongo, lease, path, pid, errors, forced>>

Clean(p) ==
    /\ proc[p].pc = "clean"
    /\ path' = 0 /\ pid' = Ended(p)
    /\ proc' = [proc EXCEPT ![p] = Off]
    /\ Crossing(p)
    /\ UNCHANGED <<mongo, lease, flock, errors, forced>>

---------------------------------------------------------------------------

\* A process is killed: its file lock goes, its lease and its pid stay.
Crash(p) ==
    /\ proc[p].pc # "off"
    /\ flock' = Unlocked(p) /\ pid' = Ended(p)
    /\ proc' = [proc EXCEPT ![p] = Off]
    /\ UNCHANGED <<mongo, lease, path, history>>

\* SystemExit.
Exit(p) ==
    /\ proc[p].pc = "out"
    /\ proc' = [proc EXCEPT ![p] = Off]
    /\ UNCHANGED <<mongo, lease, files, history>>

\* Mongo's TTL monitor removes what has expired.
Reap ==
    /\ lease # Free /\ Expired
    /\ lease' = Free
    /\ UNCHANGED <<mongo, files, proc, history>>

Waiting(p) == proc[p].pc \notin {"off", "leased", "locked", "out", "clean"}

\* A third of a lease goes by; every renewer has had its turn.
Tick ==
    /\ \A p \in Procs : InLease(p) => proc[p].renewed
    /\ lease' = [lease EXCEPT !.left = IF @ > 0 THEN @ - 1 ELSE 0]
    /\ proc' = [p \in Procs |->
         IF InLease(p) THEN [proc[p] EXCEPT !.renewed = FALSE]
         ELSE IF Waiting(p) /\ proc[p].waited < Wait THEN [proc[p] EXCEPT !.waited = @ + 1]
         ELSE proc[p]]
    /\ UNCHANGED <<mongo, files, history>>

\* The sleep of a second is over.
Wake(p) ==
    /\ \/ proc[p].pc = "nap" /\ Goto(p, "ask")
       \/ proc[p].pc = "nap at file" /\ Goto(p, "check")
    /\ UNCHANGED <<mongo, lease, files, history>>

Step(p) ==
    \/ Connect(p) \/ Attempt(p) \/ Seize(p) \/ Renew(p) \/ Wake(p)
    \/ Check(p) \/ Unlink(p) \/ Open(p) \/ Flock(p) \/ Write(p) \/ Blocked(p) \/ Clean(p)

Next ==
    \/ \E p \in Procs : Start(p) \/ Step(p) \/ Release(p) \/ LetGo(p) \/ Exit(p) \/ Crash(p)
    \/ Tick \/ Reap

Fairness == WF_vars(Tick) /\ \A p \in Procs : WF_vars(Step(p))

Spec == Init /\ [][Next]_vars /\ Fairness

---------------------------------------------------------------------------

Pcs == {"off", "connect", "ask", "nap", "force", "leased", "check", "unlink", "open", "flock",
        "write", "locked", "blocked", "unlink again", "nap at file", "clean", "out"}

Documents == [owner : Procs \cup {Nobody}, left : 0..Lease]
Process == [pc : Pcs, fd : Files \cup {0}, waited : 0..Wait, renewed : BOOLEAN]

\* The two documents and the file, and where each process is.
TypeOK ==
    /\ mongo \in BOOLEAN
    /\ lease \in Documents
    /\ path \in Files \cup {0}
    /\ pid \in [Files -> Procs \cup {Nobody, Dead}]
    /\ flock \in [Files -> Procs \cup {Nobody}]
    /\ proc \in [Procs -> Process]
    /\ errors \in 0..MaxErrors /\ forced \in BOOLEAN /\ crossed \in BOOLEAN

\* Two processes that got the lease poll at once only when the second took
\* it by force or Mongo failed in between: crashes, expiries and the TTL
\* monitor do not do it (singleton.py:108-166).
LeaseExcludes ==
    Cardinality({p \in Procs : InLease(p)}) > 1 => forced \/ errors > 0

\* Without Mongo, processes that come to the lock file one at a time poll
\* one at a time, whichever of them crash (singleton.py:264-358).
FileExcludes ==
    ~crossed => Cardinality({p \in Procs : InFile(p)}) <= 1

\* A starter gives up only to a process that polls or is at the lock file,
\* or when Mongo fails: "instead of exiting immediately -- that was leaving the bot dead"
\* (singleton.py:204-205).
GivesWay ==
    [][\A p \in Procs : proc'[p].pc = "out" /\ proc[p].pc # "out" =>
         errors' > 0 \/ \E q \in Procs \ {p} : Polls(q) \/ AtFile(q)]_vars

\* Once no more processes come up, every start ends: the process polls,
\* has given up, or has died (the deadlines of singleton.py:168 and :367).
StartSettles ==
    <>[][\A p \in Procs : ~Start(p)]_vars => \A p \in Procs : proc[p].pc = "connect" ~> Polls(p) \/ proc[p].pc \in {"off", "out"}

\* "Ensure only one polling process holds the platform bot token"
\* (singleton.py:1).
OnePoller == Cardinality({p \in Procs : Polls(p)}) <= 1
=============================================================================
