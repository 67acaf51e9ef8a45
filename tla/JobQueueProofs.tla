--------------------------- MODULE JobQueueProofs ---------------------------
(* Proofs about JobQueue: its variables are well typed, a job that ended   *)
(* and that nobody has in hand stays ended, the active set holds the slots *)
(* of exactly the jobs that have not ended, and the jobs a tenant has in   *)
(* the queue exceed its limit by less than the processes that enqueue.     *)
EXTENDS JobQueue, FiniteSetTheorems, TLAPS

Calls == {Idle} \cup InFlight
Busy == {Idle} \cup [pc : {"join", "leave"}, job : Job, to : Stored] \cup [pc : {"work"}, job : Job]

---------------------------------------------------------------------------
(* What the program counters say of the records that hold them *)

LEMMA CallFields ==
    ASSUME NEW x \in Calls
    PROVE  /\ x.pc = "count" => x.tenant \in {Owner[j] : j \in Job} /\ x = [pc |-> "count", tenant |-> x.tenant]
           /\ x.pc = "create" => x.tenant \in {Owner[j] : j \in Job}
           /\ x.pc = "write" => x.op \in Op /\ x.job \in Job /\ x.started \in BOOLEAN
           /\ x.pc = "file" => x.job \in Job /\ x.to \in Stored
           /\ x.pc = "send" => x.job \in Job
  BY DEF Calls, InFlight, Idle

LEMMA CallHolds ==
    ASSUME NEW x \in Calls, NEW j
    PROVE  /\ x.pc \in {"write", "file", "send"} => Holds(x, x.job)
           /\ x.pc \in {"idle", "count", "create"} => ~Holds(x, j)
  BY DEF Calls, InFlight, Idle, Holds

LEMMA WorkerHolds ==
    ASSUME NEW x \in Busy, NEW j
    PROVE  /\ x.pc \in {"join", "leave"} => x.job \in Job /\ x.to \in Stored
           /\ x.pc = "work" => x.job \in Job
           /\ x # Idle => x.pc \in {"join", "leave", "work"} /\ Holds(x, x.job)
           /\ ~Holds(Idle, j)
  BY DEF Busy, Idle, Holds

---------------------------------------------------------------------------
(* Typing *)

\* Every reachable state of the job queue has the types of jobs.py: statuses
\* are the six of jobs.py:36-41 and the calls in flight carry what they read.
THEOREM Typing == Spec => []TypeOK
<1>1. Init => TypeOK
  BY DEF Init, TypeOK, Idle
<1>2. TypeOK /\ [Next]_vars => TypeOK'
  <2> SUFFICES ASSUME TypeOK, [Next]_vars PROVE TypeOK'
    OBVIOUS
  <2> USE DEF TypeOK
  <2>0. call \in [Callers -> Calls] /\ worker \in [Workers -> Busy]
    BY DEF Calls, Busy
  <2>1. ASSUME NEW c \in Enqueuers, NEW j \in Job, CheckGlobal(c, Owner[j])
        PROVE  TypeOK'
    <3>1. [pc |-> "count", tenant |-> Owner[j]] \in InFlight
      BY DEF InFlight
    <3> QED BY <2>1, <3>1 DEF CheckGlobal, record
  <2>2. ASSUME NEW c \in Controllers, NEW j \in Job, NEW op \in Op, Read(c, op, j)
        PROVE  TypeOK'
    <3>1. [pc |-> "write", op |-> op, job |-> j, started |-> started[j],
           result |-> payload[j] = "result"] \in InFlight
      BY DEF InFlight
    <3> QED BY <2>2, <3>1 DEF Read, record
  <2>3. ASSUME NEW c \in Callers, CheckTenant(c)
        PROVE  TypeOK'
    <3>1. c \in DOMAIN call /\ call[c].pc = "count"
      BY <2>3 DEF CheckTenant
    <3>2. call[c] \in Calls
      BY <3>1, <2>0
    <3> DEFINE t == call[c].tenant
    <3>3. t \in {Owner[j] : j \in Job} /\ call[c] = [pc |-> "count", tenant |-> t]
      BY <3>1, <3>2, CallFields
    <3> HIDE DEF t
    <3>4. [call[c] EXCEPT !.pc = "create"] = [pc |-> "create", tenant |-> t]
      BY <3>3
    <3>5. [pc |-> "create", tenant |-> t] \in InFlight
      BY <3>3 DEF InFlight
    <3>6. call' \in [Callers -> {Idle} \cup InFlight]
      BY <2>3, <3>4, <3>5 DEF CheckTenant
    <3> QED BY <2>3, <3>6 DEF CheckTenant, record
  <2>4. ASSUME NEW c \in Callers, Create(c)
        PROVE  TypeOK'
    <3>1. PICK j \in Job : /\ status' = [status EXCEPT ![j] = "queued"]
                           /\ active' = active \cup {j}
                           /\ call' = [call EXCEPT ![c] = [pc |-> "send", job |-> j]]
      BY <2>4 DEF Create
    <3>2. [pc |-> "send", job |-> j] \in InFlight
      BY DEF InFlight
    <3> QED BY <2>4, <3>1, <3>2 DEF Create, Stored, Live
  <2>5. ASSUME NEW c \in Callers, Send(c) \/ SendFails(c)
        PROVE  TypeOK'
    <3>1. call[c].job \in Job
      BY <2>0, <2>5, CallFields DEF Send, SendFails
    <3> QED BY <2>5, <3>1 DEF Send, SendFails, record
  <2>6. ASSUME NEW c \in Callers, WriteStatus(c)
        PROVE  TypeOK'
    <3> DEFINE j == call[c].job
               s == NextStatus(call[c].op, call[c].started)
    <3>1. j \in Job /\ call[c].op \in Op \ {"steer"} /\ call[c].started \in BOOLEAN
      BY <2>0, <2>6, CallFields DEF WriteStatus
    <3>2. s \in Stored
      BY <3>1 DEF NextStatus, Stored, Live, Terminal, Op
    <3>3. [pc |-> "file", job |-> j, to |-> s] \in InFlight
      BY <3>1, <3>2 DEF InFlight
    <3>4. /\ status' = [status EXCEPT ![j] = s]
          /\ call' = [call EXCEPT ![c] = [pc |-> "file", job |-> j, to |-> s]]
      BY <2>6 DEF WriteStatus
    <3> HIDE DEF j, s
    <3> QED BY <2>6, <3>1, <3>2, <3>3, <3>4 DEF WriteStatus
  <2>7. ASSUME NEW c \in Callers, WriteSteer(c)
        PROVE  TypeOK'
    BY <2>7 DEF WriteSteer
  <2>8. ASSUME NEW c \in Callers, FileCall(c)
        PROVE  TypeOK'
    <3>1. call[c].job \in Job
      BY <2>0, <2>8, CallFields DEF FileCall
    <3>2. active' \subseteq Job
      BY <2>8, <3>1 DEF FileCall, Filed
    <3> QED BY <2>8, <3>2 DEF FileCall, record
  <2>9. ASSUME NEW w \in Workers, NEW j \in Job, Begin(w, j)
        PROVE  TypeOK'
    <3>1. [pc |-> "join", job |-> j, to |-> "running"] \in [pc : {"join", "leave"}, job : Job, to : Stored]
      BY DEF Stored, Live
    <3> QED BY <2>9, <3>1 DEF Begin, Stored, Live
  <2>10. ASSUME NEW w \in Workers, NEW j \in Job, NoHandler(w, j)
         PROVE  TypeOK'
    <3>1. [pc |-> "leave", job |-> j, to |-> "failed"] \in [pc : {"join", "leave"}, job : Job, to : Stored]
      BY DEF Stored, Terminal
    <3> QED BY <2>10, <3>1 DEF NoHandler, Stored, Terminal
  <2>11. ASSUME NEW w \in Workers, NEW j \in Job, Missing(w, j)
         PROVE  TypeOK'
    BY <2>11 DEF Missing, record
  <2>12. ASSUME NEW w \in Workers, FileWorker(w)
         PROVE  TypeOK'
    <3>1. worker[w].job \in Job
      BY <2>0, <2>12, WorkerHolds DEF FileWorker
    <3>2. active' \subseteq Job
      BY <2>12, <3>1 DEF FileWorker, Filed
    <3>3. [pc |-> "work", job |-> worker[w].job] \in [pc : {"work"}, job : Job]
      BY <3>1
    <3>4. worker' = [worker EXCEPT ![w] = IF worker[w].pc = "join"
                       THEN [pc |-> "work", job |-> worker[w].job] ELSE Idle]
      BY <2>12 DEF FileWorker
    <3>5. worker' \in [Workers -> {Idle} \cup [pc : {"join", "leave"}, job : Job, to : Stored]
                                         \cup [pc : {"work"}, job : Job]]
      BY <3>3, <3>4
    <3> QED BY <2>12, <3>2, <3>5 DEF FileWorker, record
  <2>13. ASSUME NEW w \in Workers, NEW s \in {"succeeded", "failed"}, End(w, s)
         PROVE  TypeOK'
    <3> DEFINE j == worker[w].job
    <3>1. j \in Job
      BY <2>0, <2>13, WorkerHolds DEF End
    <3>2. s \in Stored
      BY DEF Stored, Terminal
    <3>3. [pc |-> "leave", job |-> j, to |-> s] \in [pc : {"join", "leave"}, job : Job, to : Stored]
      BY <3>1, <3>2
    <3>4. /\ status' = [status EXCEPT ![j] = s]
          /\ payload' = [payload EXCEPT ![j] = "result"]
          /\ worker' = [worker EXCEPT ![w] = [pc |-> "leave", job |-> j, to |-> s]]
      BY <2>13 DEF End
    <3> HIDE DEF j
    <3> QED BY <2>13, <3>1, <3>2, <3>3, <3>4 DEF End
  <2>14. ASSUME NEW w \in Workers, Die(w)
         PROVE  TypeOK'
    <3>1. worker[w].job \in Job
      BY <2>0, <2>14, WorkerHolds DEF Die
    <3> QED BY <2>14, <3>1 DEF Die, record
  <2>15. ASSUME NEW j \in Job, Expire(j)
         PROVE  TypeOK'
    BY <2>15 DEF Expire
  <2>16. CASE UNCHANGED vars
    BY <2>16 DEF vars
  <2>17. ASSUME NEW c \in Callers, NEW j \in Job, NEW op \in Op, ReadOnly(c, op, j)
         PROVE  TypeOK'
    BY <2>16, <2>17 DEF ReadOnly
  <2> QED
    BY <2>1, <2>2, <2>3, <2>4, <2>5, <2>6, <2>7, <2>8, <2>9, <2>10, <2>11, <2>12, <2>13, <2>14, <2>15,
       <2>16, <2>17, JobQueueAssumption DEF Next, CallStep, WorkStep
<1> QED
  BY <1>1, <1>2, PTL DEF Spec

---------------------------------------------------------------------------
(* Ended for good *)

\* The job ended, or its record expired, and nobody has it in hand.
AtRest(j) == status[j] \in Terminal \cup {"gone"} /\ Quiet(j)

\* A step changes the status of no job at rest but by its expiry, and takes
\* none in hand: what would, reads the status first and returns.
LEMMA RestIsKept ==
    ASSUME NEW j \in Job, TypeOK, [Next]_vars, AtRest(j)
    PROVE  AtRest(j)'
<1>0. call \in [Callers -> Calls] /\ worker \in [Workers -> Busy]
  BY DEF TypeOK, Calls, Busy
<1>1. /\ j \notin rq
      /\ \A w \in Workers : ~Holds(worker[w], j)
      /\ \A c \in Callers : ~Holds(call[c], j)
  BY DEF AtRest, Quiet, Held
<1>2. /\ \A c \in Callers : call[c].pc \in {"write", "file", "send"} => call[c].job # j
      /\ \A w \in Workers : worker[w] # Idle => worker[w].job # j
  BY <1>0, <1>1, CallHolds, WorkerHolds
<1>3. status[j] \in Terminal \cup {"gone"}
  BY DEF AtRest
<1>i. ~Holds(Idle, j)
  BY DEF Holds, Idle
<1> USE DEF TypeOK
<1> DEFINE Free(x) == ~Holds(x, j)
<1>4. ASSUME NEW c \in Callers, NEW x, Free(x), call' = [call EXCEPT ![c] = x],
             UNCHANGED worker, j \notin rq', status'[j] \in Terminal \cup {"gone"}
      PROVE  AtRest(j)'
  BY <1>1, <1>4 DEF AtRest, Quiet, Held
<1>5. ASSUME NEW w \in Workers, NEW x, Free(x), worker' = [worker EXCEPT ![w] = x],
             UNCHANGED call, j \notin rq', status'[j] \in Terminal \cup {"gone"}
      PROVE  AtRest(j)'
  BY <1>1, <1>5 DEF AtRest, Quiet, Held
<1>6. ASSUME NEW c \in Enqueuers, NEW i \in Job, CheckGlobal(c, Owner[i])
      PROVE  AtRest(j)'
  <2>1. Free([pc |-> "count", tenant |-> Owner[i]])
    BY DEF Holds
  <2> QED BY <1>1, <1>3, <1>4, <1>6, <2>1, JobQueueAssumption DEF CheckGlobal, record
<1>7. ASSUME NEW c \in Controllers, NEW i \in Job, NEW op \in Op, Read(c, op, i)
      PROVE  AtRest(j)'
  <2>1. i # j
    BY <1>3, <1>7 DEF Read, Applies, Op, Stored, Live, Terminal
  <2>2. Free([pc |-> "write", op |-> op, job |-> i, started |-> started[i],
              result |-> payload[i] = "result"])
    BY <2>1 DEF Holds
  <2> QED BY <1>1, <1>3, <1>4, <1>7, <2>2, JobQueueAssumption DEF Read, record
<1>8. ASSUME NEW c \in Callers, CheckTenant(c)
      PROVE  AtRest(j)'
  <2> DEFINE t == call[c].tenant
  <2>1. call[c] = [pc |-> "count", tenant |-> t]
    BY <1>0, <1>8, CallFields DEF CheckTenant
  <2> HIDE DEF t
  <2>2. Free([call[c] EXCEPT !.pc = "create"])
    BY <2>1 DEF Holds
  <2>3. PICK x : Free(x) /\ call' = [call EXCEPT ![c] = x]
    BY <1>8, <1>i, <2>2 DEF CheckTenant
  <2> QED BY <1>1, <1>3, <1>4, <1>8, <2>3 DEF CheckTenant, record
<1>9. ASSUME NEW c \in Callers, Create(c)
      PROVE  AtRest(j)'
  <2>1. PICK i \in Job : /\ status[i] = "none"
                         /\ status' = [status EXCEPT ![i] = "queued"]
                         /\ call' = [call EXCEPT ![c] = [pc |-> "send", job |-> i]]
    BY <1>9 DEF Create, Fresh
  <2>2. i # j
    BY <1>3, <2>1 DEF Terminal
  <2>3. Free([pc |-> "send", job |-> i])
    BY <2>2 DEF Holds
  <2> QED BY <1>1, <1>3, <1>4, <1>9, <2>1, <2>2, <2>3 DEF Create
<1>10. ASSUME NEW c \in Callers, Send(c) \/ SendFails(c)
       PROVE  AtRest(j)'
  <2>1. call[c].job # j
    BY <1>2, <1>10 DEF Send, SendFails
  <2> QED BY <1>1, <1>3, <1>4, <1>10, <1>i, <2>1 DEF Send, SendFails, record
<1>11. ASSUME NEW c \in Callers, WriteStatus(c)
       PROVE  AtRest(j)'
  <2> DEFINE i == call[c].job
             s == NextStatus(call[c].op, call[c].started)
  <2>1. i # j
    BY <1>2, <1>11 DEF WriteStatus
  <2>2. /\ status' = [status EXCEPT ![i] = s]
        /\ call' = [call EXCEPT ![c] = [pc |-> "file", job |-> i, to |-> s]]
        /\ UNCHANGED <<worker, rq>>
    BY <1>11 DEF WriteStatus
  <2> HIDE DEF i, s
  <2>3. Free([pc |-> "file", job |-> i, to |-> s])
    BY <2>1 DEF Holds
  <2> QED BY <1>1, <1>3, <1>4, <2>1, <2>2, <2>3
<1>12. ASSUME NEW c \in Callers, WriteSteer(c) \/ FileCall(c)
       PROVE  AtRest(j)'
  BY <1>1, <1>3, <1>4, <1>12, <1>i DEF WriteSteer, FileCall, record
<1>13. ASSUME NEW w \in Workers, NEW i \in Job, Begin(w, i)
       PROVE  AtRest(j)'
  <2>1. i # j
    BY <1>1, <1>13 DEF Begin
  <2>2. Free([pc |-> "join", job |-> i, to |-> "running"])
    BY <2>1 DEF Holds
  <2> QED BY <1>1, <1>3, <1>5, <1>13, <2>1, <2>2 DEF Begin
<1>14. ASSUME NEW w \in Workers, NEW i \in Job, NoHandler(w, i)
       PROVE  AtRest(j)'
  <2>1. i # j
    BY <1>1, <1>14 DEF NoHandler
  <2>2. Free([pc |-> "leave", job |-> i, to |-> "failed"])
    BY <2>1 DEF Holds
  <2> QED BY <1>1, <1>3, <1>5, <1>14, <2>1, <2>2 DEF NoHandler
<1>15. ASSUME NEW w \in Workers, NEW i \in Job, Missing(w, i)
       PROVE  AtRest(j)'
  BY <1>1, <1>3, <1>15 DEF Missing, record, AtRest, Quiet, Held
<1>16. ASSUME NEW w \in Workers, FileWorker(w)
       PROVE  AtRest(j)'
  <2>1. worker[w] # Idle
    BY <1>16 DEF FileWorker, Idle
  <2>2. Free([pc |-> "work", job |-> worker[w].job])
    BY <1>2, <2>1 DEF Holds
  <2>3. PICK x : Free(x) /\ worker' = [worker EXCEPT ![w] = x]
    BY <1>16, <1>i, <2>2 DEF FileWorker
  <2> QED BY <1>1, <1>3, <1>5, <1>16, <2>3 DEF FileWorker, record
<1>17. ASSUME NEW w \in Workers, NEW s \in {"succeeded", "failed"}, End(w, s)
       PROVE  AtRest(j)'
  <2> DEFINE i == worker[w].job
  <2>1. i # j
    BY <1>2, <1>17 DEF End, Idle
  <2>2. /\ status' = [status EXCEPT ![i] = s]
        /\ worker' = [worker EXCEPT ![w] = [pc |-> "leave", job |-> i, to |-> s]]
        /\ UNCHANGED <<call, rq>>
    BY <1>17 DEF End
  <2> HIDE DEF i
  <2>3. Free([pc |-> "leave", job |-> i, to |-> s])
    BY <2>1 DEF Holds
  <2> QED BY <1>1, <1>3, <1>5, <2>1, <2>2, <2>3
<1>18. ASSUME NEW w \in Workers, Die(w)
       PROVE  AtRest(j)'
  BY <1>1, <1>3, <1>5, <1>18, <1>i DEF Die, record
<1>19. ASSUME NEW i \in Job, Expire(i)
       PROVE  AtRest(j)'
  BY <1>1, <1>3, <1>19 DEF Expire, AtRest, Quiet, Held
<1>20. CASE UNCHANGED vars
  BY <1>1, <1>3, <1>20 DEF vars, AtRest, Quiet, Held
<1>21. ASSUME NEW c \in Callers, NEW i \in Job, NEW op \in Op, ReadOnly(c, op, i)
       PROVE  AtRest(j)'
  BY <1>20, <1>21 DEF ReadOnly
<1> QED
  BY <1>6, <1>7, <1>8, <1>9, <1>10, <1>11, <1>12, <1>13, <1>14, <1>15, <1>16, <1>17, <1>18,
     <1>19, <1>20, <1>21, JobQueueAssumption DEF Next, CallStep, WorkStep

\* EndedForGood for any number of jobs, processes and workers: once a job has
\* ended and no call, worker or RQ has it in hand, no sequence of later calls
\* makes it live again.
THEOREM EndedJobsStayEnded == Spec => EndedForGood
<1> SUFFICES ASSUME NEW j \in Job
             PROVE  Spec => [](status[j] \in Terminal /\ Quiet(j)
                                => [](status[j] \in Terminal \cup {"gone"}))
  BY DEF EndedForGood
<1>1. TypeOK /\ [Next]_vars /\ AtRest(j) => AtRest(j)'
  BY RestIsKept
<1>2. status[j] \in Terminal /\ Quiet(j) => AtRest(j)
  BY DEF AtRest
<1>3. AtRest(j) => status[j] \in Terminal \cup {"gone"}
  BY DEF AtRest
<1> QED
  BY <1>1, <1>2, <1>3, Typing, PTL DEF Spec

---------------------------------------------------------------------------
(* Slots *)

Sends(c, j) == call[c].pc = "send" /\ call[c].job = j
Controls(c, j) == call[c].pc \in {"write", "file"} /\ call[c].job = j
Works(w, j) == worker[w].pc \in {"join", "work", "leave"} /\ worker[w].job = j

\* The id of a job travels: the call that sends it, then RQ, then one worker.
Awaited(j) == j \in rq \/ (\E c \in Callers : Sends(c, j)) \/ (\E w \in Workers : Works(w, j))
OneHand(j) ==
    /\ \A c, d \in Callers : Sends(c, j) /\ Sends(d, j) => c = d
    /\ \A c \in Callers : Sends(c, j) => j \notin rq /\ \A w \in Workers : ~Works(w, j)
    /\ \A w, v \in Workers : Works(w, j) /\ Works(v, j) => w = v
    /\ j \in rq => \A w \in Workers : ~Works(w, j)

\* Whoever has a job in hand has one whose record is there.
InHand(j) ==
    /\ j \in rq => status[j] # "none"
    /\ \A c \in Callers : Sends(c, j) \/ Controls(c, j) => status[j] \in Stored
    /\ \A w \in Workers : Works(w, j) => status[j] \in Stored

\* A job that is only ever cancelled: once its id is nowhere under way it has
\* ended and left the active set; a worker that leaves it has ended it.
Cancels(j) == \A c \in Callers : Controls(c, j) =>
    /\ call[c].pc = "write" => call[c].op = "cancel"
    /\ call[c].pc = "file" => call[c].to = "cancelled"
Leaves(j) == \A w \in Workers : Works(w, j) /\ worker[w].pc = "leave" =>
    status[j] \in Terminal /\ worker[w].to \in Terminal
Ended(j) == ~Awaited(j) /\ j \notin lost /\ status[j] \in Stored =>
    status[j] \in Terminal /\ j \notin active

JobInv(j) == OneHand(j) /\ InHand(j) /\ (j \in Plain => Cancels(j) /\ Leaves(j) /\ Ended(j))

CallClear(x, j) == x.pc \in {"send", "write", "file"} => x.job # j
WorkClear(x, j) == x.pc \in {"join", "work", "leave"} => x.job # j

\* What the rest of the state must leave alone for the invariant to go on.
Untouched(j) ==
    /\ status'[j] = status[j] /\ (j \in rq' <=> j \in rq)
    /\ (j \in active' => j \in active) /\ (j \in lost => j \in lost')

\* A call that had the job not in hand to send, and does not take it.
LEMMA CallPasses ==
    ASSUME NEW j \in Job, TypeOK, JobInv(j), NEW c \in Callers, NEW x, CallClear(x, j),
           call' = [call EXCEPT ![c] = x], worker' = worker, Untouched(j),
           ~Sends(c, j)
    PROVE JobInv(j)'
<1>1. call'[c] = x /\ \A d \in Callers : d # c => call'[d] = call[d]
  BY DEF TypeOK
<1>2. \A d \in Callers : Sends(d, j)' <=> Sends(d, j)
  BY <1>1 DEF Sends, CallClear
<1>3. \A d \in Callers : Controls(d, j)' => d # c /\ Controls(d, j) /\ call'[d] = call[d]
  BY <1>1 DEF Controls, CallClear
<1>4. \A w \in Workers : Works(w, j)' <=> Works(w, j)
  BY DEF Works
<1>5. OneHand(j)'
  BY <1>2, <1>4 DEF JobInv, OneHand, Untouched
<1>6. InHand(j)'
  BY <1>2, <1>3, <1>4 DEF JobInv, InHand, Untouched
<1>7. ASSUME j \in Plain PROVE Cancels(j)' /\ Leaves(j)'
  BY <1>3, <1>4, <1>7 DEF JobInv, Cancels, Leaves, Untouched
<1>8. ASSUME j \in Plain PROVE Ended(j)'
  BY <1>2, <1>4, <1>8 DEF JobInv, Ended, Awaited, Untouched
<1> QED
  BY <1>5, <1>6, <1>7, <1>8 DEF JobInv, Plain

\* A worker that has another job in hand, before and after.
LEMMA WorkPasses ==
    ASSUME NEW j \in Job, TypeOK, JobInv(j), NEW w \in Workers, NEW x, WorkClear(x, j),
           worker' = [worker EXCEPT ![w] = x], call' = call, Untouched(j),
           ~Works(w, j)
    PROVE JobInv(j)'
<1>1. worker'[w] = x /\ \A v \in Workers : v # w => worker'[v] = worker[v]
  BY DEF TypeOK
<1>2. \A v \in Workers : Works(v, j)' <=> Works(v, j)
  BY <1>1 DEF Works, WorkClear
<1>3. \A v \in Workers : Works(v, j)' => v # w /\ worker'[v] = worker[v]
  BY <1>1 DEF Works, WorkClear
<1>4. \A c \in Callers : (Sends(c, j)' <=> Sends(c, j)) /\ (Controls(c, j)' <=> Controls(c, j))
  BY DEF Sends, Controls
<1>5. OneHand(j)'
  BY <1>2, <1>4 DEF JobInv, OneHand, Untouched
<1>6. InHand(j)'
  BY <1>2, <1>4 DEF JobInv, InHand, Untouched
<1>7. ASSUME j \in Plain PROVE Cancels(j)' /\ Leaves(j)'
  BY <1>2, <1>3, <1>4, <1>7 DEF JobInv, Cancels, Leaves, Untouched
<1>8. ASSUME j \in Plain PROVE Ended(j)'
  BY <1>2, <1>4, <1>8 DEF JobInv, Ended, Awaited, Untouched
<1> QED
  BY <1>5, <1>6, <1>7, <1>8 DEF JobInv, Plain

LEMMA Roles ==
    ASSUME TypeOK
    PROVE /\ call \in [Callers -> Calls] /\ worker \in [Workers -> Busy]
          /\ \A c \in Callers : call[c] \in Calls
          /\ \A w \in Workers : worker[w] \in Busy
  BY DEF TypeOK, Calls, Busy

LEMMA CheckGlobalSlots ==
    ASSUME NEW j \in Job, TypeOK, JobInv(j), NEW c \in Callers, NEW i \in Job, CheckGlobal(c, Owner[i])
    PROVE JobInv(j)'
<1>1. CallClear([pc |-> "count", tenant |-> Owner[i]], j)
  BY DEF CallClear
<1>2. ~Sends(c, j)
  BY DEF CheckGlobal, Idle, Sends
<1> QED
  BY <1>1, <1>2, CallPasses DEF CheckGlobal, record, Untouched

LEMMA CheckTenantSlots ==
    ASSUME NEW j \in Job, TypeOK, JobInv(j), NEW c \in Callers, CheckTenant(c)
    PROVE JobInv(j)'
<1> DEFINE t == call[c].tenant
<1>1. call[c] = [pc |-> "count", tenant |-> t]
  BY Roles, CallFields DEF CheckTenant
<1> HIDE DEF t
<1>2. CallClear([call[c] EXCEPT !.pc = "create"], j) /\ CallClear(Idle, j) /\ ~Sends(c, j)
  BY <1>1 DEF CallClear, Idle, Sends
<1>3. PICK x : CallClear(x, j) /\ call' = [call EXCEPT ![c] = x]
  BY <1>2 DEF CheckTenant
<1> QED
  BY <1>2, <1>3, CallPasses DEF CheckTenant, record, Untouched

LEMMA CreateSlots ==
    ASSUME NEW j \in Job, TypeOK, JobInv(j), NEW c \in Callers, Create(c)
    PROVE JobInv(j)'
<1>1. PICK i \in Job : /\ status[i] = "none"
                       /\ status' = [status EXCEPT ![i] = "queued"]
                       /\ active' = active \cup {i}
                       /\ call' = [call EXCEPT ![c] = [pc |-> "send", job |-> i]]
  BY DEF Create, Fresh
<1>2. call[c].pc = "create" /\ UNCHANGED <<rq, worker, lost>>
  BY DEF Create
<1>3. CASE i # j
  <2>1. CallClear([pc |-> "send", job |-> i], j) /\ ~Sends(c, j)
    BY <1>2, <1>3 DEF CallClear, Sends
  <2>2. Untouched(j)
    BY <1>1, <1>2, <1>3 DEF Untouched, TypeOK
  <2> QED
    BY <1>1, <1>2, <2>1, <2>2, CallPasses
<1>4. CASE i = j
  <2>1. /\ j \notin rq
        /\ \A d \in Callers : ~Sends(d, j) /\ ~Controls(d, j)
        /\ \A w \in Workers : ~Works(w, j)
    BY <1>1, <1>4 DEF JobInv, InHand, Stored, Terminal, Live
  <2>2. /\ \A d \in Callers : d # c => call'[d] = call[d]
        /\ call'[c] = [pc |-> "send", job |-> j]
        /\ status'[j] = "queued"
    BY <1>1, <1>4 DEF TypeOK
  <2>3. /\ \A d \in Callers : (Sends(d, j)' <=> d = c) /\ ~Controls(d, j)'
        /\ \A w \in Workers : ~Works(w, j)'
    BY <1>2, <2>1, <2>2 DEF Sends, Controls, Works
  <2>4. OneHand(j)' /\ InHand(j)'
    BY <1>2, <2>1, <2>2, <2>3 DEF OneHand, InHand, Stored, Live
  <2>5. Cancels(j)' /\ Leaves(j)' /\ Ended(j)'
    BY <2>3 DEF Cancels, Leaves, Ended, Awaited
  <2> QED
    BY <2>4, <2>5 DEF JobInv
<1> QED
  BY <1>3, <1>4

LEMMA SendSlots ==
    ASSUME NEW j \in Job, TypeOK, JobInv(j), NEW c \in Callers, Send(c) \/ SendFails(c)
    PROVE JobInv(j)'
<1>1. /\ call[c].pc = "send" /\ call[c].job \in Job
      /\ call' = [call EXCEPT ![c] = Idle] /\ UNCHANGED <<status, active, worker>>
      /\ rq' \in {rq, rq \cup {call[c].job}}
      /\ lost \subseteq lost' /\ (call[c].job \in rq' \/ call[c].job \in lost')
  BY Roles, CallFields DEF Send, SendFails, record
<1>2. CASE call[c].job # j
  <2>1. CallClear(Idle, j) /\ ~Sends(c, j)
    BY <1>2 DEF CallClear, Sends, Idle
  <2>2. Untouched(j)
    BY <1>1, <1>2 DEF Untouched
  <2> QED
    BY <1>1, <2>1, <2>2, CallPasses
<1>3. CASE call[c].job = j
  <2>1. Sends(c, j)
    BY <1>1, <1>3 DEF Sends
  <2>2. /\ j \notin rq /\ \A d \in Callers : Sends(d, j) => d = c
        /\ \A w \in Workers : ~Works(w, j)
        /\ status[j] \in Stored
    BY <2>1 DEF JobInv, OneHand, InHand
  <2>3. call'[c] = Idle /\ \A d \in Callers : d # c => call'[d] = call[d]
    BY <1>1 DEF TypeOK
  <2>4. /\ \A d \in Callers : ~Sends(d, j)'
        /\ \A d \in Callers : Controls(d, j)' => Controls(d, j) /\ call'[d] = call[d]
        /\ \A w \in Workers : ~Works(w, j)'
    BY <1>1, <2>2, <2>3 DEF Sends, Controls, Works, Idle
  <2>5. OneHand(j)' /\ InHand(j)'
    BY <1>1, <2>2, <2>4 DEF OneHand, InHand, Stored, Terminal, Live
  <2>6. ASSUME j \in Plain PROVE Cancels(j)' /\ Leaves(j)'
    BY <2>4, <2>6 DEF JobInv, Cancels, Leaves
  <2>7. Ended(j)'
    BY <1>1, <1>3 DEF Ended, Awaited
  <2> QED
    BY <2>5, <2>6, <2>7 DEF JobInv, Plain
<1> QED
  BY <1>2, <1>3

LEMMA ReadSlots ==
    ASSUME NEW j \in Job, TypeOK, JobInv(j), NEW c \in Callers, NEW i \in Job, NEW op \in Op, Read(c, op, i)
    PROVE JobInv(j)'
<1> DEFINE x == [pc |-> "write", op |-> op, job |-> i, started |-> started[i],
                 result |-> payload[i] = "result"]
<1>1. /\ call[c] = Idle /\ op \in Ops[i] /\ status[i] \in Stored
      /\ call' = [call EXCEPT ![c] = x]
      /\ UNCHANGED <<status, active, rq, worker, lost>>
  BY DEF Read, record
<1>2. x.pc = "write" /\ x.job = i /\ x.op = op
  OBVIOUS
<1> HIDE DEF x
<1>3. Untouched(j) /\ ~Sends(c, j)
  BY <1>1 DEF Untouched, Sends, Idle
<1>4. CASE i # j
  <2>1. CallClear(x, j)
    BY <1>2, <1>4 DEF CallClear
  <2> QED
    BY <1>1, <1>3, <2>1, CallPasses
<1>5. CASE i = j
  <2>1. call'[c] = x /\ \A d \in Callers : d # c => call'[d] = call[d]
    BY <1>1 DEF TypeOK
  <2>2. /\ \A d \in Callers : Sends(d, j)' <=> Sends(d, j)
        /\ \A d \in Callers : Controls(d, j)' => d = c \/ (Controls(d, j) /\ call'[d] = call[d])
        /\ \A w \in Workers : Works(w, j)' <=> Works(w, j)
    BY <1>1, <1>2, <1>3, <2>1 DEF Sends, Controls, Works
  <2>3. OneHand(j)'
    BY <1>1, <2>2 DEF JobInv, OneHand
  <2>4. InHand(j)'
    BY <1>1, <1>5, <2>2 DEF JobInv, InHand
  <2>5. ASSUME j \in Plain PROVE Cancels(j)'
    <3>1. op = "cancel"
      BY <1>1, <1>5, <2>5 DEF Plain
    <3> QED
      BY <1>2, <2>1, <2>2, <2>5, <3>1 DEF JobInv, Cancels
  <2>6. ASSUME j \in Plain PROVE Leaves(j)' /\ Ended(j)'
    BY <1>1, <2>2, <2>6 DEF JobInv, Leaves, Ended, Awaited
  <2> QED
    BY <2>3, <2>4, <2>5, <2>6 DEF JobInv, Plain
<1> QED
  BY <1>4, <1>5

LEMMA WriteStatusSlots ==
    ASSUME NEW j \in Job, TypeOK, JobInv(j), NEW c \in Callers, WriteStatus(c)
    PROVE JobInv(j)'
<1> DEFINE i == call[c].job
           s == NextStatus(call[c].op, call[c].started)
           x == [pc |-> "file", job |-> i, to |-> s]
<1>1. /\ call[c].pc = "write" /\ call[c].op # "steer" /\ call[c].op \in Op
      /\ i \in Job /\ s \in Stored /\ (call[c].op = "cancel" => s = "cancelled")
  BY Roles, CallFields DEF WriteStatus, NextStatus, Op, Stored, Terminal, Live
<1>2. /\ status' = [status EXCEPT ![i] = s] /\ call' = [call EXCEPT ![c] = x]
      /\ UNCHANGED <<active, rq, worker, lost>>
  BY DEF WriteStatus
<1>3. x.pc = "file" /\ x.job = i /\ x.to = s
  OBVIOUS
<1>4. ~Sends(c, j) /\ (i = j => Controls(c, j))
  BY <1>1 DEF Sends, Controls
<1> HIDE DEF i, s, x
<1>5. CASE i # j
  <2>1. CallClear(x, j)
    BY <1>3, <1>5 DEF CallClear
  <2>2. Untouched(j)
    BY <1>2, <1>5 DEF Untouched, TypeOK
  <2> QED
    BY <1>2, <1>4, <2>1, <2>2, CallPasses
<1>6. CASE i = j
  <2>1. call'[c] = x /\ status'[j] = s /\ \A d \in Callers : d # c => call'[d] = call[d]
    BY <1>2, <1>6 DEF TypeOK
  <2>2. /\ \A d \in Callers : Sends(d, j)' <=> Sends(d, j)
        /\ \A d \in Callers : Controls(d, j)' => d = c \/ (Controls(d, j) /\ call'[d] = call[d])
        /\ \A w \in Workers : Works(w, j)' <=> Works(w, j)
    BY <1>2, <1>3, <1>4, <2>1 DEF Sends, Controls, Works
  <2>3. OneHand(j)'
    BY <1>2, <2>2 DEF JobInv, OneHand
  <2>4. InHand(j)'
    BY <1>1, <1>2, <2>1, <2>2 DEF JobInv, InHand, Stored, Terminal, Live
  <2>5. ASSUME j \in Plain PROVE s = "cancelled" /\ status[j] \in Stored
    BY <1>1, <1>4, <1>6, <2>5 DEF JobInv, Cancels, InHand
  <2>6. ASSUME j \in Plain PROVE Cancels(j)'
    BY <1>3, <2>1, <2>2, <2>5, <2>6 DEF JobInv, Cancels
  <2>7. ASSUME j \in Plain PROVE Leaves(j)' /\ Ended(j)'
    BY <1>2, <2>1, <2>2, <2>5, <2>7 DEF JobInv, Leaves, Ended, Awaited, Terminal
  <2> QED
    BY <2>3, <2>4, <2>6, <2>7 DEF JobInv, Plain
<1> QED
  BY <1>5, <1>6

\* A call that gives the job up without writing its status.
LEMMA CallEnds ==
    ASSUME NEW j \in Job, TypeOK, JobInv(j), NEW c \in Callers, call[c].pc \in {"write", "file"},
           call' = [call EXCEPT ![c] = Idle], worker' = worker, Untouched(j)
    PROVE JobInv(j)'
<1>1. CallClear(Idle, j) /\ ~Sends(c, j)
  BY DEF CallClear, Idle, Sends
<1> QED
  BY <1>1, CallPasses

LEMMA WriteSteerSlots ==
    ASSUME NEW j \in Job, TypeOK, JobInv(j), NEW c \in Callers, WriteSteer(c)
    PROVE JobInv(j)'
  BY CallEnds DEF WriteSteer, Untouched

LEMMA FileCallSlots ==
    ASSUME NEW j \in Job, TypeOK, JobInv(j), NEW c \in Callers, FileCall(c)
    PROVE JobInv(j)'
<1>1. /\ call[c].pc = "file" /\ active' = Filed(call[c].job, call[c].to)
      /\ call' = [call EXCEPT ![c] = Idle] /\ UNCHANGED <<status, rq, worker, lost>>
  BY DEF FileCall, record
<1>2. CASE call[c].job # j \/ j \in Plain
  <2>1. j \in active' => j \in active
    <3>1. CASE call[c].job # j
      BY <1>1, <3>1 DEF Filed
    <3>2. CASE call[c].job = j /\ j \in Plain
      BY <1>1, <3>2 DEF Filed, JobInv, Cancels, Controls
    <3> QED BY <1>2, <3>1, <3>2
  <2> QED
    BY <1>1, <2>1, CallEnds DEF Untouched
<1>3. CASE j \notin Plain
  <2>1. call'[c] = Idle /\ \A d \in Callers : d # c => call'[d] = call[d]
    BY <1>1 DEF TypeOK
  <2>2. /\ \A d \in Callers : Sends(d, j)' <=> Sends(d, j)
        /\ \A d \in Callers : Controls(d, j)' => Controls(d, j)
        /\ \A w \in Workers : Works(w, j)' <=> Works(w, j)
    BY <1>1, <2>1 DEF Sends, Controls, Works, Idle
  <2>3. OneHand(j)'
    BY <1>1, <2>2 DEF JobInv, OneHand
  <2>4. InHand(j)'
    BY <1>1, <2>2 DEF JobInv, InHand
  <2> QED
    BY <1>3, <2>3, <2>4 DEF JobInv, Plain
<1> QED
  BY <1>2, <1>3

\* A worker takes a job from RQ, to run it or to fail it.
TakenAs(w, i, s, x) ==
    /\ worker[w] = Idle /\ i \in rq /\ rq' = rq \ {i} /\ status[i] \in Stored
    /\ UNCHANGED <<active, call, lost>>
    /\ x.pc \in {"join", "leave"} /\ x.job = i /\ x.to = s /\ (x.pc = "leave" => s = "failed")
    /\ worker' = [worker EXCEPT ![w] = x] /\ status' = [status EXCEPT ![i] = s]

LEMMA Takes ==
    ASSUME NEW j \in Job, TypeOK, JobInv(j), NEW w \in Workers, NEW i \in Job,
           NEW s \in {"running", "failed"}, NEW x, TakenAs(w, i, s, x)
    PROVE JobInv(j)'
<1> USE DEF TakenAs
<1>3. ~Works(w, j)
  BY DEF Works, Idle
<1>4. CASE i # j
  <2>1. WorkClear(x, j)
    BY <1>4 DEF WorkClear
  <2>2. Untouched(j)
    BY <1>4 DEF Untouched, TypeOK
  <2> QED
    BY <1>3, <2>1, <2>2, WorkPasses
<1>5. CASE i = j
  <2>1. worker'[w] = x /\ status'[j] = s
    BY <1>5 DEF TypeOK
  <2>2. \A v \in Workers : v # w => worker'[v] = worker[v]
    BY DEF TypeOK
  <2>3. /\ \A v \in Workers : ~Works(v, j)
        /\ \A c \in Callers : ~Sends(c, j)
    BY <1>5 DEF JobInv, OneHand
  <2>4. \A v \in Workers : Works(v, j)' <=> v = w
    BY <1>5, <2>1, <2>2, <2>3 DEF Works
  <2>5. \A c \in Callers : (Sends(c, j)' <=> Sends(c, j)) /\ (Controls(c, j)' <=> Controls(c, j))
    BY DEF Sends, Controls
  <2>6. OneHand(j)'
    BY <1>5, <2>3, <2>4, <2>5 DEF OneHand
  <2>7. InHand(j)'
    BY <2>1 DEF InHand, Stored, Terminal, Live
  <2>8. ASSUME j \in Plain PROVE Cancels(j)'
    BY <2>5, <2>8 DEF JobInv, Cancels
  <2>9. Leaves(j)'
    BY <2>1, <2>4 DEF Leaves, Terminal
  <2>10. Ended(j)'
    BY <2>4 DEF Ended, Awaited
  <2> QED
    BY <2>6, <2>7, <2>8, <2>9, <2>10 DEF JobInv, Plain
<1> QED
  BY <1>4, <1>5

LEMMA TakeSlots ==
    ASSUME NEW j \in Job, TypeOK, JobInv(j), NEW w \in Workers, NEW i \in Job,
           Begin(w, i) \/ NoHandler(w, i)
    PROVE JobInv(j)'
<1>1. CASE Begin(w, i)
  <2>1. TakenAs(w, i, "running", [pc |-> "join", job |-> i, to |-> "running"])
    BY <1>1 DEF Begin, TakenAs
  <2> QED BY <2>1, Takes
<1>2. CASE NoHandler(w, i)
  <2>1. TakenAs(w, i, "failed", [pc |-> "leave", job |-> i, to |-> "failed"])
    BY <1>2 DEF NoHandler, TakenAs
  <2> QED BY <2>1, Takes
<1> QED
  BY <1>1, <1>2

\* A worker goes on with the job it has, or leaves it.
LEMMA FileWorkerSlots ==
    ASSUME NEW j \in Job, TypeOK, JobInv(j), NEW w \in Workers, FileWorker(w)
    PROVE JobInv(j)'
<1>1. /\ worker[w].pc \in {"join", "leave"} /\ active' = Filed(worker[w].job, worker[w].to)
      /\ UNCHANGED <<status, rq, call, lost>>
  BY DEF FileWorker, record
<1>2. PICK x : /\ worker' = [worker EXCEPT ![w] = x]
               /\ worker[w].pc = "join" => x.pc = "work" /\ x.job = worker[w].job
               /\ worker[w].pc = "leave" => x = Idle
  <2> DEFINE busy == [pc |-> "work", job |-> worker[w].job]
  <2>1. busy.pc = "work" /\ busy.job = worker[w].job
    OBVIOUS
  <2>2. worker' = [worker EXCEPT ![w] = IF worker[w].pc = "join" THEN busy ELSE Idle]
    BY DEF FileWorker
  <2> HIDE DEF busy
  <2> QED BY <1>1, <2>1, <2>2
<1>3. CASE worker[w].job # j
  <2>1. WorkClear(x, j) /\ ~Works(w, j)
    BY <1>1, <1>2, <1>3 DEF WorkClear, Works, Idle
  <2>2. Untouched(j)
    BY <1>1, <1>3 DEF Untouched, Filed
  <2> QED
    BY <1>1, <1>2, <2>1, <2>2, WorkPasses
<1>4. CASE worker[w].job = j
  <2>1. worker'[w] = x /\ \A v \in Workers : v # w => worker'[v] = worker[v]
    BY <1>2 DEF TypeOK
  <2>2. Works(w, j)
    BY <1>1, <1>4 DEF Works
  <2>3. /\ \A v \in Workers : Works(v, j) => v = w
        /\ j \notin rq /\ (\A c \in Callers : ~Sends(c, j))
        /\ status[j] \in Stored
    BY <2>2 DEF JobInv, OneHand, InHand
  <2>4. \A v \in Workers : Works(v, j)' => v = w /\ worker'[v].pc = "work" /\ worker[w].pc = "join"
    BY <1>1, <1>2, <2>1, <2>3 DEF Works, Idle
  <2>5. \A c \in Callers : (Sends(c, j)' <=> Sends(c, j)) /\ (Controls(c, j)' <=> Controls(c, j))
    BY <1>1 DEF Sends, Controls
  <2>6. OneHand(j)' /\ InHand(j)'
    BY <1>1, <2>3, <2>4, <2>5 DEF OneHand, InHand
  <2>7. ASSUME j \in Plain PROVE Cancels(j)' /\ Leaves(j)'
    BY <1>1, <2>4, <2>5, <2>7 DEF JobInv, Cancels, Leaves
  <2>8. ASSUME j \in Plain PROVE Ended(j)'
    <3>1. CASE worker[w].pc = "join"
      <4>1. Works(w, j)'
        BY <1>2, <1>4, <2>1, <3>1 DEF Works
      <4> QED BY <4>1 DEF Ended, Awaited
    <3>2. CASE worker[w].pc = "leave"
      <4>1. status[j] \in Terminal /\ worker[w].to \in Terminal
        BY <2>2, <2>8, <3>2 DEF JobInv, Leaves
      <4>2. j \notin active'
        BY <1>1, <1>4, <4>1 DEF Filed
      <4> QED BY <1>1, <4>1, <4>2 DEF Ended
    <3> QED BY <1>1, <3>1, <3>2
  <2> QED
    BY <2>6, <2>7, <2>8 DEF JobInv, Plain
<1> QED
  BY <1>3, <1>4

LEMMA EndSlots ==
    ASSUME NEW j \in Job, TypeOK, JobInv(j), NEW w \in Workers,
           NEW s \in {"succeeded", "failed"}, End(w, s)
    PROVE JobInv(j)'
<1> DEFINE i == worker[w].job
           x == [pc |-> "leave", job |-> i, to |-> s]
<1>1. /\ worker[w].pc = "work" /\ i \in Job
      /\ status' = [status EXCEPT ![i] = s] /\ worker' = [worker EXCEPT ![w] = x]
      /\ UNCHANGED <<active, rq, call, lost>>
  BY Roles, WorkerHolds DEF End
<1>2. x.pc = "leave" /\ x.job = i /\ x.to = s /\ (Works(w, j) <=> i = j)
  BY <1>1 DEF Works
<1> HIDE DEF i, x
<1>3. CASE i # j
  <2>1. WorkClear(x, j)
    BY <1>2, <1>3 DEF WorkClear
  <2>2. Untouched(j)
    BY <1>1, <1>3 DEF Untouched, TypeOK
  <2> QED
    BY <1>1, <1>2, <1>3, <2>1, <2>2, WorkPasses
<1>4. CASE i = j
  <2>1. worker'[w] = x /\ status'[j] = s /\ \A v \in Workers : v # w => worker'[v] = worker[v]
    BY <1>1, <1>4 DEF TypeOK
  <2>2. \A v \in Workers : Works(v, j)' <=> v = w
    BY <1>2, <1>4, <2>1 DEF JobInv, OneHand, Works
  <2>3. \A c \in Callers : (Sends(c, j)' <=> Sends(c, j)) /\ (Controls(c, j)' <=> Controls(c, j))
    BY <1>1 DEF Sends, Controls
  <2>4. OneHand(j)'
    BY <1>1, <1>2, <1>4, <2>2, <2>3 DEF JobInv, OneHand
  <2>5. InHand(j)'
    BY <2>1 DEF InHand, Stored, Terminal
  <2>6. ASSUME j \in Plain PROVE Cancels(j)'
    BY <1>1, <2>3, <2>6 DEF JobInv, Cancels
  <2>7. Leaves(j)' /\ Ended(j)'
    BY <1>2, <2>1, <2>2 DEF Leaves, Ended, Awaited, Terminal
  <2> QED
    BY <2>4, <2>5, <2>6, <2>7 DEF JobInv, Plain
<1> QED
  BY <1>3, <1>4

\* A worker that dies loses the job.
LEMMA DieSlots ==
    ASSUME NEW j \in Job, TypeOK, JobInv(j), NEW w \in Workers, Die(w)
    PROVE JobInv(j)'
<1>1. /\ worker[w] # Idle /\ lost' = lost \cup {worker[w].job}
      /\ worker' = [worker EXCEPT ![w] = Idle] /\ UNCHANGED <<status, active, rq, call>>
  BY DEF Die, record
<1>2. CASE worker[w].job # j
  <2>1. WorkClear(Idle, j) /\ ~Works(w, j) /\ Untouched(j)
    BY <1>1, <1>2 DEF WorkClear, Works, Idle, Untouched
  <2> QED
    BY <1>1, <2>1, WorkPasses
<1>3. CASE worker[w].job = j
  <2>1. worker'[w] = Idle /\ \A v \in Workers : v # w => worker'[v] = worker[v]
    BY <1>1 DEF TypeOK
  <2>2. \A v \in Workers : Works(v, j)' => Works(v, j) /\ worker'[v] = worker[v]
    BY <2>1 DEF Works, Idle
  <2>3. \A c \in Callers : (Sends(c, j)' <=> Sends(c, j)) /\ (Controls(c, j)' <=> Controls(c, j))
    BY <1>1 DEF Sends, Controls
  <2>4. OneHand(j)'
    BY <1>1, <2>2, <2>3 DEF JobInv, OneHand
  <2>5. InHand(j)'
    BY <1>1, <2>2, <2>3 DEF JobInv, InHand
  <2>6. ASSUME j \in Plain PROVE Cancels(j)' /\ Leaves(j)'
    BY <1>1, <2>2, <2>3, <2>6 DEF JobInv, Cancels, Leaves
  <2>7. Ended(j)'
    BY <1>1, <1>3 DEF Ended
  <2> QED
    BY <2>4, <2>5, <2>6, <2>7 DEF JobInv, Plain
<1> QED
  BY <1>2, <1>3

\* A record expires, or RQ drops an id whose record expired.
LEMMA GoneSlots ==
    ASSUME NEW j \in Job, TypeOK, JobInv(j),
           \/ \E i \in Job : Expire(i)
           \/ \E w \in Workers, i \in Job : Missing(w, i)
    PROVE JobInv(j)'
<1>1. UNCHANGED <<active, worker, call, lost>> /\ rq' \subseteq rq
  BY DEF Expire, Missing
<1>2. /\ \A c \in Callers : (Sends(c, j)' <=> Sends(c, j)) /\ (Controls(c, j)' <=> Controls(c, j))
      /\ \A w \in Workers : Works(w, j)' <=> Works(w, j)
  BY <1>1 DEF Sends, Controls, Works
<1>3. OneHand(j)'
  BY <1>1, <1>2 DEF JobInv, OneHand
<1>4. \/ status'[j] = status[j] /\ (j \notin rq' => j \notin rq \/ status[j] = "gone")
      \/ status'[j] = "gone" /\ ~Held(j)
  BY DEF Expire, Missing, TypeOK, record
<1>5. ASSUME status'[j] = "gone", ~Held(j)
      PROVE JobInv(j)'
  <2>1. /\ \A c \in Callers : ~Sends(c, j) /\ ~Controls(c, j)
        /\ \A w \in Workers : ~Works(w, j)
    <3>1. \A c \in Callers : Sends(c, j) \/ Controls(c, j) => Holds(call[c], j)
      BY Roles, CallHolds DEF Sends, Controls
    <3>2. \A w \in Workers : Works(w, j) => Holds(worker[w], j)
      BY Roles, WorkerHolds DEF Works, Idle
    <3> QED BY <1>5, <3>1, <3>2 DEF Held
  <2> QED
    BY <1>2, <1>3, <1>5, <2>1 DEF JobInv, InHand, Cancels, Leaves, Ended, Stored, Terminal, Live
<1>6. ASSUME status'[j] = status[j], j \notin rq' => j \notin rq \/ status[j] = "gone"
      PROVE JobInv(j)'
  <2>1. InHand(j)'
    BY <1>1, <1>2, <1>6 DEF JobInv, InHand
  <2>2. ASSUME j \in Plain PROVE Cancels(j)' /\ Leaves(j)'
    BY <1>1, <1>2, <1>6, <2>2 DEF JobInv, Cancels, Leaves
  <2>3. ASSUME j \in Plain PROVE Ended(j)'
    BY <1>1, <1>2, <1>6, <2>3 DEF JobInv, Ended, Awaited, Stored, Terminal, Live
  <2> QED
    BY <1>3, <2>1, <2>2, <2>3 DEF JobInv, Plain
<1> QED
  BY <1>4, <1>5, <1>6

LEMMA NextSlots ==
    ASSUME NEW j \in Job, TypeOK, [Next]_vars, JobInv(j)
    PROVE JobInv(j)'
<1>1. CASE UNCHANGED vars
  BY <1>1 DEF vars, JobInv, OneHand, InHand, Cancels, Leaves, Ended, Awaited, Sends, Controls, Works, Plain
<1>2. ASSUME NEW c \in Callers, NEW i \in Job, NEW op \in Op, ReadOnly(c, op, i) PROVE JobInv(j)'
  BY <1>1, <1>2 DEF ReadOnly
<1>3. ASSUME NEW c \in Callers, CallStep(c) PROVE JobInv(j)'
  BY <1>3, CheckTenantSlots, CreateSlots, SendSlots, WriteStatusSlots, WriteSteerSlots, FileCallSlots
     DEF CallStep
<1>4. ASSUME NEW w \in Workers, WorkStep(w) PROVE JobInv(j)'
  BY <1>4, TakeSlots, GoneSlots, FileWorkerSlots, EndSlots DEF WorkStep
<1> QED
  BY <1>1, <1>2, <1>3, <1>4, CheckGlobalSlots, ReadSlots, SendSlots, DieSlots, GoneSlots DEF Next

LEMMA InitSlots == ASSUME NEW j \in Job, Init PROVE JobInv(j)
<1>1. /\ \A c \in Callers : ~Sends(c, j) /\ ~Controls(c, j)
      /\ \A w \in Workers : ~Works(w, j)
      /\ j \notin rq /\ status[j] = "none"
  BY DEF Init, Idle, Sends, Controls, Works
<1> QED
  BY <1>1 DEF JobInv, OneHand, InHand, Cancels, Leaves, Ended, Stored, Terminal, Live

\* A slot of the global limit is held by exactly the jobs that have not ended,
\* whichever of a cancel and a worker files the id last, for any number of
\* jobs, callers and workers and any limits.
THEOREM SlotsAreGivenBack == Spec => []SlotsMatch
<1> DEFINE Slots == \A j \in Job : JobInv(j)
<1>1. Init => Slots
  BY InitSlots
<1>2. TypeOK /\ Slots /\ [Next]_vars => Slots'
  BY NextSlots
<1>3. TypeOK /\ Slots => SlotsMatch
  <2> SUFFICES ASSUME TypeOK, NEW j \in Plain \ lost, JobInv(j), Quiet(j), status[j] \in Stored
               PROVE  j \in active <=> status[j] \in Live
    BY DEF SlotsMatch, Plain
  <2>1. \A c \in Callers : ~Sends(c, j)
    BY Roles, CallHolds DEF Quiet, Held, Sends
  <2>2. \A w \in Workers : ~Works(w, j)
    BY Roles, WorkerHolds DEF Quiet, Held, Works, Idle
  <2> QED
    BY <2>1, <2>2 DEF JobInv, Ended, Awaited, Quiet, Terminal, Live
<1> HIDE DEF Slots
<1> QED
  BY <1>1, <1>2, <1>3, Typing, PTL DEF Spec
---------------------------------------------------------------------------
(* The limit of a tenant *)

Own(t) == {j \in Job : Owner[j] = t}
Waiting(t) == {j \in Own(t) : status[j] = "queued"}

\* Calls that counted below the limit and have yet to create their job.
Admitted(t) == {c \in Callers : call[c].pc = "create" /\ call[c].tenant = t}

\* Nothing but an enqueue puts a job of the tenant in the queue.
CancelsOnly(t) == Own(t) \subseteq Plain

EnqueuersAsk == \A c \in Callers : call[c].pc \in {"count", "create"} => c \in Enqueuers
Room(t) == Cardinality(Waiting(t)) + Cardinality(Admitted(t)) < TenantCap + Cardinality(Enqueuers)

LEMMA Finite ==
    ASSUME IsFiniteSet(Enqueuers), EnqueuersAsk, NEW t
    PROVE  /\ IsFiniteSet(Waiting(t)) /\ Cardinality(Waiting(t)) \in Nat
           /\ IsFiniteSet(Admitted(t)) /\ Cardinality(Admitted(t)) \in Nat
           /\ Cardinality(Enqueuers) \in Nat
           /\ Cardinality(Admitted(t)) <= Cardinality(Enqueuers)
<1>1. IsFiniteSet(Job)
  BY JobQueueAssumption, FS_Interval DEF Job
<1>2. Waiting(t) \in SUBSET Job /\ Admitted(t) \in SUBSET Enqueuers
  BY DEF Waiting, Own, Admitted, EnqueuersAsk
<1>3. IsFiniteSet(Waiting(t)) /\ IsFiniteSet(Admitted(t)) /\ Cardinality(Admitted(t)) <= Cardinality(Enqueuers)
  BY <1>1, <1>2, FS_Subset
<1> QED
  BY <1>3, FS_CardinalityType

\* A step that admits nobody and adds no job to the queue.
LEMMA RoomStays ==
    ASSUME IsFiniteSet(Enqueuers), EnqueuersAsk, EnqueuersAsk', NEW t, Room(t),
           Waiting(t)' \subseteq Waiting(t), Admitted(t)' \subseteq Admitted(t)
    PROVE  Room(t)'
<1>1. /\ Cardinality(Waiting(t)') <= Cardinality(Waiting(t)) /\ Cardinality(Waiting(t)') \in Nat
      /\ Cardinality(Admitted(t)') <= Cardinality(Admitted(t)) /\ Cardinality(Admitted(t)') \in Nat
  BY Finite, FS_Subset, FS_CardinalityType
<1>2. TenantCap \in Nat
  BY JobQueueAssumption
<1> QED
  BY <1>1, <1>2, Finite DEF Room

\* What a call that does not create leaves in the queue.
LEMMA WaitingShrinks ==
    ASSUME TypeOK, NEW t, CancelsOnly(t), NEW i \in Job, NEW s, s # "queued" \/ i \notin Own(t),
           status' = [status EXCEPT ![i] = s]
    PROVE  Waiting(t)' \subseteq Waiting(t)
  BY DEF Waiting, Own, TypeOK

\* What a call that is not admitted leaves of those that are.
LEMMA AdmittedShrinks ==
    ASSUME TypeOK, NEW c \in Callers, NEW x, call' = [call EXCEPT ![c] = x], x.pc # "create"
    PROVE  \A t : Admitted(t)' \subseteq Admitted(t)
<1>1. \A d \in Callers : call'[d] = IF d = c THEN x ELSE call[d]
  BY DEF TypeOK
<1> QED
  BY <1>1 DEF Admitted

\* Only a process that enqueues is ever at the checks of an enqueue.
LEMMA NextAsks ==
    ASSUME TypeOK, EnqueuersAsk, [Next]_vars
    PROVE  EnqueuersAsk'
<1>1. CASE call' = call
  BY <1>1 DEF EnqueuersAsk
<1>2. ASSUME NEW c \in Callers, NEW x, call' = [call EXCEPT ![c] = x],
             x.pc \in {"count", "create"} => c \in Enqueuers
      PROVE  EnqueuersAsk'
  <2>1. \A d \in Callers : call'[d] = IF d = c THEN x ELSE call[d]
    BY <1>2 DEF TypeOK
  <2> QED
    BY <1>2, <2>1 DEF EnqueuersAsk
<1>3. ASSUME NEW c \in Callers, NEW x, call' = [call EXCEPT ![c] = x],
             x.pc \in {"idle", "send", "write", "file"}
      PROVE  EnqueuersAsk'
  BY <1>2, <1>3
<1>4. ASSUME NEW c \in Enqueuers, NEW i \in Job, CheckGlobal(c, Owner[i]) PROVE EnqueuersAsk'
  <2>1. call' = [call EXCEPT ![c] = [pc |-> "count", tenant |-> Owner[i]]] /\ c \in Callers
    BY <1>4, JobQueueAssumption DEF CheckGlobal
  <2> QED
    BY <1>2, <2>1
<1>5. ASSUME NEW c \in Callers, CheckTenant(c) PROVE EnqueuersAsk'
  <2>1. PICK x : call' = [call EXCEPT ![c] = x]
    BY <1>5 DEF CheckTenant
  <2>2. c \in Enqueuers
    BY <1>5 DEF CheckTenant, EnqueuersAsk
  <2> QED
    BY <1>2, <2>1, <2>2
<1>6. ASSUME NEW c \in Callers, Create(c) PROVE EnqueuersAsk'
  <2>1. PICK i \in Job : call' = [call EXCEPT ![c] = [pc |-> "send", job |-> i]]
    BY <1>6 DEF Create
  <2>2. [pc |-> "send", job |-> i].pc = "send"
    OBVIOUS
  <2> QED
    BY <1>3, <2>1, <2>2
<1>7. ASSUME NEW c \in Callers, NEW i \in Job, NEW op \in Op, Read(c, op, i) PROVE EnqueuersAsk'
  <2> DEFINE x == [pc |-> "write", op |-> op, job |-> i, started |-> started[i],
                   result |-> payload[i] = "result"]
  <2>1. call' = [call EXCEPT ![c] = x] /\ x.pc = "write"
    BY <1>7 DEF Read
  <2> HIDE DEF x
  <2> QED
    BY <1>3, <2>1
<1>8. ASSUME NEW c \in Callers, WriteStatus(c) PROVE EnqueuersAsk'
  <2> DEFINE x == [pc |-> "file", job |-> call[c].job, to |-> NextStatus(call[c].op, call[c].started)]
  <2>1. call' = [call EXCEPT ![c] = x] /\ x.pc = "file"
    BY <1>8 DEF WriteStatus
  <2> HIDE DEF x
  <2> QED
    BY <1>3, <2>1
<1>9. ASSUME NEW c \in Callers, Send(c) \/ SendFails(c) \/ WriteSteer(c) \/ FileCall(c) PROVE EnqueuersAsk'
  <2>1. call' = [call EXCEPT ![c] = Idle] /\ Idle.pc = "idle"
    BY <1>9 DEF Send, SendFails, WriteSteer, FileCall, Idle
  <2> QED
    BY <1>3, <2>1
<1>10. ASSUME NEW w \in Workers, WorkStep(w) \/ Die(w) PROVE EnqueuersAsk'
  BY <1>1, <1>10 DEF WorkStep, Begin, NoHandler, Missing, FileWorker, End, Die
<1>11. ASSUME NEW i \in Job, Expire(i) PROVE EnqueuersAsk'
  BY <1>1, <1>11 DEF Expire
<1>12. ASSUME NEW c \in Callers, NEW i \in Job, NEW op \in Op, ReadOnly(c, op, i) PROVE EnqueuersAsk'
  BY <1>1, <1>12 DEF ReadOnly, vars
<1>13. CASE UNCHANGED vars
  BY <1>1, <1>13 DEF vars
<1> QED
  BY <1>4, <1>5, <1>6, <1>7, <1>8, <1>9, <1>10, <1>11, <1>12, <1>13 DEF Next, CallStep

LEMMA AdmissionFits ==
    ASSUME TypeOK, IsFiniteSet(Enqueuers), EnqueuersAsk, EnqueuersAsk',
           NEW c \in Callers, CheckTenant(c), NEW t, Room(t)
    PROVE  Room(t)'
<1>1. call[c].pc = "count" /\ status' = status
  BY DEF CheckTenant, record
<1>2. call[c] = [pc |-> "count", tenant |-> call[c].tenant]
  BY <1>1, Roles, CallFields
<1> DEFINE u == call[c].tenant
           x == [pc |-> "create", tenant |-> u]
<1>3. Waiting(t)' = Waiting(t)
  BY <1>1 DEF Waiting, Own
<1>4. CASE Cardinality(CountedFor(u)) < TenantCap
  <2>1. [call[c] EXCEPT !.pc = "create"] = x
    BY <1>2
  <2>2. call' = [call EXCEPT ![c] = x]
    BY <1>4, <2>1 DEF CheckTenant
  <2>3. \A d \in Callers : call'[d] = IF d = c THEN x ELSE call[d]
    BY <2>2 DEF TypeOK
  <2>5. CASE t = u
    <3>1. /\ CountedFor(u) \in SUBSET Job /\ IsFiniteSet(Job)
          /\ Waiting(t) \in SUBSET CountedFor(u)
      <4>1. IsFiniteSet(Job)
        BY JobQueueAssumption, FS_Interval DEF Job
      <4>2. CountedFor(u) \in SUBSET Job /\ Waiting(t) \in SUBSET CountedFor(u)
        BY <2>5 DEF CountedFor, Waiting, Own
      <4> QED BY <4>1, <4>2
    <3>2. IsFiniteSet(CountedFor(u)) /\ Cardinality(CountedFor(u)) \in Nat
      BY <3>1, FS_Subset, FS_CardinalityType
    <3>3. Cardinality(Waiting(t)) <= Cardinality(CountedFor(u))
      BY <3>1, <3>2, FS_Subset
    <3>4. Admitted(t)' \in SUBSET Enqueuers
      BY DEF Admitted, EnqueuersAsk
    <3>5. Cardinality(Admitted(t)') <= Cardinality(Enqueuers) /\ Cardinality(Admitted(t)') \in Nat
      BY <3>4, FS_Subset, FS_CardinalityType
    <3>6. TenantCap \in Nat
      BY JobQueueAssumption
    <3> QED
      BY <1>3, <1>4, <3>2, <3>3, <3>5, <3>6, Finite DEF Room
  <2>6. CASE t # u
    <3>1. Admitted(t)' = Admitted(t)
      BY <1>1, <2>3, <2>6 DEF Admitted
    <3> QED
      BY <1>3, <3>1, RoomStays
  <2> QED
    BY <2>5, <2>6
<1>5. CASE ~(Cardinality(CountedFor(u)) < TenantCap)
  <2>1. call' = [call EXCEPT ![c] = Idle] /\ Idle.pc = "idle"
    BY <1>5 DEF CheckTenant, Idle
  <2>2. Admitted(t)' \subseteq Admitted(t)
    BY <2>1, AdmittedShrinks
  <2> QED
    BY <1>3, <2>2, RoomStays
<1> QED
  BY <1>4, <1>5

LEMMA CreationFits ==
    ASSUME TypeOK, IsFiniteSet(Enqueuers), EnqueuersAsk, EnqueuersAsk',
           NEW c \in Callers, Create(c), NEW t, Room(t)
    PROVE  Room(t)'
<1>1. PICK i \in Job : /\ status[i] = "none" /\ Owner[i] = call[c].tenant
                       /\ status' = [status EXCEPT ![i] = "queued"]
                       /\ call' = [call EXCEPT ![c] = [pc |-> "send", job |-> i]]
  BY DEF Create, Fresh
<1>2. call[c].pc = "create"
  BY DEF Create
<1>3. Admitted(t)' \subseteq Admitted(t)
  <2>1. [pc |-> "send", job |-> i].pc = "send"
    OBVIOUS
  <2> QED
    BY <1>1, <2>1, AdmittedShrinks
<1>4. CASE t = call[c].tenant
  <2>1. Waiting(t)' = Waiting(t) \cup {i} /\ i \notin Waiting(t)
    BY <1>1, <1>4 DEF Waiting, Own, TypeOK
  <2>2. c \in Admitted(t) /\ Admitted(t)' = Admitted(t) \ {c}
    BY <1>1, <1>2, <1>4 DEF Admitted, TypeOK
  <2>3. /\ Cardinality(Waiting(t)') = Cardinality(Waiting(t)) + 1
        /\ Cardinality(Admitted(t)') = Cardinality(Admitted(t)) - 1
    BY <2>1, <2>2, Finite, FS_AddElement, FS_RemoveElement
  <2> QED
    BY <1>3, <2>3, Finite DEF Room
<1>5. CASE t # call[c].tenant
  <2>1. Waiting(t)' \subseteq Waiting(t)
    BY <1>1, <1>5 DEF Waiting, Own, TypeOK
  <2> QED
    BY <1>3, <2>1, RoomStays
<1> QED
  BY <1>4, <1>5

\* Every other step of a call, of a worker or of time leaves the queue of a
\* tenant whose jobs are only cancelled as it is, or takes jobs out of it.
LEMMA NextRoom ==
    ASSUME TypeOK, \A j \in Job : JobInv(j), IsFiniteSet(Enqueuers), EnqueuersAsk, EnqueuersAsk', [Next]_vars,
           NEW t, CancelsOnly(t), Room(t)
    PROVE  Room(t)'
<1>1. CASE status' = status /\ call' = call
  BY <1>1 DEF Room, Waiting, Own, Admitted
<1>2. ASSUME NEW c \in Callers, NEW x, call' = [call EXCEPT ![c] = x],
             x.pc # "create", status' = status
      PROVE  Room(t)'
  <2>1. Admitted(t)' \subseteq Admitted(t)
    BY <1>2, AdmittedShrinks
  <2>2. Waiting(t)' = Waiting(t)
    BY <1>2 DEF Waiting, Own
  <2> QED
    BY <2>1, <2>2, RoomStays
<1>3. ASSUME NEW i \in Job, NEW s, s # "queued", status' = [status EXCEPT ![i] = s], call' = call
      PROVE  Room(t)'
  <2>1. Admitted(t)' = Admitted(t)
    BY <1>3 DEF Admitted
  <2> QED
    BY <1>3, <2>1, WaitingShrinks, RoomStays
<1>4. ASSUME NEW c \in Enqueuers, NEW i \in Job, CheckGlobal(c, Owner[i]) PROVE Room(t)'
  <2> DEFINE x == [pc |-> "count", tenant |-> Owner[i]]
  <2>1. call' = [call EXCEPT ![c] = x] /\ x.pc = "count" /\ status' = status /\ c \in Callers
    BY <1>4, JobQueueAssumption DEF CheckGlobal, record
  <2> HIDE DEF x
  <2> QED
    BY <1>2, <2>1
<1>5. ASSUME NEW c \in Callers, NEW i \in Job, NEW op \in Op, Read(c, op, i) PROVE Room(t)'
  <2> DEFINE x == [pc |-> "write", op |-> op, job |-> i, started |-> started[i],
                   result |-> payload[i] = "result"]
  <2>1. call' = [call EXCEPT ![c] = x] /\ status' = status /\ x.pc = "write"
    BY <1>5 DEF Read, record
  <2> HIDE DEF x
  <2> QED
    BY <1>2, <2>1
<1>6. ASSUME NEW c \in Callers, Send(c) \/ SendFails(c) \/ WriteSteer(c) \/ FileCall(c)
      PROVE  Room(t)'
  <2>1. call' = [call EXCEPT ![c] = Idle] /\ Idle.pc = "idle" /\ status' = status
    BY <1>6 DEF Send, SendFails, WriteSteer, FileCall, record, Idle
  <2> QED
    BY <1>2, <2>1
<1>7. ASSUME NEW c \in Callers, WriteStatus(c) PROVE Room(t)'
  <2> DEFINE i == call[c].job
             s == NextStatus(call[c].op, call[c].started)
             x == [pc |-> "file", job |-> i, to |-> s]
  <2>1. call[c].pc = "write" /\ i \in Job /\ Controls(c, i)
    BY <1>7, Roles, CallFields DEF WriteStatus, Controls
  <2>2. status' = [status EXCEPT ![i] = s] /\ call' = [call EXCEPT ![c] = x] /\ x.pc = "file"
    BY <1>7 DEF WriteStatus
  <2>3. ASSUME i \in Own(t) PROVE s # "queued"
    <3>1. call[c].op = "cancel"
      BY <2>1, <2>3 DEF CancelsOnly, JobInv, Cancels
    <3> QED
      BY <3>1 DEF NextStatus
  <2> HIDE DEF i, s, x
  <2>4. Admitted(t)' \subseteq Admitted(t)
    BY <2>2, AdmittedShrinks
  <2>5. Waiting(t)' \subseteq Waiting(t)
    BY <2>1, <2>2, <2>3, WaitingShrinks
  <2> QED
    BY <2>4, <2>5, RoomStays
<1>8. ASSUME NEW w \in Workers, NEW i \in Job, Begin(w, i) \/ NoHandler(w, i) \/ Missing(w, i)
      PROVE  Room(t)'
  BY <1>1, <1>3, <1>8 DEF Begin, NoHandler, Missing, record
<1>9. ASSUME NEW w \in Workers, FileWorker(w) \/ Die(w) PROVE Room(t)'
  BY <1>1, <1>9 DEF FileWorker, Die, record
<1>10. ASSUME NEW w \in Workers, NEW s \in {"succeeded", "failed"}, End(w, s) PROVE Room(t)'
  <2>1. worker[w].job \in Job
    BY <1>10, Roles, WorkerHolds DEF End
  <2> QED
    BY <1>3, <1>10, <2>1 DEF End
<1>11. ASSUME NEW i \in Job, Expire(i) PROVE Room(t)'
  BY <1>3, <1>11 DEF Expire
<1>12. ASSUME NEW c \in Callers, CallStep(c) PROVE Room(t)'
  BY <1>6, <1>7, <1>12, AdmissionFits, CreationFits DEF CallStep
<1>13. ASSUME NEW c \in Callers, NEW i \in Job, NEW op \in Op, ReadOnly(c, op, i) PROVE Room(t)'
  BY <1>1, <1>13 DEF ReadOnly, vars, record
<1>14. CASE UNCHANGED vars
  BY <1>1, <1>14 DEF vars, record
<1> QED
  BY <1>4, <1>5, <1>6, <1>8, <1>9, <1>10, <1>11, <1>12, <1>13, <1>14 DEF Next, WorkStep

LEMMA InitRoom ==
    ASSUME Init, IsFiniteSet(Enqueuers), TenantCap + Cardinality(Enqueuers) > 0, NEW t
    PROVE  EnqueuersAsk /\ Room(t)
<1>1. EnqueuersAsk /\ Waiting(t) = {} /\ Admitted(t) = {}
  BY DEF Init, Idle, EnqueuersAsk, Waiting, Own, Admitted
<1>2. Cardinality(Enqueuers) \in Nat /\ TenantCap \in Nat
  BY FS_CardinalityType, JobQueueAssumption
<1> QED
  BY <1>1, <1>2, FS_EmptySet DEF Room

\* The count before the create is not atomic with it, and each process counts
\* for itself: the jobs a tenant has waiting exceed its limit by less than the
\* number of processes that enqueue, for any limit, unless one of its jobs can
\* be paused and resumed.
THEOREM OverrunIsBounded ==
    IsFiniteSet(Enqueuers) /\ TenantCap + Cardinality(Enqueuers) > 0 => (Spec => []QueuedWithinCap)
<1> SUFFICES ASSUME IsFiniteSet(Enqueuers), TenantCap + Cardinality(Enqueuers) > 0
             PROVE  Spec => []QueuedWithinCap
  OBVIOUS
<1> DEFINE Slots == \A j \in Job : JobInv(j)
           Rooms == \A t \in {Owner[j] : j \in Job} : CancelsOnly(t) => Room(t)
<1>1. Init => Slots /\ EnqueuersAsk /\ Rooms
  <2>1. Init => EnqueuersAsk
    BY DEF Init, Idle, EnqueuersAsk
  <2> QED
    BY <2>1, InitSlots, InitRoom
<1>2. TypeOK /\ Slots /\ EnqueuersAsk /\ Rooms /\ [Next]_vars => Slots' /\ EnqueuersAsk' /\ Rooms'
  <2>1. TypeOK /\ EnqueuersAsk /\ [Next]_vars => EnqueuersAsk'
    BY NextAsks
  <2>2. TypeOK /\ Slots /\ [Next]_vars => Slots'
    BY NextSlots
  <2>3. ASSUME TypeOK, Slots, EnqueuersAsk, Rooms, [Next]_vars, NEW t \in {Owner[j] : j \in Job}, CancelsOnly(t)
        PROVE  Room(t)'
    BY <2>1, <2>3, NextRoom
  <2> QED
    BY <2>1, <2>2, <2>3
<1>3. EnqueuersAsk /\ Rooms => QueuedWithinCap
  <2> SUFFICES ASSUME EnqueuersAsk, NEW t \in {Owner[j] : j \in Job}, Own(t) \subseteq Plain, Room(t)
               PROVE  Cardinality(Waiting(t)) < TenantCap + Cardinality(Enqueuers)
    BY DEF QueuedWithinCap, CancelsOnly, Own, Waiting
  <2>1. TenantCap \in Nat
    BY JobQueueAssumption
  <2> QED
    BY <2>1, Finite DEF Room
<1> HIDE DEF Slots, Rooms
<1> QED
  BY <1>1, <1>2, <1>3, Typing, PTL DEF Spec
=============================================================================
