-------------------------- MODULE DeployQueueProofs --------------------------
(***************************************************************************)
(* Proofs about DeployQueue for any workers, clients, jobs, capacities and *)
(* limits.  Types hold whatever the workers do; that a worker's row is its *)
(* own, and what follows of tokens, attempts and the cap, needs workers    *)
(* that are never as late as the stale limit (Prompt), as DeployTwice.cfg  *)
(* shows.                                                                  *)
(***************************************************************************)
EXTENDS DeployQueue, FiniteSetTheorems, WellFoundedInduction, TLAPS

Holding == {"build", "beat", "limits", "start", "mark", "failGet", "giveUp", "requeue"}

\* A worker past its claim has a job in hand, one that was inserted.
InHand ==
  \A w \in Workers :
    /\ mine[w] # NoJob <=> pc[w] \in Holding
    /\ mine[w] # NoJob => job[mine[w]].status # "absent"

\* A request that is not yet inserted is for a row of its own that is not there.
OwnRequest ==
  /\ \A c \in Clients :
       /\ want[c] # NoJob <=> cpc[c] # "idle"
       /\ want[c] # NoJob => want[c] <= asked /\ job[want[c]].status = "absent"
  /\ \A c, d \in Clients : want[c] = want[d] /\ want[c] # NoJob => c = d
  /\ \A j \in Job : j > asked => job[j].status = "absent"

Basis == TypeOK /\ InHand /\ OwnRequest

-----------------------------------------------------------------------------
(* Rows                                                                    *)

BackRow(r) == [r EXCEPT !.status = "queued", !.node = Nobody]
BuiltRow(r) == [r EXCEPT !.status = "building"]
FailedRow(r) == [r EXCEPT !.status = "failed", !.sealed = FALSE]

LEMMA RowsWritten ==
  ASSUME NEW r \in Row, NEW w \in Workers
  PROVE  /\ BackRow(r) \in Row /\ BackRow(r).status = "queued"
         /\ BackRow(r).sealed = r.sealed /\ BackRow(r).attempts = r.attempts
         /\ BuiltRow(r) \in Row /\ BuiltRow(r).status = "building"
         /\ BuiltRow(r).sealed = r.sealed /\ BuiltRow(r).attempts = r.attempts
         /\ BuiltRow(r).node = r.node
         /\ FailedRow(r) \in Row /\ FailedRow(r).status = "failed"
         /\ FailedRow(r).sealed = FALSE /\ FailedRow(r).attempts = r.attempts
         /\ Running(r) \in Row /\ Running(r).status = "running"
         /\ Running(r).sealed = FALSE /\ Running(r).attempts = r.attempts
BY DEF Row, Status, BackRow, BuiltRow, FailedRow, Running

LEMMA RowClaimed ==
  ASSUME NEW r \in Row, NEW w \in Workers
  PROVE  /\ Claimed(r, w) \in Row /\ Claimed(r, w).status = "claimed"
         /\ Claimed(r, w).node = w /\ Claimed(r, w).sealed = r.sealed
         /\ Claimed(r, w).attempts = r.attempts + 1
<1>1. r.attempts + 1 \in Nat
  BY DEF Row
<1> DEFINE n == r.attempts + 1
<1>2. Claimed(r, w) = [r EXCEPT !.status = "claimed", !.node = w, !.attempts = n]
  BY DEF Claimed
<1>3. n \in Nat
  BY <1>1
<1> HIDE DEF n
<1>4. /\ Claimed(r, w) \in Row /\ Claimed(r, w).status = "claimed"
      /\ Claimed(r, w).node = w /\ Claimed(r, w).sealed = r.sealed
      /\ Claimed(r, w).attempts = n
  BY <1>2, <1>3 DEF Row, Status
<1> QED BY <1>4 DEF n

LEMMA RowInserted ==
  /\ NewRow \in Row /\ NewRow.status = "queued" /\ NewRow.sealed = TRUE /\ NewRow.attempts = 0
BY DEF Row, Status, NewRow

\* What claim_next makes of the stale rows.
LEMMA RowsReclaimed ==
  ASSUME job \in [Job -> Row]
  PROVE  /\ Reclaimed \in [Job -> Row]
         /\ \A j \in Job :
              \/ Reclaimable(j) /\ Reclaimed[j].status = "queued"
                 /\ Reclaimed[j].sealed = job[j].sealed
                 /\ Reclaimed[j].attempts = job[j].attempts
              \/ ~Reclaimable(j) /\ Reclaimed[j] = job[j]
<1>1. Reclaimed = [j \in Job |-> IF Reclaimable(j) THEN BackRow(job[j]) ELSE job[j]]
  BY DEF Reclaimed, BackRow
<1>2. \A j \in Job : job[j] \in Row /\ BackRow(job[j]) \in Row /\ BackRow(job[j]).status = "queued"
         /\ BackRow(job[j]).sealed = job[j].sealed /\ BackRow(job[j]).attempts = job[j].attempts
  <2> SUFFICES ASSUME NEW j \in Job, NEW r \in Row, r = job[j]
               PROVE  BackRow(r) \in Row /\ BackRow(r).status = "queued"
                      /\ BackRow(r).sealed = r.sealed /\ BackRow(r).attempts = r.attempts
    OBVIOUS
  <2> QED BY DEF Row, Status, BackRow
<1> QED BY <1>1, <1>2

\* The oldest of some jobs is one of them.
LEMMA OldestIsOne ==
  ASSUME NEW S \in SUBSET Job, S # {}
  PROVE  Min(S) \in S
<1> DEFINE Lt == {ss \in Nat \X Nat : ss[1] < ss[2]}
<1>1. IsWellFoundedOn(Lt, Nat)
  BY NatLessThanWellFounded DEF OpToRel
<1> HIDE DEF Lt
<1>2. S \subseteq Nat
  BY DEF Job
<1>3. PICK n \in S : \A m \in S : ~(<<m, n>> \in Lt)
  BY <1>1, <1>2, WFMin
<1>4. ASSUME NEW m \in S PROVE n <= m
  <2>1. m \in Nat /\ n \in Nat /\ ~(<<m, n>> \in Lt)
    BY <1>2, <1>3
  <2>2. ~(m < n)
    BY <2>1 DEF Lt
  <2> QED BY <2>1, <2>2
<1> QED BY <1>4 DEF Min

\* The bots a node counts are at most all jobs.
LEMMA CountOfJobs ==
  ASSUME NEW w \in Workers
  PROVE  RunningOn(w) \in 0..Jobs
<1> DEFINE S == {j \in Job : job[j].status = "running" /\ job[j].node = w}
<1>1. Jobs \in Nat
  BY CountAssumption
<1>2. IsFiniteSet(Job) /\ Cardinality(Job) = Jobs
  BY <1>1, FS_Interval DEF Job
<1>3. IsFiniteSet(S) /\ Cardinality(S) <= Cardinality(Job)
  BY <1>2, FS_Subset
<1>4. Cardinality(S) \in Nat
  BY <1>3, FS_CardinalityType
<1> QED BY <1>1, <1>2, <1>3, <1>4 DEF RunningOn

-----------------------------------------------------------------------------
(* The steps that write rows                                               *)

LEMMA HandTypes ==
  ASSUME Basis, NEW w \in Workers, pc[w] \in Holding
  PROVE  mine[w] \in Job /\ job[mine[w]] \in Row /\ job[mine[w]].status # "absent"
BY DEF Basis, InHand, TypeOK

LEMMA RequestTypes ==
  ASSUME Basis, NEW c \in Clients, cpc[c] # "idle"
  PROVE  want[c] \in Job /\ want[c] <= asked /\ job[want[c]].status = "absent"
BY DEF Basis, OwnRequest, TypeOK

\* Only the row in hand changes, and its status, node, attempts and token are
\* those of r.
Writes(w, r) ==
  /\ job' \in [Job -> Row]
  /\ \A i \in Job : i # mine[w] => job'[i] = job[i]
  /\ job'[mine[w]] = r

LEMMA RowWritten ==
  ASSUME Basis, NEW w \in Workers, pc[w] \in Holding, NEW r \in Row,
         job' = [job EXCEPT ![mine[w]] = r]
  PROVE  Writes(w, r)
<1>1. mine[w] \in Job /\ job \in [Job -> Row]
  BY HandTypes DEF Basis, TypeOK
<1> QED BY <1>1 DEF Writes

LEMMA BuildWrites ==
  ASSUME Basis, NEW w \in Workers, Build(w)
  PROVE  Writes(w, BuiltRow(job[mine[w]]))
<1>1. pc[w] \in Holding
  BY DEF Build, Holding
<1>2. job' = [job EXCEPT ![mine[w]] = BuiltRow(job[mine[w]])]
  BY DEF Build, BuiltRow
<1> QED BY <1>1, <1>2, HandTypes, RowsWritten, RowWritten

LEMMA MarkWrites ==
  ASSUME Basis, NEW w \in Workers, MarkRunning(w)
  PROVE  Writes(w, Running(job[mine[w]]))
<1>1. pc[w] \in Holding
  BY DEF MarkRunning, Holding
<1>2. job' = [job EXCEPT ![mine[w]] = Running(job[mine[w]])]
  BY DEF MarkRunning
<1> QED BY <1>1, <1>2, HandTypes, RowsWritten, RowWritten

LEMMA GiveUpWrites ==
  ASSUME Basis, NEW w \in Workers, GiveUp(w)
  PROVE  Writes(w, FailedRow(job[mine[w]]))
<1>1. pc[w] \in Holding
  BY DEF GiveUp, Holding
<1>2. job' = [job EXCEPT ![mine[w]] = FailedRow(job[mine[w]])]
  BY DEF GiveUp, FailedRow
<1> QED BY <1>1, <1>2, HandTypes, RowsWritten, RowWritten

LEMMA RequeueWrites ==
  ASSUME Basis, NEW w \in Workers, Requeue(w)
  PROVE  Writes(w, BackRow(job[mine[w]]))
<1>1. pc[w] \in Holding
  BY DEF Requeue, Holding
<1>2. job' = [job EXCEPT ![mine[w]] = BackRow(job[mine[w]])]
  BY DEF Requeue, BackRow
<1> QED BY <1>1, <1>2, HandTypes, RowsWritten, RowWritten

\* claim_next takes a row that is queued, or was stale, if there is one.
LEMMA ClaimWrites ==
  ASSUME Basis, NEW w \in Workers, Claim(w)
  PROVE  /\ job' \in [Job -> Row]
         /\ \/ /\ job' = Reclaimed /\ Done(w) /\ beat' = beat
            \/ \E j \in Job :
                 /\ job[j].status = "queued" \/ Reclaimable(j)
                 /\ \A i \in Job : i # j => job'[i] = Reclaimed[i]
                 /\ job'[j].status = "claimed" /\ job'[j].node = w
                 /\ job'[j].sealed = job[j].sealed /\ job'[j].attempts = job[j].attempts + 1
                 /\ beat' = [beat EXCEPT ![j] = "fresh"]
                 /\ mine' = [mine EXCEPT ![w] = j]
                 /\ token' = [token EXCEPT ![w] = job[j].sealed]
                 /\ pc' = [pc EXCEPT ![w] = "build"] /\ UNCHANGED <<seen, why>>
<1>1. job \in [Job -> Row]
  BY DEF Basis, TypeOK
<1> DEFINE queued == {j \in Job : Reclaimed[j].status = "queued"}
<1>2. CASE queued = {}
  <2>1. job' = Reclaimed /\ Done(w) /\ beat' = beat
    BY <1>2 DEF Claim
  <2> QED BY <1>1, <2>1, RowsReclaimed
<1>3. CASE queued # {}
  <2> DEFINE j == Min(queued)
  <2>1. j \in queued
    BY <1>3, OldestIsOne
  <2>2. /\ job' = [Reclaimed EXCEPT ![j] = Claimed(@, w)]
        /\ beat' = [beat EXCEPT ![j] = "fresh"]
        /\ mine' = [mine EXCEPT ![w] = j]
        /\ token' = [token EXCEPT ![w] = job[j].sealed]
        /\ pc' = [pc EXCEPT ![w] = "build"] /\ UNCHANGED <<seen, why>>
    BY <1>3 DEF Claim, Goto
  <2> HIDE DEF j
  <2>3. /\ j \in Job /\ Reclaimed[j].status = "queued" /\ Reclaimed[j] \in Row
        /\ Reclaimed \in [Job -> Row]
        /\ Reclaimed[j].sealed = job[j].sealed /\ Reclaimed[j].attempts = job[j].attempts
        /\ job[j].status = "queued" \/ Reclaimable(j)
    BY <1>1, <2>1, RowsReclaimed
  <2>4. /\ job' \in [Job -> Row] /\ job'[j] = Claimed(Reclaimed[j], w)
        /\ \A i \in Job : i # j => job'[i] = Reclaimed[i]
    BY <2>2, <2>3, RowClaimed
  <2>5. /\ job'[j].status = "claimed" /\ job'[j].node = w
        /\ job'[j].sealed = job[j].sealed /\ job'[j].attempts = job[j].attempts + 1
    BY <2>3, <2>4, RowClaimed
  <2> QED BY <2>2, <2>3, <2>4, <2>5
<1> QED BY <1>2, <1>3

LEMMA InsertWrites ==
  ASSUME Basis, NEW c \in Clients, Insert(c)
  PROVE  /\ job' \in [Job -> Row] /\ want[c] \in Job /\ job'[want[c]] = NewRow
         /\ \A i \in Job : i # want[c] => job'[i] = job[i]
<1>1. want[c] \in Job /\ job \in [Job -> Row]
  BY RequestTypes DEF Insert, Basis, TypeOK
<1>2. job' = [job EXCEPT ![want[c]] = NewRow]
  BY DEF Insert
<1> QED BY <1>1, <1>2, RowInserted

-----------------------------------------------------------------------------
(* Types, hands and requests                                               *)

LEMMA WorkKeepsRows ==
  ASSUME Basis, NEW w \in Workers, Work(w)
  PROVE  /\ job' \in [Job -> Row] /\ asked' = asked /\ client' = client
         /\ \A i \in Job : job[i].status = "absent" <=> job'[i].status = "absent"
<1>0. job \in [Job -> Row] /\ asked' = asked /\ client' = client
  BY DEF Basis, TypeOK, Work, Poll, Claim, Build, Heartbeat, Limits, Start, MarkRunning,
         FailGet, GiveUp, Requeue
<1>1. CASE Build(w) \/ MarkRunning(w) \/ GiveUp(w) \/ Requeue(w)
  <2>1. pc[w] \in Holding
    BY <1>1 DEF Build, MarkRunning, GiveUp, Requeue, Holding
  <2>2. mine[w] \in Job /\ job[mine[w]] \in Row /\ job[mine[w]].status # "absent"
    BY <2>1, HandTypes
  <2>3. PICK r \in Row : Writes(w, r) /\ r.status # "absent"
    BY <1>1, <2>2, RowsWritten, BuildWrites, MarkWrites, GiveUpWrites, RequeueWrites
  <2> QED BY <1>0, <2>2, <2>3 DEF Writes
<1>2. CASE Claim(w)
  <2>1. \A i \in Job : Reclaimed[i].status = "absent" <=> job[i].status = "absent"
    BY <1>0, RowsReclaimed DEF Reclaimable
  <2>2. CASE job' = Reclaimed
    BY <1>0, <2>1, <2>2, RowsReclaimed
  <2>3. CASE \E j \in Job : /\ job[j].status = "queued" \/ Reclaimable(j)
                            /\ \A i \in Job : i # j => job'[i] = Reclaimed[i]
                            /\ job'[j].status = "claimed"
    <3>1. PICK j \in Job : /\ job[j].status = "queued" \/ Reclaimable(j)
                           /\ \A i \in Job : i # j => job'[i] = Reclaimed[i]
                           /\ job'[j].status = "claimed"
      BY <2>3
    <3>2. job[j].status # "absent"
      BY <3>1 DEF Reclaimable
    <3>3. job' \in [Job -> Row]
      BY <1>2, ClaimWrites
    <3> QED BY <1>0, <2>1, <3>1, <3>2, <3>3
  <2> QED BY <1>2, <2>2, <2>3, ClaimWrites
<1>3. CASE Poll(w) \/ Heartbeat(w) \/ Limits(w) \/ Start(w) \/ FailGet(w)
  BY <1>0, <1>3 DEF Poll, Heartbeat, Limits, Start, FailGet
<1> QED BY <1>1, <1>2, <1>3 DEF Work

LEMMA WorkKeepsRequests ==
  ASSUME Basis, NEW w \in Workers, Work(w)
  PROVE  OwnRequest'
BY WorkKeepsRows, RequestTypes DEF OwnRequest, Basis, TypeOK, client

LEMMA ServeKeepsRequests ==
  ASSUME Basis, NEW c \in Clients, Ask(c) \/ Serve(c)
  PROVE  OwnRequest'
<1>0. /\ cpc \in [Clients -> {"idle", "plan", "count", "insert"}]
      /\ want \in [Clients -> Job \cup {NoJob}] /\ asked \in 0..Jobs /\ Jobs \in Nat
  BY CountAssumption DEF Basis, TypeOK
<1>1. CASE Ask(c)
  <2>1. /\ cpc[c] = "idle" /\ asked' = asked + 1 /\ asked' \in Job
        /\ cpc' = [cpc EXCEPT ![c] = "plan"] /\ want' = [want EXCEPT ![c] = asked'] /\ job' = job
    BY <1>0, <1>1 DEF Ask, Job
  <2>2. job[asked'].status = "absent"
    BY <1>0, <2>1 DEF Basis, OwnRequest
  <2>3. \A d \in Clients : want[d] # NoJob => want[d] <= asked
    BY DEF Basis, OwnRequest
  <2>4. \A d \in Clients : want'[d] # NoJob => want'[d] <= asked' /\ job'[want'[d]].status = "absent"
    BY <1>0, <2>1, <2>2, <2>3 DEF Basis, OwnRequest, Job, NoJob
  <2>5. \A d, e \in Clients : want'[d] = want'[e] /\ want'[d] # NoJob => d = e
    BY <1>0, <2>1, <2>3 DEF Basis, OwnRequest, Job, NoJob
  <2>6. \A j \in Job : j > asked' => job'[j].status = "absent"
    BY <1>0, <2>1 DEF Basis, OwnRequest, Job
  <2>7. \A d \in Clients : want'[d] # NoJob <=> cpc'[d] # "idle"
    BY <1>0, <2>1 DEF Basis, OwnRequest, Job, NoJob
  <2> QED BY <2>4, <2>5, <2>6, <2>7 DEF OwnRequest
<1>2. CASE CheckPlan(c) \/ CountQueued(c)
  <2>1. /\ cpc[c] # "idle" /\ asked' = asked /\ job' = job
        /\ \/ cpc' = [cpc EXCEPT ![c] = "idle"] /\ want' = [want EXCEPT ![c] = NoJob]
           \/ \E l \in {"count", "insert"} : cpc' = [cpc EXCEPT ![c] = l] /\ want' = want
    BY <1>2 DEF CheckPlan, CountQueued, Settle, Step
  <2> QED BY <1>0, <2>1 DEF Basis, OwnRequest
<1>3. CASE Insert(c)
  <2>1. /\ cpc[c] = "insert" /\ asked' = asked
        /\ cpc' = [cpc EXCEPT ![c] = "idle"] /\ want' = [want EXCEPT ![c] = NoJob]
    BY <1>3 DEF Insert, Settle
  <2>2. want[c] \in Job /\ want[c] <= asked
    BY <2>1, RequestTypes
  <2>3. \A i \in Job : i # want[c] => job'[i] = job[i]
    BY <1>3, InsertWrites
  <2>4. \A d \in Clients : want'[d] # NoJob => want'[d] \in Job /\ want'[d] # want[c] /\ want'[d] = want[d]
    BY <1>0, <2>1, <2>2 DEF Basis, OwnRequest
  <2>5. \A d \in Clients : want'[d] # NoJob => want'[d] <= asked' /\ job'[want'[d]].status = "absent"
    BY <2>1, <2>3, <2>4 DEF Basis, OwnRequest
  <2>6. \A j \in Job : j > asked' => job'[j].status = "absent"
    <3>1. \A j \in Job : j > asked => j # want[c]
      BY <1>0, <2>2 DEF Job
    <3> QED BY <2>1, <2>3, <3>1 DEF Basis, OwnRequest
  <2>7. \A d, e \in Clients : want'[d] = want'[e] /\ want'[d] # NoJob => d = e
    BY <1>0, <2>1 DEF Basis, OwnRequest
  <2>8. \A d \in Clients : want'[d] # NoJob <=> cpc'[d] # "idle"
    BY <1>0, <2>1 DEF Basis, OwnRequest
  <2> QED BY <2>5, <2>6, <2>7, <2>8 DEF OwnRequest
<1> QED BY <1>1, <1>2, <1>3 DEF Serve

\* Where every worker keeps its job or lets go of it, hands stay in order.
LEMMA HandsKept ==
  ASSUME Basis, NEW w \in Workers, mine' = mine \/ mine' = [mine EXCEPT ![w] = NoJob],
         mine'[w] # NoJob <=> pc'[w] \in Holding,
         \A v \in Workers : v # w => pc'[v] = pc[v],
         \A i \in Job : job[i].status # "absent" => job'[i].status # "absent"
  PROVE  InHand'
<1>1. mine \in [Workers -> Job \cup {NoJob}]
  BY DEF Basis, TypeOK
<1>2. \A v \in Workers : mine'[v] # NoJob => mine'[v] = mine[v] /\ mine[v] \in Job
  BY <1>1
<1>3. \A v \in Workers : v # w => mine'[v] = mine[v]
  BY <1>1
<1> QED BY <1>2, <1>3 DEF Basis, InHand

LEMMA WorkKeepsHands ==
  ASSUME Basis, NEW w \in Workers, Work(w)
  PROVE  InHand'
<1>0. /\ pc \in [Workers -> {"idle", "claim", "build", "beat", "limits", "start", "mark",
                             "failGet", "giveUp", "requeue"}]
      /\ mine \in [Workers -> Job \cup {NoJob}] /\ NoJob \notin Job
  BY DEF Basis, TypeOK, Job, NoJob
<1>1. \A i \in Job : job[i].status # "absent" => job'[i].status # "absent"
  BY WorkKeepsRows
<1>2. mine[w] # NoJob <=> pc[w] \in Holding
  BY DEF Basis, InHand
<1>3. CASE Poll(w)
  BY <1>0, <1>1, <1>2, <1>3, HandsKept DEF Poll, Goto, Holding
<1>4. CASE Build(w) \/ Heartbeat(w) \/ Limits(w) \/ Start(w) \/ FailGet(w)
  <2>1. mine' = mine /\ pc[w] \in Holding
    BY <1>4 DEF Build, Heartbeat, Limits, Start, FailGet, Holding
  <2>2. \E l \in Holding : pc' = [pc EXCEPT ![w] = l]
    BY <1>4 DEF Build, Heartbeat, Limits, Start, FailGet, Goto, Deny, Holding
  <2> QED BY <1>0, <1>1, <1>2, <2>1, <2>2, HandsKept
<1>5. CASE MarkRunning(w) \/ GiveUp(w) \/ Requeue(w) \/ (Claim(w) /\ Done(w))
  <2>1. mine' = [mine EXCEPT ![w] = NoJob] /\ pc' = [pc EXCEPT ![w] = "idle"]
    BY <1>5 DEF MarkRunning, GiveUp, Requeue, Done, Goto
  <2> QED BY <1>0, <1>1, <2>1, HandsKept DEF Holding
<1>6. CASE Claim(w) /\ ~Done(w)
  <2>1. PICK j \in Job : /\ mine' = [mine EXCEPT ![w] = j] /\ pc' = [pc EXCEPT ![w] = "build"]
                         /\ job'[j].status = "claimed"
    BY <1>6, ClaimWrites
  <2>2. \A v \in Workers : v # w => mine'[v] = mine[v] /\ pc'[v] = pc[v]
    BY <1>0, <2>1
  <2>3. mine'[w] = j /\ pc'[w] = "build"
    BY <1>0, <2>1
  <2>4. \A v \in Workers : v # w /\ mine[v] # NoJob => mine[v] \in Job /\ job'[mine[v]].status # "absent"
    BY <1>0, <1>1 DEF Basis, InHand
  <2>5. ASSUME NEW v \in Workers, v # w
        PROVE  /\ mine'[v] # NoJob <=> pc'[v] \in Holding
               /\ mine'[v] # NoJob => job'[mine'[v]].status # "absent"
    BY <2>2, <2>4, <2>5 DEF Basis, InHand
  <2>6. /\ mine'[w] # NoJob <=> pc'[w] \in Holding
        /\ mine'[w] # NoJob => job'[mine'[w]].status # "absent"
    BY <1>0, <2>1, <2>3 DEF Holding
  <2> QED BY <2>5, <2>6 DEF InHand
<1> QED BY <1>3, <1>4, <1>5, <1>6 DEF Work

Labels == {"idle", "claim", "build", "beat", "limits", "start", "mark", "failGet", "giveUp",
           "requeue"}
Reasons == {"none", "plan", "queue_full", "token", "artifact", "rate", "sandbox"}

LEMMA WorkKeepsTypes ==
  ASSUME Basis, NEW w \in Workers, Work(w)
  PROVE  TypeOK'
<1>0. /\ pc \in [Workers -> Labels] /\ mine \in [Workers -> Job \cup {NoJob}]
      /\ token \in [Workers -> BOOLEAN] /\ seen \in [Workers -> 0..Jobs]
      /\ why \in [Clients \cup Workers -> Reasons]
      /\ beat \in [Job -> {"none", "fresh", "stale"}] /\ bots \in [Job -> SUBSET Workers]
      /\ 0 \in 0..Jobs /\ job \in [Job -> Row]
  BY CountAssumption DEF Basis, TypeOK, Labels, Reasons
<1>1. /\ job' \in [Job -> Row] /\ asked' \in 0..Jobs
      /\ cpc' \in [Clients -> {"idle", "plan", "count", "insert"}]
      /\ want' \in [Clients -> Job \cup {NoJob}]
  BY WorkKeepsRows DEF Basis, TypeOK, client
<1>2. crashes' = crashes
  BY DEF Work, Poll, Claim, Build, Heartbeat, Limits, Start, MarkRunning, FailGet, GiveUp, Requeue
<1>3. CASE Claim(w) /\ ~Done(w)
  <2>1. bots' = bots
    BY <1>3 DEF Claim
  <2>2. PICK j \in Job : /\ beat' = [beat EXCEPT ![j] = "fresh"]
                         /\ mine' = [mine EXCEPT ![w] = j]
                         /\ token' = [token EXCEPT ![w] = job[j].sealed]
                         /\ pc' = [pc EXCEPT ![w] = "build"] /\ UNCHANGED <<seen, why>>
    BY <1>3, ClaimWrites
  <2>3. job[j] \in Row
    BY <1>0
  <2>4. job[j].sealed \in BOOLEAN
    BY <2>3 DEF Row
  <2>5. token' \in [Workers -> BOOLEAN]
    BY <1>0, <2>2, <2>4
  <2>6. pc' \in [Workers -> Labels] /\ mine' \in [Workers -> Job \cup {NoJob}]
        /\ beat' \in [Job -> {"none", "fresh", "stale"}] /\ seen' = seen /\ why' = why
    BY <1>0, <2>2 DEF Labels
  <2> QED BY <1>0, <1>1, <1>2, <2>1, <2>5, <2>6 DEF Basis, TypeOK, Labels, Reasons
<1>4. CASE Done(w)
  <2>1. /\ pc' \in [Workers -> Labels] /\ mine' \in [Workers -> Job \cup {NoJob}]
        /\ seen' \in [Workers -> 0..Jobs] /\ why' \in [Clients \cup Workers -> Reasons]
    BY <1>0, <1>4 DEF Done, Goto, Labels, Reasons
  <2>2. token' \in [Workers -> BOOLEAN]
    BY <1>0, <1>4 DEF Done
  <2>3. ASSUME beat' # beat PROVE MarkRunning(w) \/ Heartbeat(w) \/ Claim(w)
    BY <2>3 DEF Work, Poll, Build, Limits, Start, FailGet, GiveUp, Requeue
  <2>4. beat' \in [Job -> {"none", "fresh", "stale"}]
    BY <1>0, <2>3, ClaimWrites DEF MarkRunning, Heartbeat
  <2>5. bots' \in [Job -> SUBSET Workers]
    BY <1>0 DEF Work, Poll, Claim, Build, Heartbeat, Limits, Start, MarkRunning, FailGet, GiveUp,
                Requeue
  <2> QED BY <1>1, <1>2, <2>1, <2>2, <2>4, <2>5 DEF Basis, TypeOK, Labels, Reasons
<1>5. CASE Poll(w) \/ Build(w) \/ Heartbeat(w) \/ Limits(w) \/ Start(w) \/ FailGet(w)
  <2>1. mine' = mine /\ token' = token
    BY <1>5 DEF Poll, Build, Heartbeat, Limits, Start, FailGet
  <2>2. \E l \in Labels : pc' = [pc EXCEPT ![w] = l]
    BY <1>5 DEF Poll, Build, Heartbeat, Limits, Start, FailGet, Goto, Deny, Labels
  <2>3. why' = why \/ \E x \in Reasons : why' = [why EXCEPT ![w] = x]
    BY <1>5 DEF Poll, Build, Heartbeat, Limits, Start, FailGet, Deny, Reasons
  <2>4. seen' = seen \/ seen' = [seen EXCEPT ![w] = RunningOn(w)]
    BY <1>5 DEF Poll, Build, Heartbeat, Limits, Start, FailGet
  <2>5. beat' = beat \/ beat' = [beat EXCEPT ![mine[w]] = "fresh"]
    BY <1>5 DEF Poll, Build, Heartbeat, Limits, Start, FailGet
  <2>6. bots' = bots \/ bots' = [bots EXCEPT ![mine[w]] = @ \cup {w}]
    BY <1>5 DEF Poll, Build, Heartbeat, Limits, Start, FailGet
  <2>7. pc' \in [Workers -> Labels] /\ why' \in [Clients \cup Workers -> Reasons]
    BY <1>0, <2>2, <2>3
  <2>8. seen' \in [Workers -> 0..Jobs]
    BY <1>0, <2>4, CountOfJobs
  <2>9. beat' \in [Job -> {"none", "fresh", "stale"}] /\ bots' \in [Job -> SUBSET Workers]
    BY <1>0, <2>5, <2>6
  <2> QED BY <1>0, <1>1, <1>2, <2>1, <2>7, <2>8, <2>9 DEF Basis, TypeOK, Labels, Reasons
<1> QED BY <1>3, <1>4, <1>5 DEF Work, MarkRunning, GiveUp, Requeue

LEMMA ServeKeepsTypes ==
  ASSUME Basis, NEW c \in Clients, Ask(c) \/ Serve(c)
  PROVE  TypeOK' /\ InHand'
<1>0. /\ cpc \in [Clients -> {"idle", "plan", "count", "insert"}]
      /\ want \in [Clients -> Job \cup {NoJob}] /\ asked \in 0..Jobs /\ Jobs \in Nat
      /\ why \in [Clients \cup Workers -> Reasons] /\ job \in [Job -> Row]
  BY CountAssumption DEF Basis, TypeOK, Reasons
<1>1. UNCHANGED <<beat, bots, pc, mine, token, seen, crashes>>
  BY DEF Ask, Serve, CheckPlan, CountQueued, Insert, worker
<1>2. /\ job' \in [Job -> Row]
      /\ \A i \in Job : job[i].status # "absent" => job'[i].status # "absent"
  <2>1. CASE Insert(c)
    BY <2>1, InsertWrites, RowInserted
  <2>2. CASE job' = job
    BY <1>0, <2>2
  <2> QED BY <2>1, <2>2 DEF Ask, Serve, CheckPlan, CountQueued
<1>3. asked' \in 0..Jobs /\ (Ask(c) => asked' \in Job)
  BY <1>0 DEF Ask, Serve, CheckPlan, CountQueued, Insert, Job
<1>4. \E l \in {"idle", "plan", "count", "insert"} : cpc' = [cpc EXCEPT ![c] = l]
  BY DEF Ask, Serve, CheckPlan, CountQueued, Insert, Settle, Step
<1>5. want' = want \/ \E i \in Job \cup {NoJob} : want' = [want EXCEPT ![c] = i]
  BY <1>3 DEF Ask, Serve, CheckPlan, CountQueued, Insert, Settle, Step
<1>6. why' = why \/ \E x \in Reasons : why' = [why EXCEPT ![c] = x]
  BY DEF Ask, Serve, CheckPlan, CountQueued, Insert, Settle, Step, Reasons
<1>7. /\ cpc' \in [Clients -> {"idle", "plan", "count", "insert"}]
      /\ want' \in [Clients -> Job \cup {NoJob}]
      /\ why' \in [Clients \cup Workers -> Reasons]
  BY <1>0, <1>4, <1>5, <1>6
<1>8. TypeOK'
  BY <1>1, <1>2, <1>3, <1>7 DEF Basis, TypeOK, Reasons
<1>9. InHand'
  <2>1. \A w \in Workers : mine[w] # NoJob => mine[w] \in Job
    BY DEF Basis, TypeOK
  <2> QED BY <1>1, <1>2, <2>1 DEF Basis, InHand
<1> QED BY <1>8, <1>9

LEMMA OthersKeepBasis ==
  ASSUME Basis, (\E w \in Workers : Crash(w)) \/ (\E j \in Job : Expire(j) \/ Stop(j))
                \/ UNCHANGED vars
  PROVE  Basis'
<1>0. /\ pc \in [Workers -> Labels] /\ mine \in [Workers -> Job \cup {NoJob}]
      /\ token \in [Workers -> BOOLEAN] /\ seen \in [Workers -> 0..Jobs]
      /\ why \in [Clients \cup Workers -> Reasons]
      /\ beat \in [Job -> {"none", "fresh", "stale"}] /\ bots \in [Job -> SUBSET Workers]
      /\ 0 \in 0..Jobs /\ crashes \in 0..MaxCrashes /\ MaxCrashes \in Nat
  BY CountAssumption DEF Basis, TypeOK, Labels, Reasons
<1>1. UNCHANGED <<asked, job, cpc, want>>
  BY DEF Crash, Expire, Stop, vars, client
<1>2. OwnRequest'
  BY <1>1 DEF Basis, OwnRequest
<1>3. ASSUME NEW w \in Workers, Crash(w) PROVE Basis'
  <2>1. /\ Done(w) /\ beat' = beat /\ bots' = bots /\ crashes' \in 0..MaxCrashes
    BY <1>0, <1>3 DEF Crash
  <2>2. /\ pc' \in [Workers -> Labels] /\ mine' \in [Workers -> Job \cup {NoJob}]
        /\ seen' \in [Workers -> 0..Jobs] /\ why' \in [Clients \cup Workers -> Reasons]
    BY <1>0, <2>1 DEF Done, Goto, Labels, Reasons
  <2>3. token' \in [Workers -> BOOLEAN]
    BY <1>0, <2>1 DEF Done
  <2>4. TypeOK'
    BY <1>1, <2>1, <2>2, <2>3 DEF Basis, TypeOK, Labels, Reasons
  <2>5. /\ mine' = [mine EXCEPT ![w] = NoJob] /\ pc' = [pc EXCEPT ![w] = "idle"]
    BY <2>1 DEF Done, Goto
  <2>6. InHand'
    BY <1>0, <1>1, <2>5, HandsKept DEF Holding
  <2> QED BY <1>2, <2>4, <2>6 DEF Basis
<1>4. ASSUME NEW j \in Job, Expire(j) \/ Stop(j) PROVE Basis'
  <2>1. /\ UNCHANGED <<pc, mine, token, seen, why, crashes>>
        /\ beat' \in [Job -> {"none", "fresh", "stale"}] /\ bots' \in [Job -> SUBSET Workers]
    BY <1>0, <1>4 DEF Expire, Stop, worker
  <2>2. TypeOK' /\ InHand'
    BY <1>1, <2>1 DEF Basis, TypeOK, InHand
  <2> QED BY <1>2, <2>2 DEF Basis
<1>5. CASE UNCHANGED vars
  <2>1. UNCHANGED <<pc, mine, token, seen, why, crashes, beat, bots>>
    BY <1>5 DEF vars, worker
  <2>2. TypeOK' /\ InHand'
    BY <1>1, <2>1 DEF Basis, TypeOK, InHand
  <2> QED BY <1>2, <2>2 DEF Basis
<1> QED BY <1>3, <1>4, <1>5

LEMMA NextBasis == Basis /\ [Next]_vars => Basis'
BY WorkKeepsTypes, WorkKeepsHands, WorkKeepsRequests, ServeKeepsTypes, ServeKeepsRequests,
   OthersKeepBasis DEF Basis, Next

LEMMA InitBasis == Init => Basis
<1> SUFFICES ASSUME Init PROVE Basis
  OBVIOUS
<1>1. Jobs \in Nat /\ MaxCrashes \in Nat /\ NoJob \notin Job
  BY CountAssumption DEF Job, NoJob
<1>2. [NewRow EXCEPT !.status = "absent", !.sealed = FALSE] \in Row
      /\ [NewRow EXCEPT !.status = "absent", !.sealed = FALSE].status = "absent"
      /\ [NewRow EXCEPT !.status = "absent", !.sealed = FALSE].sealed = FALSE
  BY DEF Row, NewRow, Status
<1>3. job \in [Job -> Row] /\ \A j \in Job : job[j].status = "absent"
  BY <1>2 DEF Init
<1>4. /\ asked \in 0..Jobs /\ crashes \in 0..MaxCrashes
      /\ seen \in [Workers -> 0..Jobs]
  BY <1>1 DEF Init
<1>5. /\ beat \in [Job -> {"none", "fresh", "stale"}] /\ bots \in [Job -> SUBSET Workers]
      /\ cpc \in [Clients -> {"idle", "plan", "count", "insert"}]
      /\ want \in [Clients -> Job \cup {NoJob}]
      /\ pc \in [Workers -> Labels] /\ mine \in [Workers -> Job \cup {NoJob}]
      /\ why \in [Clients \cup Workers -> Reasons]
  BY DEF Init, Labels, Reasons
<1>6. token \in [Workers -> BOOLEAN]
  BY DEF Init
<1>7. TypeOK
  BY <1>3, <1>4, <1>5, <1>6 DEF TypeOK, Labels, Reasons
<1>8. InHand /\ OwnRequest
  BY <1>3 DEF Init, InHand, OwnRequest, Holding
<1> QED BY <1>7, <1>8 DEF Basis

-----------------------------------------------------------------------------
(* Prompt workers                                                          *)

\* The heartbeat of a job in hand is never old.
Timely == \A w \in Workers : mine[w] # NoJob => beat[mine[w]] = "fresh"

IInv == Basis /\ Timely /\ OwnerWorks /\ SealedWhileNeeded

LEMMA InOneHand ==
  ASSUME IInv, NEW v \in Workers, NEW w \in Workers, mine[v] = mine[w], mine[v] # NoJob
  PROVE  v = w
BY DEF IInv, OwnerWorks

\* No row in hand is reclaimed, and a row that may be claimed is in no hand.
LEMMA NotInHand ==
  ASSUME IInv, NEW w \in Workers, mine[w] # NoJob
  PROVE  mine[w] \in Job /\ ~Reclaimable(mine[w]) /\ job[mine[w]].status # "queued"
<1>1. mine[w] \in Job
  BY DEF IInv, Basis, TypeOK
<1>2. beat[mine[w]] = "fresh" /\ job[mine[w]].status \in {"claimed", "building"}
  BY DEF IInv, Timely, OwnerWorks
<1> QED BY <1>1, <1>2 DEF Reclaimable

\* What is in the other hands stays as it is, and w works on a row it owns.
LEMMA OwnersKept ==
  ASSUME IInv, NEW w \in Workers, \A v \in Workers : v # w => mine'[v] = mine[v],
         \A v \in Workers : v # w /\ mine[v] # NoJob =>
           job'[mine[v]] = job[mine[v]] /\ beat'[mine[v]] = "fresh",
         mine'[w] # NoJob => /\ beat'[mine'[w]] = "fresh" /\ job'[mine'[w]].node = w
                             /\ job'[mine'[w]].status \in {"claimed", "building"}
  PROVE  Timely' /\ OwnerWorks'
<1>1. ASSUME NEW v \in Workers, v # w, mine'[v] # NoJob
      PROVE  /\ beat'[mine'[v]] = "fresh" /\ job'[mine'[v]].node = v
             /\ job'[mine'[v]].status \in {"claimed", "building"}
  BY <1>1 DEF IInv, OwnerWorks
<1> QED BY <1>1 DEF Timely, OwnerWorks

LEMMA WorkKeepsOwners ==
  ASSUME IInv, NEW w \in Workers, Work(w)
  PROVE  Timely' /\ OwnerWorks'
<1>0. /\ mine \in [Workers -> Job \cup {NoJob}] /\ beat \in [Job -> {"none", "fresh", "stale"}]
      /\ Basis /\ job \in [Job -> Row]
  BY DEF IInv, Basis, TypeOK
<1>1. \A v \in Workers : mine[v] # NoJob =>
        /\ mine[v] \in Job /\ beat[mine[v]] = "fresh" /\ job[mine[v]].node = v
        /\ job[mine[v]].status \in {"claimed", "building"}
        /\ ~Reclaimable(mine[v]) /\ job[mine[v]].status # "queued"
        /\ v # w => mine[v] # mine[w]
  BY InOneHand, NotInHand DEF IInv, Timely, OwnerWorks
<1>2. CASE Poll(w) \/ Limits(w) \/ Start(w) \/ FailGet(w)
  <2>1. UNCHANGED <<job, beat, mine>>
    BY <1>2 DEF Poll, Limits, Start, FailGet
  <2> QED BY <1>1, <2>1, OwnersKept
<1>3. CASE Heartbeat(w)
  <2>1. UNCHANGED <<job, mine>> /\ beat' = [beat EXCEPT ![mine[w]] = "fresh"]
    BY <1>3 DEF Heartbeat
  <2> QED BY <1>0, <1>1, <2>1, OwnersKept
<1>4. CASE Build(w)
  <2>1. UNCHANGED <<beat, mine>> /\ pc[w] \in Holding
    BY <1>4 DEF Build, Holding
  <2>2. mine[w] \in Job /\ job[mine[w]] \in Row /\ Writes(w, BuiltRow(job[mine[w]]))
    BY <1>0, <1>4, <2>1, HandTypes, BuildWrites
  <2>3. \A r \in Row : BuiltRow(r).node = r.node /\ BuiltRow(r).status = "building"
    BY RowsWritten
  <2>4. job'[mine[w]].node = job[mine[w]].node /\ job'[mine[w]].status = "building"
    BY <2>2, <2>3 DEF Writes
  <2> QED BY <1>1, <2>1, <2>2, <2>4, OwnersKept DEF Writes
<1>5. CASE MarkRunning(w) \/ GiveUp(w) \/ Requeue(w)
  <2>1. /\ pc[w] \in Holding /\ mine' = [mine EXCEPT ![w] = NoJob]
        /\ beat' = beat \/ beat' = [beat EXCEPT ![mine[w]] = "fresh"]
    BY <1>5 DEF MarkRunning, GiveUp, Requeue, Done, Holding
  <2>2. \E r \in Row : Writes(w, r)
    BY <1>0, <1>5, <2>1, HandTypes, RowsWritten, MarkWrites, GiveUpWrites, RequeueWrites
  <2>3. \A i \in Job : i # mine[w] => job'[i] = job[i] /\ beat'[i] = beat[i]
    BY <1>0, <2>1, <2>2 DEF Writes
  <2>4. mine'[w] = NoJob /\ \A v \in Workers : v # w => mine'[v] = mine[v]
    BY <1>0, <2>1
  <2> QED BY <1>1, <2>3, <2>4, OwnersKept
<1>6. CASE Claim(w)
  <2>0. pc[w] = "claim"
    BY <1>6 DEF Claim
  <2>1. mine[w] = NoJob
    BY <2>0 DEF IInv, Basis, InHand, Holding
  <2>2. \A v \in Workers : mine[v] # NoJob => Reclaimed[mine[v]] = job[mine[v]]
    BY <1>0, <1>1, RowsReclaimed
  <2>3. CASE job' = Reclaimed /\ Done(w) /\ beat' = beat
    <3>1. mine' = [mine EXCEPT ![w] = NoJob]
      BY <2>3 DEF Done
    <3>2. mine'[w] = NoJob /\ \A v \in Workers : v # w => mine'[v] = mine[v]
      BY <1>0, <3>1
    <3> QED BY <1>1, <2>2, <2>3, <3>2, OwnersKept
  <2>4. CASE ~(job' = Reclaimed /\ Done(w) /\ beat' = beat)
    <3>1. PICK j \in Job : /\ job[j].status = "queued" \/ Reclaimable(j)
                           /\ \A i \in Job : i # j => job'[i] = Reclaimed[i]
                           /\ job'[j].status = "claimed" /\ job'[j].node = w
                           /\ beat' = [beat EXCEPT ![j] = "fresh"]
                           /\ mine' = [mine EXCEPT ![w] = j]
      BY <1>0, <1>6, <2>4, ClaimWrites
    <3>2. mine'[w] = j /\ \A v \in Workers : v # w => mine'[v] = mine[v]
      BY <1>0, <3>1
    <3>3. beat'[j] = "fresh" /\ \A i \in Job : i # j => beat'[i] = beat[i]
      BY <1>0, <3>1
    <3>4. \A v \in Workers : mine[v] # NoJob => mine[v] # j
      BY <1>1, <3>1
    <3> QED BY <1>1, <2>2, <3>1, <3>2, <3>3, <3>4, OwnersKept
  <2> QED BY <2>3, <2>4
<1> QED BY <1>2, <1>3, <1>4, <1>5, <1>6 DEF Work

LEMMA OthersKeepOwners ==
  ASSUME Prompt, IInv,
         \/ \E c \in Clients : Ask(c) \/ Serve(c)
         \/ \E w \in Workers : Crash(w)
         \/ \E j \in Job : Expire(j) \/ Stop(j)
         \/ UNCHANGED vars
  PROVE  Timely' /\ OwnerWorks'
<1>0. /\ mine \in [Workers -> Job \cup {NoJob}] /\ beat \in [Job -> {"none", "fresh", "stale"}]
      /\ Basis /\ job \in [Job -> Row]
  BY DEF IInv, Basis, TypeOK
<1>1. \A v \in Workers : mine'[v] # NoJob => mine'[v] = mine[v]
  <2>1. CASE mine' = mine
    BY <2>1
  <2>2. ASSUME NEW w \in Workers, Crash(w) PROVE mine' = [mine EXCEPT ![w] = NoJob]
    BY <2>2 DEF Crash, Done
  <2> QED BY <1>0, <2>1, <2>2 DEF Ask, Serve, CheckPlan, CountQueued, Insert, Expire, Stop, vars,
                                  worker
<1>2. \A v \in Workers : mine'[v] # NoJob => beat'[mine[v]] = beat[mine[v]]
  <2>1. CASE beat' = beat
    BY <2>1
  <2>2. ASSUME NEW j \in Job, Expire(j)
        PROVE  beat' = [beat EXCEPT ![j] = "stale"] /\ \A w \in Workers : mine[w] # j
    BY <2>2 DEF Expire
  <2> QED BY <1>0, <1>1, <2>1, <2>2 DEF Ask, Serve, CheckPlan, CountQueued, Insert, Crash, Stop, vars
<1>3. \A v \in Workers : mine'[v] # NoJob => job'[mine[v]] = job[mine[v]]
  <2>1. CASE job' = job
    BY <2>1
  <2>2. ASSUME NEW c \in Clients, Insert(c)
        PROVE  /\ \A i \in Job : i # want[c] => job'[i] = job[i]
               /\ job[want[c]].status = "absent"
    BY <1>0, <2>2, InsertWrites, RequestTypes DEF Insert
  <2>3. \A v \in Workers : mine[v] # NoJob => mine[v] \in Job /\ job[mine[v]].status # "absent"
    BY <1>0 DEF Basis, InHand
  <2> QED BY <1>1, <2>1, <2>2, <2>3 DEF Ask, Serve, CheckPlan, CountQueued, Crash, Expire, Stop, vars
<1> QED BY <1>1, <1>2, <1>3 DEF IInv, Timely, OwnerWorks

LEMMA WorkKeepsTokens ==
  ASSUME IInv, NEW w \in Workers, Work(w)
  PROVE  SealedWhileNeeded'
<1>0. Basis /\ job \in [Job -> Row] /\ \A j \in Job : job[j].sealed <=> job[j].status \in Active
  BY DEF IInv, Basis, TypeOK, SealedWhileNeeded
<1>1. CASE Build(w) \/ MarkRunning(w) \/ GiveUp(w) \/ Requeue(w)
  <2>1. pc[w] \in Holding
    BY <1>1 DEF Build, MarkRunning, GiveUp, Requeue, Holding
  <2>2. mine[w] # NoJob /\ mine[w] \in Job /\ job[mine[w]] \in Row
    BY <1>0, <2>1, HandTypes DEF Basis, InHand
  <2>3. job[mine[w]].sealed
    BY <1>0, <2>2 DEF IInv, OwnerWorks, Active
  <2>4. PICK r \in Row : Writes(w, r) /\ (r.sealed <=> r.status \in Active)
    <3>1. \A r \in Row : r.sealed =>
            /\ BuiltRow(r) \in Row /\ (BuiltRow(r).sealed <=> BuiltRow(r).status \in Active)
            /\ Running(r) \in Row /\ (Running(r).sealed <=> Running(r).status \in Active)
            /\ FailedRow(r) \in Row /\ (FailedRow(r).sealed <=> FailedRow(r).status \in Active)
            /\ BackRow(r) \in Row /\ (BackRow(r).sealed <=> BackRow(r).status \in Active)
      BY RowsWritten DEF Active
    <3> QED BY <1>0, <1>1, <2>2, <2>3, <3>1, BuildWrites, MarkWrites, GiveUpWrites, RequeueWrites
  <2> QED BY <1>0, <2>2, <2>4 DEF Writes, SealedWhileNeeded
<1>2. CASE Claim(w)
  <2>1. \A j \in Job : Reclaimed[j].sealed <=> Reclaimed[j].status \in Active
    BY <1>0, RowsReclaimed DEF Reclaimable, Active
  <2>2. CASE job' = Reclaimed
    BY <2>1, <2>2 DEF SealedWhileNeeded
  <2>3. CASE job' # Reclaimed
    <3>1. PICK j \in Job : /\ job[j].status = "queued" \/ Reclaimable(j)
                           /\ \A i \in Job : i # j => job'[i] = Reclaimed[i]
                           /\ job'[j].status = "claimed" /\ job'[j].sealed = job[j].sealed
      BY <1>0, <1>2, <2>3, ClaimWrites
    <3>2. job[j].sealed
      BY <1>0, <3>1 DEF Reclaimable, Active
    <3> QED BY <2>1, <3>1, <3>2 DEF SealedWhileNeeded, Active
  <2> QED BY <2>2, <2>3
<1>3. CASE Poll(w) \/ Heartbeat(w) \/ Limits(w) \/ Start(w) \/ FailGet(w)
  BY <1>0, <1>3 DEF Poll, Heartbeat, Limits, Start, FailGet, SealedWhileNeeded
<1> QED BY <1>1, <1>2, <1>3 DEF Work

LEMMA NextIInv == ASSUME Prompt, IInv, [Next]_vars PROVE IInv'
<1>1. Basis'
  BY NextBasis DEF IInv
<1>2. Timely' /\ OwnerWorks'
  BY WorkKeepsOwners, OthersKeepOwners DEF Next
<1>3. SealedWhileNeeded'
  <2>1. ASSUME NEW c \in Clients, Insert(c) PROVE SealedWhileNeeded'
    <3>1. /\ job'[want[c]] = NewRow /\ \A i \in Job : i # want[c] => job'[i] = job[i]
      BY <2>1, InsertWrites DEF IInv
    <3> QED BY <3>1, RowInserted DEF IInv, SealedWhileNeeded, Active
  <2>2. CASE job' = job
    BY <2>2 DEF IInv, SealedWhileNeeded
  <2> QED BY <2>1, <2>2, WorkKeepsTokens
          DEF Next, Ask, Serve, CheckPlan, CountQueued, Crash, Expire, Stop, vars
<1> QED BY <1>1, <1>2, <1>3 DEF IInv

LEMMA InitIInv == Init => IInv
<1> SUFFICES ASSUME Init PROVE IInv
  OBVIOUS
<1>1. Basis
  BY InitBasis
<1>2. mine = [w \in Workers |-> NoJob]
  BY DEF Init
<1>3. [NewRow EXCEPT !.status = "absent", !.sealed = FALSE].status = "absent"
      /\ [NewRow EXCEPT !.status = "absent", !.sealed = FALSE].sealed = FALSE
  BY DEF NewRow
<1>4. \A j \in Job : job[j].status = "absent" /\ job[j].sealed = FALSE
  BY <1>3 DEF Init
<1> QED BY <1>1, <1>2, <1>4 DEF IInv, Timely, OwnerWorks, SealedWhileNeeded, Active

-----------------------------------------------------------------------------
(* Attempts                                                                *)

\* A job that somebody may yet claim.
Waits(j) ==
  \/ job[j].status = "queued"
  \/ job[j].status \in {"claimed", "building"} /\ \A w \in Workers : mine[w] # j

\* It has a try left, and so has one that mark_failed decided to queue again.
TryLeft ==
  /\ \A j \in Job : Waits(j) => job[j].attempts < MaxAttempts + crashes
  /\ \A w \in Workers : pc[w] = "requeue" => job[mine[w]].attempts < MaxAttempts

Tries == AttemptsBounded /\ TryLeft

LEMMA Numbers ==
  ASSUME IInv
  PROVE  /\ MaxAttempts \in Nat /\ crashes \in Nat
         /\ \A j \in Job : job[j].attempts \in Nat
<1>1. MaxAttempts \in Nat /\ MaxCrashes \in Nat
  BY CountAssumption
<1>2. crashes \in 0..MaxCrashes /\ job \in [Job -> Row]
  BY DEF IInv, Basis, TypeOK
<1>3. \A j \in Job : job[j].attempts \in Nat
  BY <1>2 DEF Row
<1> QED BY <1>1, <1>2, <1>3

\* A row nobody touches keeps its tries.
LEMMA RowTries ==
  ASSUME IInv, Tries, crashes' = crashes, NEW j \in Job, job'[j] = job[j],
         \A w \in Workers : mine[w] = j => mine'[w] = j
  PROVE  /\ job'[j].attempts <= MaxAttempts + crashes'
         /\ Waits(j)' => job'[j].attempts < MaxAttempts + crashes'
BY DEF Tries, AttemptsBounded, TryLeft, Waits

LEMMA WorkKeepsTries ==
  ASSUME IInv, IInv', Tries, NEW w \in Workers, Work(w)
  PROVE  Tries'
<1>0. /\ Basis /\ mine \in [Workers -> Job \cup {NoJob}] /\ job \in [Job -> Row]
      /\ pc \in [Workers -> Labels] /\ NoJob \notin Job
  BY DEF IInv, Basis, TypeOK, Labels, Job, NoJob
<1>1. /\ MaxAttempts \in Nat /\ crashes \in Nat /\ crashes' = crashes
      /\ \A j \in Job : job[j].attempts \in Nat /\ job[j].attempts <= MaxAttempts + crashes
  BY Numbers DEF Tries, AttemptsBounded, Work, Poll, Claim, Build, Heartbeat, Limits, Start,
                 MarkRunning, FailGet, GiveUp, Requeue
<1>2. \A v \in Workers : v # w /\ mine[v] # NoJob => mine[v] # mine[w]
  BY InOneHand
<1>3. CASE Build(w) \/ MarkRunning(w) \/ GiveUp(w) \/ Requeue(w)
  <2>1. pc[w] \in Holding
    BY <1>3 DEF Build, MarkRunning, GiveUp, Requeue, Holding
  <2>2. mine[w] \in Job /\ job[mine[w]] \in Row
    BY <1>0, <2>1, HandTypes
  <2> PICK k \in Job : k = mine[w]
    BY <2>2
  <2>3. PICK r \in Row : Writes(w, r) /\ r.attempts = job[k].attempts
          /\ \/ Build(w) /\ r.status = "building"
             \/ r.status \in {"running", "failed"}
             \/ Requeue(w) /\ r.status = "queued"
    <3>1. \A r \in Row :
            /\ BuiltRow(r) \in Row /\ BuiltRow(r).status = "building" /\ BuiltRow(r).attempts = r.attempts
            /\ Running(r) \in Row /\ Running(r).status = "running" /\ Running(r).attempts = r.attempts
            /\ FailedRow(r) \in Row /\ FailedRow(r).status = "failed" /\ FailedRow(r).attempts = r.attempts
            /\ BackRow(r) \in Row /\ BackRow(r).status = "queued" /\ BackRow(r).attempts = r.attempts
      BY RowsWritten
    <3> QED BY <1>0, <1>3, <2>2, <3>1, BuildWrites, MarkWrites, GiveUpWrites, RequeueWrites
  <2>4. /\ \A i \in Job : i # k => job'[i] = job[i]
        /\ job'[k] = r
    BY <2>3 DEF Writes
  <2>5. \A v \in Workers : v # w => mine'[v] = mine[v] /\ pc'[v] = pc[v]
    BY <1>0, <1>3 DEF Build, MarkRunning, GiveUp, Requeue, Done, Goto
  <2>6. pc'[w] # "requeue"
    BY <1>0, <1>3 DEF Build, MarkRunning, GiveUp, Requeue, Done, Goto
  <2>7. \A i \in Job : i # k =>
          /\ job'[i].attempts <= MaxAttempts + crashes'
          /\ Waits(i)' => job'[i].attempts < MaxAttempts + crashes'
    BY <2>4, <2>5, <1>1, RowTries
  <2>8. /\ job'[k].attempts <= MaxAttempts + crashes'
        /\ Waits(k)' => job'[k].attempts < MaxAttempts + crashes'
    <3>1. job'[k].attempts = job[k].attempts
      BY <2>3, <2>4
    <3>2. CASE Build(w)
      <4>1. mine'[w] = k /\ job'[k].status \in {"building", "running", "failed"}
        <5>1. pc[w] = "build" /\ mine' = mine
          BY <3>2 DEF Build
        <5>2. ~Requeue(w)
          BY <5>1 DEF Requeue
        <5> QED BY <2>3, <2>4, <5>1, <5>2
      <4>2. ~Waits(k)'
        BY <4>1 DEF Waits
      <4> QED BY <1>1, <2>2, <3>1, <4>2
    <3>3. CASE Requeue(w)
      <4>1. job[k].attempts < MaxAttempts
        BY <3>3 DEF Requeue, Tries, TryLeft
      <4> QED BY <1>1, <2>2, <3>1, <4>1
    <3>4. CASE ~Build(w) /\ ~Requeue(w)
      <4>1. ~Waits(k)'
        BY <2>3, <2>4, <3>4 DEF Waits
      <4> QED BY <1>1, <2>2, <3>1, <4>1
    <3> QED BY <3>2, <3>3, <3>4
  <2>9. ASSUME NEW v \in Workers, pc'[v] = "requeue" PROVE job'[mine'[v]].attempts < MaxAttempts
    <3>1. v # w /\ pc[v] = "requeue" /\ mine'[v] = mine[v]
      BY <2>5, <2>6, <2>9
    <3>2. mine[v] \in Job /\ mine[v] # NoJob
      BY <1>0, <3>1, HandTypes DEF Holding
    <3>3. job[mine[v]].attempts < MaxAttempts
      BY <3>1 DEF Tries, TryLeft
    <3> QED BY <1>2, <2>4, <3>1, <3>2, <3>3
  <2> QED BY <2>7, <2>8, <2>9 DEF Tries, AttemptsBounded, TryLeft
<1>4. CASE Claim(w)
  <2>0. pc[w] = "claim" /\ mine[w] = NoJob
    BY <1>4 DEF Claim, IInv, Basis, InHand, Holding
  <2>1. \A j \in Job : Reclaimable(j) => Waits(j)
    BY <1>0, NotInHand DEF Waits, Reclaimable
  <2>2. \A j \in Job :
          /\ Reclaimed[j].attempts = job[j].attempts
          /\ Reclaimed[j] = job[j] \/ Waits(j)
    BY <1>0, <2>1, RowsReclaimed
  <2>3. \A v \in Workers : mine[v] # NoJob => mine[v] \in Job /\ Reclaimed[mine[v]] = job[mine[v]]
    BY <1>0, NotInHand, RowsReclaimed
  <2>4. ASSUME NEW j \in Job, job'[j] = Reclaimed[j],
               \A v \in Workers : v # w => mine'[v] = mine[v]
        PROVE  /\ job'[j].attempts <= MaxAttempts + crashes'
               /\ Waits(j)' => job'[j].attempts < MaxAttempts + crashes'
    <3>1. job'[j].attempts <= MaxAttempts + crashes'
      BY <1>1, <2>2, <2>4
    <3>2. CASE Waits(j)
      BY <1>1, <2>2, <2>4, <3>1, <3>2 DEF Tries, TryLeft
    <3>3. CASE job'[j] = job[j]
      <4>1. \A v \in Workers : mine[v] = j => mine'[v] = j
        BY <1>0, <2>0, <2>4
      <4> QED BY <1>1, <3>3, <4>1, RowTries
    <3> QED BY <2>2, <2>4, <3>2, <3>3
  <2>5. CASE job' = Reclaimed /\ Done(w) /\ beat' = beat
    <3>1. \A v \in Workers : v # w => mine'[v] = mine[v] /\ pc'[v] = pc[v]
      BY <1>0, <2>5 DEF Done, Goto
    <3>2. pc'[w] # "requeue"
      BY <1>0, <2>5 DEF Done, Goto
    <3>3. ASSUME NEW v \in Workers, pc'[v] = "requeue" PROVE job'[mine'[v]].attempts < MaxAttempts
      <4>1. v # w /\ pc[v] = "requeue" /\ mine'[v] = mine[v]
        BY <3>1, <3>2, <3>3
      <4>2. mine[v] # NoJob
        BY <1>0, <4>1, HandTypes DEF Holding
      <4> QED BY <2>3, <2>5, <4>1, <4>2 DEF Tries, TryLeft
    <3> QED BY <2>4, <2>5, <3>1, <3>3 DEF Tries, AttemptsBounded, TryLeft
  <2>6. CASE ~(job' = Reclaimed /\ Done(w) /\ beat' = beat)
    <3>1. PICK j \in Job : /\ job[j].status = "queued" \/ Reclaimable(j)
                           /\ \A i \in Job : i # j => job'[i] = Reclaimed[i]
                           /\ job'[j].status = "claimed"
                           /\ job'[j].attempts = job[j].attempts + 1
                           /\ mine' = [mine EXCEPT ![w] = j]
                           /\ pc' = [pc EXCEPT ![w] = "build"]
      BY <1>0, <1>4, <2>6, ClaimWrites
    <3>2. /\ mine'[w] = j /\ pc'[w] = "build"
          /\ \A v \in Workers : v # w => mine'[v] = mine[v] /\ pc'[v] = pc[v]
      BY <1>0, <3>1
    <3>3. Waits(j)
      BY <2>1, <3>1 DEF Waits
    <3>4. job'[j].attempts <= MaxAttempts + crashes' /\ ~Waits(j)'
      <4>1. job[j].attempts < MaxAttempts + crashes
        BY <3>3 DEF Tries, TryLeft
      <4>2. ~Waits(j)'
        BY <3>1, <3>2 DEF Waits
      <4> QED BY <1>1, <3>1, <4>1, <4>2
    <3>5. \A i \in Job : i # j =>
            /\ job'[i].attempts <= MaxAttempts + crashes'
            /\ Waits(i)' => job'[i].attempts < MaxAttempts + crashes'
      BY <2>4, <3>1, <3>2
    <3>6. ASSUME NEW v \in Workers, pc'[v] = "requeue" PROVE job'[mine'[v]].attempts < MaxAttempts
      <4>1. v # w /\ pc[v] = "requeue" /\ mine'[v] = mine[v]
        BY <3>2, <3>6
      <4>2. mine[v] \in Job /\ mine[v] # NoJob
        BY <1>0, <4>1, HandTypes DEF Holding
      <4>3. mine[v] # j
        BY <3>1, <4>2, NotInHand
      <4> QED BY <2>3, <3>1, <4>1, <4>2, <4>3 DEF Tries, TryLeft
    <3> QED BY <3>4, <3>5, <3>6 DEF Tries, AttemptsBounded, TryLeft
  <2> QED BY <2>5, <2>6
<1>5. CASE Poll(w) \/ Heartbeat(w) \/ Limits(w) \/ Start(w) \/ FailGet(w)
  <2>1. UNCHANGED <<job, mine>>
    BY <1>5 DEF Poll, Heartbeat, Limits, Start, FailGet
  <2>2. \A v \in Workers : v # w => pc'[v] = pc[v]
    BY <1>0, <1>5 DEF Poll, Heartbeat, Limits, Start, FailGet, Goto, Deny
  <2>3. pc'[w] = "requeue" => FailGet(w)
    BY <1>0, <1>5 DEF Poll, Heartbeat, Limits, Start, Goto, Deny
  <2>4. ASSUME FailGet(w), pc'[w] = "requeue" PROVE job[mine[w]].attempts < MaxAttempts
    <3>1. pc[w] \in Holding /\ ~OutOfAttempts(job[mine[w]])
      BY <1>0, <2>4 DEF FailGet, Goto, Holding
    <3>2. mine[w] \in Job
      BY <1>0, <3>1, HandTypes
    <3> QED BY <1>1, <3>1, <3>2 DEF OutOfAttempts
  <2>5. \A v \in Workers : pc'[v] = "requeue" => job'[mine'[v]].attempts < MaxAttempts
    BY <2>1, <2>2, <2>3, <2>4 DEF Tries, TryLeft
  <2>6. \A j \in Job : /\ job'[j].attempts <= MaxAttempts + crashes'
                       /\ Waits(j)' => job'[j].attempts < MaxAttempts + crashes'
    BY <1>1, <2>1, RowTries
  <2> QED BY <2>5, <2>6 DEF Tries, AttemptsBounded, TryLeft
<1> QED BY <1>3, <1>4, <1>5 DEF Work

LEMMA NextTries ==
  ASSUME MaxAttempts > 0, IInv, IInv', Tries, [Next]_vars
  PROVE  Tries'
<1>0. /\ Basis /\ mine \in [Workers -> Job \cup {NoJob}] /\ job \in [Job -> Row]
      /\ pc \in [Workers -> Labels]
  BY DEF IInv, Basis, TypeOK, Labels
<1>1. MaxAttempts \in Nat /\ crashes \in Nat /\ \A j \in Job : job[j].attempts \in Nat
  BY Numbers
<1>2. ASSUME UNCHANGED <<job, mine, pc, crashes>> PROVE Tries'
  BY <1>2 DEF Tries, AttemptsBounded, TryLeft, Waits
<1>3. ASSUME NEW c \in Clients, Insert(c) PROVE Tries'
  <2>1. UNCHANGED <<mine, pc, crashes>>
    BY <1>3 DEF Insert, worker
  <2>2. /\ want[c] \in Job /\ job'[want[c]].attempts = 0 /\ job[want[c]].status = "absent"
        /\ \A i \in Job : i # want[c] => job'[i] = job[i]
    BY <1>0, <1>3, InsertWrites, RowInserted, RequestTypes DEF Insert
  <2>3. \A w \in Workers : pc[w] = "requeue" => mine[w] # want[c]
    BY <1>0, <2>2, HandTypes DEF Holding
  <2>4. \A j \in Job : j # want[c] =>
          /\ job'[j].attempts <= MaxAttempts + crashes'
          /\ Waits(j)' => job'[j].attempts < MaxAttempts + crashes'
    BY <2>1, <2>2, RowTries
  <2>5. job'[want[c]].attempts < MaxAttempts + crashes'
        /\ job'[want[c]].attempts <= MaxAttempts + crashes'
    BY <1>1, <2>1, <2>2
  <2>6. \A w \in Workers : pc'[w] = "requeue" => job'[mine'[w]].attempts < MaxAttempts
    <3>1. \A w \in Workers : pc[w] = "requeue" => mine[w] \in Job
      BY <1>0, HandTypes DEF Holding
    <3> QED BY <2>1, <2>2, <2>3, <3>1 DEF Tries, TryLeft
  <2> QED BY <2>4, <2>5, <2>6 DEF Tries, AttemptsBounded, TryLeft
<1>4. ASSUME NEW w \in Workers, Crash(w) PROVE Tries'
  <2>1. job' = job /\ crashes' = crashes + 1
    BY <1>4 DEF Crash
  <2>2. \A v \in Workers : pc'[v] = "requeue" => pc[v] = "requeue" /\ mine'[v] = mine[v]
    BY <1>0, <1>4 DEF Crash, Done, Goto
  <2>3. \A j \in Job : job'[j].attempts < MaxAttempts + crashes'
                       /\ job'[j].attempts <= MaxAttempts + crashes'
    BY <1>1, <2>1 DEF Tries, AttemptsBounded
  <2> QED BY <2>1, <2>2, <2>3 DEF Tries, AttemptsBounded, TryLeft
<1>5. ASSUME NEW c \in Clients, Ask(c) \/ CheckPlan(c) \/ CountQueued(c) PROVE Tries'
  BY <1>2, <1>5 DEF Ask, CheckPlan, CountQueued, worker
<1>6. ASSUME NEW j \in Job, Expire(j) \/ Stop(j) PROVE Tries'
  BY <1>2, <1>6 DEF Expire, Stop, worker
<1>7. ASSUME UNCHANGED vars PROVE Tries'
  BY <1>2, <1>7 DEF vars, worker
<1> QED BY <1>3, <1>4, <1>5, <1>6, <1>7, WorkKeepsTries DEF Next, Serve

-----------------------------------------------------------------------------
(* The cap on queued jobs, with one process that enqueues                  *)

OneClient == \A c, d \in Clients : c = d

ActiveOf(u, rows) == {j \in Job : UserOf[j] = u /\ rows[j].status \in Active}

\* The count that CountQueued took still holds when Insert writes.
RoomLeft ==
  \A c \in Clients : cpc[c] = "insert" => Cardinality(ActiveOf(UserOf[want[c]], job)) < MaxQueued

Capped == \A u \in {UserOf[j] : j \in Job} : Cardinality(ActiveOf(u, job)) <= MaxQueued

CapInv == Capped /\ RoomLeft

LEMMA CountsAreNatural ==
  ASSUME NEW u
  PROVE  IsFiniteSet(ActiveOf(u, job)) /\ Cardinality(ActiveOf(u, job)) \in Nat
<1>1. IsFiniteSet(Job)
  BY CountAssumption, FS_Interval DEF Job
<1>2. IsFiniteSet(ActiveOf(u, job))
  BY <1>1, FS_Subset DEF ActiveOf
<1> QED BY <1>2, FS_CardinalityType

\* Once running or failed a job is active no more: only Insert adds one.
LEMMA WorkAddsNone ==
  ASSUME IInv, NEW w \in Workers, Work(w), NEW j \in Job, job'[j].status \in Active
  PROVE  job[j].status \in Active
<1>0. Basis /\ job \in [Job -> Row]
  BY DEF IInv, Basis, TypeOK
<1>1. CASE Build(w) \/ MarkRunning(w) \/ GiveUp(w) \/ Requeue(w)
  <2>1. pc[w] \in Holding
    BY <1>1 DEF Build, MarkRunning, GiveUp, Requeue, Holding
  <2>2. mine[w] # NoJob /\ job[mine[w]] \in Row
    BY <1>0, <2>1, HandTypes DEF Basis, InHand
  <2>3. job[mine[w]].status \in Active
    BY <2>2 DEF IInv, OwnerWorks, Active
  <2>4. \E r \in Row : Writes(w, r)
    BY <1>0, <1>1, <2>2, RowsWritten, BuildWrites, MarkWrites, GiveUpWrites, RequeueWrites
  <2> QED BY <2>3, <2>4 DEF Writes
<1>2. CASE Claim(w)
  <2>1. \A i \in Job : Reclaimed[i].status \in Active => job[i].status \in Active
    BY <1>0, RowsReclaimed DEF Reclaimable, Active
  <2>2. \/ job' = Reclaimed
        \/ \E i \in Job : /\ job[i].status = "queued" \/ Reclaimable(i)
                          /\ \A k \in Job : k # i => job'[k] = Reclaimed[k]
    BY <1>0, <1>2, ClaimWrites
  <2> QED BY <2>1, <2>2 DEF Reclaimable, Active
<1>3. CASE Poll(w) \/ Heartbeat(w) \/ Limits(w) \/ Start(w) \/ FailGet(w)
  BY <1>3 DEF Poll, Heartbeat, Limits, Start, FailGet
<1> QED BY <1>1, <1>2, <1>3 DEF Work

LEMMA CountsOnlyFall ==
  ASSUME NEW u, \A j \in Job : job'[j].status \in Active => job[j].status \in Active
  PROVE  Cardinality(ActiveOf(u, job')) <= Cardinality(ActiveOf(u, job))
<1>1. ActiveOf(u, job') \in SUBSET ActiveOf(u, job)
  BY DEF ActiveOf
<1> QED BY <1>1, CountsAreNatural, FS_Subset

LEMMA CapKept ==
  ASSUME CapInv, IInv, \A j \in Job : job'[j].status \in Active => job[j].status \in Active,
         \A c \in Clients : cpc'[c] = "insert" =>
           want'[c] = want[c] /\ (cpc[c] = "insert" \/ ~QueueFull(UserOf[want[c]]))
  PROVE  CapInv'
<1>0. MaxQueued \in Nat
  BY CountAssumption
<1>1. ASSUME NEW u PROVE /\ Cardinality(ActiveOf(u, job')) <= Cardinality(ActiveOf(u, job))
                         /\ Cardinality(ActiveOf(u, job)) \in Nat /\ Cardinality(ActiveOf(u, job')) \in Nat
  <2>1. Cardinality(ActiveOf(u, job')) <= Cardinality(ActiveOf(u, job))
    BY CountsOnlyFall
  <2>2. ActiveOf(u, job') \in SUBSET ActiveOf(u, job)
    BY DEF ActiveOf
  <2>3. IsFiniteSet(ActiveOf(u, job'))
    BY <2>2, CountsAreNatural, FS_Subset
  <2> QED BY <2>1, <2>3, CountsAreNatural, FS_CardinalityType
<1>2. Capped'
  <2> SUFFICES ASSUME NEW j \in Job PROVE Cardinality(ActiveOf(UserOf[j], job')) <= MaxQueued
    BY DEF Capped
  <2>1. Cardinality(ActiveOf(UserOf[j], job)) <= MaxQueued
    BY DEF CapInv, Capped
  <2> QED BY <1>0, <1>1, <2>1
<1>3. RoomLeft'
  <2> SUFFICES ASSUME NEW c \in Clients, cpc'[c] = "insert"
               PROVE  Cardinality(ActiveOf(UserOf[want'[c]], job')) < MaxQueued
    BY DEF RoomLeft
  <2> DEFINE u == UserOf[want[c]]
  <2>1. want'[c] = want[c]
    OBVIOUS
  <2>2. Cardinality(ActiveOf(u, job)) < MaxQueued
    <3>1. CASE cpc[c] = "insert"
      BY <3>1 DEF CapInv, RoomLeft
    <3>2. CASE ~QueueFull(u)
      <4>1. ~(Cardinality(ActiveOf(u, job)) >= MaxQueued)
        BY <3>2 DEF QueueFull, RowsOf, ActiveOf
      <4>2. Cardinality(ActiveOf(u, job)) \in Nat
        BY CountsAreNatural
      <4> QED BY <1>0, <4>1, <4>2
    <3> QED BY <3>1, <3>2
  <2>3. Cardinality(ActiveOf(u, job')) < MaxQueued
    BY <1>0, <1>1, <2>2
  <2> QED BY <2>1, <2>3
<1> QED BY <1>2, <1>3 DEF CapInv

LEMMA NextCap == ASSUME OneClient, IInv, CapInv, [Next]_vars PROVE CapInv'
<1>0. /\ cpc \in [Clients -> {"idle", "plan", "count", "insert"}]
      /\ want \in [Clients -> Job \cup {NoJob}] /\ Basis /\ MaxQueued \in Nat
  BY CountAssumption DEF IInv, Basis, TypeOK
<1>1. ASSUME NEW w \in Workers, Work(w) PROVE CapInv'
  BY <1>0, <1>1, WorkAddsNone, WorkKeepsRows, CapKept DEF client
<1>2. ASSUME NEW c \in Clients, Ask(c) \/ CheckPlan(c) \/ CountQueued(c) PROVE CapInv'
  <2>1. job' = job
    BY <1>2 DEF Ask, CheckPlan, CountQueued
  <2>2. /\ \A d \in Clients : d # c => cpc'[d] = cpc[d] /\ want'[d] = want[d]
        /\ cpc'[c] = "insert" => want'[c] = want[c] /\ ~QueueFull(UserOf[want[c]])
    BY <1>0, <1>2 DEF Ask, CheckPlan, CountQueued, Settle, Step
  <2> QED BY <2>1, <2>2, CapKept
<1>3. ASSUME NEW c \in Clients, Insert(c) PROVE CapInv'
  <2>1. /\ cpc[c] = "insert" /\ cpc' = [cpc EXCEPT ![c] = "idle"]
    BY <1>3 DEF Insert, Settle
  <2>2. RoomLeft'
    BY <1>0, <2>1 DEF OneClient, RoomLeft
  <2>3. PICK k \in Job : /\ k = want[c] /\ job[k].status = "absent" /\ job'[k] = NewRow
                         /\ \A i \in Job : i # k => job'[i] = job[i]
    BY <1>0, <1>3, <2>1, InsertWrites, RequestTypes
  <2>4. Cardinality(ActiveOf(UserOf[k], job)) < MaxQueued
    BY <2>1, <2>3 DEF CapInv, RoomLeft
  <2>5. ASSUME NEW j \in Job PROVE Cardinality(ActiveOf(UserOf[j], job')) <= MaxQueued
    <3>1. CASE UserOf[j] = UserOf[k]
      <4>1. ActiveOf(UserOf[j], job') = ActiveOf(UserOf[k], job) \cup {k} /\ k \notin ActiveOf(UserOf[k], job)
        BY <2>3, <3>1, RowInserted DEF ActiveOf, Active
      <4>2. Cardinality(ActiveOf(UserOf[j], job')) = Cardinality(ActiveOf(UserOf[k], job)) + 1
        BY <4>1, CountsAreNatural, FS_AddElement
      <4>3. Cardinality(ActiveOf(UserOf[k], job)) \in Nat
        BY CountsAreNatural
      <4> QED BY <1>0, <2>4, <4>2, <4>3
    <3>2. CASE UserOf[j] # UserOf[k]
      <4>1. ActiveOf(UserOf[j], job') = ActiveOf(UserOf[j], job)
        BY <2>3, <3>2 DEF ActiveOf
      <4> QED BY <4>1 DEF CapInv, Capped
    <3> QED BY <3>1, <3>2
  <2>6. Capped'
    BY <2>5 DEF Capped
  <2> QED BY <2>2, <2>6 DEF CapInv
<1>4. ASSUME UNCHANGED <<job, cpc, want>> PROVE CapInv'
  BY <1>4, CapKept
<1>5. ASSUME NEW w \in Workers, Crash(w) PROVE CapInv'
  BY <1>4, <1>5 DEF Crash, client
<1>6. ASSUME NEW j \in Job, Expire(j) \/ Stop(j) PROVE CapInv'
  BY <1>4, <1>6 DEF Expire, Stop, client
<1>7. ASSUME UNCHANGED vars PROVE CapInv'
  BY <1>4, <1>7 DEF vars, client
<1> QED BY <1>1, <1>2, <1>3, <1>5, <1>6, <1>7 DEF Next, Serve

-----------------------------------------------------------------------------
(* Sandboxes                                                               *)

\* A worker has started a job's bot and not said so yet.
Marking(w, j) == pc[w] = "mark" /\ mine[w] = j

\* A job that no worker will start again: it runs, or it is about to.
Placed(j) == job[j].status = "running" \/ \E w \in Workers : Marking(w, j)

\* Every bot of a job but one was left by a crash.
StartsBounded == \A j \in Job : Cardinality(bots[j]) <= 1 + crashes

BotsCounted ==
  \A j \in Job : /\ IsFiniteSet(bots[j])
                 /\ Cardinality(bots[j]) <= crashes + (IF Placed(j) THEN 1 ELSE 0)

LEMMA BotsAreNumbers ==
  ASSUME NEW S, IsFiniteSet(S)
  PROVE  Cardinality(S) \in Nat
BY FS_CardinalityType

\* A step in which no job is started, and none that is placed is moved.
LEMMA BotsKept ==
  ASSUME BotsCounted, bots' = bots, crashes' = crashes, crashes \in Nat,
         \A j \in Job : Placed(j) => Placed(j)'
  PROVE  BotsCounted'
<1> SUFFICES ASSUME NEW j \in Job
             PROVE  /\ IsFiniteSet(bots'[j])
                    /\ Cardinality(bots'[j]) <= crashes' + (IF Placed(j)' THEN 1 ELSE 0)
  BY DEF BotsCounted
<1>1. IsFiniteSet(bots[j]) /\ Cardinality(bots[j]) <= crashes + (IF Placed(j) THEN 1 ELSE 0)
  BY DEF BotsCounted
<1>2. Cardinality(bots[j]) \in Nat
  BY <1>1, BotsAreNumbers
<1>3. CASE Placed(j)
  BY <1>1, <1>2, <1>3
<1>4. CASE ~Placed(j)
  BY <1>1, <1>2, <1>4
<1> QED BY <1>3, <1>4

\* A worker that is not crashing leaves what is placed in its place.
LEMMA WorkKeepsPlaces ==
  ASSUME IInv, NEW w \in Workers, Work(w), NEW j \in Job, Placed(j)
  PROVE  Placed(j)'
<1>0. /\ Basis /\ job \in [Job -> Row] /\ pc \in [Workers -> Labels]
      /\ mine \in [Workers -> Job \cup {NoJob}] /\ NoJob \notin Job
  BY DEF IInv, Basis, TypeOK, Labels, Job, NoJob
<1>1. ASSUME job[j].status = "running" PROVE job'[j].status = "running"
  <2>1. CASE Build(w) \/ MarkRunning(w) \/ GiveUp(w) \/ Requeue(w)
    <3>1. pc[w] \in Holding
      BY <2>1 DEF Build, MarkRunning, GiveUp, Requeue, Holding
    <3>2. mine[w] \in Job /\ job[mine[w]] \in Row /\ mine[w] # NoJob
      BY <1>0, <3>1, HandTypes
    <3>3. mine[w] # j
      BY <1>1, <3>2 DEF IInv, OwnerWorks
    <3>4. \E r \in Row : Writes(w, r)
      BY <1>0, <2>1, <3>2, RowsWritten, BuildWrites, MarkWrites, GiveUpWrites, RequeueWrites
    <3> QED BY <1>1, <3>3, <3>4 DEF Writes
  <2>2. CASE Claim(w)
    <3>1. Reclaimed[j] = job[j]
      BY <1>0, <1>1, RowsReclaimed DEF Reclaimable
    <3>2. CASE job' = Reclaimed
      BY <1>1, <3>1, <3>2
    <3>3. CASE job' # Reclaimed
      <4>1. PICK i \in Job : /\ job[i].status = "queued" \/ Reclaimable(i)
                             /\ \A k \in Job : k # i => job'[k] = Reclaimed[k]
        BY <1>0, <2>2, <3>3, ClaimWrites
      <4>2. i # j
        BY <1>1, <4>1 DEF Reclaimable
      <4> QED BY <1>1, <3>1, <4>1, <4>2
    <3> QED BY <3>2, <3>3
  <2>3. CASE Poll(w) \/ Heartbeat(w) \/ Limits(w) \/ Start(w) \/ FailGet(w)
    BY <1>1, <2>3 DEF Poll, Heartbeat, Limits, Start, FailGet
  <2> QED BY <2>1, <2>2, <2>3 DEF Work
<1>2. ASSUME NEW v \in Workers, Marking(v, j) PROVE Placed(j)'
  <2>1. CASE v = w
    <3>1. MarkRunning(w)
      BY <1>2, <2>1 DEF Marking, Work, Poll, Claim, Build, Heartbeat, Limits, Start, FailGet,
                        GiveUp, Requeue
    <3>2. pc[w] \in Holding
      BY <3>1 DEF MarkRunning, Holding
    <3>3. job[mine[w]] \in Row /\ Writes(w, Running(job[mine[w]]))
      BY <1>0, <3>1, <3>2, HandTypes, MarkWrites
    <3>4. Running(job[mine[w]]).status = "running"
      BY <3>3, RowsWritten
    <3>5. job'[j].status = "running"
      BY <1>2, <2>1, <3>3, <3>4 DEF Marking, Writes
    <3> QED BY <3>5 DEF Placed
  <2>2. CASE v # w
    <3>1. pc'[v] = pc[v] /\ mine'[v] = mine[v]
      BY <1>0, <2>2 DEF Work, Poll, Claim, Build, Heartbeat, Limits, Start, MarkRunning, FailGet,
                        GiveUp, Requeue, Goto, Done, Deny
    <3> QED BY <1>2, <3>1 DEF Placed, Marking
  <2> QED BY <2>1, <2>2
<1> QED BY <1>1, <1>2 DEF Placed

\* A job that is started was not placed, and now it is.
LEMMA StartCounted ==
  ASSUME IInv, BotsCounted, NEW w \in Workers, Start(w)
  PROVE  BotsCounted'
<1>0. /\ Basis /\ bots \in [Job -> SUBSET Workers] /\ pc \in [Workers -> Labels]
      /\ mine' = mine /\ job' = job /\ crashes' = crashes /\ crashes \in Nat
      /\ pc[w] = "start"
  BY Numbers DEF IInv, Basis, TypeOK, Labels, Start
<1>1. mine[w] \in Job /\ mine[w] # NoJob
  BY <1>0, HandTypes DEF Holding, Job, NoJob
<1>2. \A j \in Job : Placed(j) => Placed(j)'
  BY WorkKeepsPlaces DEF Work
<1>3. CASE bots' = bots
  BY <1>0, <1>2, <1>3, BotsKept
<1>4. CASE bots' # bots
  <2> PICK k \in Job : k = mine[w]
    BY <1>1
  <2>1. /\ bots' = [bots EXCEPT ![k] = bots[k] \cup {w}]
        /\ pc' = [pc EXCEPT ![w] = "mark"]
    BY <1>4 DEF Start, Goto
  <2>2. /\ bots'[k] = bots[k] \cup {w}
        /\ \A j \in Job : j # k => bots'[j] = bots[j]
    BY <1>0, <2>1
  <2>3. Placed(k)'
    BY <1>0, <2>1 DEF Placed, Marking
  <2>4. ~Placed(k)
    <3>1. job[k].status # "running"
      BY <1>1 DEF IInv, OwnerWorks
    <3>2. \A v \in Workers : mine[v] = k => v = w
      BY <1>1, InOneHand
    <3> QED BY <1>0, <3>1, <3>2 DEF Placed, Marking
  <2>5. IsFiniteSet(bots[k]) /\ Cardinality(bots[k]) <= crashes
    <3>1. Cardinality(bots[k]) <= crashes + 0 /\ IsFiniteSet(bots[k])
      BY <2>4 DEF BotsCounted
    <3> QED BY <1>0, <3>1
  <2>6. IsFiniteSet(bots'[k]) /\ Cardinality(bots'[k]) <= crashes + 1
    <3>1. /\ IsFiniteSet(bots[k] \cup {w})
          /\ \/ Cardinality(bots[k] \cup {w}) = Cardinality(bots[k])
             \/ Cardinality(bots[k] \cup {w}) = Cardinality(bots[k]) + 1
      BY <2>5, FS_AddElement
    <3>2. Cardinality(bots[k]) \in Nat
      BY <2>5, BotsAreNumbers
    <3> QED BY <1>0, <2>2, <2>5, <3>1, <3>2
  <2>7. ASSUME NEW j \in Job, j # k
        PROVE  /\ IsFiniteSet(bots'[j])
               /\ Cardinality(bots'[j]) <= crashes' + (IF Placed(j)' THEN 1 ELSE 0)
    <3>1. bots'[j] = bots[j] /\ IsFiniteSet(bots[j])
          /\ Cardinality(bots[j]) <= crashes + (IF Placed(j) THEN 1 ELSE 0)
      BY <2>2, <2>7 DEF BotsCounted
    <3>2. Cardinality(bots[j]) \in Nat
      BY <3>1, BotsAreNumbers
    <3>3. CASE Placed(j)
      BY <1>0, <1>2, <3>1, <3>2, <3>3
    <3>4. CASE ~Placed(j)
      BY <1>0, <3>1, <3>2, <3>4
    <3> QED BY <3>3, <3>4
  <2> QED BY <1>0, <2>3, <2>6, <2>7 DEF BotsCounted
<1> QED BY <1>3, <1>4

LEMMA NextBots == ASSUME IInv, BotsCounted, [Next]_vars PROVE BotsCounted'
<1>0. /\ Basis /\ crashes \in Nat /\ bots \in [Job -> SUBSET Workers] /\ job \in [Job -> Row]
  BY Numbers DEF IInv, Basis, TypeOK
<1>1. ASSUME NEW w \in Workers, Work(w) PROVE BotsCounted'
  <2>1. CASE Start(w)
    BY <2>1, StartCounted
  <2>2. CASE ~Start(w)
    <3>1. bots' = bots /\ crashes' = crashes
      BY <1>1, <2>2 DEF Work, Poll, Claim, Build, Heartbeat, Limits, MarkRunning, FailGet, GiveUp,
                        Requeue
    <3> QED BY <1>0, <1>1, <3>1, WorkKeepsPlaces, BotsKept
  <2> QED BY <2>1, <2>2
<1>2. ASSUME NEW c \in Clients, Ask(c) \/ Serve(c) PROVE BotsCounted'
  <2>1. bots' = bots /\ crashes' = crashes /\ pc' = pc /\ mine' = mine
    BY <1>2 DEF Ask, Serve, CheckPlan, CountQueued, Insert, worker
  <2>2. ASSUME NEW j \in Job, job[j].status = "running" PROVE job'[j].status = "running"
    <3>1. CASE job' = job
      BY <2>2, <3>1
    <3>2. CASE Insert(c)
      <4>1. job[want[c]].status = "absent" /\ \A i \in Job : i # want[c] => job'[i] = job[i]
        BY <1>0, <3>2, InsertWrites, RequestTypes DEF Insert
      <4> QED BY <2>2, <4>1
    <3> QED BY <1>2, <3>1, <3>2 DEF Ask, Serve, CheckPlan, CountQueued
  <2>3. \A j \in Job : Placed(j) => Placed(j)'
    BY <2>1, <2>2 DEF Placed, Marking
  <2> QED BY <1>0, <2>1, <2>3, BotsKept
<1>3. ASSUME NEW w \in Workers, Crash(w) PROVE BotsCounted'
  <2> SUFFICES ASSUME NEW j \in Job
               PROVE  /\ IsFiniteSet(bots'[j])
                      /\ Cardinality(bots'[j]) <= crashes' + (IF Placed(j)' THEN 1 ELSE 0)
    BY DEF BotsCounted
  <2>1. bots' = bots /\ crashes' = crashes + 1
    BY <1>3 DEF Crash
  <2>2. IsFiniteSet(bots[j]) /\ Cardinality(bots[j]) <= crashes + (IF Placed(j) THEN 1 ELSE 0)
    BY DEF BotsCounted
  <2>3. Cardinality(bots[j]) <= crashes + 1
    <3>1. Cardinality(bots[j]) \in Nat
      BY <2>2, BotsAreNumbers
    <3> QED BY <1>0, <2>2, <3>1
  <2>4. Cardinality(bots'[j]) <= crashes' /\ crashes' \in Nat /\ Cardinality(bots'[j]) \in Nat
    BY <1>0, <2>1, <2>2, <2>3, BotsAreNumbers
  <2> QED BY <2>1, <2>2, <2>4
<1>4. ASSUME NEW j \in Job, Stop(j) PROVE BotsCounted'
  <2>1. UNCHANGED <<job, pc, mine, crashes>> /\ bots' = [bots EXCEPT ![j] = {}]
    BY <1>4 DEF Stop, worker
  <2>2. bots'[j] = {} /\ \A i \in Job : i # j => bots'[i] = bots[i]
    BY <1>0, <2>1
  <2>3. \A i \in Job : Placed(i)' <=> Placed(i)
    BY <2>1 DEF Placed, Marking
  <2>4. IsFiniteSet({}) /\ Cardinality({}) = 0
    BY FS_EmptySet
  <2>5. 0 <= crashes + (IF Placed(j) THEN 1 ELSE 0)
    BY <1>0
  <2> QED BY <2>1, <2>2, <2>3, <2>4, <2>5 DEF BotsCounted
<1>5. ASSUME (\E j \in Job : Expire(j)) \/ UNCHANGED vars PROVE BotsCounted'
  <2>1. UNCHANGED <<job, pc, mine, bots, crashes>>
    BY <1>5 DEF Expire, vars, worker
  <2>2. \A j \in Job : Placed(j) => Placed(j)'
    BY <2>1 DEF Placed, Marking
  <2> QED BY <1>0, <2>1, <2>2, BotsKept
<1> QED BY <1>1, <1>2, <1>3, <1>4, <1>5 DEF Next

LEMMA InitBots == Init => BotsCounted
<1> SUFFICES ASSUME Init, NEW j \in Job
             PROVE  /\ IsFiniteSet(bots[j])
                    /\ Cardinality(bots[j]) <= crashes + (IF Placed(j) THEN 1 ELSE 0)
  BY DEF BotsCounted
<1>1. bots[j] = {} /\ crashes = 0
  BY DEF Init
<1> QED BY <1>1, FS_EmptySet

LEMMA CountedAreBounded == IInv /\ BotsCounted => StartsBounded
<1> SUFFICES ASSUME IInv, BotsCounted, NEW j \in Job PROVE Cardinality(bots[j]) <= 1 + crashes
  BY DEF StartsBounded
<1>1. IsFiniteSet(bots[j]) /\ Cardinality(bots[j]) <= crashes + (IF Placed(j) THEN 1 ELSE 0)
  BY DEF BotsCounted
<1>2. Cardinality(bots[j]) \in Nat /\ crashes \in Nat
  BY <1>1, BotsAreNumbers, Numbers
<1> QED BY <1>1, <1>2

-----------------------------------------------------------------------------
(* The board of jobs                                                       *)

Stages == [j \in Job |-> StageOf(j)]
Launched == [w \in Workers |-> pc[w] = "mark"]

LEMMA StagesKept ==
  ASSUME \A i \in Job : StageOf(i)' = StageOf(i)
  PROVE  Stages' = Stages
BY DEF Stages

LEMMA StageSet ==
  ASSUME NEW j \in Job, NEW s, StageOf(j)' = s, \A i \in Job : i # j => StageOf(i)' = StageOf(i)
  PROVE  Stages' = [Stages EXCEPT ![j] = s]
BY DEF Stages

LEMMA LaunchedKept ==
  ASSUME \A v \in Workers : pc'[v] = "mark" <=> pc[v] = "mark"
  PROVE  Launched' = Launched
BY Zenon DEF Launched

LEMMA LaunchedSet ==
  ASSUME NEW w \in Workers, NEW b \in BOOLEAN, pc'[w] = "mark" <=> b,
         \A v \in Workers : v # w => pc'[v] = pc[v]
  PROVE  Launched' = [Launched EXCEPT ![w] = b]
BY DEF Launched

\* Steps that the board does not see.
Unseen == Stages' = Stages /\ mine' = mine /\ Launched' = Launched /\ bots' = bots

LEMMA UnseenStutters == Unseen => UNCHANGED Board!vars
BY DEF Unseen, Board!vars, Stages, Launched

LEMMA BoardTypes ==
  ASSUME IInv
  PROVE  /\ job \in [Job -> Row] /\ pc \in [Workers -> Labels] /\ bots \in [Job -> SUBSET Workers]
         /\ mine \in [Workers -> Job \cup {NoJob}] /\ NoJob \notin Job
BY DEF IInv, Basis, TypeOK, Labels, Job, NoJob

\* Only w's place changes, and what it has launched by b.
LEMMA Moves ==
  ASSUME IInv, NEW w \in Workers, NEW l \in Labels, pc' = [pc EXCEPT ![w] = l]
  PROVE  /\ (l = "mark" <=> pc[w] = "mark") => Launched' = Launched
         /\ l = "mark" => Launched' = [Launched EXCEPT ![w] = TRUE]
         /\ l # "mark" => Launched' = [Launched EXCEPT ![w] = FALSE]
<1>1. pc'[w] = l /\ \A v \in Workers : v # w => pc'[v] = pc[v]
  BY BoardTypes
<1>2. (l = "mark" <=> pc[w] = "mark") => Launched' = Launched
  BY <1>1, LaunchedKept
<1>3. l = "mark" => Launched' = [Launched EXCEPT ![w] = TRUE]
  BY <1>1, LaunchedSet
<1>4. l # "mark" => Launched' = [Launched EXCEPT ![w] = FALSE]
  BY <1>1, LaunchedSet
<1> QED BY <1>2, <1>3, <1>4

LEMMA InsertAdds ==
  ASSUME IInv, NEW c \in Clients, Insert(c)
  PROVE  \E j \in Job : Board!Add(j)
<1> PICK j : j = want[c]
  OBVIOUS
<1>1. /\ j \in Job /\ job'[j] = NewRow /\ \A i \in Job : i # j => job'[i] = job[i]
  BY InsertWrites DEF IInv
<1>2. job[j].status = "absent"
  BY RequestTypes DEF IInv, Insert
<1>3. StageOf(j) = "absent" /\ StageOf(j)' = "open"
  BY <1>1, <1>2, RowInserted DEF StageOf, Active
<1>4. \A i \in Job : i # j => StageOf(i)' = StageOf(i)
  BY <1>1 DEF StageOf
<1>5. Stages[j] = "absent" /\ Stages' = [Stages EXCEPT ![j] = "open"]
  BY <1>1, <1>3, <1>4, StageSet DEF Stages
<1>6. Launched' = Launched /\ mine' = mine /\ bots' = bots
  BY DEF Insert, worker, Launched
<1>7. Board!Add(j)
  BY <1>5, <1>6 DEF Board!Add, Stages, Launched
<1> QED BY <1>1, <1>7

LEMMA WaitsUnseen ==
  ASSUME IInv, NEW w \in Workers, Poll(w) \/ Heartbeat(w) \/ Limits(w) \/ FailGet(w)
  PROVE  Unseen
<1>1. /\ job' = job /\ mine' = mine /\ bots' = bots /\ pc[w] # "mark"
      /\ \E l \in Labels \ {"mark"} : pc' = [pc EXCEPT ![w] = l]
  BY DEF Poll, Heartbeat, Limits, FailGet, Goto, Deny, Labels
<1>2. Stages' = Stages
  BY <1>1 DEF Stages, StageOf
<1>3. Launched' = Launched
  BY <1>1, Moves
<1> QED BY <1>1, <1>2, <1>3 DEF Unseen

LEMMA BuildUnseen ==
  ASSUME IInv, NEW w \in Workers, Build(w)
  PROVE  Unseen
<1> PICK j : j = mine[w]
  OBVIOUS
<1>1. pc[w] \in Holding /\ pc[w] # "mark" /\ pc' = [pc EXCEPT ![w] = "beat"]
  BY DEF Build, Holding, Goto
<1>2. j \in Job /\ job[j] \in Row /\ Writes(w, BuiltRow(job[j]))
  BY <1>1, HandTypes, BuildWrites DEF IInv
<1>3. /\ job'[j].status = "building" /\ \A i \in Job : i # j => job'[i] = job[i]
  <2>1. BuiltRow(job[j]).status = "building"
    BY <1>2, RowsWritten
  <2> QED BY <1>2, <2>1 DEF Writes
<1>4. job[j].status \in {"claimed", "building"}
  BY <1>2, BoardTypes DEF IInv, OwnerWorks
<1>5. \A i \in Job : StageOf(i)' = StageOf(i)
  BY <1>3, <1>4 DEF StageOf, Active
<1>6. Launched' = Launched
  BY <1>1, Moves DEF Labels
<1> QED BY <1>5, <1>6, StagesKept DEF Unseen, Build

\* claim_next takes an open job out of nobody's hand, or finds none.
LEMMA ClaimTakes ==
  ASSUME IInv, NEW w \in Workers, Claim(w)
  PROVE  Unseen \/ \E j \in Job : Board!Take(w, j)
<1>0. Basis /\ pc[w] = "claim" /\ mine[w] = NoJob /\ bots' = bots
  BY DEF IInv, Basis, InHand, Holding, Claim
<1>1. \A i \in Job : Reclaimed[i].status \in Active <=> job[i].status \in Active
  BY BoardTypes, RowsReclaimed DEF Reclaimable, Active
<1>2. \A i \in Job : job[i].status \notin Active => Reclaimed[i] = job[i]
  BY BoardTypes, RowsReclaimed DEF Reclaimable, Active
<1>3. CASE job' = Reclaimed /\ Done(w) /\ beat' = beat
  <2>1. mine' = mine /\ pc' = [pc EXCEPT ![w] = "idle"]
    BY <1>0, <1>3, BoardTypes DEF Done, Goto
  <2>2. \A i \in Job : StageOf(i)' = StageOf(i)
    BY <1>1, <1>2, <1>3 DEF StageOf
  <2>3. Launched' = Launched
    BY <1>0, <2>1, Moves DEF Labels
  <2> QED BY <1>0, <2>1, <2>2, <2>3, StagesKept DEF Unseen
<1>4. CASE ~(job' = Reclaimed /\ Done(w) /\ beat' = beat)
  <2>1. PICK j \in Job : /\ job[j].status = "queued" \/ Reclaimable(j)
                         /\ \A i \in Job : i # j => job'[i] = Reclaimed[i]
                         /\ job'[j].status = "claimed"
                         /\ mine' = [mine EXCEPT ![w] = j]
                         /\ pc' = [pc EXCEPT ![w] = "build"]
    BY <1>0, <1>4, ClaimWrites
  <2>2. \A v \in Workers : mine[v] # j
    BY <2>1, NotInHand, BoardTypes
  <2>3. StageOf(j) = "open" /\ StageOf(j)' = "open"
    BY <2>1 DEF StageOf, Active, Reclaimable
  <2>4. \A i \in Job : StageOf(i)' = StageOf(i)
    BY <1>1, <1>2, <2>1, <2>3 DEF StageOf
  <2>5. Stages' = Stages /\ Stages[j] = "open"
    BY <2>3, <2>4, StagesKept DEF Stages
  <2>6. Launched' = Launched
    BY <1>0, <2>1, Moves DEF Labels
  <2>7. Board!Take(w, j)
    BY <1>0, <2>1, <2>2, <2>5, <2>6 DEF Board!Take, Stages, Launched
  <2> QED BY <2>7
<1> QED BY <1>3, <1>4

LEMMA StartLaunches ==
  ASSUME IInv, NEW w \in Workers, Start(w)
  PROVE  Unseen \/ Board!Launch(w)
<1>0. pc[w] = "start" /\ mine[w] # NoJob /\ mine' = mine /\ job' = job
  BY DEF Start, IInv, Basis, InHand, Holding
<1>1. Stages' = Stages
  BY <1>0 DEF Stages, StageOf
<1>2. CASE Deny(w, "sandbox") /\ bots' = bots
  <2>1. Launched' = Launched
    BY <1>0, <1>2, Moves DEF Deny, Goto, Labels
  <2> QED BY <1>0, <1>1, <1>2, <2>1 DEF Unseen
<1>3. CASE bots' = [bots EXCEPT ![mine[w]] = @ \cup {w}] /\ Goto(w, "mark")
  <2>1. Launched' = [Launched EXCEPT ![w] = TRUE]
    BY <1>3, Moves DEF Goto, Labels
  <2>2. ~Launched[w]
    BY <1>0 DEF Launched
  <2> QED BY <1>0, <1>1, <1>3, <2>1, <2>2 DEF Board!Launch, Stages, Launched
<1> QED BY <1>2, <1>3 DEF Start

\* The hand of a worker that is done with its job, or dead.
LEMMA DonePutsDown ==
  ASSUME IInv, NEW w \in Workers, mine[w] # NoJob, Done(w), bots' = bots
  PROVE  Board!PutDown(w)
<1>1. mine' = [mine EXCEPT ![w] = NoJob] /\ pc' = [pc EXCEPT ![w] = "idle"]
  BY DEF Done, Goto
<1>2. Launched' = [Launched EXCEPT ![w] = FALSE]
  BY <1>1, Moves DEF Labels
<1> QED BY <1>1, <1>2 DEF Board!PutDown, Launched

LEMMA EndsPutDown ==
  ASSUME IInv, NEW w \in Workers, MarkRunning(w) \/ GiveUp(w) \/ Requeue(w)
  PROVE  Board!Settle(w) \/ Board!Return(w)
<1> PICK j : j = mine[w]
  OBVIOUS
<1>1. pc[w] \in Holding /\ Done(w) /\ bots' = bots /\ Basis
  BY DEF MarkRunning, GiveUp, Requeue, Holding, IInv
<1>2. j \in Job /\ j # NoJob /\ job[j] \in Row
  BY <1>1, HandTypes, BoardTypes
<1>3. Board!PutDown(w)
  BY <1>1, <1>2, DonePutsDown
<1>4. StageOf(j) = "open"
  BY <1>2 DEF IInv, OwnerWorks, StageOf, Active
<1>5. ASSUME NEW r \in Row, Writes(w, r)
      PROVE  job'[j] = r /\ \A i \in Job : i # j => StageOf(i)' = StageOf(i)
  BY <1>5 DEF Writes, StageOf
<1>6. CASE MarkRunning(w)
  <2>1. Running(job[j]) \in Row /\ Running(job[j]).status = "running"
    BY <1>2, RowsWritten
  <2>2. Writes(w, Running(job[j])) /\ pc[w] = "mark"
    BY <1>1, <1>6, MarkWrites DEF MarkRunning
  <2>3. StageOf(j)' = "running"
    BY <1>5, <2>1, <2>2 DEF StageOf, Active
  <2>4. Stages' = [Stages EXCEPT ![mine[w]] = "running"]
    BY <1>2, <1>5, <2>1, <2>2, <2>3, StageSet
  <2>5. Launched[w]
    BY <2>2 DEF Launched
  <2>6. Stages' = [Stages EXCEPT ![mine[w]] = IF Launched[w] THEN "running" ELSE "failed"]
    BY <2>4, <2>5
  <2> QED BY <1>3, <2>6 DEF Board!Settle, Stages, Launched
<1>7. CASE GiveUp(w)
  <2>1. FailedRow(job[j]) \in Row /\ FailedRow(job[j]).status = "failed"
    BY <1>2, RowsWritten
  <2>2. Writes(w, FailedRow(job[j])) /\ pc[w] # "mark"
    BY <1>1, <1>7, GiveUpWrites DEF GiveUp
  <2>3. StageOf(j)' = "failed"
    BY <1>5, <2>1, <2>2 DEF StageOf, Active
  <2>4. Stages' = [Stages EXCEPT ![mine[w]] = "failed"]
    BY <1>2, <1>5, <2>1, <2>2, <2>3, StageSet
  <2>5. ~Launched[w]
    BY <2>2 DEF Launched
  <2>6. Stages' = [Stages EXCEPT ![mine[w]] = IF Launched[w] THEN "running" ELSE "failed"]
    BY <2>4, <2>5
  <2> QED BY <1>3, <2>6 DEF Board!Settle, Stages, Launched
<1>8. CASE Requeue(w)
  <2>1. BackRow(job[j]) \in Row /\ BackRow(job[j]).status = "queued"
    BY <1>2, RowsWritten
  <2>2. Writes(w, BackRow(job[j]))
    BY <1>1, <1>8, RequeueWrites
  <2>3. StageOf(j)' = "open"
    BY <1>5, <2>1, <2>2 DEF StageOf, Active
  <2>4. Stages' = Stages
    BY <1>4, <1>5, <2>1, <2>2, <2>3, StagesKept
  <2> QED BY <1>3, <2>4 DEF Board!Return, Stages
<1> QED BY <1>6, <1>7, <1>8

\* A worker that dies with empty hands is not noticed.
LEMMA CrashReturns ==
  ASSUME IInv, NEW w \in Workers, Crash(w)
  PROVE  Unseen \/ Board!Return(w)
<1>1. Done(w) /\ bots' = bots /\ job' = job
  BY DEF Crash
<1>2. Stages' = Stages
  BY <1>1 DEF Stages, StageOf
<1>3. CASE mine[w] # NoJob
  BY <1>1, <1>2, <1>3, DonePutsDown DEF Board!Return, Stages
<1>4. CASE mine[w] = NoJob
  <2>1. pc[w] # "mark" /\ mine' = mine /\ pc' = [pc EXCEPT ![w] = "idle"]
    BY <1>1, <1>4, BoardTypes DEF IInv, Basis, InHand, Holding, Done, Goto
  <2>2. Launched' = Launched
    BY <2>1, Moves DEF Labels
  <2> QED BY <1>1, <1>2, <2>1, <2>2 DEF Unseen
<1> QED BY <1>3, <1>4

LEMMA StopStops ==
  ASSUME IInv, NEW j \in Job, Stop(j)
  PROVE  Board!Stop(j)
<1>1. UNCHANGED <<job, mine, pc>> /\ bots' = [bots EXCEPT ![j] = {}]
  BY DEF Stop, worker
<1> QED BY <1>1 DEF Board!Stop, StageOf

LEMMA ClientsUnseen ==
  ASSUME \/ \E c \in Clients : Ask(c) \/ CheckPlan(c) \/ CountQueued(c)
         \/ \E j \in Job : Expire(j)
         \/ UNCHANGED vars
  PROVE  Unseen
<1>1. UNCHANGED <<job, mine, pc, bots>>
  BY DEF Ask, CheckPlan, CountQueued, Expire, vars, worker
<1> QED BY <1>1 DEF Unseen, Stages, StageOf, Launched

LEMMA NextBoard == ASSUME IInv, [Next]_vars PROVE [Board!Next]_(Board!vars)
<1>1. ASSUME Unseen PROVE [Board!Next]_(Board!vars)
  BY <1>1, UnseenStutters
<1>2. ASSUME NEW c \in Clients, Insert(c) PROVE Board!Next
  BY <1>2, InsertAdds DEF Board!Next
<1>3. ASSUME NEW w \in Workers, Work(w) PROVE Unseen \/ Board!Next
  BY <1>3, WaitsUnseen, BuildUnseen, ClaimTakes, StartLaunches, EndsPutDown
     DEF Work, Board!Next
<1>4. ASSUME NEW w \in Workers, Crash(w) PROVE Unseen \/ Board!Next
  BY <1>4, CrashReturns DEF Board!Next
<1>5. ASSUME NEW j \in Job, Stop(j) PROVE Board!Next
  BY <1>5, StopStops DEF Board!Next
<1> QED BY <1>1, <1>2, <1>3, <1>4, <1>5, ClientsUnseen DEF Next, Serve

LEMMA InitBoard == Init => Board!Init
<1> SUFFICES ASSUME Init PROVE Board!Init
  OBVIOUS
<1>1. [NewRow EXCEPT !.status = "absent", !.sealed = FALSE].status = "absent"
  BY DEF NewRow
<1>2. Stages = [j \in Job |-> "absent"]
  BY <1>1 DEF Init, Stages, StageOf, Active
<1>3. Launched = [w \in Workers |-> FALSE]
  BY DEF Init, Launched
<1> QED BY <1>2, <1>3 DEF Init, Board!Init, Stages, Launched

-----------------------------------------------------------------------------
(* Theorems                                                                *)

\* The rows, the clients and the workers keep their types, late workers
\* included (pg_deploy_queue.py, worker.py).
THEOREM TypeCorrect == Spec => []TypeOK
<1>1. Basis => TypeOK
  BY DEF Basis
<1> QED BY <1>1, InitBasis, NextBasis, PTL DEF Spec

LEMMA AlwaysInv == ASSUME Prompt PROVE Spec => []IInv
<1>1. IInv /\ [Next]_vars => IInv'
  BY NextIInv
<1> QED BY <1>1, InitIInv, PTL DEF Spec

\* Where no live worker is late, a worker's row is its own until it lets go
\* of it, though every update is by job id (pg_deploy_queue.py:181-240), for
\* any fleet, jobs, crashes and limits.
THEOREM OwnersWork == Prompt => (Spec => []OwnerWorks)
<1> SUFFICES ASSUME Prompt PROVE Spec => []OwnerWorks
  OBVIOUS
<1>1. IInv => OwnerWorks
  BY DEF IInv
<1> QED BY <1>1, AlwaysInv, PTL

\* Where no live worker is late, a job has its sealed token exactly until it
\* runs or is given up (pg_deploy_queue.py:181-230), whatever crashes and is
\* reclaimed.
THEOREM TokensLast == Prompt => (Spec => []SealedWhileNeeded)
<1> SUFFICES ASSUME Prompt PROVE Spec => []SealedWhileNeeded
  OBVIOUS
<1>1. IInv => SealedWhileNeeded
  BY DEF IInv
<1> QED BY <1>1, AlwaysInv, PTL

\* A job is claimed max_attempts times at most, and once more for each crash
\* (mark_failed, pg_deploy_queue.py:193-222), where no live worker is late.
THEOREM TriesAreBounded == Prompt /\ MaxAttempts > 0 => (Spec => []AttemptsBounded)
<1> SUFFICES ASSUME Prompt, MaxAttempts > 0 PROVE Spec => []AttemptsBounded
  OBVIOUS
<1>1. Init => Tries
  <2> SUFFICES ASSUME Init PROVE Tries
    OBVIOUS
  <2>1. [NewRow EXCEPT !.status = "absent", !.sealed = FALSE].status = "absent"
        /\ [NewRow EXCEPT !.status = "absent", !.sealed = FALSE].attempts = 0
    BY DEF NewRow
  <2>2. /\ \A j \in Job : job[j].status = "absent" /\ job[j].attempts = 0
        /\ crashes = 0 /\ \A w \in Workers : pc[w] = "idle"
    BY <2>1 DEF Init
  <2>3. MaxAttempts \in Nat
    BY CountAssumption
  <2> QED BY <2>2, <2>3 DEF Tries, AttemptsBounded, TryLeft, Waits
<1>2. IInv /\ IInv' /\ Tries /\ [Next]_vars => Tries'
  BY NextTries
<1>3. Tries => AttemptsBounded
  BY DEF Tries
<1> QED BY <1>1, <1>2, <1>3, AlwaysInv, PTL DEF Spec

\* With one process that enqueues, the count and the insert that lock nothing
\* (pg_deploy_queue.py:84-112) keep to the cap, retries of failed jobs
\* included, where no live worker is late.
THEOREM QueueIsCapped == Prompt /\ OneClient => (Spec => []QueueWithinCap)
<1> SUFFICES ASSUME Prompt, OneClient PROVE Spec => []QueueWithinCap
  OBVIOUS
<1>1. Init => CapInv
  <2> SUFFICES ASSUME Init PROVE CapInv
    OBVIOUS
  <2>1. [NewRow EXCEPT !.status = "absent", !.sealed = FALSE].status = "absent"
    BY DEF NewRow
  <2>2. \A j \in Job : job[j].status = "absent"
    BY <2>1 DEF Init
  <2>3. \A u : ActiveOf(u, job) = {}
    BY <2>2 DEF ActiveOf, Active
  <2>4. MaxQueued \in Nat /\ Cardinality({}) = 0
    BY CountAssumption, FS_EmptySet
  <2>5. Capped
    BY <2>3, <2>4 DEF Capped
  <2>6. RoomLeft
    BY DEF Init, RoomLeft
  <2> QED BY <2>5, <2>6 DEF CapInv
<1>2. IInv /\ CapInv /\ [Next]_vars => CapInv'
  BY NextCap
<1>3. CapInv => QueueWithinCap
  BY DEF CapInv, Capped, QueueWithinCap, RowsOf, ActiveOf
<1> QED BY <1>1, <1>2, <1>3, AlwaysInv, PTL DEF Spec

\* Where no live worker is late, a job has one bot, and at most one more
\* for each crash (of a worker that had started one and not yet said so): only
\* a heartbeat that is too old lets claim_next hand a job out again
\* (pg_deploy_queue.py:114-160).
THEOREM StartsAreBounded == Prompt => (Spec => []StartsBounded)
<1> SUFFICES ASSUME Prompt PROVE Spec => []StartsBounded
  OBVIOUS
<1>1. IInv /\ BotsCounted /\ [Next]_vars => BotsCounted'
  BY NextBots
<1> QED BY <1>1, InitBots, CountedAreBounded, AlwaysInv, PTL DEF Spec

\* Without crashes either, a job has one bot at most.
THEOREM JobsStartOnce == Prompt /\ MaxCrashes = 0 => (Spec => []StartedOnce)
<1> SUFFICES ASSUME Prompt, MaxCrashes = 0 PROVE Spec => []StartedOnce
  OBVIOUS
<1>1. IInv /\ StartsBounded => StartedOnce
  <2> SUFFICES ASSUME IInv, StartsBounded PROVE StartedOnce
    OBVIOUS
  <2>1. crashes \in 0..0
    BY DEF IInv, Basis, TypeOK
  <2>2. crashes = 0 /\ 1 + crashes = 1
    BY <2>1
  <2> QED BY <2>2 DEF StartsBounded, StartedOnce
<1> QED BY <1>1, StartsAreBounded, AlwaysInv, PTL

\* Refinement: where no live worker is late, the rows and the workers that
\* write them by job id (pg_deploy_queue.py:114-205, worker.py:80-282) are the
\* board of jobs, for any fleet, requests, limits, failures and crashes.
THEOREM QueueIsABoard == Prompt => (Spec => ImplementsBoard)
<1> SUFFICES ASSUME Prompt PROVE Spec => ImplementsBoard
  OBVIOUS
<1>1. IInv /\ [Next]_vars => [Board!Next]_(Board!vars)
  BY NextBoard
<1> QED BY <1>1, InitBoard, AlwaysInv, PTL DEF Spec, ImplementsBoard, Board!Spec

\* A job that runs or was given up is never written again: no late update of
\* a worker, by job id alone, brings it back to the queue or fails it after
\* the fact, where no live worker is late.
SettledForGood ==
  [][\A j \in Job : job[j].status \in {"running", "failed"} => job'[j].status = job[j].status]_vars

THEOREM SettledJobsStay == Prompt => (Spec => SettledForGood)
<1> SUFFICES ASSUME Prompt PROVE Spec => SettledForGood
  OBVIOUS
<1> DEFINE Kept ==
      \A j \in Job : job[j].status \in {"running", "failed"} => job'[j].status = job[j].status
<1>1. IInv /\ [Next]_vars => [Kept]_vars
  <2> SUFFICES ASSUME IInv, [Board!Next]_(Board!vars), NEW j \in Job,
                      job[j].status \in {"running", "failed"}
               PROVE  StageOf(j)' = StageOf(j)
    BY NextBoard DEF StageOf, Active
  <2>1. Stages' = Stages => StageOf(j)' = StageOf(j)
    BY DEF Stages
  <2>2. StageOf(j) = job[j].status /\ Stages[j] = StageOf(j)
    BY DEF StageOf, Active, Stages
  <2>3. ASSUME NEW i \in Job, Board!Add(i) PROVE StageOf(j)' = StageOf(j)
    <3>1. Stages[i] = "absent" /\ Stages' = [Stages EXCEPT ![i] = "open"]
      BY <2>3 DEF Board!Add, Stages
    <3> QED BY <2>2, <3>1 DEF Stages
  <2>4. ASSUME NEW w \in Workers, Board!Settle(w) PROVE StageOf(j)' = StageOf(j)
    <3>1. mine[w] # NoJob /\ mine[w] # j
      BY <2>4 DEF Board!Settle, Board!PutDown, IInv, OwnerWorks
    <3>2. PICK s : Stages' = [Stages EXCEPT ![mine[w]] = s]
      BY <2>4 DEF Board!Settle, Stages
    <3> QED BY <3>1, <3>2 DEF Stages
  <2>5. ASSUME Board!Next, Stages' # Stages
        PROVE  (\E i \in Job : Board!Add(i)) \/ \E w \in Workers : Board!Settle(w)
    BY <2>5 DEF Board!Next, Board!Stop, Board!Launch, Board!Return, Board!Take, Stages
  <2> QED BY <2>1, <2>3, <2>4, <2>5 DEF Board!vars, Stages
<1> QED BY <1>1, AlwaysInv, PTL DEF Spec, SettledForGood

-----------------------------------------------------------------------------
(* The plan, exceeded by as much as workers and crashes can                *)

RunningOf(u) == {j \in Job : UserOf[j] = u /\ job[j].status = "running"}

\* Workers that found room in the plan of u and have yet to say what runs.
LaunchingOf(u) == {w \in Workers : pc[w] \in {"start", "mark"} /\ UserOf[mine[w]] = u}

\* Jobs with a bot that a crash left.
Left == {j \in Job : bots[j] # {} /\ ~Placed(j)}

\* Every worker may have counted before the others launch.
LaunchesCounted ==
  \A u : Cardinality(RunningOf(u)) + Cardinality(LaunchingOf(u))
           <= MaxBots + Cardinality(Workers) - 1

\* What runs beyond the plan: a bot for every worker but one, and one for
\* every crash.
PlanOverrun ==
  \A u \in {UserOf[j] : j \in Job} :
    Cardinality({j \in Job : UserOf[j] = u /\ bots[j] # {}})
      <= MaxBots + Cardinality(Workers) - 1 + crashes

SomeWorkers == IsFiniteSet(Workers) /\ Workers # {}

LEMMA PartOf ==
  ASSUME NEW S, IsFiniteSet(S), NEW T, T \subseteq S
  PROVE  /\ IsFiniteSet(T) /\ Cardinality(T) \in Nat /\ Cardinality(S) \in Nat
         /\ Cardinality(T) <= Cardinality(S)
BY FS_Subset, FS_CardinalityType

LEMMA UnionCount ==
  ASSUME NEW S, IsFiniteSet(S), NEW T, IsFiniteSet(T)
  PROVE  /\ IsFiniteSet(S \cup T) /\ Cardinality(S \cup T) \in Nat
         /\ Cardinality(S \cup T) <= Cardinality(S) + Cardinality(T)
<1>1. IsFiniteSet(S \cup T)
  BY FS_Union
<1>2. Cardinality(S \cup T) = Cardinality(S) + Cardinality(T) - Cardinality(S \cap T)
  BY FS_Union
<1>3. Cardinality(S \cap T) \in Nat
  BY PartOf
<1>4. Cardinality(S \cup T) \in Nat /\ Cardinality(S) \in Nat /\ Cardinality(T) \in Nat
  BY <1>1, FS_CardinalityType
<1> QED BY <1>1, <1>2, <1>3, <1>4

LEMMA OneMoreCount ==
  ASSUME NEW S, IsFiniteSet(S), NEW x
  PROVE  IsFiniteSet(S \cup {x}) /\ Cardinality(S \cup {x}) <= Cardinality(S) + 1
<1>1. Cardinality(S) \in Nat
  BY FS_CardinalityType
<1>2. Cardinality(S \cup {x}) = Cardinality(S) \/ Cardinality(S \cup {x}) = Cardinality(S) + 1
  BY FS_AddElement
<1>3. IsFiniteSet(S \cup {x})
  BY FS_AddElement
<1> QED BY <1>1, <1>2, <1>3

LEMMA OneLessCount ==
  ASSUME NEW S, IsFiniteSet(S), NEW x \in S
  PROVE  IsFiniteSet(S \ {x}) /\ Cardinality(S \ {x}) = Cardinality(S) - 1
BY FS_RemoveElement

LEMMA PlanSets ==
  ASSUME SomeWorkers, NEW u
  PROVE  /\ IsFiniteSet(RunningOf(u)) /\ Cardinality(RunningOf(u)) \in Nat
         /\ IsFiniteSet(LaunchingOf(u)) /\ Cardinality(LaunchingOf(u)) \in Nat
         /\ IsFiniteSet(Left) /\ Cardinality(Left) \in Nat
         /\ MaxBots \in Nat /\ Cardinality(Workers) \in Nat /\ Cardinality(Workers) >= 1
<1>1. IsFiniteSet(Job) /\ MaxBots \in Nat
  BY CountAssumption, FS_Interval DEF Job
<1>2. Cardinality(Workers) \in Nat /\ Cardinality(Workers) # 0
  BY FS_CardinalityType, FS_EmptySet DEF SomeWorkers
<1>3. RunningOf(u) \subseteq Job /\ Left \subseteq Job /\ LaunchingOf(u) \subseteq Workers
  BY DEF RunningOf, Left, LaunchingOf
<1> QED BY <1>1, <1>2, <1>3, PartOf DEF SomeWorkers

\* No step but MarkRunning makes a job run.
LEMMA OnlyMarkRuns ==
  ASSUME IInv, [Next]_vars, \A w \in Workers : ~MarkRunning(w),
         NEW j \in Job, job'[j].status = "running"
  PROVE  job[j].status = "running"
<1>0. Basis /\ job \in [Job -> Row]
  BY DEF IInv, Basis, TypeOK
<1>1. ASSUME NEW w \in Workers, Build(w) \/ GiveUp(w) \/ Requeue(w) PROVE job[j].status = "running"
  <2>1. pc[w] \in Holding
    BY <1>1 DEF Build, GiveUp, Requeue, Holding
  <2>2. job[mine[w]] \in Row
    BY <1>0, <2>1, HandTypes
  <2>3. PICK r \in Row : Writes(w, r) /\ r.status # "running"
    BY <1>0, <1>1, <2>2, RowsWritten, BuildWrites, GiveUpWrites, RequeueWrites
  <2> QED BY <2>3 DEF Writes
<1>2. ASSUME NEW w \in Workers, Claim(w) PROVE job[j].status = "running"
  <2>1. Reclaimed[j].status = "running" => job[j].status = "running"
    BY <1>0, RowsReclaimed
  <2>2. CASE job' = Reclaimed
    BY <2>1, <2>2
  <2>3. CASE job' # Reclaimed
    <3>1. PICK i \in Job : /\ \A k \in Job : k # i => job'[k] = Reclaimed[k]
                           /\ job'[i].status = "claimed"
      BY <1>0, <1>2, <2>3, ClaimWrites
    <3> QED BY <2>1, <3>1
  <2> QED BY <2>2, <2>3
<1>3. ASSUME NEW w \in Workers, Poll(w) \/ Heartbeat(w) \/ Limits(w) \/ Start(w) \/ FailGet(w) \/ Crash(w)
      PROVE  job[j].status = "running"
  BY <1>3 DEF Poll, Heartbeat, Limits, Start, FailGet, Crash
<1>4. ASSUME NEW c \in Clients, Insert(c) PROVE job[j].status = "running"
  BY <1>0, <1>4, InsertWrites, RowInserted
<1>5. ASSUME NEW c \in Clients, Ask(c) \/ CheckPlan(c) \/ CountQueued(c)
      PROVE  job[j].status = "running"
  BY <1>5 DEF Ask, CheckPlan, CountQueued
<1>6. CASE (\E i \in Job : Expire(i) \/ Stop(i)) \/ UNCHANGED vars
  BY <1>6 DEF Expire, Stop, vars
<1> QED BY <1>1, <1>2, <1>3, <1>4, <1>5, <1>6 DEF Next, Work, Serve

\* No step but Limits lets a worker launch.
LEMMA OnlyLimitsLaunches ==
  ASSUME IInv, [Next]_vars, \A w \in Workers : ~Limits(w),
         NEW w \in Workers, pc'[w] \in {"start", "mark"}
  PROVE  pc[w] \in {"start", "mark"} /\ mine'[w] = mine[w]
<1>0. pc \in [Workers -> Labels] /\ mine \in [Workers -> Job \cup {NoJob}]
  BY DEF IInv, Basis, TypeOK, Labels
<1>1. ASSUME UNCHANGED <<pc, mine>> PROVE pc[w] \in {"start", "mark"} /\ mine'[w] = mine[w]
  BY <1>1
<1>2. ASSUME NEW v \in Workers, Poll(v) \/ Build(v) \/ Heartbeat(v) \/ FailGet(v)
      PROVE  pc[w] \in {"start", "mark"} /\ mine'[w] = mine[w]
  BY <1>0, <1>2 DEF Poll, Build, Heartbeat, FailGet, Goto, Deny
<1>3. ASSUME NEW v \in Workers, Start(v)
      PROVE  pc[w] \in {"start", "mark"} /\ mine'[w] = mine[w]
  BY <1>0, <1>3 DEF Start, Goto, Deny
<1>4. ASSUME NEW v \in Workers, Done(v)
      PROVE  pc[w] \in {"start", "mark"} /\ mine'[w] = mine[w]
  BY <1>0, <1>4 DEF Done, Goto
<1>5. ASSUME NEW v \in Workers, MarkRunning(v) \/ GiveUp(v) \/ Requeue(v) \/ Crash(v)
      PROVE  pc[w] \in {"start", "mark"} /\ mine'[w] = mine[w]
  BY <1>4, <1>5 DEF MarkRunning, GiveUp, Requeue, Crash
<1>6. ASSUME NEW v \in Workers, Claim(v)
      PROVE  pc[w] \in {"start", "mark"} /\ mine'[w] = mine[w]
  <2>1. CASE Done(v)
    BY <1>4, <2>1
  <2>2. CASE \E j \in Job : mine' = [mine EXCEPT ![v] = j] /\ pc' = [pc EXCEPT ![v] = "build"]
    BY <1>0, <2>2
  <2>3. Basis
    BY DEF IInv
  <2> QED BY <1>6, <2>1, <2>2, <2>3, ClaimWrites
<1>7. ASSUME NEW c \in Clients, Ask(c) \/ Serve(c)
      PROVE  pc[w] \in {"start", "mark"} /\ mine'[w] = mine[w]
  BY <1>1, <1>7 DEF Ask, Serve, CheckPlan, CountQueued, Insert, worker
<1>8. CASE (\E i \in Job : Expire(i) \/ Stop(i)) \/ UNCHANGED vars
  BY <1>1, <1>8 DEF Expire, Stop, vars, worker
<1> QED BY <1>2, <1>3, <1>5, <1>6, <1>7, <1>8 DEF Next, Work

\* Whoever passes the check found fewer running than the plan allows.
LEMMA LimitsCounts ==
  ASSUME IInv, NEW w \in Workers, Limits(w), pc'[w] = "start"
  PROVE  /\ mine' = mine /\ pc' = [pc EXCEPT ![w] = "start"] /\ pc[w] = "limits"
         /\ ~(Cardinality(RunningOf(UserOf[mine[w]])) >= MaxBots)
<1>0. pc \in [Workers -> Labels]
  BY DEF IInv, Basis, TypeOK, Labels
<1>1. ASSUME NEW r PROVE ~Deny(w, r)
  BY <1>0 DEF Deny, Goto
<1>2. ~OverPlan(UserOf[mine[w]]) /\ Goto(w, "start") /\ mine' = mine /\ pc[w] = "limits"
  BY <1>1 DEF Limits
<1>3. RunningFor(UserOf[mine[w]]) = Cardinality(RunningOf(UserOf[mine[w]]))
  <2>1. \A u : {j \in Job : UserOf[j] = u /\ job[j].status \in {"running"}} = RunningOf(u)
    BY DEF RunningOf
  <2> QED BY <2>1 DEF RunningFor, RowsOf
<1> QED BY <1>2, <1>3 DEF OverPlan, Goto

LEMMA NextLaunches ==
  ASSUME SomeWorkers, IInv, LaunchesCounted, [Next]_vars
  PROVE  LaunchesCounted'
<1>0. /\ pc \in [Workers -> Labels] /\ mine \in [Workers -> Job \cup {NoJob}]
      /\ Basis /\ job \in [Job -> Row]
  BY DEF IInv, Basis, TypeOK, Labels
<1> SUFFICES ASSUME NEW u
             PROVE  Cardinality(RunningOf(u)') + Cardinality(LaunchingOf(u)')
                      <= MaxBots + Cardinality(Workers) - 1
  BY DEF LaunchesCounted
<1>1. /\ Cardinality(RunningOf(u)) + Cardinality(LaunchingOf(u)) <= MaxBots + Cardinality(Workers) - 1
      /\ IsFiniteSet(RunningOf(u)) /\ Cardinality(RunningOf(u)) \in Nat
      /\ IsFiniteSet(LaunchingOf(u)) /\ Cardinality(LaunchingOf(u)) \in Nat
      /\ MaxBots \in Nat /\ Cardinality(Workers) \in Nat /\ Cardinality(Workers) >= 1
  BY PlanSets DEF LaunchesCounted
<1>2. ASSUME RunningOf(u)' \subseteq RunningOf(u), LaunchingOf(u)' \subseteq LaunchingOf(u)
      PROVE  Cardinality(RunningOf(u)') + Cardinality(LaunchingOf(u)')
               <= MaxBots + Cardinality(Workers) - 1
  <2>1. /\ Cardinality(RunningOf(u)') \in Nat /\ Cardinality(LaunchingOf(u)') \in Nat
        /\ Cardinality(RunningOf(u)') <= Cardinality(RunningOf(u))
        /\ Cardinality(LaunchingOf(u)') <= Cardinality(LaunchingOf(u))
    BY <1>1, <1>2, PartOf
  <2> QED BY <1>1, <2>1
<1>3. ASSUME \A w \in Workers : ~MarkRunning(w) PROVE RunningOf(u)' \subseteq RunningOf(u)
  BY <1>3, OnlyMarkRuns DEF RunningOf
<1>4. ASSUME \A w \in Workers : ~Limits(w) PROVE LaunchingOf(u)' \subseteq LaunchingOf(u)
  BY <1>4, OnlyLimitsLaunches DEF LaunchingOf
<1>5. ASSUME NEW w \in Workers, MarkRunning(w)
      PROVE  Cardinality(RunningOf(u)') + Cardinality(LaunchingOf(u)')
               <= MaxBots + Cardinality(Workers) - 1
  <2>1. \A v \in Workers : ~Limits(v)
    BY <1>0, <1>5 DEF MarkRunning, Limits, Done, Goto, Deny, Labels
  <2>2. pc[w] = "mark" /\ mine[w] \in Job /\ Writes(w, Running(job[mine[w]]))
    BY <1>0, <1>5, MarkWrites, HandTypes DEF MarkRunning, Holding
  <2>3. pc'[w] = "idle"
    BY <1>0, <1>5 DEF MarkRunning, Done, Goto
  <2>4. CASE UserOf[mine[w]] # u
    <3>1. RunningOf(u)' \subseteq RunningOf(u)
      BY <2>2, <2>4 DEF RunningOf, Writes
    <3> QED BY <1>2, <1>4, <2>1, <3>1
  <2>5. CASE UserOf[mine[w]] = u
    <3> PICK k \in Job : k = mine[w]
      BY <2>2
    <3>1. RunningOf(u)' \subseteq RunningOf(u) \cup {k}
      BY <2>2 DEF RunningOf, Writes
    <3>2. LaunchingOf(u)' \subseteq LaunchingOf(u) \ {w} /\ w \in LaunchingOf(u)
      BY <1>4, <2>1, <2>2, <2>3, <2>5 DEF LaunchingOf
    <3>3. /\ IsFiniteSet(RunningOf(u) \cup {k})
          /\ Cardinality(RunningOf(u) \cup {k}) <= Cardinality(RunningOf(u)) + 1
      BY <1>1, OneMoreCount
    <3>4. /\ IsFiniteSet(LaunchingOf(u) \ {w})
          /\ Cardinality(LaunchingOf(u) \ {w}) = Cardinality(LaunchingOf(u)) - 1
      BY <1>1, <3>2, OneLessCount
    <3>5. /\ Cardinality(RunningOf(u)') \in Nat /\ Cardinality(RunningOf(u) \cup {k}) \in Nat
          /\ Cardinality(RunningOf(u)') <= Cardinality(RunningOf(u) \cup {k})
      BY <3>1, <3>3, PartOf
    <3>6. /\ Cardinality(LaunchingOf(u)') \in Nat
          /\ Cardinality(LaunchingOf(u)') <= Cardinality(LaunchingOf(u) \ {w})
      BY <3>2, <3>4, PartOf
    <3> QED BY <1>1, <3>3, <3>4, <3>5, <3>6
  <2> QED BY <2>4, <2>5
<1>6. ASSUME NEW w \in Workers, Limits(w)
      PROVE  Cardinality(RunningOf(u)') + Cardinality(LaunchingOf(u)')
               <= MaxBots + Cardinality(Workers) - 1
  <2>1. job' = job /\ mine' = mine /\ \A v \in Workers : ~MarkRunning(v)
    BY <1>0, <1>6 DEF Limits, MarkRunning, Done, Goto, Deny, Labels
  <2>2. \A v \in Workers : v # w => pc'[v] = pc[v]
    BY <1>0, <1>6 DEF Limits, Goto, Deny
  <2>3. pc'[w] = "start" \/ pc'[w] = "failGet"
    BY <1>0, <1>6 DEF Limits, Goto, Deny
  <2>4. RunningOf(u)' = RunningOf(u)
    BY <2>1 DEF RunningOf
  <2>5. CASE pc'[w] = "failGet" \/ UserOf[mine[w]] # u
    <3>1. LaunchingOf(u)' \subseteq LaunchingOf(u)
      BY <2>1, <2>2, <2>5 DEF LaunchingOf
    <3> QED BY <1>2, <2>4, <3>1
  <2>6. CASE pc'[w] = "start" /\ UserOf[mine[w]] = u
    <3>1. ~(Cardinality(RunningOf(u)) >= MaxBots)
      BY <1>6, <2>6, LimitsCounts
    <3>2. LaunchingOf(u)' \subseteq Workers
      BY DEF LaunchingOf
    <3>3. Cardinality(LaunchingOf(u)') \in Nat /\ Cardinality(LaunchingOf(u)') <= Cardinality(Workers)
      BY <3>2, PartOf DEF SomeWorkers
    <3> QED BY <1>1, <2>4, <3>1, <3>3
  <2> QED BY <2>3, <2>5, <2>6
<1> QED BY <1>2, <1>3, <1>4, <1>5, <1>6

\* Where what is placed stays so and no bot appears but of a placed job, no
\* bot is left behind.
LEMMA LeftShrinks ==
  ASSUME IInv, \A j \in Job : Placed(j) => Placed(j)',
         \A j \in Job : bots'[j] # {} => bots[j] # {} \/ Placed(j)'
  PROVE  Left' \subseteq Left
BY DEF Left

LEMMA NextLeft ==
  ASSUME SomeWorkers, IInv, Cardinality(Left) <= crashes, [Next]_vars
  PROVE  Cardinality(Left') <= crashes'
<1>0. /\ Basis /\ crashes \in Nat /\ bots \in [Job -> SUBSET Workers] /\ job \in [Job -> Row]
      /\ pc \in [Workers -> Labels] /\ mine \in [Workers -> Job \cup {NoJob}]
      /\ IsFiniteSet(Left) /\ Cardinality(Left) \in Nat
  BY Numbers, PlanSets DEF IInv, Basis, TypeOK, Labels
<1>1. ASSUME Left' \subseteq Left, crashes' = crashes PROVE Cardinality(Left') <= crashes'
  BY <1>0, <1>1, PartOf
<1>2. ASSUME NEW w \in Workers, Work(w) PROVE Cardinality(Left') <= crashes'
  <2>1. \A j \in Job : Placed(j) => Placed(j)'
    BY <1>2, WorkKeepsPlaces
  <2>2. crashes' = crashes
    BY <1>2 DEF Work, Poll, Claim, Build, Heartbeat, Limits, Start, MarkRunning, FailGet, GiveUp,
                Requeue
  <2>3. CASE bots' = bots
    BY <1>1, <2>1, <2>2, <2>3, LeftShrinks
  <2>4. CASE bots' # bots
    <3>1. /\ pc[w] = "start" /\ mine' = mine /\ pc' = [pc EXCEPT ![w] = "mark"]
          /\ bots' = [bots EXCEPT ![mine[w]] = bots[mine[w]] \cup {w}]
      BY <1>2, <2>4 DEF Work, Poll, Claim, Build, Heartbeat, Limits, Start, MarkRunning, FailGet,
                        GiveUp, Requeue, Goto
    <3> PICK k \in Job : k = mine[w]
      BY <1>0, <3>1, HandTypes DEF Holding
    <3>2. \A j \in Job : j # k => bots'[j] = bots[j]
      BY <1>0, <3>1
    <3>3. Placed(k)'
      BY <1>0, <3>1 DEF Placed, Marking
    <3> QED BY <1>1, <2>1, <2>2, <3>2, <3>3, LeftShrinks
  <2> QED BY <2>3, <2>4
<1>3. ASSUME NEW w \in Workers, Crash(w) PROVE Cardinality(Left') <= crashes'
  <2>1. /\ bots' = bots /\ job' = job /\ crashes' = crashes + 1
        /\ \A v \in Workers : v # w => pc'[v] = pc[v] /\ mine'[v] = mine[v]
    BY <1>0, <1>3 DEF Crash, Done, Goto
  <2>2. \A j \in Job : Placed(j) /\ j # mine[w] => Placed(j)'
    BY <2>1 DEF Placed, Marking
  <2> PICK k : k = mine[w]
    OBVIOUS
  <2>3. Left' \subseteq Left \cup {k}
    BY <2>1, <2>2 DEF Left
  <2>4. IsFiniteSet(Left \cup {k}) /\ Cardinality(Left \cup {k}) <= Cardinality(Left) + 1
    BY <1>0, OneMoreCount
  <2>5. Cardinality(Left') \in Nat /\ Cardinality(Left') <= Cardinality(Left \cup {k})
    BY <2>3, <2>4, PartOf
  <2>6. Cardinality(Left \cup {k}) \in Nat
    BY <2>4, FS_CardinalityType
  <2> QED BY <1>0, <2>1, <2>4, <2>5, <2>6
<1>4. ASSUME NEW c \in Clients, Ask(c) \/ Serve(c) PROVE Cardinality(Left') <= crashes'
  <2>1. bots' = bots /\ crashes' = crashes /\ pc' = pc /\ mine' = mine
    BY <1>4 DEF Ask, Serve, CheckPlan, CountQueued, Insert, worker
  <2>2. ASSUME NEW j \in Job, job[j].status = "running" PROVE job'[j].status = "running"
    <3>1. CASE job' = job
      BY <2>2, <3>1
    <3>2. CASE Insert(c)
      <4>1. job[want[c]].status = "absent" /\ \A i \in Job : i # want[c] => job'[i] = job[i]
        BY <1>0, <3>2, InsertWrites, RequestTypes DEF Insert
      <4> QED BY <2>2, <4>1
    <3> QED BY <1>4, <3>1, <3>2 DEF Ask, Serve, CheckPlan, CountQueued
  <2>3. \A j \in Job : Placed(j) => Placed(j)'
    BY <2>1, <2>2 DEF Placed, Marking
  <2> QED BY <1>1, <2>1, <2>3, LeftShrinks
<1>5. ASSUME (\E j \in Job : Expire(j) \/ Stop(j)) \/ UNCHANGED vars
      PROVE  Cardinality(Left') <= crashes'
  <2>1. UNCHANGED <<job, pc, mine, crashes>>
    BY <1>5 DEF Expire, Stop, vars, worker
  <2>2. \A j \in Job : Placed(j) => Placed(j)'
    BY <2>1 DEF Placed, Marking
  <2>3. \A j \in Job : bots'[j] # {} => bots[j] # {}
    BY <1>0, <1>5 DEF Expire, Stop, vars
  <2> QED BY <1>1, <2>1, <2>2, <2>3, LeftShrinks
<1> QED BY <1>2, <1>3, <1>4, <1>5 DEF Next

LEMMA InitPlan == SomeWorkers /\ Init => LaunchesCounted /\ Cardinality(Left) <= crashes
<1> SUFFICES ASSUME SomeWorkers, Init PROVE LaunchesCounted /\ Cardinality(Left) <= crashes
  OBVIOUS
<1>1. [NewRow EXCEPT !.status = "absent", !.sealed = FALSE].status = "absent"
  BY DEF NewRow
<1>2. \A u : RunningOf(u) = {} /\ LaunchingOf(u) = {}
  BY <1>1 DEF Init, RunningOf, LaunchingOf
<1>3. Left = {} /\ crashes = 0 /\ Cardinality({}) = 0
  BY FS_EmptySet DEF Init, Left
<1>4. ASSUME NEW u
      PROVE  Cardinality(RunningOf(u)) + Cardinality(LaunchingOf(u))
               <= MaxBots + Cardinality(Workers) - 1
  BY <1>2, <1>3, PlanSets
<1>5. LaunchesCounted
  BY <1>4 DEF LaunchesCounted
<1> QED BY <1>3, <1>5

\* Every bot is of a job that runs, that is about to, or that a crash left.
LEMMA BotsArePlanned ==
  ASSUME SomeWorkers, IInv, LaunchesCounted, Cardinality(Left) <= crashes
  PROVE  PlanOverrun
<1> SUFFICES ASSUME NEW u
             PROVE  Cardinality({j \in Job : UserOf[j] = u /\ bots[j] # {}})
                      <= MaxBots + Cardinality(Workers) - 1 + crashes
  BY DEF PlanOverrun
<1> DEFINE S == {j \in Job : UserOf[j] = u /\ bots[j] # {}}
           L == LaunchingOf(u)
           f == [w \in L |-> mine[w]]
           M == {mine[w] : w \in L}
<1>1. /\ Cardinality(RunningOf(u)) + Cardinality(L) <= MaxBots + Cardinality(Workers) - 1
      /\ IsFiniteSet(RunningOf(u)) /\ Cardinality(RunningOf(u)) \in Nat
      /\ IsFiniteSet(L) /\ Cardinality(L) \in Nat
      /\ IsFiniteSet(Left) /\ Cardinality(Left) \in Nat
      /\ MaxBots \in Nat /\ Cardinality(Workers) \in Nat /\ crashes \in Nat
  BY PlanSets, Numbers DEF LaunchesCounted
<1>2. IsFiniteSet(M) /\ Cardinality(M) <= Cardinality(L)
  <2>1. f \in Surjection(L, M)
    BY DEF Surjection
  <2> HIDE DEF f, M, L
  <2> QED BY <1>1, <2>1, FS_Surjection
<1>3. S \subseteq (RunningOf(u) \cup M) \cup Left
  <2> SUFFICES ASSUME NEW j \in S, j \notin Left PROVE j \in RunningOf(u) \cup M
    OBVIOUS
  <2>1. Placed(j)
    BY DEF Left
  <2>2. ASSUME NEW w \in Workers, Marking(w, j) PROVE j \in M
    BY <2>2 DEF Marking, LaunchingOf
  <2> QED BY <2>1, <2>2 DEF Placed, RunningOf
<1> HIDE DEF S, L, f, M
<1>4. /\ IsFiniteSet(RunningOf(u) \cup M)
      /\ Cardinality(RunningOf(u) \cup M) <= Cardinality(RunningOf(u)) + Cardinality(M)
  BY <1>1, <1>2, UnionCount
<1>5. /\ IsFiniteSet((RunningOf(u) \cup M) \cup Left)
      /\ Cardinality((RunningOf(u) \cup M) \cup Left) <= Cardinality(RunningOf(u) \cup M) + Cardinality(Left)
  BY <1>1, <1>4, UnionCount
<1>6. /\ Cardinality(S) \in Nat
      /\ Cardinality(S) <= Cardinality((RunningOf(u) \cup M) \cup Left)
      /\ Cardinality((RunningOf(u) \cup M) \cup Left) \in Nat
  BY <1>3, <1>5, PartOf
<1>7. Cardinality(M) \in Nat /\ Cardinality(RunningOf(u) \cup M) \in Nat
  BY <1>2, <1>4, FS_CardinalityType
<1> QED BY <1>1, <1>2, <1>4, <1>5, <1>6, <1>7 DEF S

\* "the authoritative gate" (worker.py:134) counts before it lets a bot start
\* and nothing holds between: of one user run at most the plan's bots, one
\* more for each worker but one, and one more for each crash.
THEOREM OverPlanIsBounded == Prompt /\ SomeWorkers => (Spec => []PlanOverrun)
<1> SUFFICES ASSUME Prompt, SomeWorkers PROVE Spec => []PlanOverrun
  OBVIOUS
<1> DEFINE Inv == LaunchesCounted /\ Cardinality(Left) <= crashes
<1>1. Init => Inv
  BY InitPlan
<1>2. IInv /\ Inv /\ [Next]_vars => Inv'
  BY NextLaunches, NextLeft
<1>3. IInv /\ Inv => PlanOverrun
  BY BotsArePlanned
<1> QED BY <1>1, <1>2, <1>3, AlwaysInv, PTL DEF Spec

OneWorker == \E w : Workers = {w}

\* With one worker that never dies the gate is one: nobody counts while it
\* launches (DeployPlan.cfg has two workers).
THEOREM OneWorkerKeepsPlan ==
  Prompt /\ OneWorker /\ MaxCrashes = 0 => (Spec => []PlanRespected)
<1> SUFFICES ASSUME Prompt, OneWorker, MaxCrashes = 0 PROVE Spec => []PlanRespected
  OBVIOUS
<1>1. SomeWorkers /\ Cardinality(Workers) = 1
  BY FS_Singleton DEF OneWorker, SomeWorkers
<1>2. MaxBots \in Nat
  BY CountAssumption
<1>3. IInv /\ PlanOverrun => PlanRespected
  <2> SUFFICES ASSUME IInv, PlanOverrun PROVE PlanRespected
    OBVIOUS
  <2>1. crashes \in 0..0
    BY DEF IInv, Basis, TypeOK
  <2>2. MaxBots + Cardinality(Workers) - 1 + crashes = MaxBots
    BY <1>1, <1>2, <2>1
  <2> QED BY <2>2 DEF PlanOverrun, PlanRespected
<1> QED BY <1>1, <1>3, OverPlanIsBounded, AlwaysInv, PTL
=============================================================================
