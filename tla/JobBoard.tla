------------------------------ MODULE JobBoard ------------------------------
(***************************************************************************)
(* What a deploy queue promises the fleet, whatever stores it: a board of  *)
(* jobs.  A worker takes an open job that is in nobody's hand, launches    *)
(* its bot once while it has it, and puts it down: settled for good, or as *)
(* open as it was.  There are no rows, heartbeats, attempts or limits.     *)
(***************************************************************************)
CONSTANTS
  Workers,  \* workers of the fleet
  Job,      \* jobs that may be asked for
  NoJob     \* what an empty hand holds

VARIABLES
  stage,     \* stage[j]: where job j is
  hand,      \* hand[w]: the job worker w has
  launched,  \* launched[w]: whether w has launched the bot of that job
  bots       \* bots[j]: the workers on whose node a bot of job j runs

vars == <<stage, hand, launched, bots>>

Stage == {"absent", "open", "running", "failed"}

Init ==
  /\ stage = [j \in Job |-> "absent"]
  /\ hand = [w \in Workers |-> NoJob]
  /\ launched = [w \in Workers |-> FALSE]
  /\ bots = [j \in Job |-> {}]

Add(j) ==
  /\ stage[j] = "absent"
  /\ stage' = [stage EXCEPT ![j] = "open"]
  /\ UNCHANGED <<hand, launched, bots>>

Take(w, j) ==
  /\ hand[w] = NoJob
  /\ stage[j] = "open" /\ \A v \in Workers : hand[v] # j
  /\ hand' = [hand EXCEPT ![w] = j]
  /\ UNCHANGED <<stage, launched, bots>>

Launch(w) ==
  /\ hand[w] # NoJob /\ ~launched[w]
  /\ launched' = [launched EXCEPT ![w] = TRUE]
  /\ bots' = [bots EXCEPT ![hand[w]] = @ \cup {w}]
  /\ UNCHANGED <<stage, hand>>

\* The hand is empty again: the job was put down, or its worker died.
PutDown(w) ==
  /\ hand[w] # NoJob
  /\ hand' = [hand EXCEPT ![w] = NoJob]
  /\ launched' = [launched EXCEPT ![w] = FALSE]
  /\ UNCHANGED bots

Settle(w) ==
  /\ PutDown(w)
  /\ stage' = [stage EXCEPT ![hand[w]] = IF launched[w] THEN "running" ELSE "failed"]

Return(w) == PutDown(w) /\ UNCHANGED stage

\* Whoever asked for a bot may stop it.
Stop(j) ==
  /\ bots' = [bots EXCEPT ![j] = {}]
  /\ UNCHANGED <<stage, hand, launched>>

Next ==
  \/ \E j \in Job : Add(j) \/ Stop(j)
  \/ \E w \in Workers : Launch(w) \/ Settle(w) \/ Return(w) \/ \E j \in Job : Take(w, j)

Spec == Init /\ [][Next]_vars
=============================================================================
