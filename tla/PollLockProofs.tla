--------------------------- MODULE PollLockProofs ---------------------------
(* Proofs about PollLock: the lease and the lock file each exclude a       *)
(* second process, and a starter gives up only to another, for any number  *)
(* of processes, any lease and wait, and any number of errors.             *)
EXTENDS PollLock, FiniteSetTheorems, TLAPS

\* While no lease was taken by force and Mongo answered, who has it owns the
\* document, which does not expire before the next renewal is due.
LeaseIsOwned == ~forced /\ errors = 0 => \A p \in Procs : InLease(p) =>
    /\ lease.owner = p
    /\ lease.left = IF proc[p].renewed THEN Lease ELSE Lease - 1

\* What a process at the lock file may rely on while no other is there: the
\* file it has open is the one at the path, whoever passed flock holds its
\* lock, whoever polls has its pid in it, and what is about to be unlinked
\* or cleaned up is nobody's.
OwnsFile(p) ==
    /\ proc[p].pc \in {"flock", "write", "locked"} => path # 0 /\ path = proc[p].fd
    /\ proc[p].pc \in {"write", "locked"} => flock[path] = p
    /\ InFile(p) => pid[path] = p
    /\ proc[p].pc \in {"unlink", "unlink again"} => path = 0 \/ Stale(path)
    /\ proc[p].pc = "clean" => \A q \in Procs : ~InFile(q)

FileIsOwn == ~crossed => \A p \in Procs : OwnsFile(p)

\* A pid in a file that is not marked as dead is that of a process that
\* polls or is about to unlink the file.
PidsAreLive == \A i \in Files :
    pid[i] \in Procs => proc[pid[i]].pc \in {"locked", "clean"}

IInv == TypeOK /\ LeaseIsOwned /\ FileIsOwn /\ PidsAreLive

---------------------------------------------------------------------------
(* Types *)

LEMMA FilesAre == Files \subseteq Nat \ {0}
  BY PollLockAssumption, FS_CardinalityType DEF Files

LEMMA InitInv == Init => IInv
<1> SUFFICES ASSUME Init PROVE IInv
  OBVIOUS
<1>1. TypeOK
  <2>1. mongo \in BOOLEAN /\ forced \in BOOLEAN /\ crossed \in BOOLEAN
    BY PollLockAssumption, Zenon DEF Init
  <2>2. Off \in Process /\ Free \in Documents
    BY PollLockAssumption DEF Off, Free, Process, Documents, Pcs
  <2>3. path \in Files \cup {0} /\ errors \in 0..MaxErrors
    BY PollLockAssumption DEF Init
  <2>4. /\ pid \in [Files -> Procs \cup {Nobody, Dead}]
        /\ flock \in [Files -> Procs \cup {Nobody}]
    BY DEF Init
  <2> QED BY <2>1, <2>2, <2>3, <2>4 DEF Init, TypeOK
<1>2. LeaseIsOwned /\ FileIsOwn
  BY DEF Init, LeaseIsOwned, FileIsOwn, OwnsFile, InLease, InFile, Off
<1>3. PidsAreLive
  BY PidAssumption DEF Init, PidsAreLive
<1> QED BY <1>1, <1>2, <1>3 DEF IInv

\* The state variables one at a time.  Most actions move one process to
\* another place.
LEMMA Moved ==
  ASSUME TypeOK, NEW p \in Procs, NEW pc \in Pcs
  PROVE  (Goto(p, pc) \/ Begin(p, pc)) => proc' \in [Procs -> Process]
<1>1. Goto(p, pc) => proc' \in [Procs -> Process]
  BY DEF TypeOK, Goto, Process
<1>2. 0 \in 0..Wait
  BY PollLockAssumption
<1>3. Begin(p, pc) => proc' \in [Procs -> Process]
  <2> HIDE PollLockAssumption
  <2> QED BY <1>2 DEF TypeOK, Begin, Process
<1> QED BY <1>1, <1>3

LEMMA MovedAlso ==
  ASSUME TypeOK, NEW p \in Procs, NEW pc \in Pcs
  PROVE  /\ [proc EXCEPT ![p].pc = pc, ![p].renewed = TRUE] \in [Procs -> Process]
         /\ \A i \in Files \cup {0} :
              [proc EXCEPT ![p].pc = pc, ![p].fd = i] \in [Procs -> Process]
<1>1. [proc EXCEPT ![p].pc = pc, ![p].renewed = TRUE] \in [Procs -> Process]
  BY DEF TypeOK, Process
<1>2. ASSUME NEW i \in Files \cup {0}
      PROVE  [proc EXCEPT ![p].pc = pc, ![p].fd = i] \in [Procs -> Process]
  BY DEF TypeOK, Process
<1> QED BY <1>1, <1>2

LEMMA PcsAre == {"leased", "flock", "blocked", "clean"} \subseteq Pcs
  BY DEF Pcs

LEMMA IdleIsProcess == Off \in Process
  BY PollLockAssumption DEF Off, Process, Pcs

LEMMA ErrorCounts == ASSUME TypeOK, Error PROVE errors' \in 0..MaxErrors /\ errors' > 0
  BY PollLockAssumption DEF Error, TypeOK

LEMMA CrossedIsFlag == ASSUME NEW p, Crossing(p) PROVE crossed' \in BOOLEAN
  BY Zenon DEF Crossing

\* The steps that end a process, or begin or resume its start.
LEMMA TypeOther ==
  ASSUME TypeOK, NEW p \in Procs, Start(p) \/ Connect(p) \/ Wake(p) \/ Exit(p)
  PROVE  TypeOK'
<1>1. proc' \in [Procs -> Process]
  <2>1. Start(p) \/ Wake(p) => proc' \in [Procs -> Process]
    BY Moved DEF Start, Wake, Pcs
  <2>2. Connect(p) => proc' \in [Procs -> Process]
    BY Moved DEF Connect, Pcs
  <2>3. Exit(p) => proc' \in [Procs -> Process]
    BY IdleIsProcess DEF TypeOK, Exit
  <2> QED BY <2>1, <2>2, <2>3
<1>2. errors' \in 0..MaxErrors
  <2>1. errors' = errors \/ Error
    BY DEF Start, Connect, Wake, Exit, history
  <2> QED BY <2>1, ErrorCounts DEF TypeOK
<1>3. UNCHANGED <<mongo, lease, path, pid, flock, forced, crossed>>
  BY DEF Start, Connect, Wake, Exit, history, files
<1> QED BY <1>1, <1>2, <1>3 DEF TypeOK

LEMMA TypeLease ==
  ASSUME TypeOK, NEW p \in Procs, Attempt(p) \/ Seize(p) \/ Renew(p) \/ Release(p)
  PROVE  TypeOK'
<1>1. proc' \in [Procs -> Process]
  <2>1. Sleep(p) \/ Goto(p, "out") => proc' \in [Procs -> Process]
    BY Moved DEF Sleep, Pcs
  <2>5. Acquire(p) => proc' \in [Procs -> Process]
    BY PcsAre, MovedAlso DEF Acquire
  <2>2. Renew(p) => proc' \in [Procs -> Process]
    BY DEF TypeOK, Renew, Process
  <2>3. Release(p) => proc' \in [Procs -> Process]
    BY IdleIsProcess DEF TypeOK, Release
  <2>4. Attempt(p) \/ Seize(p) => Acquire(p) \/ Sleep(p) \/ Goto(p, "out")
    BY DEF Attempt, Seize
  <2> QED BY <2>1, <2>2, <2>3, <2>4, <2>5
<1>2. errors' \in 0..MaxErrors
  <2>1. errors' = errors \/ Error
    BY DEF Attempt, Seize, Renew, Release, history
  <2> QED BY <2>1, ErrorCounts DEF TypeOK
<1>3. lease' \in Documents
  <2>1. [owner |-> p, left |-> Lease] \in Documents /\ Free \in Documents
    BY PollLockAssumption DEF Documents, Free
  <2>2. [lease EXCEPT !.left = Lease] \in Documents
    BY PollLockAssumption DEF TypeOK, Documents
  <2>3. lease' \in {lease, [owner |-> p, left |-> Lease], [lease EXCEPT !.left = Lease], Free}
    BY DEF Attempt, Seize, Renew, Release, Acquire
  <2> QED BY <2>1, <2>2, <2>3 DEF TypeOK
<1>4. forced' \in BOOLEAN
  <2>1. Seize(p) => forced' \in BOOLEAN
    BY Zenon DEF Seize, TypeOK
  <2>2. ~Seize(p) => forced' = forced
    BY DEF Attempt, Renew, Release, history
  <2> QED BY <2>1, <2>2, Zenon DEF TypeOK
<1>5. UNCHANGED <<mongo, path, pid, flock, crossed>>
  BY DEF Attempt, Seize, Renew, Release, history, files
<1> QED BY <1>1, <1>2, <1>3, <1>4, <1>5 DEF TypeOK

LEMMA TypeFile ==
  ASSUME TypeOK, NEW p \in Procs,
         Check(p) \/ Unlink(p) \/ Open(p) \/ Flock(p) \/ Write(p) \/ Blocked(p)
  PROVE  TypeOK'
<1>1. CASE Check(p) \/ Unlink(p) \/ Blocked(p)
  <2>1. proc' \in [Procs -> Process]
    BY <1>1, Moved DEF Check, Unlink, Blocked, Pcs
  <2>2. path' \in {path, 0} /\ UNCHANGED <<mongo, lease, pid, flock, errors, forced>>
    BY <1>1 DEF Check, Unlink, Blocked, files
  <2>3. crossed' \in BOOLEAN
    BY <1>1, CrossedIsFlag DEF Check, Unlink, Blocked
  <2> QED BY <2>1, <2>2, <2>3 DEF TypeOK
<1>2. CASE Open(p)
  <2>1. PICK i \in Files : /\ proc' = [proc EXCEPT ![p].pc = "flock", ![p].fd = i]
                           /\ path' = path \/ path' = i
                           /\ pid' = pid \/ pid' = [pid EXCEPT ![i] = Nobody]
    BY <1>2 DEF Open
  <2>2. proc' \in [Procs -> Process]
    BY <2>1, PcsAre, MovedAlso
  <2>3. path' \in Files \cup {0} /\ pid' \in [Files -> Procs \cup {Nobody, Dead}]
    BY <2>1 DEF TypeOK
  <2>4. UNCHANGED <<mongo, lease, flock, errors, forced>>
    BY <1>2 DEF Open
  <2>5. crossed' \in BOOLEAN
    BY <1>2, CrossedIsFlag DEF Open
  <2> QED BY <2>2, <2>3, <2>4, <2>5 DEF TypeOK
<1>3. CASE Flock(p) \/ Write(p)
  <2>1. proc' \in [Procs -> Process]
    <3>1. CASE Goto(p, "write") \/ Goto(p, "locked")
      BY <3>1, Moved DEF Pcs
    <3>2. CASE proc' = [proc EXCEPT ![p].pc = "blocked", ![p].fd = 0]
      BY <3>2, PcsAre, MovedAlso
    <3> QED BY <1>3, <3>1, <3>2 DEF Flock, Write
  <2>2. pid' \in [Files -> Procs \cup {Nobody, Dead}]
    BY <1>3 DEF TypeOK, Flock, Write
  <2>3. flock' \in [Files -> Procs \cup {Nobody}]
    BY <1>3 DEF TypeOK, Flock, Write
  <2>4. UNCHANGED <<mongo, lease, path, errors, forced>>
    BY <1>3 DEF Flock, Write
  <2>5. crossed' \in BOOLEAN
    BY <1>3, CrossedIsFlag DEF Flock, Write
  <2> QED BY <2>1, <2>2, <2>3, <2>4, <2>5 DEF TypeOK
<1> QED BY <1>1, <1>2, <1>3

LEMMA TypeEnd ==
  ASSUME TypeOK, NEW p \in Procs, LetGo(p) \/ Clean(p) \/ Crash(p)
  PROVE  TypeOK'
<1>1. proc' \in [Procs -> Process]
  <2>1. LetGo(p) => proc' \in [Procs -> Process]
    <3>1. [proc EXCEPT ![p].pc = "clean", ![p].fd = 0] \in [Procs -> Process]
      BY PcsAre, MovedAlso
    <3> QED BY <3>1 DEF LetGo
  <2>2. Clean(p) \/ Crash(p) => proc' \in [Procs -> Process]
    BY IdleIsProcess DEF TypeOK, Clean, Crash
  <2> QED BY <2>1, <2>2
<1>2. Ended(p) \in [Files -> Procs \cup {Nobody, Dead}] /\ Unlocked(p) \in [Files -> Procs \cup {Nobody}]
  BY DEF TypeOK, Ended, Unlocked
<1>3. /\ path' = path \/ path' = 0
      /\ pid' = pid \/ pid' = Ended(p)
      /\ flock' = flock \/ flock' = Unlocked(p)
      /\ UNCHANGED <<mongo, lease, errors, forced>>
  BY DEF LetGo, Clean, Crash, history
<1>4. crossed' \in BOOLEAN
  <2>1. LetGo(p) \/ Clean(p) => Crossing(p)
    BY DEF LetGo, Clean
  <2>2. Crash(p) => crossed' = crossed
    BY DEF Crash, history
  <2> QED BY <2>1, <2>2, CrossedIsFlag DEF TypeOK
<1> QED BY <1>1, <1>2, <1>3, <1>4 DEF TypeOK

LEMMA TypeTime == ASSUME TypeOK, Reap \/ Tick PROVE TypeOK'
<1>1. lease' \in Documents
  <2>1. Reap => lease' \in Documents
    BY PollLockAssumption DEF Reap, Free, Documents
  <2>2. Tick => lease' \in Documents
    BY PollLockAssumption DEF Tick, TypeOK, Documents
  <2> QED BY <2>1, <2>2
<1>2. proc' \in [Procs -> Process]
  <2>1. ASSUME NEW p \in Procs
        PROVE  /\ [proc[p] EXCEPT !.renewed = FALSE] \in Process
               /\ proc[p].waited < Wait => [proc[p] EXCEPT !.waited = @ + 1] \in Process
    <3>1. [proc[p] EXCEPT !.renewed = FALSE] \in Process
      BY DEF TypeOK, Process
    <3>2. proc[p].waited < Wait => [proc[p] EXCEPT !.waited = @ + 1] \in Process
      BY PollLockAssumption DEF TypeOK, Process
    <3> QED BY <3>1, <3>2
  <2> QED BY <2>1 DEF TypeOK, Tick, Reap
<1>3. UNCHANGED <<mongo, path, pid, flock, errors, forced, crossed>>
  BY DEF Reap, Tick, files, history
<1> QED BY <1>1, <1>2, <1>3 DEF TypeOK

LEMMA TypeStep == TypeOK /\ [Next]_vars => TypeOK'
<1> SUFFICES ASSUME TypeOK, [Next]_vars PROVE TypeOK'
  OBVIOUS
<1>1. CASE UNCHANGED vars
  BY <1>1 DEF TypeOK, vars, files, history
<1>2. CASE Next
  BY <1>2, TypeOther, TypeLease, TypeFile, TypeEnd, TypeTime DEF Next, Step
<1> QED BY <1>1, <1>2

---------------------------------------------------------------------------
(* The lease *)

\* The histories only ever go one way.
LEMMA FaultsStay ==
  ASSUME TypeOK, Next, ~forced', errors' = 0
  PROVE  ~forced /\ errors = 0
<1>1. errors' = errors \/ errors' > 0
  <2>1. ASSUME NEW p \in Procs, Connect(p) \/ Attempt(p) \/ Seize(p) \/ Renew(p)
        PROVE  errors' = errors \/ errors' > 0
    BY <2>1, ErrorCounts DEF Connect, Attempt, Seize, Renew
  <2>2. ASSUME NEW p \in Procs, Start(p) \/ Wake(p) \/ Exit(p) \/ Crash(p) \/ Release(p)
        PROVE  errors' = errors
    BY <2>2 DEF Start, Wake, Exit, Crash, Release, history
  <2>3. ASSUME NEW p \in Procs, \/ Check(p) \/ Unlink(p) \/ Open(p) \/ Flock(p) \/ Write(p)
                                \/ Blocked(p) \/ Clean(p) \/ LetGo(p)
        PROVE  errors' = errors
    BY <2>3 DEF Check, Unlink, Open, Flock, Write, Blocked, Clean, LetGo
  <2>4. Tick \/ Reap => errors' = errors
    BY DEF Tick, Reap, history
  <2> QED BY <2>1, <2>2, <2>3, <2>4 DEF Next, Step
<1>2. forced => forced'
  <2>1. ASSUME NEW p \in Procs, Seize(p)
        PROVE  forced => forced'
    BY <2>1, Zenon DEF Seize
  <2>2. ASSUME NEW p \in Procs,
               \/ Start(p) \/ Connect(p) \/ Attempt(p) \/ Renew(p) \/ Wake(p) \/ Exit(p)
               \/ Crash(p) \/ Release(p)
        PROVE  forced' = forced
    BY <2>2 DEF Start, Connect, Attempt, Renew, Wake, Exit, Crash, Release, history
  <2>3. ASSUME NEW p \in Procs, \/ Check(p) \/ Unlink(p) \/ Open(p) \/ Flock(p) \/ Write(p)
                                \/ Blocked(p) \/ Clean(p) \/ LetGo(p)
        PROVE  forced' = forced
    BY <2>3 DEF Check, Unlink, Open, Flock, Write, Blocked, Clean, LetGo
  <2>4. Tick \/ Reap => forced' = forced
    BY DEF Tick, Reap, history
  <2> QED BY <2>1, <2>2, <2>3, <2>4 DEF Next, Step
<1> QED BY <1>1, <1>2 DEF TypeOK

\* What a step of p leaves of the others, and where it takes p.
LEMMA OthersStay ==
  ASSUME TypeOK, NEW p \in Procs,
         Start(p) \/ Step(p) \/ Release(p) \/ LetGo(p) \/ Exit(p) \/ Crash(p)
  PROVE  \A q \in Procs \ {p} : proc'[q] = proc[q]
<1>1. Start(p) \/ Release(p) \/ LetGo(p) \/ Exit(p) \/ Crash(p) => \A q \in Procs \ {p} : proc'[q] = proc[q]
  BY DEF TypeOK, Start, Release, LetGo, Exit, Crash, Goto
<1>2. Connect(p) \/ Wake(p) => \A q \in Procs \ {p} : proc'[q] = proc[q]
  BY DEF TypeOK, Connect, Wake, Goto, Begin
<1>3. Attempt(p) \/ Seize(p) \/ Renew(p) => \A q \in Procs \ {p} : proc'[q] = proc[q]
  <2>1. Acquire(p) \/ Sleep(p) \/ Goto(p, "out") => \A q \in Procs \ {p} : proc'[q] = proc[q]
    BY DEF TypeOK, Acquire, Sleep, Goto
  <2>2. Attempt(p) \/ Seize(p) => Acquire(p) \/ Sleep(p) \/ Goto(p, "out")
    BY DEF Attempt, Seize
  <2>3. Renew(p) => \A q \in Procs \ {p} : proc'[q] = proc[q]
    BY DEF TypeOK, Renew
  <2> QED BY <2>1, <2>2, <2>3
<1>4. Check(p) \/ Unlink(p) \/ Blocked(p) => \A q \in Procs \ {p} : proc'[q] = proc[q]
  BY DEF TypeOK, Check, Unlink, Blocked, Goto
<1>5. Open(p) \/ Flock(p) \/ Write(p) \/ Clean(p) => \A q \in Procs \ {p} : proc'[q] = proc[q]
  BY DEF TypeOK, Open, Flock, Write, Clean, Goto
<1> QED BY <1>1, <1>2, <1>3, <1>4, <1>5 DEF Step

LEMMA GoesTo ==
  ASSUME TypeOK, NEW p \in Procs, NEW pc, Goto(p, pc) \/ Begin(p, pc)
  PROVE  proc'[p].pc = pc
<1>1. p \in DOMAIN proc /\ proc[p] \in Process
  BY DEF TypeOK
<1>2. CASE Goto(p, pc)
  BY <1>1, <1>2 DEF Goto, Process
<1>3. CASE Begin(p, pc)
  BY <1>1, <1>3 DEF Begin, Process
<1> QED BY <1>2, <1>3

LEMMA Acquires == ASSUME TypeOK, NEW p \in Procs, Acquire(p) PROVE proc'[p].pc = "leased"
  BY DEF TypeOK, Acquire, Process

\* Whoever polls under a lease nobody took by force is its only owner, and
\* it has not expired.
LEMMA OneOwner ==
  ASSUME TypeOK, LeaseIsOwned, ~forced, errors = 0, NEW p \in Procs, InLease(p)
  PROVE  lease.owner = p /\ lease.left > 0 /\ \A q \in Procs : InLease(q) => q = p
  BY PollLockAssumption DEF LeaseIsOwned

\* A step of p that leaves the lease alone and does not take p into it.
LEMMA LeaseLeftAlone ==
  ASSUME TypeOK, LeaseIsOwned, NEW p \in Procs,
         ~forced' /\ errors' = 0 => ~forced /\ errors = 0,
         \A q \in Procs \ {p} : proc'[q] = proc[q],
         lease' = lease, ~InLease(p)'
  PROVE  LeaseIsOwned'
  BY DEF LeaseIsOwned, InLease

\* What p gets when it asks, nobody else has.
LEMMA LeaseTaken ==
  ASSUME TypeOK, LeaseIsOwned, NEW p \in Procs, Acquire(p),
         \A q \in Procs \ {p} : proc'[q] = proc[q],
         ~forced' /\ errors' = 0 => ~forced /\ errors = 0 /\ (Expired \/ lease.owner = p)
  PROVE  LeaseIsOwned'
<1> SUFFICES ASSUME ~forced', errors' = 0, NEW q \in Procs, InLease(q)'
             PROVE  lease'.owner = q /\ lease'.left = IF proc'[q].renewed THEN Lease ELSE Lease - 1
  BY DEF LeaseIsOwned
<1>1. q = p
  <2> SUFFICES ASSUME q # p PROVE FALSE
    OBVIOUS
  <2>1. InLease(q)
    BY DEF InLease
  <2> QED BY <2>1, OneOwner DEF Expired
<1> QED BY <1>1 DEF Acquire, TypeOK

LEMMA LeaseStep == TypeOK /\ LeaseIsOwned /\ [Next]_vars => LeaseIsOwned'
<1> SUFFICES ASSUME TypeOK, LeaseIsOwned, [Next]_vars PROVE LeaseIsOwned'
  OBVIOUS
<1>1. CASE UNCHANGED vars
  BY <1>1 DEF LeaseIsOwned, InLease, vars, history
<1> SUFFICES ASSUME Next PROVE LeaseIsOwned'
  BY <1>1
<1>2. ~forced' /\ errors' = 0 => ~forced /\ errors = 0
  BY FaultsStay
<1>3. ASSUME NEW p \in Procs, Start(p) \/ Connect(p) \/ Wake(p) \/ Exit(p) \/ Crash(p)
      PROVE  LeaseIsOwned'
  <2>1. lease' = lease
    BY <1>3 DEF Start, Connect, Wake, Exit, Crash
  <2>2. ~InLease(p)'
    <3>1. Start(p) \/ Connect(p) \/ Wake(p) => ~InLease(p)'
      BY GoesTo DEF InLease, Start, Connect, Wake
    <3>2. Exit(p) \/ Crash(p) => ~InLease(p)'
      BY DEF TypeOK, InLease, Exit, Crash, Off
    <3> QED BY <1>3, <3>1, <3>2
  <2> QED BY <1>2, <1>3, <2>1, <2>2, OthersStay, LeaseLeftAlone DEF Step
<1>4. ASSUME NEW p \in Procs, \/ Check(p) \/ Unlink(p) \/ Open(p) \/ Flock(p) \/ Write(p)
                              \/ Blocked(p) \/ Clean(p) \/ LetGo(p)
      PROVE  LeaseIsOwned'
  <2>1. lease' = lease
    BY <1>4 DEF Check, Unlink, Open, Flock, Write, Blocked, Clean, LetGo
  <2>2. ~InLease(p)'
    <3>1. Check(p) \/ Unlink(p) \/ Blocked(p) => ~InLease(p)'
      BY GoesTo DEF InLease, Check, Unlink, Blocked
    <3>2. Open(p) \/ Clean(p) \/ LetGo(p) => ~InLease(p)'
      BY DEF TypeOK, Process, InLease, Open, Clean, LetGo, Off
    <3>3. Goto(p, "write") \/ Goto(p, "locked") => ~InLease(p)'
      BY GoesTo DEF InLease
    <3>4. Flock(p) \/ Write(p) => ~InLease(p)'
      BY <3>3 DEF TypeOK, Process, InLease, Flock, Write
    <3> QED BY <1>4, <3>1, <3>2, <3>4
  <2> QED BY <1>2, <1>4, <2>1, <2>2, OthersStay, LeaseLeftAlone DEF Step
<1>5. ASSUME NEW p \in Procs, Attempt(p) \/ Seize(p)
      PROVE  LeaseIsOwned'
  <2>1. \A q \in Procs \ {p} : proc'[q] = proc[q]
    BY <1>5, OthersStay DEF Step
  <2>2. CASE Acquire(p)
    <3>1. ~forced' => Expired \/ lease.owner = p
      <4>1. CASE Attempt(p)
        <5> SUFFICES ASSUME Sleep(p) PROVE FALSE
          BY <4>1 DEF Attempt
        <5> QED BY <2>2, GoesTo, Acquires DEF Sleep
      <4>2. CASE Seize(p)
        <5> SUFFICES ASSUME Goto(p, "out") PROVE FALSE
          BY <4>2 DEF Seize
        <5> QED BY <2>2, GoesTo, Acquires
      <4> QED BY <1>5, <4>1, <4>2
    <3> QED BY <1>2, <2>1, <2>2, <3>1, LeaseTaken
  <2>3. CASE lease' = lease /\ (Sleep(p) \/ Goto(p, "out"))
    <3>1. ~InLease(p)'
      BY <2>3, GoesTo DEF Sleep, InLease
    <3> QED BY <1>2, <2>1, <2>3, <3>1, LeaseLeftAlone
  <2> QED BY <1>5, <2>2, <2>3 DEF Attempt, Seize
<1>6. ASSUME NEW p \in Procs, Renew(p)
      PROVE  LeaseIsOwned'
  <2> SUFFICES ASSUME ~forced', errors' = 0 PROVE LeaseIsOwned'
    BY DEF LeaseIsOwned
  <2>1. InLease(p) /\ errors' = errors /\ lease.owner = p /\ \A q \in Procs : InLease(q) => q = p
    <3>1. ~Error
      BY ErrorCounts
    <3> QED BY <1>2, <1>6, <3>1, OneOwner DEF Renew
  <2>2. lease'.owner = p /\ lease'.left = Lease
    <3>1. ~Error
      BY ErrorCounts
    <3> QED BY <1>6, <2>1, <3>1 DEF Renew, TypeOK, Documents
  <2>3. proc'[p].renewed /\ \A q \in Procs : InLease(q)' => q = p
    BY <1>6, <2>1 DEF Renew, InLease, TypeOK, Process
  <2> QED BY <2>2, <2>3 DEF LeaseIsOwned
<1>7. ASSUME NEW p \in Procs, Release(p)
      PROVE  LeaseIsOwned'
  <2>1. ~forced /\ errors = 0 => \A q \in Procs : InLease(q) => q = p
    BY <1>7, OneOwner DEF Release
  <2>2. \A q \in Procs : InLease(q)' => InLease(q) /\ q # p
    BY <1>7 DEF Release, InLease, TypeOK, Off
  <2> QED BY <1>2, <2>1, <2>2 DEF LeaseIsOwned
<1>8. CASE Reap
  <2>1. ~forced /\ errors = 0 => \A q \in Procs : ~InLease(q)
    BY <1>8, OneOwner DEF Reap, Expired
  <2> QED BY <1>2, <1>8, <2>1 DEF Reap, LeaseIsOwned, InLease
<1>9. CASE Tick
  <2> SUFFICES ASSUME ~forced', errors' = 0, NEW q \in Procs, InLease(q)'
               PROVE  lease'.owner = q /\ lease'.left = IF proc'[q].renewed THEN Lease ELSE Lease - 1
    BY DEF LeaseIsOwned
  <2>1. InLease(q) /\ ~proc'[q].renewed
    BY <1>9 DEF Tick, InLease, TypeOK, Process
  <2>2. lease.owner = q /\ lease.left = Lease
    BY <1>2, <1>9, <2>1 DEF Tick, LeaseIsOwned
  <2> QED BY <1>9, <2>1, <2>2, PollLockAssumption DEF Tick, TypeOK, Documents
<1> QED BY <1>3, <1>4, <1>5, <1>6, <1>7, <1>8, <1>9 DEF Next, Step

---------------------------------------------------------------------------
(* The lock file *)

\* Somebody who crosses nobody: the others can at most poll.
LEMMA Alone ==
  ASSUME FileIsOwn, NEW p \in Procs, Crossing(p), ~crossed'
  PROVE  /\ ~crossed
         /\ \A q \in Procs \ {p} : ~AtFile(q)
         /\ \A q \in Procs : OwnsFile(q)
<1>1. ~crossed /\ \A q \in Procs \ {p} : ~AtFile(q)
  BY Zenon DEF Crossing
<1> QED BY <1>1 DEF FileIsOwn

LEMMA PollerHasPath ==
  ASSUME NEW q \in Procs, OwnsFile(q), InFile(q)
  PROVE  path # 0 /\ path = proc[q].fd /\ flock[path] = q /\ pid[path] = q /\ ~Stale(path)
  BY PidAssumption DEF OwnsFile, InFile, Stale

\* What remains to be shown of a step of p that crosses nobody.
LEMMA FileTaken ==
  ASSUME TypeOK, FileIsOwn, NEW p \in Procs, Crossing(p),
         \A q \in Procs \ {p} : proc'[q] = proc[q],
         ~crossed' => OwnsFile(p)' /\ \A q \in Procs \ {p} : InFile(q) => OwnsFile(q)'
  PROVE  FileIsOwn'
<1> SUFFICES ASSUME ~crossed', NEW q \in Procs PROVE OwnsFile(q)'
  BY DEF FileIsOwn
<1>1. CASE q = p \/ InFile(q)
  BY <1>1
<1>2. CASE q # p /\ ~InFile(q)
  <2>1. ~AtFile(q)
    BY <1>2, Alone
  <2>2. proc'[q].pc \notin {"flock", "write", "locked", "unlink", "unlink again", "clean"}
    BY <1>2, <2>1 DEF AtFile, InFile
  <2> QED BY <2>2 DEF OwnsFile, InFile
<1> QED BY <1>1, <1>2

LEMMA FileLeftAlone ==
  ASSUME FileIsOwn, NEW p \in Procs, \A q \in Procs \ {p} : proc'[q] = proc[q],
         UNCHANGED <<path, pid, flock, crossed>>,
         proc'[p].pc \notin {"flock", "write", "locked", "unlink", "unlink again", "clean"}
  PROVE  FileIsOwn'
  BY DEF FileIsOwn, OwnsFile, InFile, Stale

LEMMA FileOther ==
  ASSUME TypeOK, FileIsOwn, NEW p \in Procs,
         \/ Start(p) \/ Connect(p) \/ Wake(p) \/ Exit(p)
         \/ Attempt(p) \/ Seize(p) \/ Renew(p) \/ Release(p)
  PROVE  FileIsOwn'
<1>1. \A q \in Procs \ {p} : proc'[q] = proc[q]
  BY OthersStay DEF Step
<1>2. UNCHANGED <<path, pid, flock, crossed>>
  <2>1. Start(p) \/ Connect(p) \/ Wake(p) \/ Exit(p) => UNCHANGED <<path, pid, flock, crossed>>
    BY DEF Start, Connect, Wake, Exit, files, history
  <2>2. Attempt(p) \/ Seize(p) \/ Renew(p) \/ Release(p) => UNCHANGED <<path, pid, flock, crossed>>
    BY DEF Attempt, Seize, Renew, Release, files, history
  <2> QED BY <2>1, <2>2
<1>3. proc'[p].pc \in {"off", "connect", "ask", "nap", "force", "leased", "check", "out"}
  <2>1. Start(p) \/ Connect(p) \/ Wake(p) => proc'[p].pc \in {"connect", "ask", "check"}
    BY GoesTo DEF Start, Connect, Wake
  <2>2. Exit(p) \/ Release(p) => proc'[p].pc = "off"
    BY DEF TypeOK, Exit, Release, Off
  <2>3. Attempt(p) \/ Seize(p) => proc'[p].pc \in {"leased", "nap", "force", "out"}
    BY GoesTo, Acquires DEF Attempt, Seize, Sleep
  <2>4. Renew(p) => proc'[p].pc = "leased"
    BY DEF TypeOK, Process, Renew, InLease
  <2> QED BY <2>1, <2>2, <2>3, <2>4
<1>4. proc'[p].pc \notin {"flock", "write", "locked", "unlink", "unlink again", "clean"}
  BY <1>3
<1> QED BY <1>1, <1>2, <1>4, FileLeftAlone

LEMMA FileStep == TypeOK /\ FileIsOwn /\ [Next]_vars => FileIsOwn'
<1> SUFFICES ASSUME TypeOK, FileIsOwn, [Next]_vars PROVE FileIsOwn'
  OBVIOUS
<1>1. CASE UNCHANGED vars
  BY <1>1 DEF FileIsOwn, OwnsFile, InFile, Stale, vars, files, history
<1>2. ASSUME NEW p \in Procs, Check(p) \/ Blocked(p)
      PROVE  FileIsOwn'
  <2>1. \A q \in Procs \ {p} : proc'[q] = proc[q]
    BY <1>2, OthersStay DEF Step
  <2>2. Crossing(p) /\ UNCHANGED <<path, pid, flock>>
    BY <1>2 DEF Check, Blocked, files
  <2>3. /\ proc'[p].pc \in {"unlink", "open", "unlink again", "nap at file", "out"}
        /\ proc'[p].pc \in {"unlink", "unlink again"} => path = 0 \/ Stale(path)
    BY <1>2, GoesTo DEF Check, Blocked
  <2>4. OwnsFile(p)'
    BY <2>2, <2>3 DEF OwnsFile, InFile, Stale
  <2>5. ASSUME NEW q \in Procs \ {p}, ~crossed', InFile(q) PROVE OwnsFile(q)'
    BY <2>1, <2>2, <2>5, Alone, PollerHasPath DEF OwnsFile, InFile, Stale
  <2> QED BY <2>1, <2>2, <2>4, <2>5, FileTaken
<1>3. ASSUME NEW p \in Procs, Unlink(p)
      PROVE  FileIsOwn'
  <2>1. \A q \in Procs \ {p} : proc'[q] = proc[q]
    BY <1>3, OthersStay DEF Step
  <2>2. Crossing(p) /\ proc'[p].pc \in {"open", "check"}
    BY <1>3, GoesTo DEF Unlink
  <2>3. OwnsFile(p)'
    BY <2>2 DEF OwnsFile, InFile
  <2>4. ASSUME ~crossed', NEW q \in Procs \ {p}, InFile(q) PROVE FALSE
    BY <1>3, <2>2, <2>4, Alone, PollerHasPath DEF OwnsFile, Unlink
  <2> QED BY <2>1, <2>2, <2>3, <2>4, FileTaken
<1>4. ASSUME NEW p \in Procs, Open(p)
      PROVE  FileIsOwn'
  <2>1. \A q \in Procs \ {p} : proc'[q] = proc[q]
    BY <1>4, OthersStay DEF Step
  <2>2. PICK i \in Files : /\ path' = i /\ proc' = [proc EXCEPT ![p].pc = "flock", ![p].fd = i]
                           /\ path # 0 => i = path /\ pid' = pid
    BY <1>4 DEF Open
  <2>3. proc'[p].pc = "flock" /\ proc'[p].fd = i /\ i # 0 /\ Crossing(p) /\ flock' = flock
    BY <1>4, <2>2, FilesAre DEF TypeOK, Process, Open
  <2>4. OwnsFile(p)'
    BY <2>2, <2>3 DEF OwnsFile, InFile
  <2>5. ASSUME NEW q \in Procs \ {p}, ~crossed', InFile(q) PROVE OwnsFile(q)'
    <3>1. path # 0 /\ path = proc[q].fd /\ flock[path] = q /\ pid[path] = q
      BY <2>3, <2>5, Alone, PollerHasPath
    <3> QED BY <2>1, <2>2, <2>3, <2>5, <3>1 DEF OwnsFile, InFile
  <2> QED BY <2>1, <2>3, <2>4, <2>5, FileTaken
<1>5. ASSUME NEW p \in Procs, Flock(p)
      PROVE  FileIsOwn'
  <2>1. \A q \in Procs \ {p} : proc'[q] = proc[q]
    BY <1>5, OthersStay DEF Step
  <2>2. Crossing(p) /\ UNCHANGED <<path, pid>>
    BY <1>5 DEF Flock
  <2> SUFFICES ASSUME ~crossed'
               PROVE  OwnsFile(p)' /\ \A q \in Procs \ {p} : InFile(q) => OwnsFile(q)'
    BY <2>1, <2>2, FileTaken
  <2>3. path # 0 /\ path = proc[p].fd /\ path \in Files
    BY <1>5, <2>2, Alone DEF OwnsFile, Flock, TypeOK
  <2>4. CASE flock[path] = Nobody
    <3>1. proc'[p].pc = "write" /\ proc'[p].fd = path /\ flock'[path] = p
      BY <1>5, <2>3, <2>4 DEF Flock, Goto, TypeOK, Process
    <3>2. \A q \in Procs \ {p} : ~InFile(q)
      BY <2>2, <2>4, Alone, PollerHasPath, PidAssumption
    <3> QED BY <2>2, <2>3, <3>1, <3>2 DEF OwnsFile, InFile
  <2>5. CASE flock[path] # Nobody
    <3>1. proc'[p].pc = "blocked" /\ flock' = flock
      BY <1>5, <2>3, <2>5 DEF Flock, TypeOK, Process
    <3>2. ASSUME NEW q \in Procs \ {p}, InFile(q) PROVE OwnsFile(q)'
      BY <2>1, <2>2, <3>1, <3>2, Alone, PollerHasPath DEF OwnsFile, InFile
    <3> QED BY <3>1, <3>2 DEF OwnsFile, InFile
  <2> QED BY <2>4, <2>5
<1>6. ASSUME NEW p \in Procs, Write(p)
      PROVE  FileIsOwn'
  <2>1. \A q \in Procs \ {p} : proc'[q] = proc[q]
    BY <1>6, OthersStay DEF Step
  <2>2. Crossing(p) /\ UNCHANGED <<path, flock>>
    BY <1>6 DEF Write
  <2> SUFFICES ASSUME ~crossed'
               PROVE  OwnsFile(p)' /\ \A q \in Procs \ {p} : InFile(q) => OwnsFile(q)'
    BY <2>1, <2>2, FileTaken
  <2>3. path # 0 /\ path = proc[p].fd /\ path \in Files /\ flock[path] = p
    BY <1>6, <2>2, Alone DEF OwnsFile, Write, TypeOK
  <2>4. proc'[p].pc = "locked" /\ proc'[p].fd = path /\ pid'[path] = p
    BY <1>6, <2>3 DEF Write, Goto, TypeOK, Process
  <2>5. \A q \in Procs \ {p} : ~InFile(q)
    BY <2>2, <2>3, Alone, PollerHasPath
  <2> QED BY <2>2, <2>3, <2>4, <2>5 DEF OwnsFile, InFile
<1>7. ASSUME NEW p \in Procs, LetGo(p)
      PROVE  FileIsOwn'
  <2>1. \A q \in Procs \ {p} : proc'[q] = proc[q]
    BY <1>7, OthersStay DEF Step
  <2>2. Crossing(p) /\ proc'[p].pc = "clean"
    BY <1>7 DEF LetGo, TypeOK, Process
  <2>3. ~crossed' => \A q \in Procs \ {p} : ~InFile(q)
    BY <1>7, <2>2, Alone, PollerHasPath DEF LetGo
  <2>4. ~crossed' => OwnsFile(p)'
    BY <2>1, <2>2, <2>3 DEF OwnsFile, InFile
  <2> QED BY <2>1, <2>2, <2>3, <2>4, FileTaken
<1>8. ASSUME NEW p \in Procs, Clean(p)
      PROVE  FileIsOwn'
  <2>1. \A q \in Procs \ {p} : proc'[q] = proc[q]
    BY <1>8, OthersStay DEF Step
  <2>2. Crossing(p) /\ proc'[p].pc = "off"
    BY <1>8 DEF Clean, TypeOK, Off
  <2>3. ~crossed' => \A q \in Procs \ {p} : ~InFile(q)
    BY <1>8, <2>2, Alone DEF Clean, OwnsFile
  <2>4. OwnsFile(p)'
    BY <2>2 DEF OwnsFile, InFile
  <2> QED BY <2>1, <2>2, <2>3, <2>4, FileTaken
<1>9. ASSUME NEW p \in Procs, Crash(p)
      PROVE  FileIsOwn'
  <2>1. \A q \in Procs \ {p} : proc'[q] = proc[q]
    BY <1>9, OthersStay
  <2>2. proc'[p].pc = "off" /\ UNCHANGED <<path, crossed>>
    BY <1>9 DEF Crash, TypeOK, Off, history
  <2>3. ASSUME NEW i \in Files
        PROVE  /\ Stale(i) => Stale(i)'
               /\ \A q \in Procs \ {p} : (flock[i] = q => flock'[i] = q) /\ (pid[i] = q => pid'[i] = q)
    BY <1>9 DEF Crash, Ended, Unlocked, Stale
  <2>4. ASSUME ~crossed', NEW q \in Procs PROVE OwnsFile(q)'
    <3>1. OwnsFile(q) /\ (path = 0 \/ path \in Files)
      BY <2>2, <2>4 DEF FileIsOwn, TypeOK
    <3>2. CASE q = p
      BY <2>2, <3>2 DEF OwnsFile, InFile
    <3>3. CASE q # p
      BY <2>1, <2>2, <2>3, <3>1, <3>3 DEF OwnsFile, InFile, Stale
    <3> QED BY <3>2, <3>3
  <2> QED BY <2>4 DEF FileIsOwn
<1>10. CASE Tick \/ Reap
  <2>1. \A q \in Procs : proc'[q].pc = proc[q].pc /\ proc'[q].fd = proc[q].fd
    BY <1>10 DEF Tick, Reap, TypeOK, Process
  <2>2. UNCHANGED <<path, pid, flock, crossed>>
    BY <1>10 DEF Tick, Reap, files, history
  <2> QED BY <2>1, <2>2 DEF FileIsOwn, OwnsFile, InFile, Stale
<1> QED BY <1>1, <1>2, <1>3, <1>4, <1>5, <1>6, <1>7, <1>8, <1>9, <1>10, FileOther DEF Next, Step

---------------------------------------------------------------------------
(* The pids *)

LEMMA PidStep == TypeOK /\ PidsAreLive /\ [Next]_vars => PidsAreLive'
<1> SUFFICES ASSUME TypeOK, PidsAreLive, [Next]_vars, NEW i \in Files, pid'[i] \in Procs
             PROVE  proc'[pid'[i]].pc \in {"locked", "clean"}
  BY DEF PidsAreLive
<1>1. CASE UNCHANGED vars
  BY <1>1 DEF PidsAreLive, vars, files
<1>2. ASSUME NEW p \in Procs, UNCHANGED pid, proc[p].pc \notin {"locked", "clean"},
             \A q \in Procs \ {p} : proc'[q] = proc[q]
      PROVE  proc'[pid'[i]].pc \in {"locked", "clean"}
  BY <1>2 DEF PidsAreLive
<1>3. ASSUME NEW p \in Procs, Start(p) \/ Connect(p) \/ Wake(p) \/ Exit(p)
      PROVE  UNCHANGED pid /\ proc[p].pc \notin {"locked", "clean"}
  BY <1>3 DEF Start, Connect, Wake, Exit, files
<1>4. ASSUME NEW p \in Procs, Attempt(p) \/ Seize(p) \/ Renew(p) \/ Release(p)
      PROVE  UNCHANGED pid /\ proc[p].pc \notin {"locked", "clean"}
  BY <1>4 DEF Attempt, Seize, Renew, Release, InLease, files
<1>5. ASSUME NEW p \in Procs, Check(p) \/ Unlink(p) \/ Flock(p) \/ Blocked(p)
      PROVE  UNCHANGED pid /\ proc[p].pc \notin {"locked", "clean"}
  BY <1>5 DEF Check, Unlink, Flock, Blocked, files
<1>6. ASSUME NEW p \in Procs,
             \/ Start(p) \/ Connect(p) \/ Wake(p) \/ Exit(p)
             \/ Attempt(p) \/ Seize(p) \/ Renew(p) \/ Release(p)
             \/ Check(p) \/ Unlink(p) \/ Flock(p) \/ Blocked(p)
      PROVE  proc'[pid'[i]].pc \in {"locked", "clean"}
  <2>1. \A q \in Procs \ {p} : proc'[q] = proc[q]
    BY <1>6, OthersStay DEF Step
  <2> QED BY <1>2, <1>3, <1>4, <1>5, <1>6, <2>1
<1>7. ASSUME NEW p \in Procs, Open(p)
      PROVE  proc'[pid'[i]].pc \in {"locked", "clean"}
  <2>1. \A q \in Procs \ {p} : proc'[q] = proc[q]
    BY <1>7, OthersStay DEF Step
  <2>2. proc[p].pc = "open" /\ (pid'[i] = pid[i] \/ pid'[i] = Nobody)
    BY <1>7 DEF Open, TypeOK
  <2> QED BY <2>1, <2>2, PidAssumption DEF PidsAreLive
<1>8. ASSUME NEW p \in Procs, Write(p)
      PROVE  proc'[pid'[i]].pc \in {"locked", "clean"}
  <2>1. \A q \in Procs \ {p} : proc'[q] = proc[q]
    BY <1>8, OthersStay DEF Step
  <2>2. proc'[p].pc = "locked"
    BY <1>8, GoesTo DEF Write
  <2>3. pid'[i] = p \/ pid'[i] = pid[i]
    BY <1>8 DEF Write, TypeOK
  <2> QED BY <2>1, <2>2, <2>3 DEF PidsAreLive
<1>9. ASSUME NEW p \in Procs, LetGo(p)
      PROVE  proc'[pid'[i]].pc \in {"locked", "clean"}
  BY <1>9 DEF LetGo, TypeOK, Process, PidsAreLive
<1>10. ASSUME NEW p \in Procs, Clean(p) \/ Crash(p)
      PROVE  proc'[pid'[i]].pc \in {"locked", "clean"}
  <2>1. pid'[i] = pid[i] /\ pid[i] # p
    BY <1>10, PidAssumption DEF Clean, Crash, Ended
  <2>2. \A q \in Procs \ {p} : proc'[q] = proc[q]
    BY <1>10, OthersStay DEF Step
  <2> QED BY <2>1, <2>2 DEF PidsAreLive
<1>11. CASE Tick \/ Reap
  <2>1. \A q \in Procs : proc'[q].pc = proc[q].pc
    BY <1>11 DEF Tick, Reap, TypeOK, Process
  <2> QED BY <1>11, <2>1 DEF Tick, Reap, files, PidsAreLive
<1> QED BY <1>1, <1>6, <1>7, <1>8, <1>9, <1>10, <1>11 DEF Next, Step

---------------------------------------------------------------------------
(* The theorems *)

LEMMA InvStep == IInv /\ [Next]_vars => IInv'
  BY TypeStep, LeaseStep, FileStep, PidStep DEF IInv

\* The lease document, the lock file and the processes keep their types
\* (singleton.py:39-374).
THEOREM TypeCorrect == Spec => []TypeOK
<1>1. IInv => TypeOK
  BY DEF IInv
<1> QED BY InitInv, InvStep, <1>1, PTL DEF Spec

\* The lease, and the ends of the file lock, are always as the processes
\* that rely on them take them to be.
LEMMA AlwaysInv == Spec => []IInv
  BY InitInv, InvStep, PTL DEF Spec

LEMMA AtMostOne ==
  ASSUME NEW S \in SUBSET Procs, \A p, q \in S : p = q
  PROVE  Cardinality(S) <= 1
<1>1. CASE S = {}
  BY <1>1, FS_EmptySet
<1>2. CASE S # {}
  <2>1. PICK p \in S : S = {p}
    BY <1>2
  <2> QED BY <2>1, FS_Singleton
<1> QED BY <1>1, <1>2

\* However many processes start, wait, crash and come back, a second one
\* polls under the lease only when it took it by force or a command of
\* Mongo's failed (singleton.py:108-166).
THEOREM LeaseExclusion == Spec => []LeaseExcludes
<1>1. IInv => LeaseExcludes
  <2> SUFFICES ASSUME IInv, ~forced, ~(errors > 0)
               PROVE  ~(Cardinality({p \in Procs : InLease(p)}) > 1)
    BY DEF LeaseExcludes
  <2>1. errors = 0
    BY DEF IInv, TypeOK
  <2>2. Cardinality({p \in Procs : InLease(p)}) <= 1
    BY <2>1, OneOwner, AtMostOne DEF IInv
  <2>3. Cardinality({p \in Procs : InLease(p)}) \in Nat
    BY PollLockAssumption, FS_Subset, FS_CardinalityType
  <2> QED BY <2>2, <2>3
<1> QED BY AlwaysInv, <1>1, PTL

\* Without a crossing at the lock file one process at most polls under it
\* (singleton.py:264-358).
THEOREM FileExclusion == Spec => []FileExcludes
<1>1. IInv => FileExcludes
  <2> SUFFICES ASSUME IInv, ~crossed
               PROVE  Cardinality({p \in Procs : InFile(p)}) <= 1
    BY DEF FileExcludes
  <2>1. \A p, q \in Procs : InFile(p) /\ InFile(q) => p = q
    BY PollerHasPath DEF IInv, FileIsOwn
  <2> QED BY <2>1, AtMostOne
<1> QED BY AlwaysInv, <1>1, PTL

\* A start ends in vain only when another process polls or is at the lock
\* file, or Mongo failed, for any number of processes and any deadline
\* (singleton.py:204-205).
THEOREM StartsGiveWay == Spec => GivesWay
<1>1. ASSUME IInv, [Next]_vars, NEW p \in Procs, proc'[p].pc = "out", proc[p].pc # "out"
      PROVE  errors' > 0 \/ \E q \in Procs \ {p} : Polls(q) \/ AtFile(q)
  <2>1. CASE Seize(p)
    <3>1. ~Acquire(p)
      BY <1>1, Acquires DEF IInv
    <3> QED BY <2>1, <3>1, <1>1, ErrorCounts DEF Seize, IInv
  <2>2. CASE Blocked(p)
    <3>1. path \in Files /\ ~Stale(path)
      BY <2>2, <1>1, GoesTo DEF Blocked, IInv, TypeOK
    <3>2. pid[path] \in Procs /\ proc[pid[path]].pc \in {"locked", "clean"}
      BY <3>1, <1>1 DEF IInv, PidsAreLive, TypeOK, Stale
    <3>3. pid[path] # p
      BY <2>2, <3>2 DEF Blocked
    <3> QED BY <3>2, <3>3 DEF Polls, InFile, AtFile
  <2>3. Seize(p) \/ Blocked(p)
    <3>1. TypeOK
      BY <1>1 DEF IInv
    <3>2. ~UNCHANGED vars /\ ~Tick /\ ~Reap
      BY <3>1, <1>1 DEF vars, Tick, Reap, TypeOK, Process
    <3>3. PICK q \in Procs : Start(q) \/ Step(q) \/ Release(q) \/ LetGo(q) \/ Exit(q) \/ Crash(q)
      BY <3>2, <1>1 DEF Next
    <3>4. q = p
      BY <3>1, <3>3, <1>1, OthersStay
    <3>5. ~Start(p) /\ ~Connect(p) /\ ~Wake(p) /\ ~Check(p) /\ ~Unlink(p) /\ ~Write(p)
      BY <3>1, <1>1, GoesTo DEF Start, Connect, Wake, Check, Unlink, Write
    <3>6. ~Exit(p) /\ ~Release(p) /\ ~Clean(p) /\ ~Crash(p)
      BY <3>1, <1>1 DEF Exit, Release, Clean, Crash, TypeOK, Off
    <3>7. ~Attempt(p)
      BY <3>1, <1>1, GoesTo, Acquires DEF Attempt, Sleep
    <3>8. ~Renew(p) /\ ~Open(p) /\ ~LetGo(p)
      BY <3>1, <1>1 DEF Renew, Open, LetGo, TypeOK, Process
    <3>9. ~Flock(p)
      <4>1. ~Goto(p, "write")
        BY <3>1, <1>1, GoesTo
      <4> QED BY <3>1, <1>1, <4>1 DEF Flock, TypeOK, Process
    <3> QED BY <3>3, <3>4, <3>5, <3>6, <3>7, <3>8, <3>9 DEF Step
  <2> QED BY <2>1, <2>2, <2>3
<1>2. IInv /\ [Next]_vars =>
        [\A p \in Procs : proc'[p].pc = "out" /\ proc[p].pc # "out" =>
           errors' > 0 \/ \E q \in Procs \ {p} : Polls(q) \/ AtFile(q)]_vars
  BY <1>1
<1> QED BY AlwaysInv, <1>2, PTL DEF Spec, GivesWay
=============================================================================
