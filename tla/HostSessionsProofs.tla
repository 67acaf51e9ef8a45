------------------------- MODULE HostSessionsProofs -------------------------
(* Proofs about HostSessions: a running bot is in the registry, a session  *)
(* is paid once and before the registry says stopped, and starts one after *)
(* the other keep to the plan, for any number of processes, bots,          *)
(* sandboxes and faults and any plan; one process keeps to it always, and  *)
(* never brings back what it stopped.                                      *)
EXTENDS HostSessions, FiniteSetTheorems, WellFoundedInduction, TLAPS

Pcs == {"load", "limit", "launch", "enrol", "plane", "rename",
        "stop", "settle", "save", "fail", "probe"}
Doings == [pc : Pcs, todo : SUBSET Ids, next : {"limit", "load", "end"},
           bot : Bots \cup {0}, keep : Ids \cup {0}]

Typed ==
    /\ row \in [Ids -> Rows] /\ mem \in [Procs -> [Ids -> Rows]]
    /\ call \in [Procs -> {Idle} \cup Doings]
    /\ live \subseteq 1..boxes /\ boxes \in 0..MaxBoxes
    /\ keys \subseteq Ids /\ paid \in [Ids -> Nat]
    /\ unpaid \subseteq Ids /\ renamed \subseteq Ids
    /\ faults \in Nat

\* What a call has in hand is there: the instances it is to stop, fail or
\* probe, the one it starts, and the bot.
InHand(p) ==
    /\ call[p].pc \in {"stop", "settle", "save", "fail", "enrol"} => call[p].todo # {}
    /\ call[p].pc \in {"stop", "settle", "save", "fail", "probe", "plane", "rename"} =>
         \A i \in call[p].todo : mem[p][i] # None
    /\ call[p].pc \in {"enrol", "plane", "rename"} => \E b \in 1..boxes : call[p].todo = {b}
    /\ call[p].pc = "fail" => \A i \in call[p].todo : mem[p][i].box \notin live
    /\ call[p].pc \in {"load", "limit", "launch", "enrol", "plane", "rename"} => call[p].bot \in Bots
    /\ call[p].pc \in {"stop", "settle", "save"} /\ call[p].next # "end" => call[p].bot \in Bots
    /\ call[p].pc = "rename" => call[p].keep # 0
    /\ call[p] # Idle => call[p].keep <= boxes

\* The session of a box is charged, or its charge failed, or a restart filed
\* it under an older id.
Covered(box) == paid[box] > 0 \/ box \in unpaid \cup renamed

\* What may be filed under an id, in the registry and in any process's map:
\* the id's own box, as running unless the box ended; or, once the id's own
\* box is covered and has ended, one that a restart filed there.
Fits(r, i) == r # None =>
    /\ i <= boxes /\ r.box <= boxes
    /\ r.box = i \/ (r.box \in renamed /\ Covered(i))
    /\ i \in live \ strays => r.box = i /\ r.status = "running"

\* In a map, "stopped" is covered as soon as the stop has settled.
Settled(p, i) == mem[p][i].status = "stopped" =>
    Covered(mem[p][i].box) \/ (call[p].pc = "settle" /\ Target(p) = i)

\* Before a restart files another box under an id, the id's own box was
\* stopped and settled.
First(p, pcs) == call[p].pc \in pcs /\ call[p].next = "load" /\ call[p].todo = {call[p].keep}
KeepsEnded(p) == call[p] # Idle /\ call[p].keep # 0 =>
    /\ call[p].keep \notin live \ strays \/ First(p, {"stop"})
    /\ Covered(call[p].keep) \/ First(p, {"stop", "settle"})

RowsFit == \A i \in Ids : Fits(row[i], i) /\ \A p \in Procs : Fits(mem[p][i], i)
RowsSettled == StoppedIsPaid /\ \A p \in Procs, i \in Ids : Settled(p, i)
Listed == \A box \in live \ strays : Enrolling(box) \/ row[box] # None
Keyed ==
    /\ \A i \in keys : Covered(i)
    /\ \A box \in Ids \ renamed : paid[box] <= 1 /\ (paid[box] > 0 => box \in keys)
OneCall == ~raced =>
    /\ \A p, q \in Procs : p # q => call[p] = Idle \/ call[q] = Idle
    /\ Cardinality(live \ strays) <= MaxBots
    /\ \A p \in Procs : call[p].pc = "launch" => Cardinality(live \ strays) < MaxBots

IInv ==
    /\ Typed /\ RowsFit /\ RowsSettled /\ Listed /\ Keyed /\ OneCall
    /\ \A p \in Procs : InHand(p) /\ KeepsEnded(p)

---------------------------------------------------------------------------
(* Data *)

LEMMA IdsAreNat == \A i \in Ids : i \in Nat /\ i # 0
  BY HostSessionsAssumption DEF Ids

LEMMA BoxesAreIds == ASSUME Typed PROVE 1..boxes \subseteq Ids /\ live \subseteq Ids
  BY HostSessionsAssumption DEF Ids, Typed

LEMMA TargetIsIn ==
  ASSUME NEW T \in SUBSET Ids, T # {}
  PROVE  Min(T) \in T
<1> DEFINE Lt == {ss \in Nat \X Nat : ss[1] < ss[2]}
<1>1. IsWellFoundedOn(Lt, Nat)
  BY NatLessThanWellFounded DEF OpToRel
<1>2. T \subseteq Nat
  BY IdsAreNat
<1> HIDE DEF Lt
<1>3. PICK x \in T : \A y \in T : ~(<<y, x>> \in Lt)
  BY <1>1, <1>2, WFMin
<1>4. ASSUME NEW y \in T PROVE x <= y
  <2>1. x \in Nat /\ y \in Nat
    BY <1>2
  <2>2. y < x => <<y, x>> \in Lt
    BY <2>1 DEF Lt
  <2> QED BY <2>1, <2>2, <1>3
<1> QED BY <1>4 DEF Min

LEMMA OnlyBox == \A b \in Nat : Max({b}) = b
  BY DEF Max

\* A call is idle, or it has all the fields.
LEMMA Busy ==
  ASSUME Typed, NEW p \in Procs
  PROVE  /\ call[p].pc = "idle" <=> call[p] = Idle
         /\ call[p] # Idle => call[p] \in Doings
<1>1. call[p] \in {Idle} \cup Doings
  BY DEF Typed
<1>2. \A c \in Doings : c.pc # "idle"
  BY DEF Doings, Pcs
<1> QED BY <1>1, <1>2 DEF Idle

LEMMA RowIs == \A r \in Rows : r.status = "none" <=> r = None
  BY DEF Rows, None

---------------------------------------------------------------------------
(* What every step keeps *)

\* The others' maps and calls are their own.
Others(p) == \A q \in Procs \ {p} : mem'[q] = mem[q] /\ call'[q] = call[q]

\* Boxes only end, except for a new one, and what is covered stays covered.
Later ==
    /\ boxes \in Nat /\ boxes' \in Nat /\ boxes <= boxes'
    /\ \A b \in live' : b <= boxes => b \in live
    /\ strays \subseteq strays'
    /\ unpaid \subseteq unpaid' /\ renamed \subseteq renamed'
    /\ \A b \in Ids : paid[b] > 0 => paid'[b] > 0

LEMMA CoveredStays == ASSUME Later, NEW b \in Ids, Covered(b) PROVE Covered(b)'
  BY DEF Later, Covered

LEMMA RowType == ASSUME NEW r \in Rows, r # None PROVE r.box \in Ids /\ r.bot \in Bots
  BY DEF Rows

LEMMA FitsStays ==
  ASSUME Later, NEW r \in Rows, NEW i \in Ids, Fits(r, i)
  PROVE  Fits(r, i)'
<1> SUFFICES ASSUME r # None
             PROVE  /\ i <= boxes' /\ r.box <= boxes'
                    /\ r.box = i \/ (r.box \in renamed' /\ Covered(i)')
                    /\ i \in live' \ strays' => r.box = i /\ r.status = "running"
  BY DEF Fits
<1>1. i <= boxes /\ r.box <= boxes /\ r.box \in Ids /\ r.box \in Nat /\ i \in Nat
  BY RowType, IdsAreNat DEF Fits
<1>2. i <= boxes' /\ r.box <= boxes'
  BY <1>1 DEF Later
<1> QED BY <1>1, <1>2, CoveredStays DEF Fits, Later

LEMMA OthersKeep ==
  ASSUME IInv, Later, NEW p \in Procs, Others(p), NEW q \in Procs \ {p}
  PROVE  /\ InHand(q)' /\ KeepsEnded(q)'
         /\ \A i \in Ids : Fits(mem[q][i], i)' /\ Settled(q, i)'
<1>1. mem'[q] = mem[q] /\ call'[q] = call[q]
  BY DEF Others
<1>2. call[q] # Idle => call[q].keep \in Ids \cup {0} /\ call[q].todo \subseteq Ids
  BY Busy DEF IInv, Doings
<1>3. \A i \in Ids : mem[q][i] \in Rows
  BY DEF IInv, Typed
<1>4. InHand(q)'
  <2>1. InHand(q) /\ RowsFit /\ Typed
    BY DEF IInv
  <2>2. 1..boxes \subseteq 1..boxes' /\ (call[q] # Idle => call[q].keep <= boxes')
    <3>1. ASSUME call[q] # Idle PROVE call[q].keep \in Nat
      <4>1. call[q].keep \in Ids \cup {0}
        BY <1>2, <3>1
      <4> QED BY <4>1, IdsAreNat
    <3>2. call[q] # Idle => call[q].keep <= boxes
      BY <2>1 DEF InHand
    <3> QED BY <3>1, <3>2 DEF Later
  <2>3. call[q].pc = "fail" => \A i \in call[q].todo : mem[q][i].box \notin live'
    <3> SUFFICES ASSUME call[q].pc = "fail", NEW i \in call[q].todo
                 PROVE  mem[q][i].box \notin live'
      OBVIOUS
    <3>1. i \in Ids /\ mem[q][i] # None /\ mem[q][i].box \notin live
      BY <1>2, <2>1, Busy DEF InHand, Idle
    <3>2. mem[q][i].box <= boxes
      BY <2>1, <3>1 DEF RowsFit, Fits
    <3> QED BY <3>1, <3>2 DEF Later
  <2> QED BY <1>1, <2>1, <2>2, <2>3 DEF InHand
<1>5. KeepsEnded(q)'
  <2>1. KeepsEnded(q) /\ InHand(q)
    BY DEF IInv
  <2>2. ASSUME call[q] # Idle, call[q].keep # 0
        PROVE  /\ call[q].keep \notin live \ strays => call[q].keep \notin live' \ strays'
               /\ Covered(call[q].keep) => Covered(call[q].keep)'
    BY <1>1, <1>2, <2>1, <2>2, CoveredStays DEF Later, InHand, Covered
  <2> QED BY <1>1, <2>1, <2>2 DEF KeepsEnded, First, Covered
<1>6. ASSUME NEW i \in Ids PROVE Fits(mem[q][i], i)'
  <2>1. Fits(mem[q][i], i)
    BY DEF IInv, RowsFit
  <2> QED BY <1>1, <1>3, <2>1, FitsStays DEF Fits, Covered
<1>7. ASSUME NEW i \in Ids PROVE Settled(q, i)'
  <2>1. Settled(q, i)
    BY DEF IInv, RowsSettled
  <2>2. mem[q][i].status = "stopped" => mem[q][i].box \in Ids
    BY <1>3, RowIs, RowType DEF None
  <2> QED BY <1>1, <2>1, <2>2, CoveredStays DEF Settled, Target, Covered
<1> QED BY <1>4, <1>5, <1>6, <1>7

\* The rows of the registry and p's map after a step of p.
LEMMA DataStep ==
  ASSUME IInv, Later, NEW p \in Procs, Others(p), Typed',
         \A i \in Ids : Fits(mem[p][i], i)' /\ Settled(p, i)',
         \/ row' = row
         \/ row' = Over(mem'[p], row) /\ call'[p].pc # "settle"
  PROVE  RowsFit' /\ RowsSettled'
<1>1. \A q \in Procs \ {p}, i \in Ids : Fits(mem[q][i], i)' /\ Settled(q, i)'
  BY OthersKeep
<1>2. \A i \in Ids : \/ row'[i] = row[i]
                     \/ row'[i] = mem'[p][i] /\ call'[p].pc # "settle"
  BY DEF Over
<1>3. ASSUME NEW i \in Ids PROVE Fits(row[i], i)'
  <2>1. Fits(row[i], i) /\ row[i] \in Rows
    BY DEF IInv, RowsFit, Typed
  <2>2. CASE row'[i] = row[i]
    BY <2>1, <2>2, FitsStays DEF Fits, Covered
  <2>3. CASE row'[i] = mem'[p][i]
    <3>1. Fits(mem[p][i], i)'
      OBVIOUS
    <3> QED BY <2>3, <3>1 DEF Fits, Covered
  <2> QED BY <1>2, <2>2, <2>3
<1>4. ASSUME NEW i \in Ids, row'[i].status = "stopped"
      PROVE  paid'[row'[i].box] > 0 \/ row'[i].box \in unpaid' \cup renamed'
  <2>1. CASE row'[i] = row[i]
    <3>1. row[i] \in Rows /\ row[i] # None
      BY <1>4, <2>1 DEF IInv, Typed, None
    <3>2. Covered(row[i].box) /\ row[i].box \in Ids
      BY <1>4, <2>1, <3>1, RowType DEF IInv, RowsSettled, StoppedIsPaid, Covered
    <3> QED BY <2>1, <3>2, CoveredStays DEF Covered
  <2>2. CASE row'[i] = mem'[p][i] /\ call'[p].pc # "settle"
    BY <1>4, <2>2 DEF Settled, Covered
  <2> QED BY <1>2, <2>1, <2>2
<1> QED BY <1>1, <1>3, <1>4 DEF RowsFit, RowsSettled, StoppedIsPaid

\* What p takes from the registry or has already, fits.
LEMMA ReadsFit ==
  ASSUME IInv, Later, NEW p \in Procs, NEW i \in Ids,
         mem'[p][i] = row[i] \/ mem'[p][i] = mem[p][i]
  PROVE  Fits(mem[p][i], i)'
<1>1. /\ Fits(row[i], i) /\ row[i] \in Rows
      /\ Fits(mem[p][i], i) /\ mem[p][i] \in Rows
  BY DEF IInv, RowsFit, Typed
<1> QED BY <1>1, FitsStays DEF Fits, Covered

LEMMA ReadsSettled ==
  ASSUME IInv, Later, NEW p \in Procs, NEW i \in Ids,
         mem'[p][i] = row[i] \/ (mem'[p][i] = mem[p][i] /\ call[p].pc # "settle")
  PROVE  Settled(p, i)'
<1> SUFFICES ASSUME mem'[p][i].status = "stopped"
             PROVE  Covered(mem[p][i].box)'
  BY DEF Settled
<1>1. mem'[p][i] \in Rows /\ mem'[p][i] # None
  BY DEF IInv, Typed, None
<1>2. mem'[p][i].box \in Ids
  BY <1>1, RowType
<1>3. paid[mem'[p][i].box] > 0 \/ mem'[p][i].box \in unpaid \cup renamed
  BY DEF IInv, RowsSettled, StoppedIsPaid, Settled, Covered
<1> QED BY <1>2, <1>3 DEF Later, Covered

LEMMA ListedStep ==
  ASSUME IInv, Later, NEW p \in Procs, Others(p), Typed', boxes' = boxes,
         call[p].pc # "enrol", row' = row \/ row' = Over(mem'[p], row)
  PROVE  Listed'
<1> SUFFICES ASSUME NEW b \in live' \ strays'
             PROVE  (\E q \in Procs : call'[q].pc = "enrol" /\ call'[q].todo = {b}) \/ row'[b] # None
  BY DEF Listed, Enrolling
<1>1. b \in live \ strays /\ b \in Ids
  <2>1. b \in 1..boxes
    BY DEF Typed
  <2>2. b \in Ids
    BY <2>1, BoxesAreIds DEF IInv
  <2> QED BY <2>1, <2>2 DEF Later
<1>2. row[b] # None => row'[b] # None
  BY <1>1 DEF Over
<1>3. ASSUME NEW q \in Procs, call[q].pc = "enrol"
      PROVE  call'[q] = call[q]
  BY <1>3 DEF Others
<1> QED BY <1>1, <1>2, <1>3 DEF IInv, Listed, Enrolling

LEMMA KeyedStep ==
  ASSUME IInv, Later, UNCHANGED <<keys, paid>>
  PROVE  Keyed'
<1>1. \A i \in keys : Covered(i)'
  BY CoveredStays DEF IInv, Typed, Keyed
<1> QED BY <1>1 DEF IInv, Keyed, Later

LEMMA LoadIsFinite ==
  ASSUME Typed
  PROVE  IsFiniteSet(live \ strays) /\ Cardinality(live \ strays) \in Nat
<1>1. IsFiniteSet(1..boxes)
  BY FS_Interval DEF Typed
<1> QED BY <1>1, FS_Subset, FS_CardinalityType DEF Typed

\* A step of a call that starts no box leaves at most as many.
LEMMA OneCallStep ==
  ASSUME IInv, Later, NEW p \in Procs, Others(p), Typed', boxes' = boxes,
         call[p] # Idle, raced' = raced, call'[p].pc # "launch"
  PROVE  OneCall'
<1> SUFFICES ASSUME ~raced' PROVE OneCall'
  BY DEF OneCall
<1>1. live' \ strays' \subseteq live \ strays
  <2>1. \A b \in live' : b <= boxes
    BY DEF Typed
  <2> QED BY <2>1 DEF Later
<1>2. Cardinality(live' \ strays') <= Cardinality(live \ strays) /\ Cardinality(live' \ strays') \in Nat
  <2>1. IsFiniteSet(live \ strays)
    BY LoadIsFinite DEF IInv
  <2>2. live' \ strays' \in SUBSET (live \ strays)
    BY <1>1
  <2> QED BY <2>1, <2>2, FS_Subset, FS_CardinalityType
<1>3. \A q \in Procs \ {p} : call[q] = Idle
  BY DEF IInv, OneCall
<1>4. \A q \in Procs \ {p} : call'[q] = Idle
  BY <1>3 DEF Others
<1>5. Cardinality(live' \ strays') <= MaxBots
  BY <1>2, LoadIsFinite, HostSessionsAssumption DEF IInv, OneCall
<1> QED BY <1>4, <1>5 DEF OneCall, Idle

LEMMA StepInv ==
  ASSUME IInv, Later, NEW p \in Procs, Others(p), Typed',
         \A i \in Ids : Fits(mem[p][i], i)' /\ Settled(p, i)',
         \/ row' = row
         \/ row' = Over(mem'[p], row) /\ call'[p].pc # "settle",
         InHand(p)', KeepsEnded(p)', Listed', Keyed', OneCall'
  PROVE  IInv'
<1>1. RowsFit' /\ RowsSettled'
  BY DataStep
<1>2. \A q \in Procs : InHand(q)' /\ KeepsEnded(q)'
  BY OthersKeep
<1> QED BY <1>1, <1>2 DEF IInv

\* What p leaves a kept id in, once it is settled.
LEMMA KeepStays ==
  ASSUME IInv, Later, NEW p \in Procs, call[p] # Idle, ~First(p, {"stop", "settle"}),
         call'[p].keep = call[p].keep
  PROVE  KeepsEnded(p)'
<1> SUFFICES ASSUME call[p].keep # 0
             PROVE  call[p].keep \notin live' \ strays' /\ Covered(call[p].keep)'
  BY DEF KeepsEnded, Covered
<1>1. call[p].keep \in Ids /\ call[p].keep <= boxes
  BY Busy DEF IInv, Doings, InHand
<1>2. call[p].keep \notin live \ strays /\ Covered(call[p].keep)
  BY DEF IInv, KeepsEnded, First
<1> QED BY <1>1, <1>2, CoveredStays DEF Later

---------------------------------------------------------------------------
(* Calls *)

LEMMA Idles ==
  ASSUME Typed, NEW p \in Procs, call' = [call EXCEPT ![p] = Idle]
  PROVE  /\ call' \in [Procs -> {Idle} \cup Doings] /\ call'[p] = Idle
         /\ \A q \in Procs \ {p} : call'[q] = call[q]
         /\ InHand(p)' /\ KeepsEnded(p)'
<1>1. call' \in [Procs -> {Idle} \cup Doings] /\ call'[p] = Idle
      /\ \A q \in Procs \ {p} : call'[q] = call[q]
  BY DEF Typed
<1> QED BY <1>1 DEF InHand, KeepsEnded, Idle

LEMMA Does ==
  ASSUME Typed, NEW p \in Procs, NEW c \in Doings, call' = [call EXCEPT ![p] = c]
  PROVE  /\ call' \in [Procs -> {Idle} \cup Doings] /\ call'[p] = c
         /\ \A q \in Procs \ {p} : call'[q] = call[q]
  BY DEF Typed

LEMMA Goes ==
  ASSUME Typed, NEW p \in Procs, NEW pc \in Pcs, call[p] # Idle, Goto(p, pc)
  PROVE  /\ call' \in [Procs -> {Idle} \cup Doings]
         /\ \A q \in Procs \ {p} : call'[q] = call[q]
         /\ call'[p] # Idle /\ call'[p].pc = pc /\ call'[p].todo = call[p].todo
         /\ call'[p].next = call[p].next /\ call'[p].bot = call[p].bot
         /\ call'[p].keep = call[p].keep
<1>1. call[p] \in Doings
  BY Busy
<1> DEFINE c == [call[p] EXCEPT !.pc = pc]
<1>2. c \in Doings /\ c.pc = pc /\ c.todo = call[p].todo /\ c.next = call[p].next
      /\ c.bot = call[p].bot /\ c.keep = call[p].keep
  BY <1>1 DEF Doings
<1>3. call' = [call EXCEPT ![p] = c]
  BY DEF Goto
<1>4. c # Idle
  BY <1>2 DEF Pcs, Idle
<1> HIDE DEF c
<1> QED BY <1>2, <1>3, <1>4, Does

LEMMA MemType ==
  ASSUME Typed, NEW p \in Procs
  PROVE  /\ \A i \in Ids, r \in Rows :
              [mem EXCEPT ![p][i] = r] \in [Procs -> [Ids -> Rows]]
         /\ \A f \in [Ids -> Rows] : [mem EXCEPT ![p] = f] \in [Procs -> [Ids -> Rows]]
  BY DEF Typed

LEMMA OverType == \A f, g \in [Ids -> Rows] : Over(f, g) \in [Ids -> Rows]
  BY DEF Over

LEMMA LaterIs ==
  ASSUME Typed, boxes' = boxes, live' \subseteq live, paid' = paid, strays \subseteq strays',
         unpaid \subseteq unpaid', renamed \subseteq renamed'
  PROVE  Later
  BY HostSessionsAssumption DEF Typed, Later

---------------------------------------------------------------------------
(* start *)

LEMMA LoadInv == ASSUME IInv, NEW p \in Procs, Load(p) PROVE IInv'
<1> DEFINE same == {i \in Running(row) : row[i].bot = call[p].bot}
           c == [call[p] EXCEPT !.pc = IF same = {} THEN "limit" ELSE "stop",
                                !.todo = same, !.next = "limit"]
<1>1. Typed /\ call[p].pc = "load" /\ call[p] # Idle /\ call[p] \in Doings
  BY Busy DEF Load, IInv, Idle
<1>2. same \in SUBSET Ids /\ \A i \in same : row[i] # None
  BY DEF Running, None
<1>3. call' = [call EXCEPT ![p] = c]
  BY DEF Load
<1> HIDE DEF same
<1>4. /\ c \in Doings /\ c.pc \in {"limit", "stop"} /\ c.todo = same /\ c.next = "limit"
      /\ c.pc = "stop" => same # {}
      /\ c.bot = call[p].bot /\ c.keep = call[p].keep
  BY <1>1, <1>2 DEF Doings, Pcs
<1> HIDE DEF c
<1>5. /\ call' \in [Procs -> {Idle} \cup Doings] /\ call'[p] = c
      /\ \A q \in Procs \ {p} : call'[q] = call[q]
  BY <1>1, <1>3, <1>4, Does
<1>6. /\ mem' = [mem EXCEPT ![p] = row]
      /\ UNCHANGED <<row, live, boxes, keys, paid, unpaid, strays, renamed, raced, faults>>
  BY DEF Load, ledger, history
<1>7. Typed'
  BY <1>1, <1>5, <1>6, MemType DEF Typed
<1>8. Later
  BY <1>1, <1>6, LaterIs
<1>9. Others(p) /\ mem'[p] = row
  BY <1>1, <1>5, <1>6 DEF Others, Typed
<1>10. \A i \in Ids : Fits(mem[p][i], i)' /\ Settled(p, i)'
  BY <1>8, <1>9, ReadsFit, ReadsSettled
<1>11. InHand(p)'
  BY <1>1, <1>2, <1>4, <1>5, <1>6, <1>9 DEF IInv, InHand
<1>12. KeepsEnded(p)'
  BY <1>1, <1>4, <1>5, <1>8, KeepStays DEF First
<1>13. Listed' /\ Keyed' /\ OneCall'
  BY <1>1, <1>4, <1>5, <1>6, <1>7, <1>8, <1>9, ListedStep, KeyedStep, OneCallStep
<1> QED BY <1>6, <1>7, <1>8, <1>9, <1>10, <1>11, <1>12, <1>13, StepInv

\* What runs is counted by a call that no other is in the way of.
LEMMA Counted ==
  ASSUME IInv, NEW p \in Procs, ~raced, call[p].pc = "limit",
         Cardinality(Running(Over(row, mem[p]))) < MaxBots
  PROVE  Cardinality(live \ strays) < MaxBots
<1>1. \A q \in Procs : call[q].pc # "enrol"
  BY DEF IInv, OneCall, Idle
<1>2. ASSUME NEW b \in live \ strays PROVE b \in Running(Over(row, mem[p]))
  <2>1. b \in Ids /\ row[b] # None
    BY <1>1, BoxesAreIds DEF IInv, Listed, Enrolling
  <2>2. row[b].status = "running"
    BY <2>1 DEF IInv, RowsFit, Fits
  <2> QED BY <2>1, <2>2 DEF Over, Running
<1>3. IsFiniteSet(Running(Over(row, mem[p])))
  <2>1. IsFiniteSet(Ids)
    BY FS_Interval, HostSessionsAssumption DEF Ids
  <2> QED BY <2>1, FS_Subset DEF Running
<1>4. live \ strays \in SUBSET Running(Over(row, mem[p]))
  BY <1>2
<1>5. Cardinality(live \ strays) <= Cardinality(Running(Over(row, mem[p])))
  BY <1>3, <1>4, FS_Subset
<1> QED BY <1>3, <1>5, LoadIsFinite, FS_CardinalityType, HostSessionsAssumption DEF IInv

LEMMA LimitInv == ASSUME IInv, NEW p \in Procs, Limit(p) PROVE IInv'
<1>1. Typed /\ call[p].pc = "limit" /\ call[p] # Idle
  BY DEF Limit, IInv, Idle
<1>2. /\ mem' = [mem EXCEPT ![p] = Over(row, mem[p])]
      /\ UNCHANGED <<row, live, boxes, keys, paid, unpaid, strays, renamed, raced, faults>>
  BY DEF Limit, ledger, history
<1>3. mem'[p] = Over(row, mem[p]) /\ \A q \in Procs \ {p} : mem'[q] = mem[q]
  BY <1>1, <1>2 DEF Typed
<1>4. mem' \in [Procs -> [Ids -> Rows]]
  BY <1>1, <1>2, MemType, OverType DEF Typed
<1>5. Later
  BY <1>1, <1>2, LaterIs
<1>6. \A i \in Ids : Fits(mem[p][i], i)' /\ Settled(p, i)'
  BY <1>1, <1>3, <1>5, ReadsFit, ReadsSettled DEF Over
<1>7. CASE Goto(p, "launch") /\ Cardinality(Running(mem'[p])) < MaxBots
  <2>1. "launch" \in Pcs
    BY DEF Pcs
  <2>2. /\ call' \in [Procs -> {Idle} \cup Doings]
        /\ \A q \in Procs \ {p} : call'[q] = call[q]
        /\ call'[p].pc = "launch" /\ call'[p].bot = call[p].bot /\ call'[p].keep = call[p].keep
    BY <1>1, <1>7, <2>1, Goes
  <2>3. Typed' /\ Others(p)
    BY <1>1, <1>2, <1>3, <1>4, <2>2 DEF Typed, Others
  <2>4. InHand(p)'
    BY <1>1, <1>2, <2>2 DEF IInv, InHand
  <2>5. KeepsEnded(p)'
    BY <1>1, <1>5, <2>2, KeepStays DEF First
  <2>6. Listed' /\ Keyed'
    BY <1>1, <1>2, <1>5, <2>3, ListedStep, KeyedStep
  <2>7. OneCall'
    <3> SUFFICES ASSUME ~raced' PROVE OneCall'
      BY DEF OneCall
    <3>1. Cardinality(live \ strays) < MaxBots
      BY <1>1, <1>2, <1>3, <1>7, Counted
    <3>2. \A q \in Procs \ {p} : call[q] = Idle
      BY <1>1, <1>2 DEF IInv, OneCall
    <3> QED BY <1>2, <3>1, <3>2, <2>3 DEF OneCall, Others, IInv
  <2> QED BY <1>2, <1>5, <1>6, <2>3, <2>4, <2>5, <2>6, <2>7, StepInv
<1>8. CASE call' = [call EXCEPT ![p] = Idle]
  <2>1. Typed' /\ Others(p) /\ call'[p] = Idle /\ InHand(p)' /\ KeepsEnded(p)'
    BY <1>1, <1>2, <1>3, <1>4, <1>8, Idles DEF Typed, Others
  <2>2. Listed' /\ Keyed' /\ OneCall'
    BY <1>1, <1>2, <1>5, <2>1, ListedStep, KeyedStep, OneCallStep DEF Idle
  <2> QED BY <1>2, <1>5, <1>6, <2>1, <2>2, StepInv
<1> QED BY <1>7, <1>8 DEF Limit

LEMMA RefusedInv == ASSUME IInv, NEW p \in Procs, Refused(p) PROVE IInv'
<1>1. Typed /\ call[p].pc = "launch" /\ call[p] # Idle
  BY DEF Refused, IInv, Idle
<1>2. /\ call' = [call EXCEPT ![p] = Idle]
      /\ UNCHANGED <<row, mem, live, boxes, keys, paid, unpaid, strays, renamed, raced, faults>>
  BY DEF Refused, ledger, history
<1>3. Typed' /\ Others(p) /\ call'[p] = Idle /\ InHand(p)' /\ KeepsEnded(p)'
  BY <1>1, <1>2, Idles DEF Typed, Others
<1>4. Later
  BY <1>1, <1>2, LaterIs
<1>5. \A i \in Ids : Fits(mem[p][i], i)' /\ Settled(p, i)'
  BY <1>1, <1>2, <1>4, ReadsFit, ReadsSettled
<1>6. Listed' /\ Keyed' /\ OneCall'
  BY <1>1, <1>2, <1>3, <1>4, ListedStep, KeyedStep, OneCallStep DEF Idle
<1> QED BY <1>2, <1>3, <1>4, <1>5, <1>6, StepInv

LEMMA LaunchInv == ASSUME IInv, NEW p \in Procs, Launch(p) PROVE IInv'
<1> DEFINE b == boxes + 1
           c == [call[p] EXCEPT !.pc = "enrol", !.todo = {b}]
<1>1. Typed /\ call[p].pc = "launch" /\ call[p] # Idle /\ call[p] \in Doings
  BY Busy DEF Launch, IInv, Idle
<1>2. /\ boxes' = b /\ live' = live \cup {b}
      /\ call' = [call EXCEPT ![p] = c]
      /\ UNCHANGED <<row, mem, keys, paid, unpaid, strays, renamed, raced, faults>>
  BY DEF Launch, ledger, history
<1>3. /\ b \in Ids /\ b \in 1..b /\ b \notin live /\ b \in Nat /\ b \notin 1..boxes
      /\ b \in 0..MaxBoxes /\ live \cup {b} \subseteq 1..b
  BY <1>1, HostSessionsAssumption DEF Launch, Typed, Ids
<1>4. Later
  BY <1>1, <1>2 DEF Later, Typed
<1> HIDE DEF b
<1>5. /\ c \in Doings /\ c.pc = "enrol" /\ c.todo = {b}
      /\ c.bot = call[p].bot /\ c.keep = call[p].keep
  BY <1>1, <1>3 DEF Doings, Pcs
<1> HIDE DEF c
<1>6. /\ call' \in [Procs -> {Idle} \cup Doings] /\ call'[p] = c
      /\ \A q \in Procs \ {p} : call'[q] = call[q]
  BY <1>1, <1>2, <1>5, Does
<1>7. Typed' /\ Others(p)
  BY <1>1, <1>2, <1>3, <1>6 DEF Typed, Others
<1>8. \A i \in Ids : Fits(mem[p][i], i)' /\ Settled(p, i)'
  BY <1>1, <1>2, <1>4, ReadsFit, ReadsSettled
<1>9. InHand(p)'
  <2>1. call[p].keep \in Ids \cup {0} /\ call[p].keep <= boxes /\ call[p].bot \in Bots
    BY <1>1 DEF IInv, InHand, Doings
  <2>2. call[p].keep <= b
    BY <1>1, <2>1, IdsAreNat DEF b, Typed
  <2> QED BY <1>2, <1>3, <1>5, <1>6, <2>1, <2>2 DEF InHand
<1>10. KeepsEnded(p)'
  BY <1>1, <1>4, <1>5, <1>6, KeepStays DEF First
<1>11. Listed'
  <2> SUFFICES ASSUME NEW d \in live' \ strays'
               PROVE  (\E q \in Procs : call'[q].pc = "enrol" /\ call'[q].todo = {d}) \/ row'[d] # None
    BY DEF Listed, Enrolling
  <2>1. CASE d = b
    BY <1>5, <1>6, <2>1
  <2>2. CASE d # b
    <3>1. d \in live \ strays
      BY <1>2, <2>2
    <3>2. \A q \in Procs : call[q].pc = "enrol" => call'[q] = call[q]
      BY <1>1, <1>6
    <3> QED BY <1>2, <3>1, <3>2 DEF IInv, Listed, Enrolling
  <2> QED BY <2>1, <2>2
<1>12. Keyed'
  BY <1>2, <1>4, KeyedStep
<1>13. OneCall'
  <2> SUFFICES ASSUME ~raced' PROVE OneCall'
    BY DEF OneCall
  <2>1. Cardinality(live \ strays) < MaxBots /\ \A q \in Procs \ {p} : call[q] = Idle
    BY <1>1, <1>2 DEF IInv, OneCall
  <2>2. Cardinality(live' \ strays') <= MaxBots
    <3>1. live' \ strays' \in SUBSET ((live \ strays) \cup {b})
      BY <1>2
    <3>2. b \notin live \ strays
      BY <1>3
    <3>3. /\ IsFiniteSet((live \ strays) \cup {b})
          /\ Cardinality((live \ strays) \cup {b}) = Cardinality(live \ strays) + 1
      BY <1>1, <3>2, LoadIsFinite, FS_AddElement
    <3>4. /\ Cardinality(live' \ strays') <= Cardinality((live \ strays) \cup {b})
          /\ Cardinality(live' \ strays') \in Nat
      BY <3>1, <3>3, FS_Subset, FS_CardinalityType
    <3> QED BY <1>1, <2>1, <3>3, <3>4, LoadIsFinite, HostSessionsAssumption
  <2> QED BY <1>5, <1>6, <2>1, <2>2 DEF OneCall, Idle
<1> QED BY <1>2, <1>4, <1>7, <1>8, <1>9, <1>10, <1>11, <1>12, <1>13, StepInv

\* The call's new box.
LEMMA NewBox ==
  ASSUME IInv, NEW p \in Procs, call[p].pc \in {"enrol", "plane", "rename"}
  PROVE  Box(p) \in Ids /\ Box(p) \in 1..boxes /\ call[p].todo = {Box(p)} /\ call[p].bot \in Bots
<1>1. PICK b \in 1..boxes : call[p].todo = {b}
  BY DEF IInv, InHand
<1>2. b \in Ids /\ b \in Nat
  BY BoxesAreIds, IdsAreNat DEF IInv
<1>3. Box(p) = b
  BY <1>1, <1>2, OnlyBox DEF Box
<1> QED BY <1>1, <1>2, <1>3 DEF IInv, InHand

LEMMA EnrolInv == ASSUME IInv, NEW p \in Procs, Enrol(p) PROVE IInv'
<1> DEFINE b == Box(p)
<1>1. Typed /\ call[p].pc = "enrol" /\ call[p] # Idle
  BY DEF Enrol, IInv, Idle
<1>2. b \in Ids /\ b <= boxes /\ b \in Nat /\ call[p].todo = {b} /\ call[p].bot \in Bots
  BY <1>1, NewBox, IdsAreNat
<1>3. PICK status \in {"running", "failed"} :
        /\ status = "running" \/ b \notin live
        /\ mem' = [mem EXCEPT ![p][b] = Instance(status, call[p].bot, b)]
        /\ IF status = "running" THEN Goto(p, "plane") ELSE call' = [call EXCEPT ![p] = Idle]
  BY DEF Enrol
<1>4. /\ row' = Over(mem'[p], row)
      /\ UNCHANGED <<live, boxes, keys, paid, unpaid, strays, renamed, raced, faults>>
  BY DEF Enrol, Save, ledger, history
<1> DEFINE r == Instance(status, call[p].bot, b)
<1>5. r \in Rows /\ r.box = b /\ r.status = status /\ r # None
  BY <1>2 DEF Instance, Rows, None
<1> HIDE DEF r, b
<1>6. /\ mem'[p][b] = r /\ \A i \in Ids \ {b} : mem'[p][i] = mem[p][i]
      /\ \A q \in Procs \ {p} : mem'[q] = mem[q]
      /\ mem' \in [Procs -> [Ids -> Rows]]
  BY <1>1, <1>2, <1>3, <1>5, MemType DEF Typed, r
<1>7. /\ call' \in [Procs -> {Idle} \cup Doings]
      /\ \A q \in Procs \ {p} : call'[q] = call[q]
      /\ call'[p].pc \in {"plane", "idle"}
      /\ InHand(p)' /\ KeepsEnded(p)'
  <2>1. Later
    BY <1>1, <1>4, LaterIs
  <2>2. CASE Goto(p, "plane")
    <3>1. "plane" \in Pcs
      BY DEF Pcs
    <3>2. /\ call' \in [Procs -> {Idle} \cup Doings]
          /\ \A q \in Procs \ {p} : call'[q] = call[q]
          /\ call'[p].pc = "plane" /\ call'[p].todo = {b}
          /\ call'[p].bot = call[p].bot /\ call'[p].keep = call[p].keep
      BY <1>1, <1>2, <2>2, <3>1, Goes
    <3>3. InHand(p)'
      BY <1>1, <1>2, <1>4, <1>5, <1>6, <3>2 DEF IInv, InHand
    <3>4. KeepsEnded(p)'
      BY <1>1, <2>1, <3>2, KeepStays DEF First
    <3> QED BY <3>2, <3>3, <3>4
  <2>3. CASE call' = [call EXCEPT ![p] = Idle]
    BY <1>1, <2>3, Idles DEF Idle
  <2> QED BY <1>3, <2>2, <2>3
<1>8. row' \in [Ids -> Rows] /\ row'[b] # None
  BY <1>1, <1>2, <1>4, <1>5, <1>6, OverType DEF Typed, Over
<1>9. Typed' /\ Others(p)
  BY <1>1, <1>4, <1>6, <1>7, <1>8 DEF Typed, Others
<1>10. Later
  BY <1>1, <1>4, LaterIs
<1>11. ASSUME NEW i \in Ids PROVE Fits(mem[p][i], i)' /\ Settled(p, i)'
  <2>1. CASE i # b
    BY <1>1, <1>6, <1>10, <2>1, ReadsFit, ReadsSettled
  <2>2. CASE i = b
    <3>1. i \in live' \ strays' => status = "running"
      BY <1>3, <1>4, <2>2 DEF b
    <3> QED BY <1>2, <1>4, <1>5, <1>6, <2>2, <3>1 DEF Fits, Settled
  <2> QED BY <2>1, <2>2
<1>12. Listed'
  <2> SUFFICES ASSUME NEW d \in live' \ strays', row'[d] = None
               PROVE  \E q \in Procs : call'[q].pc = "enrol" /\ call'[q].todo = {d}
    BY DEF Listed, Enrolling
  <2>1. d # b /\ d \in Ids /\ d \in live \ strays
    BY <1>1, <1>4, <1>8, BoxesAreIds
  <2>2. row[d] = None
    BY <1>4, <2>1 DEF Over
  <2>3. PICK q \in Procs : call[q].pc = "enrol" /\ call[q].todo = {d}
    BY <2>1, <2>2 DEF IInv, Listed, Enrolling
  <2> QED BY <1>2, <1>7, <2>1, <2>3
<1>13. Keyed' /\ OneCall'
  BY <1>1, <1>4, <1>7, <1>9, <1>10, KeyedStep, OneCallStep
<1> QED BY <1>4, <1>7, <1>9, <1>10, <1>11, <1>12, <1>13, StepInv

\* The saves that add nothing to p's map.
LEMMA PlaneInv == ASSUME IInv, NEW p \in Procs, Plane(p) PROVE IInv'
<1>1. Typed /\ call[p].pc = "plane" /\ call[p] # Idle
  BY DEF Plane, IInv, Idle
<1>2. /\ mem' = mem /\ (row' = row \/ row' = Over(mem'[p], row))
      /\ UNCHANGED <<live, boxes, keys, paid, unpaid, strays, renamed, raced, faults>>
  BY DEF Plane, Save, ledger, history
<1>3. Later
  BY <1>1, <1>2, LaterIs
<1>4. /\ call' \in [Procs -> {Idle} \cup Doings]
      /\ \A q \in Procs \ {p} : call'[q] = call[q]
      /\ call'[p].pc \in {"rename", "idle"} /\ InHand(p)' /\ KeepsEnded(p)'
  <2>1. CASE Goto(p, "rename") /\ call[p].keep # 0
    <3>1. "rename" \in Pcs
      BY DEF Pcs
    <3>2. /\ call' \in [Procs -> {Idle} \cup Doings]
          /\ \A q \in Procs \ {p} : call'[q] = call[q]
          /\ call'[p].pc = "rename" /\ call'[p].todo = call[p].todo
          /\ call'[p].bot = call[p].bot /\ call'[p].keep = call[p].keep
      BY <1>1, <2>1, <3>1, Goes
    <3>3. InHand(p)'
      BY <1>1, <1>2, <2>1, <3>2 DEF IInv, InHand
    <3>4. KeepsEnded(p)'
      BY <1>1, <1>3, <3>2, KeepStays DEF First
    <3> QED BY <3>2, <3>3, <3>4
  <2>2. CASE call' = [call EXCEPT ![p] = Idle]
    BY <1>1, <2>2, Idles DEF Idle
  <2> QED BY <2>1, <2>2 DEF Plane
<1>5. Typed' /\ Others(p)
  BY <1>1, <1>2, <1>4, OverType DEF Typed, Others
<1>6. \A i \in Ids : Fits(mem[p][i], i)' /\ Settled(p, i)'
  BY <1>1, <1>2, <1>3, ReadsFit, ReadsSettled
<1>7. Listed' /\ Keyed' /\ OneCall'
  BY <1>1, <1>2, <1>3, <1>4, <1>5, ListedStep, KeyedStep, OneCallStep
<1>8. call'[p].pc # "settle"
  BY <1>4
<1> QED BY <1>2, <1>3, <1>4, <1>5, <1>6, <1>7, <1>8, StepInv

LEMMA RenameInv == ASSUME IInv, NEW p \in Procs, Rename(p) PROVE IInv'
<1> DEFINE b == Box(p)
           k == call[p].keep
           r == mem[p][b]
<1>1. Typed /\ call[p].pc = "rename" /\ call[p] # Idle
  BY DEF Rename, IInv, Idle
<1>2. b \in Ids /\ call[p].todo = {b}
  BY <1>1, NewBox
<1>3. k \in Ids /\ k <= boxes /\ k \notin live \ strays /\ Covered(k)
  <2>1. k # 0 /\ k \in Ids \cup {0} /\ k <= boxes
    BY <1>1, Busy DEF IInv, InHand, Doings
  <2> QED BY <1>1, <2>1 DEF IInv, KeepsEnded, First
<1>4. r \in Rows /\ r # None /\ Fits(r, b) /\ r.box \in Ids /\ Settled(p, b)
  BY <1>1, <1>2, RowType DEF Typed, IInv, InHand, RowsFit, RowsSettled
<1>5. /\ mem' = [mem EXCEPT ![p][b] = None, ![p][k] = r]
      /\ row' = Over(mem'[p], row)
      /\ renamed' = renamed \cup {b}
      /\ call' = [call EXCEPT ![p] = Idle]
      /\ UNCHANGED <<live, boxes, keys, paid, unpaid, strays, raced, faults>>
  BY DEF Rename, Save, ledger
<1> HIDE DEF b, k, r
<1>6. /\ \A i \in Ids : mem'[p][i] = IF i = k THEN r ELSE IF i = b THEN None ELSE mem[p][i]
      /\ \A q \in Procs \ {p} : mem'[q] = mem[q]
      /\ mem' \in [Procs -> [Ids -> Rows]]
  <2>1. None \in Rows
    BY DEF Rows
  <2> QED BY <1>1, <1>2, <1>3, <1>4, <1>5, <2>1 DEF Typed
<1>7. /\ call' \in [Procs -> {Idle} \cup Doings] /\ call'[p] = Idle
      /\ \A q \in Procs \ {p} : call'[q] = call[q]
      /\ InHand(p)' /\ KeepsEnded(p)'
  BY <1>1, <1>5, Idles
<1>8. Typed' /\ Others(p)
  <2>1. row' \in [Ids -> Rows]
    BY <1>1, <1>5, <1>6, OverType DEF Typed
  <2> QED BY <1>1, <1>2, <1>5, <1>6, <1>7, <2>1 DEF Typed, Others
<1>9. Later
  BY <1>1, <1>5, LaterIs
<1>10. ASSUME NEW i \in Ids PROVE Fits(mem[p][i], i)' /\ Settled(p, i)'
  <2>1. CASE i = k
    <3>1. r.box \in renamed' /\ r.box <= boxes
      BY <1>4, <1>5 DEF Fits
    <3>2. Covered(i)'
      BY <1>3, <1>9, <2>1, CoveredStays
    <3>3. r.status = "stopped" => paid'[r.box] > 0 \/ r.box \in unpaid' \cup renamed'
      BY <1>1, <1>4, <1>9 DEF Settled, r, Later, Covered
    <3> QED BY <1>3, <1>5, <1>6, <2>1, <3>1, <3>2, <3>3 DEF Fits, Settled, Covered
  <2>2. CASE i # k /\ i = b
    BY <1>6, <2>2 DEF Fits, Settled, None
  <2>3. CASE i # k /\ i # b
    BY <1>1, <1>6, <1>9, <2>3, ReadsFit, ReadsSettled
  <2> QED BY <2>1, <2>2, <2>3
<1>11. Listed' /\ Keyed' /\ OneCall'
  BY <1>1, <1>5, <1>7, <1>8, <1>9, ListedStep, KeyedStep, OneCallStep DEF Idle
<1>12. call'[p].pc # "settle"
  BY <1>7 DEF Idle
<1> QED BY <1>5, <1>7, <1>8, <1>9, <1>10, <1>11, <1>12, StepInv

---------------------------------------------------------------------------
(* stop *)

\* The instance that a call has in hand.
LEMMA HasTarget ==
  ASSUME IInv, NEW p \in Procs, call[p].pc \in {"stop", "settle", "save", "fail", "probe"},
         call[p].todo # {}
  PROVE  /\ Target(p) \in call[p].todo /\ Target(p) \in Ids
         /\ mem[p][Target(p)] \in Rows /\ mem[p][Target(p)] # None
         /\ mem[p][Target(p)].box \in Ids
<1>1. call[p].todo \in SUBSET Ids
  BY Busy DEF IInv, Idle, Doings
<1>2. Target(p) \in call[p].todo
  BY <1>1, TargetIsIn DEF Target
<1> QED BY <1>1, <1>2, RowType DEF IInv, Typed, InHand

\* p's instance with another status.
Mark(p, t, s) == mem' = [mem EXCEPT ![p][t].status = s]

LEMMA Marked ==
  ASSUME Typed, NEW p \in Procs, NEW t \in Ids, mem[p][t] # None,
         NEW s \in {"stopped", "failed"}, Mark(p, t, s)
  PROVE  /\ mem' \in [Procs -> [Ids -> Rows]]
         /\ \A q \in Procs \ {p} : mem'[q] = mem[q]
         /\ \A i \in Ids \ {t} : mem'[p][i] = mem[p][i]
         /\ mem'[p][t] # None /\ mem'[p][t].status = s /\ mem'[p][t].box = mem[p][t].box
<1> DEFINE r == [mem[p][t] EXCEPT !.status = s]
<1>1. mem[p][t] \in Rows \ {None}
  BY DEF Typed
<1>2. r \in Rows /\ r # None /\ r.status = s /\ r.box = mem[p][t].box
  BY <1>1 DEF Rows, None
<1>3. mem' = [mem EXCEPT ![p][t] = r]
  BY DEF Mark
<1> HIDE DEF r
<1>4. mem' \in [Procs -> [Ids -> Rows]]
  BY <1>2, <1>3 DEF Typed
<1>5. /\ \A q \in Procs \ {p} : mem'[q] = mem[q]
      /\ \A i \in Ids \ {t} : mem'[p][i] = mem[p][i]
      /\ mem'[p][t] = r
  BY <1>3 DEF Typed
<1> QED BY <1>2, <1>4, <1>5

LEMMA StopBoxInv == ASSUME IInv, NEW p \in Procs, StopBox(p) PROVE IInv'
<1> DEFINE t == Target(p)
           x == mem[p][t].box
<1>1. Typed /\ call[p].pc = "stop" /\ call[p] # Idle /\ call[p].todo # {}
  BY DEF StopBox, IInv, InHand, Idle
<1>2. t \in call[p].todo /\ t \in Ids /\ mem[p][t] # None /\ x \in Ids
  BY <1>1, HasTarget
<1>3. /\ Mark(p, t, "stopped") /\ Goto(p, "settle")
      /\ \/ live' = live \ {x} /\ UNCHANGED <<strays, faults>>
         \/ x \in live /\ Fault /\ strays' = strays \cup {x} /\ live' = live
      /\ UNCHANGED <<row, boxes, keys, paid, unpaid, renamed, raced>>
  BY DEF StopBox, Mark, ledger
<1>4. /\ mem' \in [Procs -> [Ids -> Rows]]
      /\ \A q \in Procs \ {p} : mem'[q] = mem[q]
      /\ \A i \in Ids \ {t} : mem'[p][i] = mem[p][i]
      /\ mem'[p][t] # None /\ mem'[p][t].status = "stopped" /\ mem'[p][t].box = x
  BY <1>1, <1>2, <1>3, Marked
<1>5. /\ call' \in [Procs -> {Idle} \cup Doings]
      /\ \A q \in Procs \ {p} : call'[q] = call[q]
      /\ call'[p] # Idle /\ call'[p].pc = "settle" /\ call'[p].todo = call[p].todo
      /\ call'[p].next = call[p].next /\ call'[p].bot = call[p].bot
      /\ call'[p].keep = call[p].keep
  <2>1. "settle" \in Pcs
    BY DEF Pcs
  <2> QED BY <1>1, <1>3, <2>1, Goes
<1>6. live' \subseteq live /\ strays \subseteq strays' /\ faults' \in Nat
  BY <1>1, <1>3 DEF Fault, Typed
<1>7. Typed' /\ Others(p)
  BY <1>1, <1>3, <1>4, <1>5, <1>6 DEF Typed, Others
<1>8. Later
  BY <1>1, <1>3, <1>6, LaterIs
<1>9. t \notin live' \ strays'
  <2>1. Fits(mem[p][t], t)
    BY <1>2 DEF IInv, RowsFit
  <2>2. t \in live' \ strays' => t \in live \ strays
    BY <1>6
  <2> QED BY <1>2, <1>3, <2>1, <2>2 DEF Fits
<1> HIDE DEF x
<1>10. ASSUME NEW i \in Ids PROVE Fits(mem[p][i], i)' /\ Settled(p, i)'
  <2>1. CASE i # t
    BY <1>1, <1>4, <1>8, <2>1, ReadsFit, ReadsSettled
  <2>2. CASE i = t
    <3>1. Settled(p, i)'
      BY <1>5, <2>2 DEF Settled, Target
    <3>2. Fits(mem[p][t], t)
      BY <1>2 DEF IInv, RowsFit
    <3> QED BY <1>2, <1>3, <1>4, <1>9, <2>2, <3>1, <3>2 DEF Fits, Covered, x
  <2> QED BY <2>1, <2>2
<1> HIDE DEF t
<1>11. InHand(p)'
  <2>1. \A i \in call[p].todo : mem'[p][i] # None
    <3>1. call[p].todo \subseteq Ids /\ \A i \in call[p].todo : mem[p][i] # None
      BY <1>1, Busy DEF IInv, InHand, Doings
    <3> QED BY <1>4, <3>1
  <2>2. /\ call[p].keep <= boxes /\ boxes' = boxes
        /\ call[p].next # "end" => call[p].bot \in Bots
    BY <1>1, <1>3 DEF IInv, InHand
  <2> QED BY <1>1, <1>5, <2>1, <2>2 DEF InHand
<1>12. KeepsEnded(p)'
  <2>1. CASE First(p, {"stop"})
    BY <1>2, <1>5, <1>9, <2>1 DEF First, KeepsEnded
  <2>2. CASE ~First(p, {"stop"})
    BY <1>1, <1>5, <1>8, <2>2, KeepStays DEF First
  <2> QED BY <2>1, <2>2
<1>13. Listed' /\ Keyed' /\ OneCall'
  BY <1>1, <1>3, <1>5, <1>7, <1>8, ListedStep, KeyedStep, OneCallStep
<1> QED BY <1>3, <1>7, <1>8, <1>10, <1>11, <1>12, <1>13, StepInv

LEMMA SettleInv == ASSUME IInv, NEW p \in Procs, Settle(p) PROVE IInv'
<1>1. Typed /\ call[p].pc = "settle" /\ call[p] # Idle /\ call[p].todo # {}
  BY DEF Settle, IInv, InHand, Idle
<1>2. PICK t \in Ids, x \in Ids :
        /\ t = Target(p) /\ x = mem[p][t].box /\ t \in call[p].todo /\ mem[p][t] # None
        /\ \/ /\ t \notin keys /\ keys' = keys \cup {t} /\ paid' = [paid EXCEPT ![x] = @ + 1]
              /\ UNCHANGED <<unpaid, faults>>
           \/ t \in keys /\ UNCHANGED <<keys, paid, unpaid, faults>>
           \/ t \notin keys /\ Fault /\ unpaid' = unpaid \cup {x} /\ UNCHANGED <<keys, paid>>
  BY <1>1, HasTarget DEF Settle, Charge, ledger
<1>3. /\ Goto(p, "save")
      /\ UNCHANGED <<row, mem, live, boxes, strays, renamed, raced>>
  BY DEF Settle
<1>4. /\ call' \in [Procs -> {Idle} \cup Doings]
      /\ \A q \in Procs \ {p} : call'[q] = call[q]
      /\ call'[p] # Idle /\ call'[p].pc = "save" /\ call'[p].todo = call[p].todo
      /\ call'[p].next = call[p].next /\ call'[p].bot = call[p].bot
      /\ call'[p].keep = call[p].keep
  <2>1. "save" \in Pcs
    BY DEF Pcs
  <2> QED BY <1>1, <1>3, <2>1, Goes
<1>5. /\ keys' \subseteq Ids /\ unpaid' \subseteq Ids /\ unpaid \subseteq unpaid' /\ faults' \in Nat
      /\ paid' \in [Ids -> Nat]
      /\ \A b \in Ids : (b # x => paid'[b] = paid[b]) /\ (paid[b] > 0 => paid'[b] > 0)
      /\ paid'[x] = paid[x] \/ (t \notin keys /\ t \in keys' /\ paid'[x] = paid[x] + 1 /\ paid'[x] > 0)
  BY <1>1, <1>2 DEF Typed, Fault
<1>6. Typed' /\ Others(p)
  BY <1>1, <1>3, <1>4, <1>5 DEF Typed, Others
<1>7. Later
  BY <1>1, <1>3, <1>5, HostSessionsAssumption DEF Later, Typed
<1>8. Fits(mem[p][t], t) /\ Typed /\ Keyed
  BY <1>2 DEF IInv, RowsFit
<1>9. x = t \/ (x \in renamed /\ Covered(t))
  BY <1>2, <1>8 DEF Fits
<1>10. Covered(x)' /\ Covered(t)'
  <2>1. CASE t \notin keys /\ paid' = [paid EXCEPT ![x] = @ + 1]
    <3>1. paid'[x] > 0
      BY <1>1, <2>1 DEF Typed
    <3> QED BY <1>7, <1>9, <3>1, CoveredStays DEF Covered
  <2>2. CASE t \in keys
    <3>1. Covered(t) /\ Covered(x)
      BY <1>8, <1>9, <2>2 DEF Keyed, Covered
    <3> QED BY <1>7, <3>1, CoveredStays
  <2>3. CASE unpaid' = unpaid \cup {x}
    BY <1>7, <1>9, <2>3, CoveredStays DEF Covered
  <2> QED BY <1>2, <2>1, <2>2, <2>3
<1>11. ASSUME NEW i \in Ids PROVE Fits(mem[p][i], i)' /\ Settled(p, i)'
  <2>1. Fits(mem[p][i], i)'
    BY <1>3, <1>7, ReadsFit
  <2>2. CASE i = t
    BY <1>2, <1>3, <1>10, <2>1, <2>2 DEF Settled, Covered
  <2>3. CASE i # t
    <3> SUFFICES ASSUME mem'[p][i].status = "stopped" PROVE Covered(mem[p][i].box)'
      BY <2>1 DEF Settled
    <3>1. mem[p][i].status = "stopped" /\ Covered(mem[p][i].box)
      BY <1>2, <1>3, <2>3 DEF IInv, RowsSettled, Settled
    <3>2. mem[p][i].box \in Ids
      BY <1>1, <3>1, RowType DEF Typed, None
    <3> QED BY <1>3, <1>7, <3>1, <3>2 DEF Covered, Later
  <2> QED BY <2>2, <2>3
<1>12. InHand(p)'
  BY <1>1, <1>3, <1>4 DEF IInv, InHand
<1>13. KeepsEnded(p)'
  <2>1. CASE First(p, {"settle"}) /\ call[p].keep # 0
    <3>1. call[p].keep = t
      BY <1>2, <2>1 DEF First
    <3>2. t \notin live \ strays
      BY <1>1, <2>1, <3>1 DEF IInv, KeepsEnded, First
    <3> QED BY <1>3, <1>4, <1>10, <3>1, <3>2 DEF KeepsEnded, Covered
  <2>2. CASE call[p].keep = 0
    BY <1>4, <2>2 DEF KeepsEnded
  <2>3. CASE ~First(p, {"settle"})
    BY <1>1, <1>4, <1>7, <2>3, KeepStays DEF First
  <2> QED BY <2>1, <2>2, <2>3
<1>14. Listed' /\ OneCall'
  BY <1>1, <1>3, <1>4, <1>6, <1>7, ListedStep, OneCallStep
<1>15. Keyed'
  <2>1. \A i \in keys' : Covered(i)'
    <3> SUFFICES ASSUME NEW i \in keys' PROVE Covered(i)'
      OBVIOUS
    <3>1. CASE i = t
      BY <1>10, <3>1 DEF Covered
    <3>2. CASE i # t
      <4>1. i \in keys /\ i \in Ids
        BY <1>1, <1>2, <3>2 DEF Typed
      <4> QED BY <1>7, <1>8, <4>1, CoveredStays DEF Keyed
    <3> QED BY <3>1, <3>2
  <2>2. ASSUME NEW b \in Ids \ renamed'
        PROVE  paid'[b] <= 1 /\ (paid'[b] > 0 => b \in keys')
    <3>1. paid[b] <= 1 /\ (paid[b] > 0 => b \in keys) /\ keys \subseteq keys' /\ paid[b] \in Nat
      BY <1>1, <1>2, <1>3, <1>8, <2>2 DEF Keyed, Typed
    <3>2. CASE paid'[b] = paid[b]
      BY <3>1, <3>2
    <3>3. CASE paid'[b] # paid[b]
      <4>1. b = x /\ b = t /\ t \notin keys /\ t \in keys' /\ paid'[b] = paid[b] + 1
        BY <1>3, <1>5, <1>9, <2>2, <3>3
      <4> QED BY <3>1, <4>1
    <3> QED BY <3>2, <3>3
  <2> QED BY <2>1, <2>2 DEF Keyed
<1> QED BY <1>3, <1>6, <1>7, <1>11, <1>12, <1>13, <1>14, <1>15, StepInv

LEMMA StoppedInv == ASSUME IInv, NEW p \in Procs, Stopped(p) PROVE IInv'
<1> DEFINE rest == call[p].todo \ {Target(p)}
           pc == IF rest = {} THEN call[p].next ELSE "stop"
           c == IF rest = {} /\ call[p].next = "end" THEN Idle
                ELSE Doing(pc, rest, call[p].next, call[p].bot, call[p].keep)
<1>1. Typed /\ call[p].pc = "save" /\ call[p] # Idle /\ call[p] \in Doings
  BY Busy DEF Stopped, IInv, Idle
<1>2. /\ mem' = mem /\ row' = Over(mem'[p], row) /\ call' = [call EXCEPT ![p] = c]
      /\ UNCHANGED <<live, boxes, keys, paid, unpaid, strays, renamed, raced, faults>>
  BY DEF Stopped, Save, ledger, history
<1>3. rest \subseteq call[p].todo /\ rest \in SUBSET Ids
  BY <1>1 DEF Doings
<1> HIDE DEF rest
<1>4. c = Idle \/ (c \in Doings /\ c.pc = pc /\ c.todo = rest /\ c.next = call[p].next
                   /\ c.bot = call[p].bot /\ c.keep = call[p].keep
                   /\ c.pc \in {"stop", "limit", "load"} /\ (c.pc = "stop" => rest # {})
                   /\ (c.pc # "stop" => c.next # "end"))
  BY <1>1, <1>3 DEF Doings, Pcs, Doing
<1> HIDE DEF c, pc
<1>5. /\ call' \in [Procs -> {Idle} \cup Doings] /\ call'[p] = c
      /\ \A q \in Procs \ {p} : call'[q] = call[q]
  BY <1>1, <1>2, <1>4 DEF Typed
<1>6. c.pc \in {"stop", "limit", "load", "idle"}
  BY <1>4 DEF Idle
<1>7. Later
  BY <1>1, <1>2, LaterIs
<1>8. Typed' /\ Others(p)
  BY <1>1, <1>2, <1>5, OverType DEF Typed, Others
<1>9. \A i \in Ids : Fits(mem[p][i], i)' /\ Settled(p, i)'
  BY <1>1, <1>2, <1>7, ReadsFit, ReadsSettled
<1>10. InHand(p)' /\ KeepsEnded(p)'
  <2>1. CASE c = Idle
    BY <1>5, <2>1 DEF InHand, KeepsEnded, Idle
  <2>2. CASE c # Idle
    <3>1. InHand(p)'
      BY <1>1, <1>2, <1>3, <1>4, <1>5, <2>2 DEF IInv, InHand
    <3>2. KeepsEnded(p)'
      BY <1>1, <1>4, <1>5, <1>7, <2>2, KeepStays DEF First
    <3> QED BY <3>1, <3>2
  <2> QED BY <2>1, <2>2
<1>11. Listed' /\ Keyed' /\ OneCall'
  BY <1>1, <1>2, <1>5, <1>6, <1>7, <1>8, ListedStep, KeyedStep, OneCallStep
<1>12. call'[p].pc # "settle"
  BY <1>5, <1>6
<1> QED BY <1>2, <1>7, <1>8, <1>9, <1>10, <1>11, <1>12, StepInv

---------------------------------------------------------------------------
(* status and the health monitor *)

LEMMA FailInv == ASSUME IInv, NEW p \in Procs, Fail(p) PROVE IInv'
<1>1. Typed /\ call[p].pc = "fail" /\ call[p] # Idle /\ call[p].todo # {}
  BY DEF Fail, IInv, InHand, Idle
<1>2. PICK t \in Ids : t = Target(p) /\ t \in call[p].todo /\ mem[p][t] # None
  BY <1>1, HasTarget
<1>3. /\ Mark(p, t, "failed") /\ row' = Over(mem'[p], row)
      /\ call' = [call EXCEPT ![p] = Idle]
      /\ UNCHANGED <<live, boxes, keys, paid, unpaid, strays, renamed, raced, faults>>
  BY <1>2 DEF Fail, Mark, Save, ledger, history
<1>4. /\ mem' \in [Procs -> [Ids -> Rows]]
      /\ \A q \in Procs \ {p} : mem'[q] = mem[q]
      /\ \A i \in Ids \ {t} : mem'[p][i] = mem[p][i]
      /\ mem'[p][t] # None /\ mem'[p][t].status = "failed" /\ mem'[p][t].box = mem[p][t].box
  BY <1>1, <1>2, <1>3, Marked
<1>5. /\ call' \in [Procs -> {Idle} \cup Doings] /\ call'[p] = Idle
      /\ \A q \in Procs \ {p} : call'[q] = call[q]
      /\ InHand(p)' /\ KeepsEnded(p)'
  BY <1>1, <1>3, Idles
<1>6. Later
  BY <1>1, <1>3, LaterIs
<1>7. Typed' /\ Others(p)
  <2>1. row' \in [Ids -> Rows]
    BY <1>1, <1>3, <1>4, OverType DEF Typed
  <2> QED BY <1>1, <1>3, <1>4, <1>5, <2>1 DEF Typed, Others
<1>8. ASSUME NEW i \in Ids PROVE Fits(mem[p][i], i)' /\ Settled(p, i)'
  <2>1. CASE i # t
    BY <1>1, <1>4, <1>6, <2>1, ReadsFit, ReadsSettled
  <2>2. CASE i = t
    <3>1. Fits(mem[p][t], t) /\ mem[p][t].box \notin live
      BY <1>1, <1>2 DEF IInv, RowsFit, InHand
    <3> QED BY <1>2, <1>3, <1>4, <2>2, <3>1 DEF Fits, Covered, Settled
  <2> QED BY <2>1, <2>2
<1>9. Listed' /\ Keyed' /\ OneCall'
  BY <1>1, <1>3, <1>5, <1>6, <1>7, ListedStep, KeyedStep, OneCallStep DEF Idle
<1>10. call'[p].pc # "settle"
  BY <1>5 DEF Idle
<1> QED BY <1>3, <1>5, <1>6, <1>7, <1>8, <1>9, <1>10, StepInv

LEMMA ProbeInv == ASSUME IInv, NEW p \in Procs, Probe(p) PROVE IInv'
<1>1. Typed /\ call[p].pc = "probe" /\ call[p] # Idle /\ call[p].todo # {} /\ call[p] \in Doings
  BY Busy DEF Probe, IInv, Idle
<1>2. PICK t \in Ids, x \in Ids : t = Target(p) /\ x = mem[p][t].box /\ mem[p][t] # None
  BY <1>1, HasTarget
<1> DEFINE c == [call[p] EXCEPT !.todo = call[p].todo \ {t}]
<1>3. /\ \/ x \in live /\ UNCHANGED <<mem, live, strays, faults>>
         \/ /\ Mark(p, t, "failed")
            /\ \/ live' = live \ {x} /\ UNCHANGED <<strays, faults>>
               \/ x \in live /\ Fault /\ strays' = strays \cup {x} /\ live' = live
      /\ call' = [call EXCEPT ![p] = c]
      /\ UNCHANGED <<row, boxes, keys, paid, unpaid, renamed, raced>>
  BY <1>2 DEF Probe, Mark, ledger
<1>4. c \in Doings /\ c.pc = "probe" /\ c.todo \subseteq call[p].todo /\ c.keep = call[p].keep /\ c # Idle
  BY <1>1 DEF Doings, Idle
<1> HIDE DEF c
<1>5. /\ call' \in [Procs -> {Idle} \cup Doings] /\ call'[p] = c
      /\ \A q \in Procs \ {p} : call'[q] = call[q]
  BY <1>1, <1>3, <1>4, Does
<1>6. CASE mem' = mem /\ UNCHANGED <<live, strays, faults>>
  <2>1. Later
    BY <1>1, <1>3, <1>6, LaterIs
  <2>2. Typed' /\ Others(p)
    BY <1>1, <1>3, <1>5, <1>6 DEF Typed, Others
  <2>3. \A i \in Ids : Fits(mem[p][i], i)' /\ Settled(p, i)'
    BY <1>1, <1>6, <2>1, ReadsFit, ReadsSettled
  <2>4. InHand(p)' /\ KeepsEnded(p)'
    <3>1. InHand(p)'
      BY <1>1, <1>3, <1>4, <1>5, <1>6 DEF IInv, InHand
    <3> QED BY <1>1, <1>4, <1>5, <2>1, <3>1, KeepStays DEF First
  <2>5. Listed' /\ Keyed' /\ OneCall'
    BY <1>1, <1>3, <1>4, <1>5, <1>6, <2>1, <2>2, ListedStep, KeyedStep, OneCallStep
  <2> QED BY <1>3, <2>1, <2>2, <2>3, <2>4, <2>5, StepInv
<1>7. CASE /\ Mark(p, t, "failed")
           /\ \/ live' = live \ {x} /\ UNCHANGED <<strays, faults>>
              \/ x \in live /\ Fault /\ strays' = strays \cup {x} /\ live' = live
  <2>1. /\ mem' \in [Procs -> [Ids -> Rows]]
        /\ \A q \in Procs \ {p} : mem'[q] = mem[q]
        /\ \A i \in Ids \ {t} : mem'[p][i] = mem[p][i]
        /\ mem'[p][t] # None /\ mem'[p][t].status = "failed" /\ mem'[p][t].box = x
    BY <1>1, <1>2, <1>7, Marked
  <2>2. live' \subseteq live /\ strays \subseteq strays' /\ faults' \in Nat /\ x \notin live' \ strays'
    BY <1>1, <1>7 DEF Fault, Typed
  <2>3. Typed' /\ Others(p)
    BY <1>1, <1>3, <1>5, <2>1, <2>2 DEF Typed, Others
  <2>4. Later
    BY <1>1, <1>3, <2>2, LaterIs
  <2>5. ASSUME NEW i \in Ids PROVE Fits(mem[p][i], i)' /\ Settled(p, i)'
    <3>1. CASE i # t
      BY <1>1, <2>1, <2>4, <3>1, ReadsFit, ReadsSettled
    <3>2. CASE i = t
      <4>1. Fits(mem[p][t], t)
        BY DEF IInv, RowsFit
      <4>2. t \notin live' \ strays'
        BY <1>2, <2>2, <4>1 DEF Fits
      <4> QED BY <1>2, <1>3, <2>1, <2>2, <3>2, <4>1, <4>2 DEF Fits, Covered, Settled
    <3> QED BY <3>1, <3>2
  <2>6. InHand(p)' /\ KeepsEnded(p)'
    <3>1. InHand(p)'
      <4>1. \A i \in call[p].todo : mem'[p][i] # None
        BY <1>1, <2>1 DEF IInv, InHand, Doings
      <4>2. call[p].keep <= boxes /\ boxes' = boxes
        BY <1>1, <1>3 DEF IInv, InHand
      <4> QED BY <1>4, <1>5, <4>1, <4>2 DEF InHand
    <3> QED BY <1>1, <1>4, <1>5, <2>4, <3>1, KeepStays DEF First
  <2>7. Listed' /\ Keyed' /\ OneCall'
    BY <1>1, <1>3, <1>4, <1>5, <2>3, <2>4, ListedStep, KeyedStep, OneCallStep
  <2> QED BY <1>3, <2>3, <2>4, <2>5, <2>6, <2>7, StepInv
<1> QED BY <1>3, <1>6, <1>7

LEMMA ProbesDoneInv == ASSUME IInv, NEW p \in Procs, ProbesDone(p) PROVE IInv'
<1>1. Typed /\ call[p].pc = "probe" /\ call[p] # Idle
  BY DEF ProbesDone, IInv, Idle
<1>2. /\ mem' = mem /\ row' = Over(mem'[p], row) /\ call' = [call EXCEPT ![p] = Idle]
      /\ UNCHANGED <<live, boxes, keys, paid, unpaid, strays, renamed, raced, faults>>
  BY DEF ProbesDone, Save, ledger, history
<1>3. Later
  BY <1>1, <1>2, LaterIs
<1>4. Typed' /\ Others(p) /\ call'[p] = Idle /\ InHand(p)' /\ KeepsEnded(p)'
  BY <1>1, <1>2, OverType, Idles DEF Typed, Others
<1>5. \A i \in Ids : Fits(mem[p][i], i)' /\ Settled(p, i)'
  BY <1>1, <1>2, <1>3, ReadsFit, ReadsSettled
<1>6. Listed' /\ Keyed' /\ OneCall'
  BY <1>1, <1>2, <1>3, <1>4, ListedStep, KeyedStep, OneCallStep DEF Idle
<1>7. call'[p].pc # "settle"
  BY <1>4 DEF Idle
<1> QED BY <1>2, <1>3, <1>4, <1>5, <1>6, <1>7, StepInv

---------------------------------------------------------------------------
(* Bots and processes that end *)

LEMMA BotDiesInv == ASSUME IInv, NEW box \in Ids, BotDies(box) PROVE IInv'
<1>1. /\ live' = live \ {box}
      /\ UNCHANGED <<row, mem, call, boxes, keys, paid, unpaid, strays, renamed, raced, faults>>
  BY DEF BotDies, ledger, history
<1>2. Typed /\ Typed'
  BY <1>1 DEF IInv, Typed
<1>3. Later
  BY <1>1, <1>2, LaterIs
<1>4. RowsFit'
  BY <1>1 DEF IInv, RowsFit, Fits, Covered
<1>5. RowsSettled' /\ Keyed'
  BY <1>1 DEF IInv, RowsSettled, StoppedIsPaid, Settled, Target, Covered, Keyed
<1>6. Listed'
  BY <1>1 DEF IInv, Listed, Enrolling
<1>7. \A p \in Procs : InHand(p)' /\ KeepsEnded(p)'
  BY <1>1 DEF IInv, InHand, KeepsEnded, First, Covered
<1>8. OneCall'
  <2>1. live' \ strays' \in SUBSET (live \ strays)
    BY <1>1
  <2>2. Cardinality(live' \ strays') <= Cardinality(live \ strays) /\ Cardinality(live' \ strays') \in Nat
    BY <1>2, <2>1, LoadIsFinite, FS_Subset, FS_CardinalityType
  <2>3. Cardinality(live \ strays) <= MaxBots => Cardinality(live' \ strays') <= MaxBots
    BY <1>2, <2>2, LoadIsFinite, HostSessionsAssumption
  <2>4. Cardinality(live \ strays) < MaxBots => Cardinality(live' \ strays') < MaxBots
    BY <1>2, <2>2, LoadIsFinite, HostSessionsAssumption
  <2> QED BY <1>1, <2>3, <2>4 DEF IInv, OneCall
<1> QED BY <1>2, <1>4, <1>5, <1>6, <1>7, <1>8 DEF IInv

LEMMA CrashInv == ASSUME IInv, NEW p \in Procs, Crash(p) PROVE IInv'
<1>1. Typed /\ call[p] # Idle
  BY DEF Crash, IInv
<1>2. /\ mem' = [mem EXCEPT ![p] = row] /\ call' = [call EXCEPT ![p] = Idle]
      /\ strays' = IF call[p].pc = "enrol" THEN strays \cup call[p].todo ELSE strays
      /\ faults' \in Nat
      /\ UNCHANGED <<row, live, boxes, keys, paid, unpaid, renamed, raced>>
  BY <1>1 DEF Crash, Fault, ledger, Typed
<1>3. Later
  BY <1>1, <1>2, LaterIs
<1>4. Typed' /\ Others(p) /\ mem'[p] = row /\ call'[p] = Idle /\ InHand(p)' /\ KeepsEnded(p)'
  <2>1. /\ call' \in [Procs -> {Idle} \cup Doings] /\ call'[p] = Idle
        /\ \A q \in Procs \ {p} : call'[q] = call[q]
        /\ InHand(p)' /\ KeepsEnded(p)'
    BY <1>1, <1>2, Idles
  <2>2. mem' \in [Procs -> [Ids -> Rows]]
    BY <1>1, <1>2 DEF Typed
  <2> QED BY <1>1, <1>2, <2>1, <2>2 DEF Typed, Others
<1>5. \A i \in Ids : Fits(mem[p][i], i)' /\ Settled(p, i)'
  BY <1>3, <1>4, ReadsFit, ReadsSettled
<1>6. Listed'
  <2> SUFFICES ASSUME NEW d \in live' \ strays', row'[d] = None
               PROVE  \E q \in Procs : call'[q].pc = "enrol" /\ call'[q].todo = {d}
    BY DEF Listed, Enrolling
  <2>1. d \in live \ strays /\ row[d] = None
    BY <1>2
  <2>2. PICK q \in Procs : call[q].pc = "enrol" /\ call[q].todo = {d}
    BY <2>1 DEF IInv, Listed, Enrolling
  <2>3. q # p
    BY <1>2, <2>2
  <2> QED BY <1>4, <2>2, <2>3 DEF Others
<1>7. Keyed' /\ OneCall'
  BY <1>1, <1>2, <1>3, <1>4, KeyedStep, OneCallStep DEF Idle
<1> QED BY <1>2, <1>3, <1>4, <1>5, <1>6, <1>7, StepInv

---------------------------------------------------------------------------
(* Calls *)

LEMMA BeginInv ==
  ASSUME IInv, NEW p \in Procs, NEW op, NEW c \in Doings, Begin(p, op, c),
         c.pc \in {"limit", "load", "stop", "fail", "probe"},
         mem' \in [Procs -> [Ids -> Rows]],
         \A q \in Procs \ {p} : mem'[q] = mem[q],
         \A i \in Ids : mem'[p][i] = row[i] \/ mem'[p][i] = mem[p][i],
         InHand(p)', KeepsEnded(p)'
  PROVE  IInv'
<1>1. Typed /\ call[p] = Idle
  BY DEF Begin, IInv
<1>2. /\ call' = [call EXCEPT ![p] = c]
      /\ raced' = (raced \/ \E q \in Procs \ {p} : call[q] # Idle)
      /\ UNCHANGED <<row, live, boxes, keys, paid, unpaid, strays, renamed, faults>>
  BY DEF Begin, ledger
<1>3. Later
  BY <1>1, <1>2, LaterIs
<1>4. /\ call' \in [Procs -> {Idle} \cup Doings] /\ call'[p] = c
      /\ \A q \in Procs \ {p} : call'[q] = call[q]
  BY <1>1, <1>2, Does
<1>5. Typed' /\ Others(p)
  BY <1>1, <1>2, <1>4 DEF Typed, Others
<1>6. call[p].pc = "idle"
  BY <1>1 DEF Idle
<1>7. \A i \in Ids : Fits(mem[p][i], i)' /\ Settled(p, i)'
  BY <1>3, <1>6, ReadsFit, ReadsSettled
<1>8. Listed' /\ Keyed'
  BY <1>2, <1>3, <1>5, <1>6, ListedStep, KeyedStep
<1>9. OneCall'
  <2> SUFFICES ASSUME ~raced' PROVE OneCall'
    BY DEF OneCall
  <2>1. ~raced /\ \A q \in Procs \ {p} : call[q] = Idle
    BY <1>2, Zenon
  <2>2. Cardinality(live' \ strays') <= MaxBots
    BY <1>2, <2>1 DEF IInv, OneCall
  <2> QED BY <1>4, <2>1, <2>2 DEF OneCall, Idle
<1> QED BY <1>2, <1>3, <1>5, <1>7, <1>8, <1>9, StepInv

LEMMA Begins ==
  ASSUME IInv, NEW p \in Procs, NEW op, NEW c \in Doings, Begin(p, op, c)
  PROVE  call'[p] = c /\ boxes' = boxes /\ live' = live /\ boxes \in Nat
  BY HostSessionsAssumption DEF Begin, IInv, Typed

LEMMA CallStartInv ==
  ASSUME IInv, NEW p \in Procs, NEW b \in Bots, CallStart(p, b)
  PROVE  IInv'
<1> DEFINE c == Doing("load", {}, "limit", b, 0)
<1>1. "load" \in Pcs /\ Begin(p, "start", c) /\ mem' = mem
  BY DEF CallStart, Pcs
<1>2. c \in Doings /\ c.pc = "load" /\ c.bot = b /\ c.keep = 0
  BY <1>1 DEF Doing, Doings
<1> HIDE DEF c
<1>3. call'[p] = c /\ boxes' \in Nat
  BY <1>1, <1>2, Begins
<1>4. InHand(p)' /\ KeepsEnded(p)'
  BY <1>2, <1>3 DEF InHand, KeepsEnded
<1>5. mem' \in [Procs -> [Ids -> Rows]]
  BY <1>1 DEF IInv, Typed
<1> QED BY <1>1, <1>2, <1>4, <1>5, BeginInv

LEMMA Fetched ==
  ASSUME IInv, NEW p \in Procs, NEW i \in Ids, Fetch(p, i)
  PROVE  /\ mem' \in [Procs -> [Ids -> Rows]]
         /\ \A q \in Procs \ {p} : mem'[q] = mem[q]
         /\ \A j \in Ids : mem'[p][j] = row[j] \/ mem'[p][j] = mem[p][j]
         /\ Get(p, i) \in Rows /\ Get(p, i) # None /\ mem'[p][i] = Get(p, i) /\ i <= boxes
<1>1. Get(p, i) = row[i] \/ Get(p, i) = mem[p][i]
  BY DEF Get
<1>2. Get(p, i) \in Rows /\ Get(p, i) # None /\ mem' = [mem EXCEPT ![p][i] = Get(p, i)]
  BY <1>1 DEF Fetch, IInv, Typed
<1>3. i <= boxes
  BY <1>1, <1>2 DEF IInv, RowsFit, Fits
<1>4. /\ mem' \in [Procs -> [Ids -> Rows]]
      /\ mem'[p][i] = Get(p, i)
      /\ \A q \in Procs \ {p} : mem'[q] = mem[q]
      /\ \A j \in Ids \ {i} : mem'[p][j] = mem[p][j]
  BY <1>2 DEF IInv, Typed
<1> QED BY <1>1, <1>2, <1>3, <1>4

LEMMA CallStopInv ==
  ASSUME IInv, NEW p \in Procs, NEW i \in Ids, CallStop(p, i)
  PROVE  IInv'
<1> DEFINE c == Doing("stop", {i}, "end", 0, 0)
<1>1. "stop" \in Pcs /\ Begin(p, "stop", c) /\ Fetch(p, i)
  BY DEF CallStop, Pcs
<1>2. c \in Doings /\ c.pc = "stop" /\ c.todo = {i} /\ c.next = "end" /\ c.keep = 0
  BY <1>1 DEF Doing, Doings
<1> HIDE DEF c
<1>3. call'[p] = c /\ boxes' \in Nat
  BY <1>1, <1>2, Begins
<1>4. InHand(p)' /\ KeepsEnded(p)'
  <2>1. mem'[p][i] # None
    BY <1>1, Fetched
  <2> QED BY <1>2, <1>3, <2>1 DEF InHand, KeepsEnded
<1> QED BY <1>1, <1>2, <1>4, Fetched, BeginInv

LEMMA CallRestartInv ==
  ASSUME IInv, NEW p \in Procs, NEW i \in Ids, CallRestart(p, i)
  PROVE  IInv'
<1> DEFINE c == Doing("stop", {i}, "load", Get(p, i).bot, i)
<1>1. "stop" \in Pcs /\ Begin(p, "restart", c) /\ Fetch(p, i)
  BY DEF CallRestart, Pcs
<1>2. Get(p, i).bot \in Bots /\ i <= boxes
  BY <1>1, Fetched, RowType
<1>3. c \in Doings /\ c.pc = "stop" /\ c.todo = {i} /\ c.next = "load" /\ c.keep = i /\ c.bot \in Bots
  BY <1>1, <1>2 DEF Doing, Doings
<1> HIDE DEF c
<1>4. call'[p] = c /\ boxes' = boxes
  BY <1>1, <1>3, Begins
<1>5. InHand(p)' /\ KeepsEnded(p)'
  <2>1. mem'[p][i] # None
    BY <1>1, Fetched
  <2> QED BY <1>2, <1>3, <1>4, <2>1 DEF InHand, KeepsEnded, First
<1> QED BY <1>1, <1>3, <1>5, Fetched, BeginInv

LEMMA CallStatusInv ==
  ASSUME IInv, NEW p \in Procs, NEW i \in Ids, CallStatus(p, i)
  PROVE  IInv'
<1> DEFINE c == Doing("fail", {i}, "end", 0, 0)
<1>1. /\ "fail" \in Pcs /\ Begin(p, "status", c)
      /\ mem' = [mem EXCEPT ![p] = Over(row, mem[p])]
      /\ mem'[p][i].status = "running" /\ mem'[p][i].box \notin live
  BY DEF CallStatus, Pcs
<1>2. c \in Doings /\ c.pc = "fail" /\ c.todo = {i} /\ c.keep = 0
  BY <1>1 DEF Doing, Doings
<1> HIDE DEF c
<1>3. call'[p] = c /\ boxes' \in Nat /\ live' = live
  BY <1>1, <1>2, Begins
<1>4. /\ mem' \in [Procs -> [Ids -> Rows]] /\ \A q \in Procs \ {p} : mem'[q] = mem[q]
      /\ mem'[p] = Over(row, mem[p])
  BY <1>1, OverType DEF IInv, Typed
<1>5. InHand(p)' /\ KeepsEnded(p)'
  BY <1>1, <1>2, <1>3 DEF InHand, KeepsEnded, None
<1>6. \A j \in Ids : mem'[p][j] = row[j] \/ mem'[p][j] = mem[p][j]
  BY <1>4 DEF Over
<1> QED BY <1>1, <1>2, <1>4, <1>5, <1>6, BeginInv

LEMMA CallMonitorInv ==
  ASSUME IInv, NEW p \in Procs, CallMonitor(p)
  PROVE  IInv'
<1> DEFINE g == [j \in Ids |-> IF j \in Running(row) THEN row[j] ELSE mem[p][j]]
           c == Doing("probe", Running(g), "end", 0, 0)
<1>1. /\ g \in [Ids -> Rows] /\ \A j \in Ids : g[j] = row[j] \/ g[j] = mem[p][j]
      /\ Running(g) \in SUBSET Ids /\ \A j \in Running(g) : g[j] # None
  BY DEF IInv, Typed, Running, None
<1>2. /\ "probe" \in Pcs /\ mem' = [mem EXCEPT ![p] = g]
      /\ Begin(p, "monitor", Doing("probe", Running(mem'[p]), "end", 0, 0))
  BY DEF CallMonitor, Pcs
<1> HIDE DEF g
<1>3. /\ mem' \in [Procs -> [Ids -> Rows]] /\ \A q \in Procs \ {p} : mem'[q] = mem[q]
      /\ mem'[p] = g
  BY <1>1, <1>2 DEF IInv, Typed
<1>4. c \in Doings /\ c.pc = "probe" /\ c.todo = Running(g) /\ c.keep = 0
  BY <1>1, <1>2 DEF Doing, Doings
<1>5. Begin(p, "monitor", c)
  BY <1>2, <1>3
<1> HIDE DEF c
<1>6. call'[p] = c /\ boxes' \in Nat
  BY <1>4, <1>5, Begins
<1>7. InHand(p)' /\ KeepsEnded(p)'
  BY <1>1, <1>3, <1>4, <1>6 DEF InHand, KeepsEnded
<1> QED BY <1>1, <1>3, <1>4, <1>5, <1>7, BeginInv

---------------------------------------------------------------------------
(* The theorems *)

LEMMA InitInv == Init => IInv
<1> SUFFICES ASSUME Init PROVE IInv
  OBVIOUS
<1>1. Typed
  <2>1. row \in [Ids -> Rows] /\ mem \in [Procs -> [Ids -> Rows]]
    BY DEF Init, Rows
  <2>2. live \subseteq 1..boxes /\ boxes \in 0..MaxBoxes /\ faults \in Nat /\ paid \in [Ids -> Nat]
    BY HostSessionsAssumption DEF Init
  <2> QED BY <2>1, <2>2 DEF Init, Typed
<1>2. RowsFit /\ RowsSettled
  BY DEF Init, RowsFit, Fits, RowsSettled, StoppedIsPaid, Settled, None
<1>3. Listed /\ Keyed
  BY DEF Init, Listed, Keyed
<1>4. OneCall
  <2>1. live \ strays = {} /\ Cardinality({}) = 0
    BY FS_EmptySet DEF Init
  <2> QED BY <2>1, HostSessionsAssumption DEF Init, OneCall, Idle
<1>5. \A p \in Procs : InHand(p) /\ KeepsEnded(p)
  BY DEF Init, InHand, KeepsEnded, Idle
<1> QED BY <1>1, <1>2, <1>3, <1>4, <1>5 DEF IInv

LEMMA InvStep == IInv /\ [Next]_vars => IInv'
<1> SUFFICES ASSUME IInv, [Next]_vars PROVE IInv'
  OBVIOUS
<1>1. CASE UNCHANGED vars
  <2>1. UNCHANGED <<row, mem, call, live, boxes, keys, paid, unpaid, strays, renamed, raced, faults>>
    BY <1>1 DEF vars, ledger, history
  <2>2. Typed' /\ RowsFit'
    BY <2>1 DEF IInv, Typed, RowsFit, Fits, Covered
  <2>3. RowsSettled' /\ Listed'
    BY <2>1 DEF IInv, RowsSettled, StoppedIsPaid, Settled, Target, Covered, Listed, Enrolling
  <2>4. Keyed' /\ OneCall'
    BY <2>1 DEF IInv, Keyed, Covered, OneCall
  <2>5. \A p \in Procs : InHand(p)' /\ KeepsEnded(p)'
    BY <2>1 DEF IInv, InHand, KeepsEnded, First, Covered
  <2> QED BY <2>2, <2>3, <2>4, <2>5 DEF IInv
<1>2. ASSUME NEW p \in Procs, NEW b \in Bots, CallStart(p, b) PROVE IInv'
  BY <1>2, CallStartInv
<1>3. ASSUME NEW p \in Procs, NEW i \in Ids, CallStop(p, i) \/ CallRestart(p, i) \/ CallStatus(p, i)
      PROVE  IInv'
  BY <1>3, CallStopInv, CallRestartInv, CallStatusInv
<1>4. ASSUME NEW p \in Procs, CallMonitor(p) \/ Crash(p) PROVE IInv'
  BY <1>4, CallMonitorInv, CrashInv
<1>5. ASSUME NEW p \in Procs, Steps(p) PROVE IInv'
  BY <1>5, LoadInv, LimitInv, RefusedInv, LaunchInv, EnrolInv, PlaneInv, RenameInv,
     StopBoxInv, SettleInv, StoppedInv, FailInv, ProbeInv, ProbesDoneInv DEF Steps
<1>6. ASSUME NEW box \in Ids, BotDies(box) PROVE IInv'
  BY <1>6, BotDiesInv
<1> QED BY <1>1, <1>2, <1>3, <1>4, <1>5, <1>6 DEF Next

LEMMA AlwaysInv == Spec => []IInv
  BY InitInv, InvStep, PTL DEF Spec

\* Whatever the processes overwrite of each other's rows, a bot that runs is
\* in the registry as running, under its own id; but for what a crash or a
\* failed stop left (service.py:106-130).
THEOREM RunningIsListed == Spec => []LiveIsListed
<1>1. IInv => LiveIsListed
  <2> SUFFICES ASSUME IInv, NEW b \in live \ strays, ~Enrolling(b)
               PROVE  \E i \in Running(row) : row[i].box = b
    BY DEF LiveIsListed
  <2>1. b \in Ids /\ row[b] # None
    BY BoxesAreIds DEF IInv, Listed
  <2>2. row[b].box = b /\ row[b].status = "running"
    BY <2>1 DEF IInv, RowsFit, Fits
  <2> QED BY <2>1, <2>2 DEF Running
<1> QED BY AlwaysInv, <1>1, PTL

\* The registry says stopped only of sessions that were charged, whose charge
\* failed, or that a restart filed under an older id (service.py:1227-1280).
THEOREM StoppedSessionsArePaid == Spec => []StoppedIsPaid
<1>1. IInv => StoppedIsPaid
  BY DEF IInv, RowsSettled
<1> QED BY AlwaysInv, <1>1, PTL

\* However many stops of a session race, crash and are repeated, it is
\* charged once (usage_billing.py: the key host_settle:<instance id>).
THEOREM SessionsPaidOnce == Spec => []PaidOnce
<1>1. IInv => PaidOnce
  BY DEF IInv, Keyed, PaidOnce
<1> QED BY AlwaysInv, <1>1, PTL

\* Calls one after the other keep to the plan, whatever the processes
\* remember of each other's instances (service.py:559-583).
THEOREM SerialStartsWithinPlan == Spec => []SerialStartsKeepPlan
<1>1. IInv => SerialStartsKeepPlan
  BY DEF IInv, OneCall, SerialStartsKeepPlan
<1> QED BY AlwaysInv, <1>1, PTL

---------------------------------------------------------------------------
(* Without restarts, and without overlap *)

\* As long as nobody restarts, every session that the registry calls stopped
\* was charged or its charge failed (service.py:1363: only a restart reuses an
\* id, and with it the settlement's key).  With restarts it is not so
\* (HostRestart.cfg).
THEOREM PaidWithoutRestarts == "restart" \notin Calls => (Spec => []EverySessionIsPaid)
<1> DEFINE NoneKept == renamed = {} /\ \A p \in Procs : call[p] # Idle =>
                         call[p].keep = 0 /\ call[p].pc # "rename"
<1> SUFFICES ASSUME "restart" \notin Calls PROVE Spec => []EverySessionIsPaid
  OBVIOUS
<1>1. Init => NoneKept
  BY DEF Init
<1>2. IInv /\ NoneKept /\ [Next]_vars => NoneKept'
  <2> SUFFICES ASSUME IInv, NoneKept, [Next]_vars PROVE NoneKept'
    OBVIOUS
  <2>0. Typed
    BY DEF IInv
  <2>1. ASSUME NEW p \in Procs, NEW c, call' = [call EXCEPT ![p] = c], renamed' = renamed,
               c = Idle \/ (c.keep = 0 /\ c.pc # "rename")
        PROVE  NoneKept'
    BY <2>0, <2>1 DEF Typed
  <2>2. ASSUME NEW p \in Procs, NEW pc, Goto(p, pc), renamed' = renamed, call[p] # Idle, pc # "rename"
        PROVE  NoneKept'
    <3>1. call' = [call EXCEPT ![p] = [call[p] EXCEPT !.pc = pc]] /\ call[p] \in Doings
      BY <2>0, <2>2, Busy DEF Goto
    <3>2. [call[p] EXCEPT !.pc = pc].keep = 0 /\ [call[p] EXCEPT !.pc = pc].pc = pc
      BY <2>2, <3>1 DEF Doings
    <3> QED BY <2>1, <2>2, <3>1, <3>2
  <2>3. CASE UNCHANGED vars
    BY <2>3 DEF vars, history
  <2>4. ASSUME NEW p \in Procs, NEW op, NEW c, Begin(p, op, c), c.keep = 0, c.pc # "rename"
        PROVE  NoneKept'
    BY <2>1, <2>4 DEF Begin
  <2>5. ASSUME NEW p \in Procs, NEW b \in Bots, CallStart(p, b) PROVE NoneKept'
    BY <2>4, <2>5 DEF CallStart, Doing
  <2>6. ASSUME NEW p \in Procs, NEW i \in Ids, CallStop(p, i) \/ CallRestart(p, i) \/ CallStatus(p, i)
        PROVE  NoneKept'
    <3>1. ~CallRestart(p, i)
      BY DEF CallRestart, Begin
    <3> QED BY <2>4, <2>6, <3>1 DEF CallStop, CallStatus, Doing
  <2>7. ASSUME NEW p \in Procs, CallMonitor(p) PROVE NoneKept'
    BY <2>4, <2>7 DEF CallMonitor, Doing
  <2>8. ASSUME NEW p \in Procs, Crash(p) PROVE NoneKept'
    BY <2>1, <2>8 DEF Crash
  <2>9. ASSUME NEW box \in Ids, BotDies(box) PROVE NoneKept'
    BY <2>9 DEF BotDies, history
  <2>10. ASSUME NEW p \in Procs, Steps(p) PROVE NoneKept'
    <3>0. call[p] # Idle /\ ~Rename(p) /\ renamed' = renamed
      <4>1. call[p] # Idle
        <5>1. ASSUME Load(p) \/ Limit(p) \/ Refused(p) \/ Launch(p) \/ Enrol(p) \/ Plane(p) \/ Rename(p)
              PROVE  call[p].pc # "idle"
          BY <5>1 DEF Load, Limit, Refused, Launch, Enrol, Plane, Rename
        <5>2. ASSUME StopBox(p) \/ Settle(p) \/ Stopped(p) \/ Fail(p) \/ Probe(p) \/ ProbesDone(p)
              PROVE  call[p].pc # "idle"
          BY <5>2 DEF StopBox, Settle, Stopped, Fail, Probe, ProbesDone
        <5> QED BY <2>10, <5>1, <5>2 DEF Steps, Idle
      <4>2. ~Rename(p)
        BY <4>1 DEF Rename
      <4>3. ASSUME Load(p) \/ Limit(p) \/ Refused(p) \/ Launch(p) \/ Enrol(p) \/ Plane(p)
            PROVE  renamed' = renamed
        BY <4>3 DEF Load, Limit, Refused, Launch, Enrol, Plane, history
      <4>4. ASSUME StopBox(p) \/ Settle(p) \/ Stopped(p) \/ Fail(p) \/ Probe(p) \/ ProbesDone(p)
            PROVE  renamed' = renamed
        BY <4>4 DEF StopBox, Settle, Stopped, Fail, Probe, ProbesDone, history
      <4> QED BY <2>10, <4>1, <4>2, <4>3, <4>4 DEF Steps
    <3>1. call[p] \in Doings /\ call[p].keep = 0
      BY <2>0, <3>0, Busy
    <3>2. CASE Limit(p) \/ Refused(p) \/ Enrol(p) \/ StopBox(p) \/ Settle(p) \/ Fail(p) \/ ProbesDone(p)
      BY <2>1, <2>2, <3>0, <3>2 DEF Limit, Refused, Enrol, StopBox, Settle, Fail, ProbesDone
    <3>3. CASE Plane(p)
      BY <2>1, <3>0, <3>1, <3>3 DEF Plane
    <3>4. CASE Stopped(p)
      <4> DEFINE rest == call[p].todo \ {Target(p)}
                 c == IF rest = {} /\ call[p].next = "end" THEN Idle
                      ELSE Doing(IF rest = {} THEN call[p].next ELSE "stop", rest,
                                 call[p].next, call[p].bot, call[p].keep)
      <4>1. call' = [call EXCEPT ![p] = c]
        BY <3>4 DEF Stopped
      <4>2. c = Idle \/ (c.keep = 0 /\ c.pc # "rename")
        BY <3>1 DEF Doing, Doings
      <4> HIDE DEF c
      <4> QED BY <2>1, <3>0, <4>1, <4>2
    <3>5. CASE Load(p) \/ Launch(p) \/ Probe(p)
      <4>1. ASSUME NEW pc, NEW todo, NEW next, pc # "rename",
                   call' = [call EXCEPT ![p] = [call[p] EXCEPT !.pc = pc, !.todo = todo, !.next = next]]
            PROVE  NoneKept'
        <5> DEFINE c == [call[p] EXCEPT !.pc = pc, !.todo = todo, !.next = next]
        <5>1. c.keep = 0 /\ c.pc # "rename"
          BY <3>1, <4>1 DEF Doings
        <5> HIDE DEF c
        <5> QED BY <2>1, <3>0, <4>1, <5>1 DEF c
      <4>2. CASE Load(p)
        <5> DEFINE same == {i \in Running(row) : row[i].bot = call[p].bot}
                   pc == IF same = {} THEN "limit" ELSE "stop"
        <5>1. call' = [call EXCEPT ![p].pc = pc, ![p].todo = same, ![p].next = "limit"]
          BY <4>2 DEF Load
        <5>2. call' = [call EXCEPT ![p] = [call[p] EXCEPT !.pc = pc, !.todo = same, !.next = "limit"]]
          BY <2>0, <5>1 DEF Typed
        <5>3. pc # "rename"
          OBVIOUS
        <5> HIDE DEF same, pc
        <5> QED BY <4>1, <5>2, <5>3
      <4>3. CASE Launch(p)
        <5>1. call' = [call EXCEPT ![p].pc = "enrol", ![p].todo = {boxes'}]
          BY <4>3 DEF Launch
        <5>2. [call[p] EXCEPT !.pc = "enrol", !.todo = {boxes'}] =
              [call[p] EXCEPT !.pc = "enrol", !.todo = {boxes'}, !.next = call[p].next]
          BY <3>1 DEF Doings
        <5>3. call' = [call EXCEPT ![p] = [call[p] EXCEPT !.pc = "enrol", !.todo = {boxes'}]]
          BY <2>0, <5>1 DEF Typed
        <5>4. call' = [call EXCEPT ![p] =
                [call[p] EXCEPT !.pc = "enrol", !.todo = {boxes'}, !.next = call[p].next]]
          BY <5>2, <5>3, Zenon
        <5>5. "enrol" # "rename"
          OBVIOUS
        <5> HIDE DEF NoneKept
        <5> QED BY <4>1, <5>4, <5>5, Zenon
      <4>4. CASE Probe(p)
        <5> DEFINE todo == call[p].todo \ {Target(p)}
        <5>1. call' = [call EXCEPT ![p].todo = todo] /\ call[p].pc = "probe"
          BY <4>4 DEF Probe
        <5> HIDE DEF todo
        <5>2. [call[p] EXCEPT !.todo = todo] =
              [call[p] EXCEPT !.pc = "probe", !.todo = todo, !.next = call[p].next]
          BY <3>1, <5>1 DEF Doings
        <5>3. call' = [call EXCEPT ![p] = [call[p] EXCEPT !.todo = todo]]
          BY <2>0, <5>1 DEF Typed
        <5>4. call' = [call EXCEPT ![p] =
                [call[p] EXCEPT !.pc = "probe", !.todo = todo, !.next = call[p].next]]
          BY <5>2, <5>3, Zenon
        <5>5. "probe" # "rename"
          OBVIOUS
        <5> HIDE DEF NoneKept
        <5> QED BY <4>1, <5>4, <5>5, Zenon
      <4> QED BY <3>5, <4>2, <4>3, <4>4
    <3> QED BY <2>10, <3>0, <3>2, <3>3, <3>4, <3>5 DEF Steps
  <2> QED BY <2>3, <2>5, <2>6, <2>7, <2>8, <2>9, <2>10 DEF Next
<1>3. IInv /\ NoneKept => EverySessionIsPaid
  BY DEF IInv, RowsSettled, StoppedIsPaid, EverySessionIsPaid
<1> HIDE DEF NoneKept
<1> QED BY <1>1, <1>2, <1>3, AlwaysInv, PTL DEF Spec

OneProcess == \E p : Procs = {p}

\* One process, which takes one call at a time, keeps to the plan: only starts
\* that overlap exceed it (HostPlan.cfg; service.py:567-576).
THEOREM OneProcessKeepsPlan == OneProcess => (Spec => []WithinPlan)
<1> SUFFICES ASSUME NEW p, Procs = {p} PROVE Spec => []WithinPlan
  BY DEF OneProcess
<1>1. Init => ~raced
  BY DEF Init
<1>2. ~raced /\ [Next]_vars => ~raced'
  <2> SUFFICES ASSUME ~raced, [Next]_vars PROVE ~raced'
    OBVIOUS
  <2>1. ASSUME NEW op, NEW c, Begin(p, op, c) PROVE ~raced'
    BY <2>1, Zenon DEF Begin
  <2>2. [Next]_vars => raced' = raced \/ \E op, c : Begin(p, op, c)
    <3>1. ASSUME Steps(p) PROVE raced' = raced
      <4>1. ASSUME Load(p) \/ Limit(p) \/ Refused(p) \/ Launch(p) \/ Enrol(p) \/ Plane(p) \/ Rename(p)
            PROVE  raced' = raced
        BY <4>1 DEF Load, Limit, Refused, Launch, Enrol, Plane, Rename, history
      <4>2. ASSUME StopBox(p) \/ Settle(p) \/ Stopped(p) \/ Fail(p) \/ Probe(p) \/ ProbesDone(p)
            PROVE  raced' = raced
        BY <4>2 DEF StopBox, Settle, Stopped, Fail, Probe, ProbesDone, history
      <4> QED BY <3>1, <4>1, <4>2 DEF Steps
    <3>2. ASSUME NEW i, CallStart(p, i) \/ CallStop(p, i) \/ CallRestart(p, i) \/ CallStatus(p, i)
                        \/ CallMonitor(p)
          PROVE  \E op, c : Begin(p, op, c)
      <4>1. CASE CallStart(p, i) \/ CallStop(p, i) \/ CallRestart(p, i)
        BY <4>1, Zenon DEF CallStart, CallStop, CallRestart
      <4>2. CASE CallStatus(p, i) \/ CallMonitor(p)
        BY <4>2, Zenon DEF CallStatus, CallMonitor
      <4> QED BY <3>2, <4>1, <4>2
    <3>3. ASSUME Crash(p) \/ (\E box \in Ids : BotDies(box)) \/ UNCHANGED vars PROVE raced' = raced
      BY <3>3 DEF Crash, BotDies, vars, history
    <3> QED BY <3>1, <3>2, <3>3, Zenon DEF Next
  <2> QED BY <2>1, <2>2
<1>3. ~raced /\ SerialStartsKeepPlan => WithinPlan
  BY DEF SerialStartsKeepPlan, WithinPlan
<1> QED BY <1>1, <1>2, <1>3, SerialStartsWithinPlan, PTL DEF Spec


---------------------------------------------------------------------------
(* One sandbox of a bot *)

\* f tells whose bot each box is, in every row that names it.
Says(f, r) == r # None => r.bot = f[r.box]
Named(f) ==
    /\ \A i \in Ids : Says(f, row[i]) /\ \A p \in Procs : Says(f, mem[p][i])
    /\ \A p \in Procs : call[p].pc = "enrol" => call[p].bot = f[Box(p)]

\* What runs of the bot that p is to start, is still on its list to stop.
Mine(p, f) == {b \in live \ strays : f[b] = call[p].bot}
Clear(p, f) ==
    /\ call[p].pc \in {"limit", "launch"} => Mine(p, f) = {}
    /\ call[p].pc = "stop" /\ call[p].next = "limit" => Mine(p, f) \subseteq call[p].todo
    /\ call[p].pc \in {"settle", "save"} /\ call[p].next = "limit" =>
         Mine(p, f) \subseteq call[p].todo \ {Target(p)}
OneEach(f) == ~raced =>
    /\ \A b, c \in live \ strays : f[b] = f[c] => b = c
    /\ \A p \in Procs : Clear(p, f)

LEMMA ReadsSay ==
  ASSUME NEW f, Named(f), NEW p \in Procs, NEW i \in Ids,
         mem'[p][i] = row[i] \/ mem'[p][i] = mem[p][i]
  PROVE  Says(f, mem'[p][i])
  BY DEF Named, Says

\* A step of p in which nothing is started.
LEMMA Moves ==
  ASSUME IInv, NEW f, Named(f), OneEach(f), NEW p \in Procs,
         \A q \in Procs \ {p} : mem'[q] = mem[q] /\ call'[q] = call[q],
         \A i \in Ids : Says(f, mem'[p][i]),
         row' = row \/ row' = Over(mem'[p], row),
         live' \ strays' \subseteq live \ strays,
         ~raced' => ~raced /\ \A q \in Procs \ {p} : call[q] = Idle,
         call'[p].pc # "enrol", ~raced' => Clear(p, f)'
  PROVE  Named(f)' /\ OneEach(f)'
<1>1. \A i \in Ids : Says(f, row'[i])
  <2>1. \A i \in Ids : row'[i] = row[i] \/ row'[i] = mem'[p][i]
    BY DEF Over
  <2> QED BY <2>1 DEF Named
<1>2. \A q \in Procs, i \in Ids : Says(f, mem'[q][i])
  BY DEF Named
<1>3. ASSUME NEW q \in Procs, call'[q].pc = "enrol" PROVE call'[q].bot = f[Box(q)']
  <2>1. q # p /\ call'[q] = call[q]
    BY <1>3
  <2> QED BY <1>3, <2>1 DEF Named, Box
<1>4. Named(f)'
  BY <1>1, <1>2, <1>3 DEF Named, Says
<1>5. ASSUME ~raced' PROVE OneEach(f)'
  <2>1. \A q \in Procs \ {p} : call'[q].pc = "idle"
    BY <1>5 DEF Idle
  <2>2. \A q \in Procs : Clear(q, f)'
    BY <1>5, <2>1 DEF Clear
  <2> QED BY <1>5, <2>2 DEF OneEach
<1> QED BY <1>4, <1>5 DEF OneEach

\* While p is at a call and no two overlapped, nobody else is at one.
LEMMA Alone ==
  ASSUME IInv, NEW p \in Procs, call[p] # Idle, raced' = raced
  PROVE  ~raced' => ~raced /\ \A q \in Procs \ {p} : call[q] = Idle
  BY DEF IInv, OneCall

\* What is past the start and the stops, is clear of them.
LEMMA ElsewhereClear ==
  ASSUME NEW f, NEW p \in Procs,
         \/ call'[p].pc \in {"idle", "load", "enrol", "plane", "rename", "fail", "probe"}
         \/ call'[p].pc \in {"stop", "settle", "save"} /\ call'[p].next # "limit"
  PROVE  Clear(p, f)'
  BY DEF Clear

LEMMA CallsNamed ==
  ASSUME IInv, NEW f, Named(f), OneEach(f), NEW p \in Procs,
         \/ \E b \in Bots : CallStart(p, b)
         \/ \E i \in Ids : CallStop(p, i) \/ CallRestart(p, i) \/ CallStatus(p, i)
         \/ CallMonitor(p)
  PROVE  Named(f)' /\ OneEach(f)'
<1>1. ASSUME NEW op, NEW c, Begin(p, op, c),
             c.pc \in {"load", "stop", "fail", "probe"}, c.pc = "stop" => c.next # "limit",
             \A q \in Procs \ {p} : mem'[q] = mem[q],
             \A i \in Ids : mem'[p][i] = row[i] \/ mem'[p][i] = mem[p][i]
      PROVE  Named(f)' /\ OneEach(f)'
  <2>1. /\ call' = [call EXCEPT ![p] = c] /\ UNCHANGED <<row, live, strays>>
        /\ ~raced' => ~raced /\ \A q \in Procs \ {p} : call[q] = Idle
    BY <1>1, Zenon DEF Begin
  <2>2. call'[p] = c /\ \A q \in Procs \ {p} : call'[q] = call[q]
    BY <2>1 DEF IInv, Typed
  <2>3. Clear(p, f)'
    BY <1>1, <2>2, ElsewhereClear
  <2>4. \A i \in Ids : Says(f, mem'[p][i])
    BY <1>1, ReadsSay
  <2> QED BY <1>1, <2>1, <2>2, <2>3, <2>4, Moves
<1>2. ASSUME NEW b \in Bots, CallStart(p, b) PROVE Named(f)' /\ OneEach(f)'
  <2> DEFINE c == Doing("load", {}, "limit", b, 0)
  <2>1. Begin(p, "start", c) /\ mem' = mem /\ c.pc = "load"
    BY <1>2 DEF CallStart, Doing
  <2> HIDE DEF c
  <2> QED BY <1>1, <2>1
<1>3. ASSUME NEW i \in Ids, CallStop(p, i) PROVE Named(f)' /\ OneEach(f)'
  <2> DEFINE c == Doing("stop", {i}, "end", 0, 0)
  <2>1. Begin(p, "stop", c) /\ Fetch(p, i) /\ c.pc = "stop" /\ c.next # "limit"
    BY <1>3 DEF CallStop, Doing
  <2> HIDE DEF c
  <2> QED BY <1>1, <2>1, Fetched
<1>4. ASSUME NEW i \in Ids, CallRestart(p, i) PROVE Named(f)' /\ OneEach(f)'
  <2> DEFINE c == Doing("stop", {i}, "load", Get(p, i).bot, i)
  <2>1. Begin(p, "restart", c) /\ Fetch(p, i) /\ c.pc = "stop" /\ c.next # "limit"
    BY <1>4 DEF CallRestart, Doing
  <2> HIDE DEF c
  <2> QED BY <1>1, <2>1, Fetched
<1>5. ASSUME NEW i \in Ids, CallStatus(p, i) PROVE Named(f)' /\ OneEach(f)'
  <2> DEFINE c == Doing("fail", {i}, "end", 0, 0)
  <2>1. Begin(p, "status", c) /\ mem' = [mem EXCEPT ![p] = Over(row, mem[p])] /\ c.pc = "fail"
    BY <1>5 DEF CallStatus, Doing
  <2> HIDE DEF c
  <2>2. mem'[p] = Over(row, mem[p]) /\ \A q \in Procs \ {p} : mem'[q] = mem[q]
    BY <2>1 DEF IInv, Typed
  <2>3. \A j \in Ids : mem'[p][j] = row[j] \/ mem'[p][j] = mem[p][j]
    BY <2>2 DEF Over
  <2> QED BY <1>1, <2>1, <2>2, <2>3
<1>6. CASE CallMonitor(p)
  <2> DEFINE c == Doing("probe", Running(mem'[p]), "end", 0, 0)
             g == [i \in Ids |-> IF i \in Running(row) THEN row[i] ELSE mem[p][i]]
  <2>1. Begin(p, "monitor", c) /\ mem' = [mem EXCEPT ![p] = g] /\ c.pc = "probe"
    BY <1>6 DEF CallMonitor, Doing
  <2>2. \A j \in Ids : g[j] = row[j] \/ g[j] = mem[p][j]
    OBVIOUS
  <2> HIDE DEF c, g
  <2>3. mem'[p] = g /\ \A q \in Procs \ {p} : mem'[q] = mem[q]
    BY <2>1 DEF IInv, Typed
  <2> QED BY <1>1, <2>1, <2>2, <2>3
<1> QED BY <1>2, <1>3, <1>4, <1>5, <1>6


LEMMA LoadNamed ==
  ASSUME IInv, NEW f, Named(f), OneEach(f), NEW p \in Procs, Load(p)
  PROVE  Named(f)' /\ OneEach(f)'
<1> DEFINE same == {i \in Running(row) : row[i].bot = call[p].bot}
           c == [call[p] EXCEPT !.pc = IF same = {} THEN "limit" ELSE "stop",
                                !.todo = same, !.next = "limit"]
<1>1. Typed /\ call[p].pc = "load" /\ call[p] # Idle /\ call[p] \in Doings
  BY Busy DEF Load, IInv, Idle
<1>2. /\ call' = [call EXCEPT ![p] = c] /\ mem' = [mem EXCEPT ![p] = row]
      /\ UNCHANGED <<row, live, strays, raced>>
  BY DEF Load, history
<1>3. /\ c.pc = IF same = {} THEN "limit" ELSE "stop"
      /\ c.todo = same /\ c.bot = call[p].bot
  BY <1>1 DEF Doings
<1> HIDE DEF c
<1>4. /\ call'[p] = c /\ mem'[p] = row
      /\ \A q \in Procs \ {p} : mem'[q] = mem[q] /\ call'[q] = call[q]
  BY <1>1, <1>2 DEF Typed
<1>5. ASSUME ~raced, NEW b \in live \ strays, f[b] = call[p].bot PROVE b \in same
  <2>1. \A q \in Procs : call[q].pc # "enrol"
    BY <1>1, <1>5 DEF IInv, OneCall, Idle
  <2>2. b \in Ids /\ row[b] # None
    BY <2>1, BoxesAreIds DEF IInv, Listed, Enrolling
  <2>3. row[b].box = b /\ row[b].status = "running"
    BY <2>2 DEF IInv, RowsFit, Fits
  <2>4. row[b].bot = f[b]
    BY <2>2, <2>3 DEF Named, Says
  <2> QED BY <1>5, <2>2, <2>3, <2>4 DEF Running
<1> HIDE DEF same
<1>6. ASSUME ~raced' PROVE Clear(p, f)'
  <2>1. Mine(p, f)' \subseteq same
    BY <1>2, <1>3, <1>4, <1>5, <1>6 DEF Mine
  <2> QED BY <1>3, <1>4, <2>1 DEF Clear
<1>7. \A i \in Ids : Says(f, mem'[p][i])
  BY <1>4, ReadsSay
<1>8. ~raced' => ~raced /\ \A q \in Procs \ {p} : call[q] = Idle
  BY <1>1, <1>2, Alone
<1>9. call'[p].pc # "enrol"
  BY <1>3, <1>4
<1> QED BY <1>2, <1>4, <1>6, <1>7, <1>8, <1>9, Moves

\* The steps at which a call is over, or goes on to what has no list.
LEMMA LooseNamed ==
  ASSUME IInv, NEW f, Named(f), OneEach(f), NEW p \in Procs,
         \/ Limit(p) \/ Refused(p) \/ Enrol(p) \/ Plane(p) \/ Rename(p)
         \/ Fail(p) \/ Probe(p) \/ ProbesDone(p) \/ Crash(p)
  PROVE  Named(f)' /\ OneEach(f)'
<1>0. Typed
  BY DEF IInv
<1>1. ASSUME call[p] # Idle, raced' = raced,
             \/ call' = [call EXCEPT ![p] = Idle]
             \/ \E pc \in {"launch", "plane", "rename"} : Goto(p, pc)
             \/ \E todo : call' = [call EXCEPT ![p].todo = todo] /\ call[p].pc = "probe",
             call'[p].pc = "launch" => call[p].pc = "limit",
             \A q \in Procs \ {p} : mem'[q] = mem[q],
             \A i \in Ids : Says(f, mem'[p][i]),
             row' = row \/ row' = Over(mem'[p], row),
             live' \ strays' \subseteq live \ strays
      PROVE  Named(f)' /\ OneEach(f)'
  <2>1. call[p] \in Doings
    BY <1>0, <1>1, Busy
  <2>2. \A q \in Procs \ {p} : call'[q] = call[q]
    BY <1>0, <1>1 DEF Typed, Goto
  <2>3. \/ call'[p].pc \in {"idle", "plane", "rename", "probe"}
        \/ call'[p].pc = "launch" /\ call'[p].bot = call[p].bot
    <3>1. CASE call' = [call EXCEPT ![p] = Idle]
      BY <1>0, <3>1 DEF Typed, Idle
    <3>2. ASSUME NEW pc \in {"launch", "plane", "rename"}, Goto(p, pc)
          PROVE  call'[p].pc = pc /\ call'[p].bot = call[p].bot
      <4>1. pc \in Pcs
        BY DEF Pcs
      <4> QED BY <1>0, <1>1, <3>2, <4>1, Goes
    <3>3. ASSUME NEW todo, call' = [call EXCEPT ![p].todo = todo], call[p].pc = "probe"
          PROVE  call'[p].pc = "probe"
      BY <1>0, <2>1, <3>3 DEF Typed, Doings
    <3> QED BY <1>1, <3>1, <3>2, <3>3
  <2>4. ~raced' => ~raced /\ \A q \in Procs \ {p} : call[q] = Idle
    BY <1>1, Alone
  <2>5. ASSUME ~raced' PROVE Clear(p, f)'
    <3>1. CASE call'[p].pc \in {"idle", "plane", "rename", "probe"}
      BY <3>1, ElsewhereClear
    <3>2. CASE call'[p].pc = "launch" /\ call'[p].bot = call[p].bot
      <4>1. Mine(p, f) = {}
        BY <1>1, <2>5, <3>2 DEF OneEach, Clear
      <4>2. Mine(p, f)' = {}
        BY <1>1, <3>2, <4>1 DEF Mine
      <4> QED BY <3>2, <4>2 DEF Clear
    <3> QED BY <2>3, <3>1, <3>2
  <2> QED BY <1>1, <2>2, <2>3, <2>4, <2>5, Moves
<1>2. \A i \in Ids : Says(f, mem[p][i]) /\ Says(f, row[i])
  BY DEF Named
<1>3. CASE Limit(p)
  <2>1. /\ call[p].pc = "limit" /\ mem' = [mem EXCEPT ![p] = Over(row, mem[p])]
        /\ Goto(p, "launch") \/ call' = [call EXCEPT ![p] = Idle]
        /\ UNCHANGED <<row, live, strays, raced>>
    BY <1>3 DEF Limit, history
  <2>2. /\ \A q \in Procs \ {p} : mem'[q] = mem[q]
        /\ \A i \in Ids : mem'[p][i] = row[i] \/ mem'[p][i] = mem[p][i]
    BY <1>0, <2>1 DEF Typed, Over
  <2>3. call[p] # Idle
    BY <2>1 DEF Idle
  <2> QED BY <1>1, <2>1, <2>2, <2>3, ReadsSay
<1>4. CASE Refused(p) \/ Plane(p) \/ ProbesDone(p)
  <2>1. call[p] # Idle /\ mem' = mem /\ UNCHANGED <<live, strays, raced>>
    BY <1>4 DEF Refused, Plane, ProbesDone, Idle, history
  <2>2. row' = row \/ row' = Over(mem'[p], row)
    BY <1>4 DEF Refused, Plane, ProbesDone, Save
  <2>3. call' = [call EXCEPT ![p] = Idle] \/ Goto(p, "rename")
    BY <1>4 DEF Refused, Plane, ProbesDone
  <2>4. call'[p].pc # "launch"
    <3>1. Goto(p, "rename") => call'[p].pc = "rename"
      <4>1. "rename" \in Pcs
        BY DEF Pcs
      <4> QED BY <1>0, <2>1, <4>1, Goes
    <3>2. call' = [call EXCEPT ![p] = Idle] => call'[p].pc = "idle"
      BY <1>0 DEF Typed, Idle
    <3> QED BY <2>3, <3>1, <3>2
  <2> QED BY <1>1, <1>2, <2>1, <2>2, <2>3, <2>4
<1>5. CASE Enrol(p)
  <2> DEFINE b == Box(p)
  <2>1. call[p].pc = "enrol" /\ call[p] # Idle
    BY <1>5 DEF Enrol, Idle
  <2>2. b \in Ids
    BY <2>1, NewBox
  <2>3. PICK status :
          /\ mem' = [mem EXCEPT ![p][b] = Instance(status, call[p].bot, b)]
          /\ Goto(p, "plane") \/ call' = [call EXCEPT ![p] = Idle]
    BY <1>5 DEF Enrol
  <2>4. row' = Over(mem'[p], row) /\ UNCHANGED <<live, strays, raced>>
    BY <1>5 DEF Enrol, Save, history
  <2>5. Says(f, Instance(status, call[p].bot, b))
    BY <2>1 DEF Says, Named, Instance
  <2> HIDE DEF b
  <2>6. /\ \A q \in Procs \ {p} : mem'[q] = mem[q]
        /\ \A i \in Ids : mem'[p][i] = mem[p][i] \/ mem'[p][i] = Instance(status, call[p].bot, b)
    BY <1>0, <2>2, <2>3 DEF Typed
  <2>7. \A i \in Ids : Says(f, mem'[p][i])
    BY <1>2, <2>5, <2>6
  <2>8. call'[p].pc # "launch"
    <3>1. Goto(p, "plane") => call'[p].pc = "plane"
      <4>1. "plane" \in Pcs
        BY DEF Pcs
      <4> QED BY <1>0, <2>1, <4>1, Goes
    <3>2. call' = [call EXCEPT ![p] = Idle] => call'[p].pc = "idle"
      BY <1>0 DEF Typed, Idle
    <3> QED BY <2>3, <3>1, <3>2
  <2> QED BY <1>1, <2>1, <2>3, <2>4, <2>6, <2>7, <2>8
<1>6. CASE Rename(p)
  <2> DEFINE b == Box(p)
             k == call[p].keep
  <2>1. call[p].pc = "rename" /\ call[p] # Idle
    BY <1>6 DEF Rename, Idle
  <2>2. b \in Ids /\ call[p] \in Doings
    BY <1>0, <2>1, NewBox, Busy
  <2>3. /\ mem' = [mem EXCEPT ![p][b] = None, ![p][k] = mem[p][b]]
        /\ row' = Over(mem'[p], row) /\ call' = [call EXCEPT ![p] = Idle]
        /\ UNCHANGED <<live, strays, raced>>
    BY <1>6 DEF Rename, Save
  <2> HIDE DEF b, k
  <2>4. /\ \A q \in Procs \ {p} : mem'[q] = mem[q]
        /\ \A i \in Ids : mem'[p][i] \in {None, mem[p][b], mem[p][i]}
    BY <1>0, <2>2, <2>3 DEF Typed
  <2>5. \A i \in Ids : Says(f, mem'[p][i])
    BY <1>2, <2>2, <2>4 DEF Says
  <2>6. call'[p].pc # "launch"
    BY <1>0, <2>3 DEF Typed, Idle
  <2> QED BY <1>1, <2>1, <2>3, <2>4, <2>5, <2>6
<1>7. CASE Fail(p) \/ Probe(p)
  <2> DEFINE t == Target(p)
  <2>1. call[p].pc \in {"fail", "probe"} /\ call[p] # Idle /\ call[p].todo # {}
    BY <1>7 DEF Fail, Probe, IInv, InHand, Idle
  <2>2. t \in Ids /\ mem[p][t] # None
    BY <2>1, HasTarget
  <2>3. mem' = mem \/ Mark(p, t, "failed")
    BY <1>7 DEF Fail, Probe, Mark
  <2>4. row' = row \/ row' = Over(mem'[p], row)
    BY <1>7 DEF Fail, Probe, Save
  <2>5. raced' = raced /\ live' \ strays' \subseteq live \ strays
    BY <1>7 DEF Fail, Probe, history
  <2>6. \/ call' = [call EXCEPT ![p] = Idle]
        \/ call' = [call EXCEPT ![p].todo = call[p].todo \ {t}] /\ call[p].pc = "probe"
    BY <1>7 DEF Fail, Probe
  <2> HIDE DEF t
  <2>7. /\ \A q \in Procs \ {p} : mem'[q] = mem[q]
        /\ \A i \in Ids : Says(f, mem'[p][i])
    <3>1. CASE mem' = mem
      BY <1>2, <3>1
    <3>2. CASE Mark(p, t, "failed")
      <4>1. mem'[p][t].bot = mem[p][t].bot
        BY <1>0, <2>2, <3>2 DEF Mark, Typed, Rows
      <4>2. /\ \A q \in Procs \ {p} : mem'[q] = mem[q]
            /\ \A i \in Ids \ {t} : mem'[p][i] = mem[p][i]
            /\ mem'[p][t].box = mem[p][t].box
        BY <1>0, <2>2, <3>2, Marked
      <4>3. Says(f, mem'[p][t])
        BY <1>2, <2>2, <4>1, <4>2 DEF Says
      <4> QED BY <1>2, <2>2, <4>2, <4>3
    <3> QED BY <2>3, <3>1, <3>2
  <2>8. call'[p].pc # "launch"
    <3>1. CASE call' = [call EXCEPT ![p] = Idle]
      BY <1>0, <3>1 DEF Typed, Idle
    <3>2. CASE call' = [call EXCEPT ![p].todo = call[p].todo \ {t}] /\ call[p].pc = "probe"
      <4>1. call[p] \in Doings
        BY <1>0, <2>1, Busy
      <4> QED BY <1>0, <3>2, <4>1 DEF Typed, Doings
    <3> QED BY <2>6, <3>1, <3>2
  <2> QED BY <1>1, <2>1, <2>4, <2>5, <2>6, <2>7, <2>8
<1>8. CASE Crash(p)
  <2>1. /\ call[p] # Idle /\ mem' = [mem EXCEPT ![p] = row] /\ call' = [call EXCEPT ![p] = Idle]
        /\ UNCHANGED <<row, live, raced>> /\ strays \subseteq strays'
    BY <1>8 DEF Crash
  <2>2. mem'[p] = row /\ \A q \in Procs \ {p} : mem'[q] = mem[q]
    BY <1>0, <2>1 DEF Typed
  <2>3. call'[p].pc # "launch"
    BY <1>0, <2>1 DEF Typed, Idle
  <2> QED BY <1>1, <1>2, <2>1, <2>2, <2>3
<1> QED BY <1>3, <1>4, <1>5, <1>6, <1>7, <1>8


\* A stop takes its target off what runs and off the list.
LEMMA StopNamed ==
  ASSUME IInv, NEW f, Named(f), OneEach(f), NEW p \in Procs, StopBox(p) \/ Settle(p)
  PROVE  Named(f)' /\ OneEach(f)'
<1> DEFINE t == Target(p)
           x == mem[p][t].box
<1>1. Typed /\ call[p].pc \in {"stop", "settle"} /\ call[p] # Idle /\ call[p].todo # {}
  BY DEF StopBox, Settle, IInv, InHand, Idle
<1>2. t \in call[p].todo /\ t \in Ids /\ mem[p][t] # None
  BY <1>1, HasTarget
<1>3. /\ UNCHANGED <<row, raced>>
      /\ \/ StopBox(p) /\ call[p].pc = "stop" /\ Goto(p, "settle") /\ Mark(p, t, "stopped")
            /\ \/ live' = live \ {x} /\ strays' = strays
               \/ live' = live /\ strays' = strays \cup {x}
         \/ Settle(p) /\ call[p].pc = "settle" /\ Goto(p, "save") /\ mem' = mem
            /\ live' = live /\ strays' = strays
  BY DEF StopBox, Settle, Mark
<1>4. /\ \A q \in Procs \ {p} : call'[q] = call[q]
      /\ call'[p].pc \in {"settle", "save"} /\ call'[p].todo = call[p].todo
      /\ call'[p].next = call[p].next /\ call'[p].bot = call[p].bot
  <2>1. "settle" \in Pcs /\ "save" \in Pcs
    BY DEF Pcs
  <2> QED BY <1>1, <1>3, <2>1, Goes
<1>5. t \notin live' \ strays' \/ Settle(p)
  <2>1. Fits(mem[p][t], t)
    BY <1>2 DEF IInv, RowsFit
  <2> QED BY <1>2, <1>3, <2>1 DEF Fits
<1>6. /\ \A q \in Procs \ {p} : mem'[q] = mem[q]
      /\ \A i \in Ids : Says(f, mem'[p][i])
  <2>0. \A i \in Ids : Says(f, mem[p][i])
    BY DEF Named
  <2>1. CASE mem' = mem
    BY <2>0, <2>1
  <2>2. CASE Mark(p, t, "stopped")
    <3>1. mem'[p][t].bot = mem[p][t].bot
      BY <1>1, <1>2, <2>2 DEF Mark, Typed, Rows
    <3>2. /\ \A q \in Procs \ {p} : mem'[q] = mem[q]
          /\ \A i \in Ids \ {t} : mem'[p][i] = mem[p][i]
          /\ mem'[p][t].box = mem[p][t].box
      BY <1>1, <1>2, <2>2, Marked
    <3>3. Says(f, mem'[p][t])
      BY <1>2, <2>0, <3>1, <3>2 DEF Says
    <3> QED BY <2>0, <1>2, <3>2, <3>3
  <2> QED BY <1>3, <2>1, <2>2
<1>7. live' \ strays' \subseteq live \ strays
  BY <1>3
<1>8. ~raced' => ~raced /\ \A q \in Procs \ {p} : call[q] = Idle
  BY <1>1, <1>3, Alone
<1>9. Target(p)' = t
  BY <1>4 DEF Target
<1>10. ASSUME ~raced', call[p].next = "limit" PROVE Mine(p, f)' \subseteq call[p].todo \ {t}
  <2>1. Clear(p, f) /\ Mine(p, f)' \subseteq Mine(p, f)
    BY <1>3, <1>4, <1>7, <1>10 DEF OneEach, Mine
  <2>2. CASE call[p].pc = "settle"
    BY <1>10, <2>1, <2>2 DEF Clear
  <2>3. CASE call[p].pc = "stop"
    <3>1. Mine(p, f) \subseteq call[p].todo
      BY <1>10, <2>1, <2>3 DEF Clear
    <3>2. t \notin Mine(p, f)'
      <4>1. ~Settle(p)
        BY <2>3 DEF Settle
      <4> QED BY <1>5, <4>1 DEF Mine
    <3> QED BY <2>1, <3>1, <3>2
  <2> QED BY <1>1, <2>2, <2>3
<1>11. ASSUME ~raced' PROVE Clear(p, f)'
  BY <1>4, <1>9, <1>10, <1>11 DEF Clear
<1>12. call'[p].pc # "enrol"
  BY <1>4
<1> HIDE DEF t, x
<1> QED BY <1>3, <1>4, <1>6, <1>7, <1>8, <1>11, <1>12, Moves

LEMMA StoppedNamed ==
  ASSUME IInv, NEW f, Named(f), OneEach(f), NEW p \in Procs, Stopped(p)
  PROVE  Named(f)' /\ OneEach(f)'
<1> DEFINE rest == call[p].todo \ {Target(p)}
           pc == IF rest = {} THEN call[p].next ELSE "stop"
           c == IF rest = {} /\ call[p].next = "end" THEN Idle
                ELSE Doing(pc, rest, call[p].next, call[p].bot, call[p].keep)
<1>1. Typed /\ call[p].pc = "save" /\ call[p] # Idle /\ call[p] \in Doings
  BY Busy DEF Stopped, IInv, Idle
<1>2. /\ mem' = mem /\ row' = Over(mem'[p], row) /\ call' = [call EXCEPT ![p] = c]
      /\ UNCHANGED <<live, strays, raced>>
  BY DEF Stopped, Save, history
<1>3. \/ c.pc = "idle"
      \/ c.pc = "load"
      \/ c.pc = "limit" /\ rest = {} /\ call[p].next = "limit" /\ c.bot = call[p].bot
      \/ c.pc = "stop" /\ c.todo = rest /\ c.next = call[p].next /\ c.bot = call[p].bot
  BY <1>1 DEF Doings, Doing, Idle
<1> HIDE DEF c, pc
<1>4. call'[p] = c /\ \A q \in Procs \ {p} : call'[q] = call[q]
  BY <1>1, <1>2 DEF Typed
<1>5. \A i \in Ids : Says(f, mem'[p][i])
  BY <1>2 DEF Named
<1>6. ~raced' => ~raced /\ \A q \in Procs \ {p} : call[q] = Idle
  BY <1>1, <1>2, Alone
<1>7. ASSUME ~raced', call[p].next = "limit", c.bot = call[p].bot PROVE Mine(p, f)' \subseteq rest
  <2>1. Mine(p, f) \subseteq rest
    BY <1>1, <1>2, <1>7 DEF OneEach, Clear
  <2> QED BY <1>2, <1>4, <1>7, <2>1 DEF Mine
<1> HIDE DEF rest
<1>8. ASSUME ~raced' PROVE Clear(p, f)'
  <2>1. CASE c.pc \in {"idle", "load"} \/ (c.pc = "stop" /\ c.next # "limit")
    BY <1>4, <2>1, ElsewhereClear
  <2>2. CASE c.pc = "limit" /\ rest = {} /\ call[p].next = "limit" /\ c.bot = call[p].bot
    <3>1. Mine(p, f)' = {}
      BY <1>7, <1>8, <2>2
    <3> QED BY <1>4, <2>2, <3>1 DEF Clear
  <2>3. CASE c.pc = "stop" /\ c.todo = rest /\ c.next = "limit" /\ call[p].next = "limit" /\ c.bot = call[p].bot
    <3>1. Mine(p, f)' \subseteq rest
      BY <1>7, <1>8, <2>3
    <3> QED BY <1>4, <2>3, <3>1 DEF Clear
  <2> QED BY <1>3, <2>1, <2>2, <2>3
<1>9. call'[p].pc # "enrol"
  BY <1>3, <1>4
<1> QED BY <1>2, <1>4, <1>5, <1>6, <1>8, <1>9, Moves

\* A new box belongs to the bot that is started, of which nothing else runs.
LEMMA LaunchNamed ==
  ASSUME IInv, NEW f \in [Ids -> Bots \cup {0}], Named(f), OneEach(f), NEW p \in Procs, Launch(p)
  PROVE  \E g \in [Ids -> Bots \cup {0}] : Named(g)' /\ OneEach(g)'
<1>0. PICK b, g : b = boxes + 1 /\ g = [f EXCEPT ![b] = call[p].bot]
  OBVIOUS
<1> DEFINE c == [call[p] EXCEPT !.pc = "enrol", !.todo = {b}]
<1>1. Typed /\ call[p].pc = "launch" /\ call[p] # Idle /\ call[p] \in Doings /\ boxes \in Nat
  BY Busy, HostSessionsAssumption DEF Launch, IInv, Typed, Idle
<1>2. /\ live' = live \cup {b} /\ call' = [call EXCEPT ![p] = c]
      /\ UNCHANGED <<row, mem, strays, raced>>
  BY <1>0 DEF Launch, history
<1>3. b \in Ids /\ b \in Nat /\ ~(b <= boxes) /\ \A d \in live : d <= boxes
  BY <1>0, <1>1, HostSessionsAssumption DEF Launch, Typed, Ids
<1>4. c.pc = "enrol" /\ c.todo = {b} /\ c.bot = call[p].bot /\ c.bot \in Bots \cup {0}
  BY <1>1 DEF Doings
<1>5. call'[p] = c /\ \A q \in Procs \ {p} : call'[q] = call[q]
  BY <1>1, <1>2 DEF Typed
<1>6. g \in [Ids -> Bots \cup {0}] /\ g[b] = call[p].bot /\ \A d \in Ids : d # b => g[d] = f[d]
  BY <1>0, <1>3, <1>4
<1> HIDE DEF c
<1>7. ASSUME NEW i \in Ids, NEW r \in Rows, Fits(r, i), Says(f, r) PROVE Says(g, r)
  <2> SUFFICES ASSUME r # None PROVE r.bot = g[r.box]
    BY DEF Says
  <2>1. r.box \in Ids /\ r.box # b
    BY <1>3, <1>7, RowType DEF Fits
  <2> QED BY <1>6, <1>7, <2>1 DEF Says
<1>8. Named(g)'
  <2>1. \A i \in Ids : Says(g, row[i]) /\ \A q \in Procs : Says(g, mem[q][i])
    BY <1>1, <1>7 DEF IInv, Typed, RowsFit, Named
  <2>2. ASSUME NEW q \in Procs, call'[q].pc = "enrol" PROVE call'[q].bot = g[Max(call'[q].todo)]
    <3>1. CASE q = p
      BY <1>3, <1>4, <1>5, <1>6, <3>1, OnlyBox
    <3>2. CASE q # p
      <4>1. call[q].pc = "enrol" /\ call'[q] = call[q]
        BY <1>5, <2>2, <3>2
      <4>2. Box(q) \in Ids /\ Box(q) <= boxes
        BY <4>1, NewBox
      <4> QED BY <1>3, <1>6, <4>1, <4>2 DEF Named, Box
    <3> QED BY <3>1, <3>2
  <2> QED BY <1>2, <2>1, <2>2 DEF Named, Says, Box
<1>9. OneEach(g)'
  <2> SUFFICES ASSUME ~raced' PROVE OneEach(g)'
    BY DEF OneEach
  <2>1. /\ \A d, e \in live \ strays : f[d] = f[e] => d = e
        /\ \A d \in live \ strays : f[d] # call[p].bot
        /\ \A q \in Procs \ {p} : call[q] = Idle
    <3>1. ~raced
      BY <1>2
    <3>2. Mine(p, f) = {}
      BY <1>1, <3>1 DEF OneEach, Clear
    <3> QED BY <1>1, <3>1, <3>2 DEF OneEach, Mine, IInv, OneCall
  <2>2. \A d \in live \ strays : d \in Ids /\ d # b /\ g[d] = f[d]
    BY <1>1, <1>3, <1>6, BoxesAreIds
  <2>3. \A d \in live' \ strays' : d = b \/ d \in live \ strays
    BY <1>2
  <2>4. \A d, e \in live' \ strays' : g[d] = g[e] => d = e
    BY <1>6, <2>1, <2>2, <2>3
  <2>5. \A q \in Procs : call'[q].pc \in {"idle", "enrol"}
    BY <1>4, <1>5, <2>1 DEF Idle
  <2>6. \A q \in Procs : Clear(q, g)'
    BY <2>5 DEF Clear
  <2> QED BY <2>4, <2>6 DEF OneEach
<1> QED BY <1>6, <1>8, <1>9

SomeNames == \E f \in [Ids -> Bots \cup {0}] : Named(f) /\ OneEach(f)

LEMMA NamesStep == IInv /\ SomeNames /\ [Next]_vars => SomeNames'
<1> SUFFICES ASSUME IInv, SomeNames, [Next]_vars PROVE SomeNames'
  OBVIOUS
<1>0. PICK f \in [Ids -> Bots \cup {0}] : Named(f) /\ OneEach(f)
  BY DEF SomeNames
<1>1. SUFFICES \E g \in [Ids -> Bots \cup {0}] : Named(g)' /\ OneEach(g)'
  BY DEF SomeNames
<1>2. CASE UNCHANGED vars
  <2>1. UNCHANGED <<row, mem, call, live, strays, raced>>
    BY <1>2 DEF vars, history
  <2>2. Named(f)' /\ OneEach(f)'
    BY <1>0, <2>1 DEF Named, Says, Box, OneEach, Clear, Mine, Target
  <2> QED BY <2>2
<1>3. ASSUME NEW p \in Procs, Steps(p) \/ Crash(p) PROVE \E g \in [Ids -> Bots \cup {0}] : Named(g)' /\ OneEach(g)'
  <2>1. CASE Launch(p)
    BY <1>0, <2>1, LaunchNamed
  <2>2. CASE ~Launch(p)
    <3>1. Named(f)' /\ OneEach(f)'
      BY <1>0, <1>3, <2>2, LoadNamed, LooseNamed, StopNamed, StoppedNamed DEF Steps
    <3> QED BY <3>1
  <2> QED BY <2>1, <2>2
<1>4. ASSUME NEW p \in Procs,
             \/ \E b \in Bots : CallStart(p, b)
             \/ \E i \in Ids : CallStop(p, i) \/ CallRestart(p, i) \/ CallStatus(p, i)
             \/ CallMonitor(p)
      PROVE  Named(f)' /\ OneEach(f)'
  BY <1>0, <1>4, CallsNamed
<1>5. ASSUME NEW box \in Ids, BotDies(box) PROVE Named(f)' /\ OneEach(f)'
  <2>1. live' \subseteq live /\ UNCHANGED <<row, mem, call, strays, raced>>
    BY <1>5 DEF BotDies, history
  <2>2. Named(f)'
    BY <1>0, <2>1 DEF Named, Says, Box
  <2>3. \A p \in Procs : Mine(p, f)' \subseteq Mine(p, f)
    BY <2>1 DEF Mine
  <2>4. \A p \in Procs : Clear(p, f) => Clear(p, f)'
    BY <2>1, <2>3 DEF Clear, Target
  <2>5. OneEach(f)'
    BY <1>0, <2>1, <2>4 DEF OneEach
  <2> QED BY <2>2, <2>5
<1> QED BY <1>2, <1>3, <1>4, <1>5 DEF Next

\* Starts that do not overlap leave one sandbox of each bot, whichever process
\* runs them and whatever it remembers (service.py:539): what HostTwins.cfg
\* refutes needs two calls at once.
THEOREM SerialStartsAreSingle == Spec => [](~raced => OneSandboxPerBot)
<1>1. Init => SomeNames
  <2> DEFINE f == [i \in Ids |-> 0]
  <2>1. ASSUME Init PROVE f \in [Ids -> Bots \cup {0}] /\ Named(f) /\ OneEach(f)
    BY <2>1 DEF Init, Named, Says, OneEach, Clear, Idle
  <2> HIDE DEF f
  <2> QED BY <2>1 DEF SomeNames
<1>2. IInv /\ SomeNames => (~raced => OneSandboxPerBot)
  <2> SUFFICES ASSUME SomeNames, IInv, ~raced, NEW box \in live \ strays, NEW twin \in live \ (strays \cup {box}),
                      NEW i \in Running(row), NEW j \in Running(row),
                      row[i].box = box, row[j].box = twin, row[i].bot = row[j].bot
               PROVE  FALSE
    BY DEF OneSandboxPerBot, Duplicates
  <2>1. PICK f \in [Ids -> Bots \cup {0}] : Named(f) /\ OneEach(f)
    BY DEF SomeNames
  <2>2. row[i].bot = f[box] /\ row[j].bot = f[twin]
    BY <2>1 DEF Named, Says, Running, None
  <2> QED BY <2>1, <2>2 DEF OneEach
<1> QED BY <1>1, <1>2, NamesStep, AlwaysInv, PTL DEF Spec


---------------------------------------------------------------------------
(* One process: what was stopped stays stopped *)

\* What the process remembers as running, the registry does not call stopped.
Remembers(p) == \A i \in Ids :
    row[i].status = "stopped" /\ mem[p][i].status = "running" => mem[p][i].box # row[i].box

\* A box that is being enrolled is in no row that says stopped.
Starting == {"enrol", "plane", "rename"}
Enrols(p, b) == call[p].pc \in Starting /\ call[p].todo = {b}
Fresh(p) == \A b \in Ids : Enrols(p, b) =>
    /\ \A i \in Ids : row[i].status = "stopped" => row[i].box # b
    /\ \A i \in Ids : mem[p][i].status = "stopped" => mem[p][i].box # b
    /\ call[p].pc # "enrol" => mem[p][b].box = b

StopsKept == \A p \in Procs : Remembers(p) /\ Fresh(p)

StayStep == \A i \in Ids :
    row[i].status = "stopped" /\ row'[i].box = row[i].box => row'[i].status # "running"

\* A save writes what the process remembers, and leaves the rest.
LEMMA SavedRows ==
  ASSUME NEW p, row' = row \/ row' = Over(mem'[p], row), NEW i \in Ids
  PROVE  row'[i] = row[i] \/ (row'[i] = mem'[p][i] /\ mem'[p][i] # None)
BY DEF Over

\* A step of the one process after which its map revives no stopped row.
LEMMA KeptStep ==
  ASSUME NEW p, Procs = {p}, row' = row \/ row' = Over(mem'[p], row), Fresh(p)',
         \A i \in Ids : row[i].status = "stopped" /\ mem'[p][i].status = "running"
                          => mem'[p][i].box # row[i].box
  PROVE  StopsKept' /\ StayStep
<1>1. Remembers(p)'
  BY SavedRows DEF Remembers, Over
<1>2. StayStep
  <2> SUFFICES ASSUME NEW i \in Ids, row[i].status = "stopped", row'[i].box = row[i].box,
                      row'[i].status = "running"
               PROVE  FALSE
    BY DEF StayStep
  <2> QED BY SavedRows
<1> QED BY <1>1, <1>2 DEF StopsKept

\* What the process takes from the registry, keeps, or ends.
LEMMA KeptByReading ==
  ASSUME StopsKept, NEW p, Procs = {p}, row' = row \/ row' = Over(mem'[p], row), Fresh(p)',
         \A i \in Ids : \/ mem'[p][i] = row[i] \/ mem'[p][i] = mem[p][i]
                        \/ mem'[p][i].status # "running"
  PROVE  StopsKept' /\ StayStep
<1>1. ASSUME NEW i \in Ids, row[i].status = "stopped", mem'[p][i].status = "running"
      PROVE  mem'[p][i].box # row[i].box
  BY <1>1 DEF StopsKept, Remembers
<1> QED BY <1>1, KeptStep

\* Where no box is being enrolled, nothing is asked of it.
LEMMA NoneFresh == ASSUME NEW p, call'[p].pc \notin Starting PROVE Fresh(p)'
  BY DEF Fresh, Enrols

\* Calls that begin.
LEMMA BeginsKept ==
  ASSUME IInv, StopsKept, NEW p, Procs = {p},
         \/ \E b \in Bots : CallStart(p, b)
         \/ \E i \in Ids : CallStop(p, i) \/ CallRestart(p, i) \/ CallStatus(p, i)
         \/ CallMonitor(p)
  PROVE  StopsKept' /\ StayStep
<1>0. p \in Procs /\ call \in [Procs -> {Idle} \cup Doings] /\ mem \in [Procs -> [Ids -> Rows]]
  BY DEF IInv, Typed
<1>1. ASSUME NEW op, NEW c, Begin(p, op, c), c.pc \notin Starting,
             \A i \in Ids : mem'[p][i] = row[i] \/ mem'[p][i] = mem[p][i]
      PROVE  StopsKept' /\ StayStep
  <2>1. row' = row /\ call'[p] = c
    BY <1>0, <1>1 DEF Begin
  <2> QED BY <1>1, <2>1, NoneFresh, KeptByReading
<1>2. ASSUME NEW b \in Bots, CallStart(p, b) PROVE StopsKept' /\ StayStep
  <2>1. Doing("load", {}, "limit", b, 0).pc \notin Starting
    BY DEF Doing, Starting
  <2> QED BY <1>1, <1>2, <2>1 DEF CallStart
<1>3. ASSUME NEW i \in Ids, CallStop(p, i) PROVE StopsKept' /\ StayStep
  <2>1. Doing("stop", {i}, "end", 0, 0).pc \notin Starting
    BY DEF Doing, Starting
  <2> QED BY <1>0, <1>1, <1>3, <2>1, Fetched DEF CallStop
<1>4. ASSUME NEW i \in Ids, CallRestart(p, i) PROVE StopsKept' /\ StayStep
  <2>1. Doing("stop", {i}, "load", Get(p, i).bot, i).pc \notin Starting
    BY DEF Doing, Starting
  <2> QED BY <1>0, <1>1, <1>4, <2>1, Fetched DEF CallRestart
<1>5. ASSUME NEW i \in Ids, CallStatus(p, i) PROVE StopsKept' /\ StayStep
  <2>1. Doing("fail", {i}, "end", 0, 0).pc \notin Starting
    BY DEF Doing, Starting
  <2>2. \A j \in Ids : mem'[p][j] = row[j] \/ mem'[p][j] = mem[p][j]
    BY <1>0, <1>5 DEF CallStatus, Over
  <2> QED BY <1>1, <1>5, <2>1, <2>2 DEF CallStatus
<1>6. CASE CallMonitor(p)
  <2>1. Doing("probe", Running(mem'[p]), "end", 0, 0).pc \notin Starting
    BY DEF Doing, Starting
  <2>2. \A j \in Ids : mem'[p][j] = row[j] \/ mem'[p][j] = mem[p][j]
    BY <1>0, <1>6 DEF CallMonitor
  <2> QED BY <1>1, <1>6, <2>1, <2>2 DEF CallMonitor
<1> QED BY <1>2, <1>3, <1>4, <1>5, <1>6

\* The steps that start a box.
LEMMA StartsKept ==
  ASSUME IInv, StopsKept, NEW p, Procs = {p},
         Launch(p) \/ Enrol(p) \/ Plane(p) \/ Rename(p)
  PROVE  StopsKept' /\ StayStep
<1>0. /\ p \in Procs /\ call \in [Procs -> {Idle} \cup Doings] /\ mem \in [Procs -> [Ids -> Rows]]
      /\ row \in [Ids -> Rows] /\ boxes \in Nat /\ Remembers(p) /\ Fresh(p)
      /\ Idle.pc \notin Starting
  BY HostSessionsAssumption DEF IInv, Typed, StopsKept, Idle, Starting
<1>1. ASSUME mem' = mem, row' = row \/ row' = Over(mem'[p], row), Fresh(p)'
      PROVE  StopsKept' /\ StayStep
  BY <1>1, KeptByReading
<1>2. CASE Launch(p)
  <2>1. call'[p].todo = {boxes + 1} /\ call'[p].pc = "enrol" /\ UNCHANGED <<row, mem>>
    <3>1. call[p] \in Doings
      BY <1>0, <1>2, Busy DEF Launch, IInv, Idle
    <3> QED BY <1>0, <1>2, <3>1 DEF Launch, Doings
  <2>2. \A i \in Ids : /\ row[i].status = "stopped" => row[i].box # boxes + 1
                       /\ mem[p][i].status = "stopped" => mem[p][i].box # boxes + 1
    <3>1. ASSUME NEW i \in Ids, NEW r, r \in {row[i], mem[p][i]}, r.status = "stopped"
          PROVE  r.box # boxes + 1
      <4>1. Fits(r, i) /\ r \in Rows /\ r # None
        BY <1>0, <3>1 DEF IInv, RowsFit, None
      <4>2. r.box <= boxes /\ r.box \in Nat
        BY <4>1, RowType, IdsAreNat DEF Fits
      <4> QED BY <1>0, <4>2
    <3> QED BY <3>1
  <2>3. Fresh(p)'
    BY <2>1, <2>2 DEF Fresh, Enrols
  <2> QED BY <1>1, <2>1, <2>3
<1>3. CASE Enrol(p)
  <2> PICK b \in Ids : b = Box(p) /\ call[p].todo = {b}
    BY <1>0, <1>3, NewBox DEF Enrol
  <2>1. PICK status \in {"running", "failed"} :
          /\ mem' = [mem EXCEPT ![p][b] = Instance(status, call[p].bot, b)]
          /\ IF status = "running" THEN Goto(p, "plane") ELSE call' = [call EXCEPT ![p] = Idle]
    BY <1>3 DEF Enrol
  <2>2. /\ mem'[p][b].status \in {"running", "failed"} /\ mem'[p][b].box = b
        /\ \A i \in Ids \ {b} : mem'[p][i] = mem[p][i]
    BY <1>0, <2>1 DEF Instance
  <2>3. row' = Over(mem'[p], row) /\ Enrols(p, b)
    BY <1>3 DEF Enrol, Save, Enrols, Starting
  <2>4. \A i \in Ids : /\ row[i].status = "stopped" => row[i].box # b
                       /\ mem[p][i].status = "stopped" => mem[p][i].box # b
    BY <1>0, <2>3 DEF Fresh
  <2>5. Fresh(p)'
    <3>1. CASE status = "running"
      <4>1. call'[p].todo = {b}
        <5>1. call[p] \in Doings
          BY <1>0, <1>3, Busy DEF Enrol, IInv, Idle
        <5> QED BY <1>0, <2>1, <3>1, <5>1 DEF Goto, Doings
      <4>2. \A i \in Ids : mem'[p][i].status = "stopped" => mem'[p][i].box # b
        BY <2>2, <2>4
      <4>3. \A i \in Ids : row'[i].status = "stopped" => row'[i].box # b
        BY <2>3, <2>4, <4>2, SavedRows
      <4> QED BY <2>2, <4>1, <4>2, <4>3 DEF Fresh, Enrols
    <3>2. CASE status # "running"
      <4>1. call'[p] = Idle
        BY <1>0, <2>1, <3>2
      <4> QED BY <1>0, <4>1, NoneFresh
    <3> QED BY <3>1, <3>2
  <2>6. \A i \in Ids : row[i].status = "stopped" /\ mem'[p][i].status = "running"
                         => mem'[p][i].box # row[i].box
    BY <1>0, <2>2, <2>4 DEF Remembers
  <2> QED BY <2>3, <2>5, <2>6, KeptStep
<1>4. CASE Plane(p)
  <2> PICK b \in Ids : call[p].todo = {b}
    BY <1>0, <1>4, NewBox DEF Plane
  <2>1. mem' = mem /\ (row' = row \/ row' = Over(mem'[p], row)) /\ Enrols(p, b)
        /\ call[p].pc = "plane"
    BY <1>4 DEF Plane, Save, Enrols, Starting
  <2>2. call'[p] = Idle \/ call'[p].todo = {b}
    <3>1. call[p] \in Doings
      BY <1>0, <2>1, Busy DEF IInv, Idle
    <3> QED BY <1>0, <1>4, <3>1 DEF Plane, Goto, Doings
  <2>3. /\ \A i \in Ids : mem'[p][i].status = "stopped" => mem'[p][i].box # b
        /\ \A i \in Ids : row[i].status = "stopped" => row[i].box # b
        /\ mem'[p][b].box = b
    BY <1>0, <2>1 DEF Fresh
  <2>4. \A i \in Ids : row'[i].status = "stopped" => row'[i].box # b
    BY <2>1, <2>3, SavedRows
  <2>5. Fresh(p)'
    BY <1>0, <2>2, <2>3, <2>4 DEF Fresh, Enrols
  <2> QED BY <1>1, <2>1, <2>5
<1>5. CASE Rename(p)
  <2> PICK b \in Ids : b = Box(p) /\ call[p].todo = {b}
    BY <1>0, <1>5, NewBox DEF Rename
  <2> PICK k : k = call[p].keep
    OBVIOUS
  <2>1. /\ mem' = [mem EXCEPT ![p][b] = None, ![p][k] = mem[p][b]]
        /\ row' = Over(mem'[p], row) /\ call'[p] = Idle /\ Enrols(p, b) /\ call[p].pc = "rename"
    BY <1>0, <1>5 DEF Rename, Save, Enrols, Starting
  <2>2. \A i \in Ids : mem'[p][i] = mem[p][i] \/ mem'[p][i] = None \/ mem'[p][i] = mem[p][b]
    BY <1>0, <2>1
  <2>3. mem[p][b].box = b /\ \A i \in Ids : row[i].status = "stopped" => row[i].box # b
    BY <1>0, <2>1 DEF Fresh
  <2>4. \A i \in Ids : row[i].status = "stopped" /\ mem'[p][i].status = "running"
                         => mem'[p][i].box # row[i].box
    BY <1>0, <2>2, <2>3 DEF Remembers, None
  <2> QED BY <1>0, <2>1, <2>4, NoneFresh, KeptStep
<1> QED BY <1>2, <1>3, <1>4, <1>5

\* The other steps.
LEMMA StopsAreKept ==
  ASSUME IInv, StopsKept, NEW p, Procs = {p},
         \/ Load(p) \/ Limit(p) \/ Refused(p) \/ StopBox(p) \/ Settle(p) \/ Stopped(p)
         \/ Fail(p) \/ Probe(p) \/ ProbesDone(p) \/ Crash(p)
  PROVE  StopsKept' /\ StayStep
<1>0. /\ p \in Procs /\ call \in [Procs -> {Idle} \cup Doings] /\ mem \in [Procs -> [Ids -> Rows]]
      /\ row \in [Ids -> Rows] /\ Idle.pc \notin Starting
  BY DEF IInv, Typed, Idle, Starting
<1>1. call[p] \in Doings
  <2>1. ASSUME Load(p) \/ Limit(p) \/ Refused(p) \/ StopBox(p) \/ Settle(p) \/ Stopped(p)
        PROVE  call[p].pc # "idle"
    BY <2>1 DEF Load, Limit, Refused, StopBox, Settle, Stopped
  <2>2. ASSUME Fail(p) \/ Probe(p) \/ ProbesDone(p) PROVE call[p].pc # "idle"
    BY <2>2 DEF Fail, Probe, ProbesDone
  <2>3. ASSUME Crash(p) PROVE call[p] # Idle
    BY <2>3 DEF Crash
  <2> QED BY <1>0, <2>1, <2>2, <2>3, Busy DEF IInv
<1>2. ASSUME call'[p].pc \notin Starting, row' = row \/ row' = Over(mem'[p], row),
             \A i \in Ids : \/ mem'[p][i] = row[i] \/ mem'[p][i] = mem[p][i]
                            \/ mem'[p][i].status # "running"
      PROVE  StopsKept' /\ StayStep
  BY <1>2, NoneFresh, KeptByReading
<1>3. CASE Load(p)
  <2>1. call'[p].pc \notin Starting
    BY <1>0, <1>1, <1>3 DEF Load, Doings, Starting
  <2>2. mem'[p] = row /\ row' = row
    BY <1>0, <1>3 DEF Load
  <2> QED BY <1>2, <2>1, <2>2
<1>4. CASE Limit(p)
  <2>1. call'[p].pc \notin Starting
    BY <1>0, <1>1, <1>4 DEF Limit, Goto, Doings, Starting
  <2>2. row' = row /\ \A i \in Ids : mem'[p][i] = row[i] \/ mem'[p][i] = mem[p][i]
    BY <1>0, <1>4 DEF Limit, Over
  <2> QED BY <1>2, <2>1, <2>2
<1>5. CASE Refused(p) \/ Settle(p)
  <2>1. call'[p].pc \notin Starting
    BY <1>0, <1>1, <1>5 DEF Refused, Settle, Goto, Doings, Starting
  <2>2. row' = row /\ mem' = mem
    BY <1>5 DEF Refused, Settle
  <2> QED BY <1>2, <2>1, <2>2
<1>6. CASE StopBox(p)
  <2>1. call'[p].pc \notin Starting
    BY <1>0, <1>1, <1>6 DEF StopBox, Goto, Doings, Starting
  <2>2. row' = row /\ mem' = [mem EXCEPT ![p][Target(p)].status = "stopped"]
    BY <1>6 DEF StopBox
  <2>3. \A i \in Ids : mem'[p][i] = mem[p][i] \/ mem'[p][i] = [mem[p][i] EXCEPT !.status = "stopped"]
    BY <1>0, <2>2
  <2>4. ASSUME NEW i \in Ids PROVE mem'[p][i] = mem[p][i] \/ mem'[p][i].status # "running"
    <3>1. [mem[p][i] EXCEPT !.status = "stopped"].status # "running"
      BY <1>0 DEF Rows, None
    <3> QED BY <2>3, <3>1
  <2> QED BY <1>2, <2>1, <2>2, <2>4
<1>7. CASE Stopped(p) \/ ProbesDone(p)
  <2>1. call'[p].pc \notin Starting
    <3>1. CASE ProbesDone(p)
      BY <1>0, <3>1 DEF ProbesDone
    <3>2. CASE Stopped(p)
      <4>1. PICK rest : call'[p] = IF rest = {} /\ call[p].next = "end" THEN Idle
                ELSE Doing(IF rest = {} THEN call[p].next ELSE "stop", rest,
                           call[p].next, call[p].bot, call[p].keep)
        BY <1>0, <3>2 DEF Stopped
      <4>2. call[p].next \in {"limit", "load", "end"}
        BY <1>1 DEF Doings
      <4> QED BY <1>0, <4>1, <4>2 DEF Doing, Starting
    <3> QED BY <1>7, <3>1, <3>2
  <2>2. mem' = mem /\ row' = Over(mem'[p], row)
    BY <1>7 DEF Stopped, ProbesDone, Save
  <2> QED BY <1>2, <2>1, <2>2
<1>8. CASE Fail(p)
  <2>1. /\ call'[p].pc \notin Starting /\ row' = Over(mem'[p], row)
        /\ mem' = [mem EXCEPT ![p][Target(p)].status = "failed"]
    BY <1>0, <1>8 DEF Fail, Save
  <2>2. \A i \in Ids : mem'[p][i] = mem[p][i] \/ mem'[p][i] = [mem[p][i] EXCEPT !.status = "failed"]
    BY <1>0, <2>1
  <2>3. ASSUME NEW i \in Ids PROVE mem'[p][i] = mem[p][i] \/ mem'[p][i].status # "running"
    <3>1. [mem[p][i] EXCEPT !.status = "failed"].status # "running"
      BY <1>0 DEF Rows, None
    <3> QED BY <2>2, <3>1
  <2> QED BY <1>2, <2>1, <2>3
<1>9. CASE Probe(p)
  <2>1. call'[p].pc \notin Starting
    BY <1>0, <1>1, <1>9 DEF Probe, Doings, Starting
  <2>2. /\ row' = row
        /\ mem' = mem \/ mem' = [mem EXCEPT ![p][Target(p)].status = "failed"]
    BY <1>9 DEF Probe
  <2>3. \A i \in Ids : mem'[p][i] = mem[p][i] \/ mem'[p][i] = [mem[p][i] EXCEPT !.status = "failed"]
    BY <1>0, <2>2
  <2>4. ASSUME NEW i \in Ids PROVE mem'[p][i] = mem[p][i] \/ mem'[p][i].status # "running"
    <3>1. [mem[p][i] EXCEPT !.status = "failed"].status # "running"
      BY <1>0 DEF Rows, None
    <3> QED BY <2>3, <3>1
  <2> QED BY <1>2, <2>1, <2>2, <2>4
<1>10. CASE Crash(p)
  <2>1. call'[p].pc \notin Starting /\ row' = row /\ mem'[p] = row
    BY <1>0, <1>10 DEF Crash
  <2> QED BY <1>2, <2>1
<1> QED BY <1>3, <1>4, <1>5, <1>6, <1>7, <1>8, <1>9, <1>10

\* In one process a row that says stopped is never written back as running
\* (service.py:106-130, 1227-1280): only a restart starts its id again, with
\* another box.  A second process, which remembers the bot as it was, writes
\* it back (HostStale.cfg).
THEOREM OneProcessKeepsStops == OneProcess => (Spec => StoppedStaysStopped)
<1> SUFFICES ASSUME NEW p, Procs = {p} PROVE Spec => StoppedStaysStopped
  BY DEF OneProcess
<1>1. Init => StopsKept
  <2>1. Init => \A i \in Ids : row[i].status = "none"
    BY DEF Init, None
  <2>2. Init => call[p].pc \notin Starting
    BY DEF Init, Idle, Starting
  <2> QED BY <2>1, <2>2 DEF StopsKept, Remembers, Fresh, Enrols
<1>2. ASSUME IInv, StopsKept, Next PROVE StopsKept' /\ StayStep
  <2>1. ASSUME NEW box \in Ids, BotDies(box) PROVE StopsKept' /\ StayStep
    <3>1. UNCHANGED <<row, mem, call>>
      BY <2>1 DEF BotDies
    <3> QED BY <1>2, <3>1 DEF StopsKept, Remembers, Fresh, Enrols, StayStep
  <2> QED BY <1>2, <2>1, BeginsKept, StartsKept, StopsAreKept DEF Next, Steps
<1>3. ASSUME StopsKept, UNCHANGED vars PROVE StopsKept'
  BY <1>3 DEF vars, StopsKept, Remembers, Fresh, Enrols
<1>4. IInv /\ StopsKept /\ [Next]_vars => StopsKept'
  BY <1>2, <1>3
<1>5. IInv /\ StopsKept /\ [Next]_vars
        => [\A i \in Ids : row[i].status = "stopped" /\ row'[i].box = row[i].box
                             => row'[i].status # "running"]_vars
  BY <1>2 DEF StayStep
<1> QED BY <1>1, <1>4, <1>5, AlwaysInv, PTL DEF Spec, StoppedStaysStopped
=============================================================================
