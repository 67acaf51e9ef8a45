----------------------- MODULE BalanceLifecycleProofs -----------------------
(* Proofs about BalanceLifecycle: over the versioned row, whoever saves    *)
(* and from however old a reading, a tenant is suspended only out of a     *)
(* grace period that has run out, for any number of processes, machines    *)
(* and amounts, any length of the grace period, and both stores; an        *)
(* answered transition was written, for the store that checks versions;    *)
(* and where one process does all, the grace period was a full one, and    *)
(* what is suspended has stopped.                                          *)
EXTENDS BalanceLifecycle, TLAPS

\* Where a process holds what it read, to decide on it or to save it.
Reading == {"wallet", "decide", "suspend", "clearWallet", "clearSave", "baseSave"}

\* While its version matches, what a process read is what the row says.
Mirrors(p) ==
  pc[p] \in Reading /\ CanWrite(p) => st[p].phase = row.phase /\ st[p].left = row.left

\* on_balance_changed goes on only for a tenant it did not find suspended,
\* and suspends only out of a grace period it found to be over.
Decides(p) ==
  /\ pc[p] \in {"wallet", "decide", "suspend"} => st[p].phase # "suspended"
  /\ pc[p] = "suspend" => st[p].left = 0

IInv ==
  /\ TypeOK /\ SuspendedAfterGrace /\ DeadlineIffGrace
  /\ \A p \in Procs : Mirrors(p) /\ Decides(p)

\* A row that may follow the current one.
Follows(new) ==
  /\ new.phase = "suspended" => new.left = 0 /\ row.phase \in {"grace", "suspended"}
  /\ row.phase = "suspended" => new.phase \in {"suspended", "active"}
  /\ new.left # NoGrace <=> new.phase \in {"grace", "suspended"}

\* A step in which only p moves.
OthersWait(p) ==
  \A q \in Procs \ {p} : pc'[q] = pc[q] /\ st'[q] = st[q]

-----------------------------------------------------------------------------
(* Rows *)

LEMMA RowFields ==
  ASSUME NEW s \in Row
  PROVE  /\ s.phase \in Phases /\ s.pct \in Thresholds \cup {0}
         /\ s.left \in {NoGrace} \cup 0..Grace /\ s.base \in Nat
BY DEF Row

LEMMA Phased ==
  ASSUME NEW s \in Row, NEW ph \in Phases
  PROVE  /\ [s EXCEPT !.phase = ph] \in Row
         /\ [s EXCEPT !.phase = ph].phase = ph
         /\ [s EXCEPT !.phase = ph].left = s.left
BY DEF Row

LEMMA PhasedUntil ==
  ASSUME NEW s \in Row, NEW ph \in Phases, NEW left \in {NoGrace} \cup 0..Grace
  PROVE  /\ [s EXCEPT !.phase = ph, !.left = left] \in Row
         /\ [s EXCEPT !.phase = ph, !.left = left].phase = ph
         /\ [s EXCEPT !.phase = ph, !.left = left].left = left
BY DEF Row

LEMMA Based ==
  ASSUME NEW s \in Row, NEW b \in Nat
  PROVE  /\ [s EXCEPT !.base = b] \in Row
         /\ [s EXCEPT !.base = b].phase = s.phase
         /\ [s EXCEPT !.base = b].left = s.left
BY DEF Row

LEMMA ClearedRow ==
  ASSUME NEW s \in Row
  PROVE  Cleared(s) \in Row /\ Cleared(s).phase = "active" /\ Cleared(s).left = NoGrace
BY DEF Row, Cleared, Phases

LEMMA Nearer ==
  ASSUME NEW s \in Row
  PROVE  /\ [s EXCEPT !.left = Less(@)] \in Row
         /\ [s EXCEPT !.left = Less(@)].phase = s.phase
         /\ [s EXCEPT !.left = Less(@)].left = Less(s.left)
         /\ s.left = 0 => Less(s.left) = 0
         /\ s.left = NoGrace <=> Less(s.left) = NoGrace
<1>1. s.left \in {NoGrace} \cup 0..Grace
  BY DEF Row
<1>2. Less(s.left) \in {NoGrace} \cup 0..Grace
  BY <1>1, GraceAssumption DEF Less, NoGrace
<1> DEFINE near == [s EXCEPT !.left = Less(@)]
<1>3. near \in Row /\ near.phase = s.phase /\ near.left = Less(s.left)
  BY <1>2 DEF Row
<1>4. /\ s.left = 0 => Less(s.left) = 0
      /\ s.left = NoGrace <=> Less(s.left) = NoGrace
  BY <1>1, GraceAssumption DEF Less, NoGrace
<1> QED BY <1>3, <1>4

LEMMA InitialRow == NewRow \in Row /\ NewRow.phase = "active" /\ NewRow.left = NoGrace
BY DEF NewRow, Row, Phases

LEMMA LargerIsNat ==
  ASSUME NEW a \in Nat, NEW b \in Nat
  PROVE  Larger(a, b) \in Nat
BY DEF Larger

\* The lowest of some thresholds is one of them.
LEMMA LowestThreshold ==
  ASSUME NEW T \in SUBSET Thresholds, T # {}
  PROVE  Min(T) \in Thresholds
<1>1. \A x \in T : x \in {80, 90, 95}
  BY DEF Thresholds
<1>2. \E x \in T : \A y \in T : x <= y
  <2>1. CASE 80 \in T
    BY <2>1, <1>1
  <2>2. CASE 80 \notin T /\ 90 \in T
    BY <2>2, <1>1
  <2>3. CASE 80 \notin T /\ 90 \notin T
    BY <2>3, <1>1
  <2> QED BY <2>1, <2>2, <2>3
<1>3. Min(T) \in T
  BY <1>2 DEF Min
<1> QED BY <1>3

-----------------------------------------------------------------------------
(* What the parts of an action change *)

LEMMA Goes ==
  ASSUME TypeOK, NEW p \in Procs, NEW label \in Labels, Goto(p, label)
  PROVE  /\ pc' \in [Procs -> Labels] /\ pc'[p] = label
         /\ \A q \in Procs \ {p} : pc'[q] = pc[q]
BY DEF TypeOK, Goto

LEMMA Speaks ==
  ASSUME TypeOK, NEW p \in Procs, NEW answer \in Answers, NEW saved \in BOOLEAN,
         Says(p, answer, saved)
  PROVE  reply' \in [Procs -> Answers] /\ wrote' \in [Procs -> BOOLEAN]
BY DEF TypeOK, Says

LEMMA Forgets ==
  ASSUME TypeOK, NEW p \in Procs, Forget(p)
  PROVE  /\ st' \in [Procs -> Row] /\ saw' \in [Procs -> Nat] /\ tries' \in [Procs -> 0..2]
         /\ \A q \in Procs \ {p} : st'[q] = st[q]
BY InitialRow DEF TypeOK, Forget

LEMMA Reads ==
  ASSUME TypeOK, NEW p \in Procs, Get(p)
  PROVE  /\ st' \in [Procs -> Row] /\ st'[p] = row
         /\ stamp' \in [Procs -> {"current", "stale", "absent"}]
         /\ \A q \in Procs \ {p} : st'[q] = st[q] /\ stamp'[q] = stamp[q]
BY DEF TypeOK, Get

LEMMA Puts ==
  ASSUME TypeOK, NEW p \in Procs, NEW new \in Row, Put(p, new)
  PROVE  /\ row' \in Row /\ exists' \in BOOLEAN
         /\ stamp' \in [Procs -> {"current", "stale", "absent"}]
BY DEF TypeOK, Put, Write, DropWrite, store

\* A save, whatever becomes of it, ends a reading.
LEMMA SaveEnds ==
  ASSUME TypeOK, NEW p \in Procs, NEW new \in Row, NEW answer \in Answers,
         Save(p, new, answer)
  PROVE  /\ Put(p, new) /\ OthersWait(p) /\ pc'[p] \in {"idle", "get"}
         /\ pc' \in [Procs -> Labels] /\ st' \in [Procs -> Row]
         /\ saw' \in [Procs -> Nat] /\ tries' \in [Procs -> 0..2]
         /\ reply' \in [Procs -> Answers] /\ wrote' \in [Procs -> BOOLEAN]
<1>1. CASE SaysSaved(p) /\ SaveBlind(p, new, answer)
  <2>1. CanWrite(p) \in BOOLEAN /\ "idle" \in Labels
    BY DEF CanWrite, Labels
  <2> QED BY <1>1, <2>1, Goes, Speaks, Forgets DEF SaveBlind, Return, OthersWait
<1>2. CASE /\ ~SaysSaved(p) /\ tries[p] < 2
           /\ tries' = [tries EXCEPT ![p] = @ + 1]
           /\ Goto(p, "get") /\ DropWrite(p) /\ UNCHANGED <<st, saw, reply, wrote>>
  <2>1. Put(p, new)
    BY <1>2 DEF Put, SaysSaved
  <2>2. "get" \in Labels
    BY DEF Labels
  <2>3. tries' \in [Procs -> 0..2]
    BY <1>2 DEF TypeOK
  <2> QED BY <1>2, <2>1, <2>2, <2>3, Goes DEF TypeOK, OthersWait
<1>3. CASE ~SaysSaved(p) /\ DropWrite(p) /\ Return(p, "concurrency_conflict", FALSE)
  <2>1. Put(p, new)
    BY <1>3 DEF Put, SaysSaved
  <2>2. "idle" \in Labels /\ "concurrency_conflict" \in Answers
    BY DEF Labels, Answers
  <2> QED BY <1>3, <2>1, <2>2, Goes, Speaks, Forgets DEF Return, OthersWait
<1> QED BY <1>1, <1>2, <1>3 DEF Save

-----------------------------------------------------------------------------
(* What a step has to keep *)

LEMMA WritesNothing ==
  ASSUME IInv, TypeOK', NEW p \in Procs, UNCHANGED store, OthersWait(p),
         \A q \in Procs \ {p} : stamp'[q] = stamp[q],
         Mirrors(p)', Decides(p)'
  PROVE  IInv' /\ PhaseStep
<1>1. row' = row /\ exists' = exists
  BY DEF store
<1>2. ASSUME NEW q \in Procs, q # p PROVE Mirrors(q)' /\ Decides(q)'
  BY <1>1, <1>2 DEF IInv, OthersWait, Mirrors, Decides, CanWrite
<1>3. \A q \in Procs : Mirrors(q)' /\ Decides(q)'
  BY <1>2
<1>4. SuspendedAfterGrace' /\ DeadlineIffGrace'
  BY <1>1 DEF IInv, SuspendedAfterGrace, DeadlineIffGrace
<1>5. PhaseStep
  BY <1>1 DEF PhaseStep
<1> QED BY <1>3, <1>4, <1>5 DEF IInv

\* A save that takes effect leaves no other reading that could be saved.
LEMMA Saves ==
  ASSUME IInv, TypeOK', NEW p \in Procs, NEW new \in Row, Put(p, new), OthersWait(p),
         pc'[p] \notin Reading, CanWrite(p) => Follows(new)
  PROVE  IInv' /\ PhaseStep
<1>0. Decides(p)' /\ Mirrors(p)'
  BY DEF Decides, Mirrors, Reading
<1>1. CASE CanWrite(p)
  <2>1. Write(p, new) /\ Follows(new)
    BY <1>1 DEF Put
  <2>2. row' = new /\ exists' = TRUE /\ \A q \in Procs : stamp'[q] # "current"
    BY <2>1 DEF Write, IInv, TypeOK
  <2>3. SuspendedAfterGrace' /\ DeadlineIffGrace' /\ PhaseStep
    BY <2>1, <2>2 DEF Follows, SuspendedAfterGrace, DeadlineIffGrace, PhaseStep
  <2>4. ASSUME NEW q \in Procs PROVE Mirrors(q)'
    BY <2>2 DEF Mirrors, CanWrite
  <2>5. ASSUME NEW q \in Procs PROVE Decides(q)'
    BY <1>0 DEF IInv, OthersWait, Decides
  <2> QED BY <2>3, <2>4, <2>5 DEF IInv
<1>2. CASE ~CanWrite(p)
  <2>1. UNCHANGED store /\ \A q \in Procs \ {p} : stamp'[q] = stamp[q]
    BY <1>2 DEF Put, DropWrite, IInv, TypeOK
  <2> QED BY <2>1, <1>0, WritesNothing
<1> QED BY <1>1, <1>2

LEMMA SaveKeeps ==
  ASSUME IInv, NEW p \in Procs, NEW new \in Row, NEW answer \in Answers,
         Save(p, new, answer), CanWrite(p) => Follows(new),
         UNCHANGED <<avail, inflow, running, zeroFor>>
  PROVE  IInv' /\ PhaseStep
<1>1. /\ Put(p, new) /\ OthersWait(p) /\ pc'[p] \in {"idle", "get"}
      /\ pc' \in [Procs -> Labels] /\ st' \in [Procs -> Row]
      /\ saw' \in [Procs -> Nat] /\ tries' \in [Procs -> 0..2]
      /\ reply' \in [Procs -> Answers] /\ wrote' \in [Procs -> BOOLEAN]
  BY SaveEnds DEF IInv
<1>2. TypeOK'
  BY <1>1, Puts DEF IInv, TypeOK
<1> QED BY <1>1, <1>2, Saves DEF Reading

\* A call that ends.
LEMMA AnswerKeeps ==
  ASSUME IInv, NEW p \in Procs, NEW answer \in Answers, Answer(p, answer)
  PROVE  IInv' /\ PhaseStep
<1>1. "idle" \in Labels /\ FALSE \in BOOLEAN
  BY DEF Labels
<1>2. /\ Goto(p, "idle") /\ Says(p, answer, FALSE) /\ Forget(p)
      /\ stamp' = [stamp EXCEPT ![p] = "stale"]
      /\ UNCHANGED <<row, exists, avail, inflow, running, zeroFor>>
  BY DEF Answer, Return, store
<1>3. /\ pc' \in [Procs -> Labels] /\ pc'[p] = "idle" /\ \A q \in Procs \ {p} : pc'[q] = pc[q]
      /\ reply' \in [Procs -> Answers] /\ wrote' \in [Procs -> BOOLEAN]
  BY <1>1, <1>2, Goes, Speaks DEF IInv
<1>4. /\ st' \in [Procs -> Row] /\ saw' \in [Procs -> Nat] /\ tries' \in [Procs -> 0..2]
      /\ \A q \in Procs \ {p} : st'[q] = st[q]
  BY <1>2, Forgets DEF IInv
<1>5. /\ stamp' \in [Procs -> {"current", "stale", "absent"}]
      /\ \A q \in Procs \ {p} : stamp'[q] = stamp[q]
  BY <1>2 DEF IInv, TypeOK
<1>6. TypeOK'
  BY <1>2, <1>3, <1>4, <1>5 DEF IInv, TypeOK
<1>7. Mirrors(p)' /\ Decides(p)'
  BY <1>3 DEF Mirrors, Decides, Reading
<1> QED BY <1>2, <1>3, <1>4, <1>5, <1>6, <1>7, WritesNothing DEF OthersWait, store

\* A process that goes on with what it has read, or without it.
LEMMA GoesOn ==
  ASSUME IInv, NEW p \in Procs, NEW label \in Labels, Goto(p, label),
         reply' \in [Procs -> Answers], wrote' \in [Procs -> BOOLEAN],
         saw' \in [Procs -> Nat], UNCHANGED <<store, st, stamp, tries>>,
         avail' \in Nat, inflow' \in Nat, zeroFor' \in 0..Grace,
         running' \subseteq {Node[q] : q \in Procs},
         label \in Reading => pc[p] \in Reading,
         label \in {"wallet", "decide"} => pc[p] \in {"wallet", "decide"},
         label = "suspend" => pc[p] = "decide" /\ st[p].left = 0
  PROVE  IInv' /\ PhaseStep
<1>1. pc' \in [Procs -> Labels] /\ pc'[p] = label /\ \A q \in Procs \ {p} : pc'[q] = pc[q]
  BY Goes DEF IInv
<1>2. TypeOK'
  BY <1>1 DEF IInv, TypeOK, store
<1>3. Mirrors(p)'
  BY <1>1 DEF IInv, Mirrors, CanWrite, store
<1>4. Decides(p)'
  BY <1>1 DEF IInv, Decides
<1> QED BY <1>1, <1>2, <1>3, <1>4, WritesNothing DEF OthersWait

\* A process that reads the row.
LEMMA ReadingKeeps ==
  ASSUME IInv, NEW p \in Procs, NEW label \in {"wallet", "clearWallet", "baseSave"},
         label = "wallet" => row.phase # "suspended",
         Get(p), Goto(p, label),
         UNCHANGED <<store, avail, inflow, running, saw, tries, reply, wrote, zeroFor>>
  PROVE  IInv' /\ PhaseStep
<1>1. label \in Labels
  BY DEF Labels
<1>2. pc' \in [Procs -> Labels] /\ pc'[p] = label /\ \A q \in Procs \ {p} : pc'[q] = pc[q]
  BY <1>1, Goes DEF IInv
<1>3. /\ st' \in [Procs -> Row] /\ st'[p] = row
      /\ stamp' \in [Procs -> {"current", "stale", "absent"}]
      /\ \A q \in Procs \ {p} : st'[q] = st[q] /\ stamp'[q] = stamp[q]
  BY Reads DEF IInv
<1>4. TypeOK'
  BY <1>2, <1>3 DEF IInv, TypeOK, store
<1>5. Mirrors(p)' /\ Decides(p)'
  BY <1>2, <1>3 DEF Mirrors, Decides, store
<1> QED BY <1>2, <1>3, <1>4, <1>5, WritesNothing DEF OthersWait

\* A process that raises the baseline of what it read.
LEMMA RaisingKeeps ==
  ASSUME IInv, NEW p \in Procs, NEW label \in {"decide", "clearSave"}, NEW b \in Nat,
         label = "decide" => pc[p] = "wallet", label = "clearSave" => pc[p] = "clearWallet",
         st' = [st EXCEPT ![p].base = b], Goto(p, label), saw' \in [Procs -> Nat],
         UNCHANGED <<store, avail, inflow, running, stamp, tries, reply, wrote, zeroFor>>
  PROVE  IInv' /\ PhaseStep
<1>1. label \in Labels
  BY DEF Labels
<1>2. pc' \in [Procs -> Labels] /\ pc'[p] = label /\ \A q \in Procs \ {p} : pc'[q] = pc[q]
  BY <1>1, Goes DEF IInv
<1> DEFINE new == [st[p] EXCEPT !.base = b]
<1>3. new \in Row /\ new.phase = st[p].phase /\ new.left = st[p].left
  BY Based DEF IInv, TypeOK
<1>4. st' = [st EXCEPT ![p] = new]
  OBVIOUS
<1> HIDE DEF new
<1>5. /\ st' \in [Procs -> Row] /\ st'[p] = new
      /\ \A q \in Procs \ {p} : st'[q] = st[q]
  BY <1>3, <1>4 DEF IInv, TypeOK
<1>6. TypeOK'
  BY <1>2, <1>5 DEF IInv, TypeOK, store
<1>7. Mirrors(p)'
  BY <1>2, <1>3, <1>5 DEF IInv, Mirrors, CanWrite, Reading, store
<1>8. Decides(p)'
  BY <1>2, <1>3, <1>5 DEF IInv, Decides
<1> QED BY <1>2, <1>5, <1>6, <1>7, <1>8, WritesNothing DEF OthersWait

-----------------------------------------------------------------------------
(* on_balance_changed *)

LEMMA GetRowKeeps == ASSUME IInv, NEW p \in Procs, GetRow(p) PROVE IInv' /\ PhaseStep
<1>1. CASE row.phase = "suspended"
  <2>1. Answer(p, "already_suspended") /\ "already_suspended" \in Answers
    BY <1>1 DEF GetRow, Answers
  <2> QED BY <2>1, AnswerKeeps
<1>2. CASE row.phase # "suspended"
  <2>1. /\ Get(p) /\ Goto(p, "wallet")
        /\ UNCHANGED <<store, avail, inflow, running, saw, tries, reply, wrote, zeroFor>>
    BY <1>2 DEF GetRow
  <2> QED BY <1>2, <2>1, ReadingKeeps
<1> QED BY <1>1, <1>2

LEMMA GetWalletKeeps == ASSUME IInv, NEW p \in Procs, GetWallet(p) PROVE IInv' /\ PhaseStep
<1>1. avail \in Nat /\ inflow \in Nat /\ st[p].base \in Nat
  BY RowFields DEF IInv, TypeOK
<1>2. Funded(st[p].base) \in Nat
  <2>1. inflow + inflow \in Nat
    BY <1>1
  <2>2. Larger(avail, inflow + inflow) \in Nat
    BY <1>1, <2>1, LargerIsNat
  <2> QED BY <1>1, <2>2, LargerIsNat DEF Funded
<1>3. saw' \in [Procs -> Nat]
  BY <1>1 DEF GetWallet, IInv, TypeOK
<1>4. st' = [st EXCEPT ![p].base = Funded(st[p].base)]
  BY DEF GetWallet
<1> QED BY <1>2, <1>3, <1>4, RaisingKeeps DEF GetWallet, At

\* What is decided on a reading that still matches is decided on the row.
LEMMA ReadsTheRow ==
  ASSUME IInv, NEW p \in Procs, pc[p] \in Reading, CanWrite(p)
  PROVE  st[p].phase = row.phase /\ st[p].left = row.left
BY DEF IInv, Mirrors

LEMMA RowIsTimed ==
  ASSUME IInv
  PROVE  /\ row.left # NoGrace <=> row.phase \in {"grace", "suspended"}
         /\ row.phase = "suspended" => row.left = 0
BY DEF IInv, DeadlineIffGrace, SuspendedAfterGrace

LEMMA EnterGraceKeeps == ASSUME IInv, NEW p \in Procs, EnterGrace(p) PROVE IInv' /\ PhaseStep
<1> DEFINE new == [st[p] EXCEPT !.phase = "grace", !.left = Grace]
<1>1. Grace \in {NoGrace} \cup 0..Grace /\ Grace # NoGrace
  BY GraceAssumption DEF NoGrace
<1>2. new \in Row /\ new.phase = "grace" /\ new.left = Grace
  BY <1>1, PhasedUntil DEF IInv, TypeOK, Phases
<1>3. Save(p, new, "enter_grace")
  BY DEF EnterGrace
<1> HIDE DEF new
<1>4. ASSUME CanWrite(p) PROVE Follows(new)
  <2>1. row.phase = st[p].phase
    BY <1>4, ReadsTheRow DEF EnterGrace, At, Reading
  <2>2. row.phase # "suspended"
    BY <2>1 DEF IInv, Decides, EnterGrace, At
  <2> QED BY <1>1, <1>2, <2>2 DEF Follows
<1> QED BY <1>2, <1>3, <1>4, SaveKeeps DEF EnterGrace, Answers

LEMMA InGraceKeeps == ASSUME IInv, NEW p \in Procs, InGrace(p) PROVE IInv' /\ PhaseStep
<1> DEFINE new == [st[p] EXCEPT !.phase = "grace"]
<1>1. new \in Row /\ new.phase = "grace" /\ new.left = st[p].left
  BY Phased DEF IInv, TypeOK, Phases
<1>2. Save(p, new, "in_grace")
  BY DEF InGrace
<1> HIDE DEF new
<1>3. ASSUME CanWrite(p) PROVE Follows(new)
  <2>1. row.phase = st[p].phase
    BY <1>3, ReadsTheRow DEF InGrace, At, Reading
  <2>2. row.phase # "suspended"
    BY <2>1 DEF IInv, Decides, InGrace, At
  <2> QED BY <1>1, <2>2 DEF Follows, InGrace
<1> QED BY <1>1, <1>2, <1>3, SaveKeeps DEF InGrace, Answers

LEMMA StopBotsKeeps == ASSUME IInv, NEW p \in Procs, StopBots(p) PROVE IInv' /\ PhaseStep
<1>1. /\ pc[p] = "decide" /\ st[p].left = 0 /\ Goto(p, "suspend")
      /\ running' = running \ {Node[p]}
      /\ UNCHANGED <<store, avail, inflow, st, stamp, saw, tries, reply, wrote, zeroFor>>
  BY DEF StopBots, At, GraceOver, StillRunning, locals
<1>2. running' \subseteq {Node[q] : q \in Procs}
  BY <1>1 DEF IInv, TypeOK
<1> QED BY <1>1, <1>2, GoesOn DEF IInv, TypeOK, Labels, Reading

LEMMA SuspendKeeps == ASSUME IInv, NEW p \in Procs, Suspend(p) PROVE IInv' /\ PhaseStep
<1> DEFINE new == [st[p] EXCEPT !.phase = "suspended"]
<1>1. new \in Row /\ new.phase = "suspended" /\ new.left = st[p].left
  BY Phased DEF IInv, TypeOK, Phases
<1>2. Put(p, new) /\ Return(p, "suspend", CanWrite(p))
  BY DEF Suspend, SaveBlind
<1> HIDE DEF new
<1>3. CanWrite(p) \in BOOLEAN /\ "suspend" \in Answers /\ "idle" \in Labels
  BY DEF CanWrite, Answers, Labels
<1>4. /\ pc' \in [Procs -> Labels] /\ pc'[p] = "idle" /\ \A q \in Procs \ {p} : pc'[q] = pc[q]
      /\ reply' \in [Procs -> Answers] /\ wrote' \in [Procs -> BOOLEAN]
      /\ st' \in [Procs -> Row] /\ saw' \in [Procs -> Nat] /\ tries' \in [Procs -> 0..2]
      /\ \A q \in Procs \ {p} : st'[q] = st[q]
  BY <1>2, <1>3, Goes, Speaks, Forgets DEF IInv, Return
<1>5. TypeOK'
  BY <1>1, <1>2, <1>4, Puts DEF IInv, TypeOK, Suspend
<1>6. ASSUME CanWrite(p) PROVE Follows(new)
  <2>1. st[p].left = 0
    BY DEF IInv, Decides, Suspend, At
  <2>2. row.left = st[p].left
    BY <1>6, ReadsTheRow DEF Suspend, At, Reading
  <2>3. row.phase \in {"grace", "suspended"}
    BY <2>1, <2>2, RowIsTimed DEF NoGrace
  <2> QED BY <1>1, <2>1, <2>3 DEF Follows, NoGrace
<1> QED BY <1>1, <1>2, <1>4, <1>5, <1>6, Saves DEF OthersWait, Reading

LEMMA RecoverKeeps == ASSUME IInv, NEW p \in Procs, Recover(p) PROVE IInv' /\ PhaseStep
<1> DEFINE new == [st[p] EXCEPT !.phase = "active", !.left = NoGrace]
<1>1. new \in Row /\ new.phase = "active" /\ new.left = NoGrace
  <2>1. st[p] \in Row /\ "active" \in Phases /\ NoGrace \in {NoGrace} \cup 0..Grace
    BY DEF IInv, TypeOK, Phases
  <2> QED BY <2>1 DEF Row
<1>2. Save(p, new, "recovered")
  BY DEF Recover
<1> HIDE DEF new
<1>3. Follows(new)
  BY <1>1 DEF Follows
<1> QED BY <1>1, <1>2, <1>3, SaveKeeps DEF Recover, Answers

LEMMA AlertKeeps == ASSUME IInv, NEW p \in Procs, Alert(p) PROVE IInv' /\ PhaseStep
<1>1. Due(p) \in SUBSET Thresholds /\ Due(p) # {}
  BY DEF Due, Alert
<1>2. PICK th \in Thresholds : th = Min(Due(p))
  BY <1>1, LowestThreshold
<1> DEFINE new == [st[p] EXCEPT !.phase = "warning", !.pct = th]
<1>3. new \in Row /\ new.phase = "warning" /\ new.left = st[p].left
  <2>1. st[p] \in Row /\ "warning" \in Phases
    BY DEF IInv, TypeOK, Phases
  <2> QED BY <2>1 DEF Row
<1>4. Save(p, new, "alert")
  BY <1>2 DEF Alert
<1> HIDE DEF new
<1>5. ASSUME CanWrite(p) PROVE Follows(new)
  <2>1. row.phase = "active" /\ row.left = st[p].left
    BY <1>5, ReadsTheRow DEF Alert, At, Reading
  <2> QED BY <1>3, <2>1, RowIsTimed DEF Follows
<1> QED BY <1>3, <1>4, <1>5, SaveKeeps DEF Alert, Answers

LEMMA NothingDueKeeps == ASSUME IInv, NEW p \in Procs, NothingDue(p) PROVE IInv' /\ PhaseStep
<1>1. st[p] \in Row
  BY DEF IInv, TypeOK
<1>2. ASSUME CanWrite(p) PROVE Follows(st[p])
  <2>1. row.phase = st[p].phase /\ row.phase = "active" /\ row.left = st[p].left
    BY <1>2, ReadsTheRow DEF NothingDue, At, Reading
  <2> QED BY <2>1, RowIsTimed DEF Follows
<1> QED BY <1>1, <1>2, SaveKeeps DEF NothingDue, Answers

-----------------------------------------------------------------------------
(* clear_suspension_on_credit and set_baseline *)

LEMMA AfterClears ==
  ASSUME TypeOK, NEW p \in Procs, NEW answer \in Answers, NEW saved \in BOOLEAN,
         AfterClear(p, answer, saved)
  PROVE  /\ pc' \in [Procs -> Labels] /\ pc'[p] \in {"idle", "baseGet"}
         /\ \A q \in Procs \ {p} : pc'[q] = pc[q]
         /\ reply' \in [Procs -> Answers] /\ wrote' \in [Procs -> BOOLEAN]
<1>1. PICK label \in {"idle", "baseGet"} : Goto(p, label)
  BY DEF AfterClear
<1>2. label \in Labels
  BY DEF Labels
<1> QED BY <1>1, <1>2, Goes, Speaks DEF AfterClear

LEMMA ClearEmptyKeeps == ASSUME IInv, NEW p \in Procs, ClearEmpty(p) PROVE IInv' /\ PhaseStep
<1>1. "still_empty" \in Answers /\ FALSE \in BOOLEAN
  BY DEF Answers
<1>2. /\ pc' \in [Procs -> Labels] /\ pc'[p] \in {"idle", "baseGet"}
      /\ \A q \in Procs \ {p} : pc'[q] = pc[q]
      /\ reply' \in [Procs -> Answers] /\ wrote' \in [Procs -> BOOLEAN]
  BY <1>1, AfterClears DEF IInv, ClearEmpty
<1>3. UNCHANGED <<store, avail, inflow, running, st, stamp, saw, tries, zeroFor>>
  BY DEF ClearEmpty, locals
<1>4. TypeOK'
  BY <1>2, <1>3 DEF IInv, TypeOK, store
<1>5. Mirrors(p)' /\ Decides(p)'
  BY <1>2 DEF Mirrors, Decides, Reading
<1> QED BY <1>2, <1>3, <1>4, <1>5, WritesNothing DEF OthersWait

LEMMA ClearWalletKeeps == ASSUME IInv, NEW p \in Procs, ClearWallet(p) PROVE IInv' /\ PhaseStep
<1>1. Larger(st[p].base, avail) \in Nat
  BY LargerIsNat, RowFields DEF IInv, TypeOK
<1>2. st' = [st EXCEPT ![p].base = Larger(st[p].base, avail)]
  BY DEF ClearWallet
<1>3. saw' \in [Procs -> Nat]
  BY DEF ClearWallet, IInv, TypeOK
<1> QED BY <1>1, <1>2, <1>3, RaisingKeeps DEF ClearWallet, At

LEMMA ClearSaveKeeps == ASSUME IInv, NEW p \in Procs, ClearSave(p) PROVE IInv' /\ PhaseStep
<1>1. PICK new \in Row : new = Cleared(st[p]) /\ new.phase = "active" /\ new.left = NoGrace
  BY ClearedRow DEF IInv, TypeOK
<1>2. CanWrite(p) \in BOOLEAN /\ "unsuspended" \in Answers
  BY DEF CanWrite, Answers
<1>3. /\ pc' \in [Procs -> Labels] /\ pc'[p] \in {"idle", "baseGet"}
      /\ \A q \in Procs \ {p} : pc'[q] = pc[q]
      /\ reply' \in [Procs -> Answers] /\ wrote' \in [Procs -> BOOLEAN]
  BY <1>2, AfterClears DEF IInv, ClearSave
<1>4. Put(p, new) /\ UNCHANGED <<avail, inflow, running, st, saw, tries, zeroFor>>
  BY <1>1 DEF ClearSave
<1>5. TypeOK'
  BY <1>3, <1>4, Puts DEF IInv, TypeOK
<1>6. Follows(new)
  BY <1>1 DEF Follows
<1> QED BY <1>3, <1>4, <1>5, <1>6, Saves DEF OthersWait, Reading

LEMMA BaseSaveKeeps == ASSUME IInv, NEW p \in Procs, BaseSave(p) PROVE IInv' /\ PhaseStep
<1> DEFINE new == [st[p] EXCEPT !.base = Larger(st[p].base, saw[p])]
<1>1. new \in Row /\ new.phase = st[p].phase /\ new.left = st[p].left
  <2>1. st[p] \in Row /\ Larger(st[p].base, saw[p]) \in Nat
    BY LargerIsNat, RowFields DEF IInv, TypeOK
  <2> QED BY <2>1, Based
<1>2. Put(p, new)
  BY DEF BaseSave
<1> HIDE DEF new
<1>3. "idle" \in Labels
  BY DEF Labels
<1>4. /\ pc' \in [Procs -> Labels] /\ pc'[p] = "idle" /\ \A q \in Procs \ {p} : pc'[q] = pc[q]
      /\ st' \in [Procs -> Row] /\ saw' \in [Procs -> Nat] /\ tries' \in [Procs -> 0..2]
      /\ \A q \in Procs \ {p} : st'[q] = st[q]
  BY <1>3, Goes, Forgets DEF IInv, BaseSave
<1>5. TypeOK'
  BY <1>1, <1>2, <1>4, Puts DEF IInv, TypeOK, BaseSave
<1>6. ASSUME CanWrite(p) PROVE Follows(new)
  <2>1. row.phase = st[p].phase /\ row.left = st[p].left
    BY <1>6, ReadsTheRow DEF BaseSave, At, Reading
  <2> QED BY <1>1, <2>1, RowIsTimed DEF Follows
<1> QED BY <1>1, <1>2, <1>4, <1>5, <1>6, Saves DEF OthersWait, Reading

-----------------------------------------------------------------------------
(* The callers *)

\* A call that begins, whatever the caller did to the wallet before it.
LEMMA BeginKeeps ==
  ASSUME IInv, NEW p \in Procs, NEW label \in {"get", "clearGet", "start"}, Begin(p, label),
         saw' \in [Procs -> Nat], UNCHANGED <<store, running, st, stamp, tries>>,
         avail' \in Nat, inflow' \in Nat, zeroFor' \in 0..Grace
  PROVE  IInv' /\ PhaseStep
<1>1. /\ Goto(p, label) /\ label \in Labels /\ label \notin Reading
      /\ reply' = [reply EXCEPT ![p] = "none"] /\ wrote' = [wrote EXCEPT ![p] = FALSE]
  BY DEF Begin, Labels, Reading
<1>2. reply' \in [Procs -> Answers]
  BY <1>1 DEF IInv, TypeOK, Answers
<1>3. wrote' \in [Procs -> BOOLEAN]
  BY <1>1 DEF IInv, TypeOK
<1>4. running' \subseteq {Node[q] : q \in Procs}
  BY DEF IInv, TypeOK
<1> QED BY <1>1, <1>2, <1>3, <1>4, GoesOn

LEMMA TopUpKeeps == ASSUME IInv, NEW p \in Procs, TopUp(p) PROVE IInv' /\ PhaseStep
<1>1. avail' \in Nat /\ inflow' \in Nat
  BY AmountAssumption DEF IInv, TypeOK, TopUp
<1>2. saw' \in [Procs -> Nat] /\ zeroFor' \in 0..Grace
  BY <1>1 DEF IInv, TypeOK, TopUp
<1> QED BY <1>1, <1>2, BeginKeeps DEF TopUp

LEMMA SpentIsTyped ==
  ASSUME TypeOK, NEW x \in Charges, Affordable(x)
  PROVE  avail - x \in Nat
BY AmountAssumption DEF TypeOK, Affordable

LEMMA EmptyIsTyped == ASSUME TypeOK, Empty PROVE zeroFor' \in 0..Grace
BY GraceAssumption DEF TypeOK, Empty

LEMMA ChargeLlmKeeps == ASSUME IInv, NEW p \in Procs, ChargeLlm(p) PROVE IInv' /\ PhaseStep
<1>1. avail' \in Nat /\ inflow' \in Nat /\ saw' \in [Procs -> Nat] /\ zeroFor' \in 0..Grace
  BY SpentIsTyped, EmptyIsTyped DEF IInv, TypeOK, ChargeLlm, locals
<1> QED BY <1>1, BeginKeeps DEF ChargeLlm, locals

LEMMA ChargeUsageKeeps == ASSUME IInv, NEW p \in Procs, ChargeUsage(p) PROVE IInv' /\ PhaseStep
<1>1. /\ inflow' \in Nat /\ saw' \in [Procs -> Nat] /\ zeroFor' \in 0..Grace
      /\ running' \subseteq {Node[q] : q \in Procs}
      /\ UNCHANGED <<store, running, st, stamp, tries>>
  BY EmptyIsTyped DEF IInv, TypeOK, ChargeUsage, locals
<1>2. PICK x \in Charges :
        \/ Affordable(x) /\ avail' = avail - x /\ UNCHANGED <<pc, reply, wrote>>
        \/ ~Affordable(x) /\ avail' = avail /\ Begin(p, "get")
  BY DEF ChargeUsage
<1>3. avail' \in Nat
  BY <1>2, SpentIsTyped DEF IInv, TypeOK
<1>4. CASE UNCHANGED <<pc, reply, wrote>>
  <2>1. Goto(p, "idle") /\ "idle" \in Labels /\ "idle" \notin Reading
    BY <1>4 DEF Goto, ChargeUsage, At, IInv, TypeOK, Labels, Reading
  <2>2. reply' \in [Procs -> Answers]
    BY <1>4 DEF IInv, TypeOK
  <2>3. wrote' \in [Procs -> BOOLEAN]
    BY <1>4 DEF IInv, TypeOK
  <2> QED BY <1>1, <1>3, <2>1, <2>2, <2>3, GoesOn
<1>5. CASE Begin(p, "get")
  BY <1>1, <1>3, <1>5, BeginKeeps
<1> QED BY <1>2, <1>4, <1>5

LEMMA StartHostKeeps == ASSUME IInv, NEW p \in Procs, StartHost(p) PROVE IInv' /\ PhaseStep
BY BeginKeeps DEF StartHost, locals, IInv, TypeOK

LEMMA TickKeeps == ASSUME IInv, NEW p \in Procs, Tick(p) PROVE IInv' /\ PhaseStep
BY BeginKeeps DEF Tick, locals, IInv, TypeOK

LEMMA HostStartedKeeps == ASSUME IInv, NEW p \in Procs, HostStarted(p) PROVE IInv' /\ PhaseStep
<1>1. running' \subseteq {Node[q] : q \in Procs}
  BY DEF IInv, TypeOK, HostStarted
<1>2. /\ Goto(p, "idle") /\ "idle" \in Labels /\ "idle" \notin Reading
      /\ UNCHANGED <<store, avail, inflow, st, stamp, saw, tries, reply, wrote, zeroFor>>
  BY DEF HostStarted, Labels, Reading, locals
<1> QED BY <1>1, <1>2, GoesOn DEF IInv, TypeOK

\* The row and every reading of it come nearer to the deadline alike.
LEMMA PassKeeps == ASSUME IInv, Pass PROVE IInv' /\ PhaseStep
<1>1. PICK near \in Row : /\ row' = near /\ near.phase = row.phase
                          /\ near.left = Less(row.left)
  BY Nearer DEF IInv, TypeOK, Pass
<1>2. /\ row.left = 0 => Less(row.left) = 0
      /\ row.left = NoGrace <=> Less(row.left) = NoGrace
  BY Nearer DEF IInv, TypeOK
<1>3. ASSUME NEW q \in Procs
      PROVE  /\ st'[q] \in Row /\ st'[q].phase = st[q].phase
             /\ st'[q].left = Less(st[q].left) /\ (st[q].left = 0 => Less(st[q].left) = 0)
  <2>1. st[q] \in Row /\ st'[q] = [st[q] EXCEPT !.left = Less(@)]
    BY DEF IInv, TypeOK, Pass
  <2> QED BY <2>1, Nearer
<1>4. st' \in [Procs -> Row]
  <2>1. DOMAIN st' = Procs /\ st' = [q \in Procs |-> st'[q]]
    BY DEF Pass
  <2> QED BY <2>1, <1>3
<1>5. zeroFor' \in 0..Grace
  BY GraceAssumption DEF IInv, TypeOK, Pass
<1>6. TypeOK'
  BY <1>1, <1>4, <1>5 DEF IInv, TypeOK, Pass
<1>7. SuspendedAfterGrace' /\ DeadlineIffGrace' /\ PhaseStep
  BY <1>1, <1>2 DEF IInv, SuspendedAfterGrace, DeadlineIffGrace, PhaseStep
<1>8. ASSUME NEW q \in Procs PROVE Mirrors(q)' /\ Decides(q)'
  <2>1. pc'[q] = pc[q] /\ stamp'[q] = stamp[q] /\ exists' = exists
    BY DEF Pass
  <2>2. Mirrors(q)'
    BY <2>1, <1>1, <1>3 DEF IInv, Mirrors, CanWrite
  <2>3. Decides(q)'
    BY <2>1, <1>3 DEF IInv, Decides
  <2> QED BY <2>2, <2>3
<1> QED BY <1>6, <1>7, <1>8 DEF IInv

-----------------------------------------------------------------------------
(* The invariant *)

LEMMA InitInv == Init => IInv
<1> SUFFICES ASSUME Init PROVE IInv
  OBVIOUS
<1>1. TypeOK
  <2>1. /\ row \in Row /\ st \in [Procs -> Row] /\ pc \in [Procs -> Labels]
        /\ reply \in [Procs -> Answers] /\ stamp \in [Procs -> {"current", "stale", "absent"}]
    BY InitialRow DEF Init, Labels, Answers
  <2>2. saw \in [Procs -> Nat] /\ tries \in [Procs -> 0..2] /\ zeroFor \in 0..Grace
    BY GraceAssumption DEF Init
  <2>3. avail \in Nat /\ inflow \in Nat /\ running \subseteq {Node[q] : q \in Procs}
    BY DEF Init
  <2>4. wrote \in [Procs -> BOOLEAN] /\ exists \in BOOLEAN
    BY DEF Init
  <2> QED BY <2>1, <2>2, <2>3, <2>4 DEF TypeOK
<1>2. SuspendedAfterGrace /\ DeadlineIffGrace
  BY InitialRow DEF Init, SuspendedAfterGrace, DeadlineIffGrace
<1>3. \A p \in Procs : Mirrors(p) /\ Decides(p)
  BY DEF Init, Mirrors, Decides, Reading
<1> QED BY <1>1, <1>2, <1>3 DEF IInv

LEMMA NextInv == ASSUME IInv, Next PROVE IInv' /\ PhaseStep
<1>1. ASSUME NEW c \in Callers, TopUp(c) \/ ChargeLlm(c) \/ ChargeUsage(c) \/ StartHost(c)
      PROVE  IInv' /\ PhaseStep
  <2>1. c \in Procs
    BY DEF Procs
  <2> QED BY <2>1, <1>1, TopUpKeeps, ChargeLlmKeeps, ChargeUsageKeeps, StartHostKeeps
<1>2. ASSUME NEW s \in Schedulers, Tick(s) PROVE IInv' /\ PhaseStep
  <2>1. s \in Procs
    BY DEF Procs
  <2> QED BY <2>1, <1>2, TickKeeps
<1>3. ASSUME NEW p \in Procs, Work(p) PROVE IInv' /\ PhaseStep
  <2>1. ASSUME ClearGet(p) PROVE IInv' /\ PhaseStep
    BY <2>1, ReadingKeeps DEF ClearGet
  <2>2. ASSUME BaseGet(p) PROVE IInv' /\ PhaseStep
    BY <2>2, ReadingKeeps DEF BaseGet
  <2> QED BY <1>3, <2>1, <2>2, GetRowKeeps, GetWalletKeeps, EnterGraceKeeps, InGraceKeeps,
             StopBotsKeeps, SuspendKeeps, RecoverKeeps, AlertKeeps, NothingDueKeeps,
             ClearEmptyKeeps, ClearWalletKeeps, ClearSaveKeeps, BaseSaveKeeps,
             HostStartedKeeps
          DEF Work
<1>4. ASSUME NEW p \in Procs, Crash(p) PROVE IInv' /\ PhaseStep
  BY <1>4, AnswerKeeps DEF Crash, Answers
<1> QED BY <1>1, <1>2, <1>3, <1>4, PassKeeps DEF Next

LEMMA StutterInv == ASSUME IInv, UNCHANGED vars PROVE IInv'
<1>1. UNCHANGED <<row, exists, avail, inflow, running, pc, st, stamp, saw, tries, reply,
                  wrote, zeroFor>>
  BY DEF vars, store, locals
<1>2. TypeOK'
  BY <1>1 DEF IInv, TypeOK
<1> QED BY <1>1, <1>2 DEF IInv, SuspendedAfterGrace, DeadlineIffGrace, Mirrors, Decides, CanWrite

LEMMA AlwaysInv == Spec => []IInv
<1>1. IInv /\ [Next]_vars => IInv'
  BY NextInv, StutterInv
<1> QED BY InitInv, <1>1, PTL DEF Spec

-----------------------------------------------------------------------------
(* Theorems *)

\* Every variable has its type, over both stores, for any number of callers
\* and schedulers, any length of the grace period and any amounts.
THEOREM TypeCorrect == Spec => []TypeOK
<1>1. IInv => TypeOK
  BY DEF IInv
<1> QED BY <1>1, AlwaysInv, PTL

\* A suspended tenant had a grace period, and it has run out
\* (balance_lifecycle.py:446-466), whoever saved the row, over both stores.
THEOREM SuspensionIsTimed == Spec => []SuspendedAfterGrace
<1>1. IInv => SuspendedAfterGrace
  BY DEF IInv
<1> QED BY <1>1, AlwaysInv, PTL

\* The row says grace or suspended exactly while it holds a deadline
\* (balance_lifecycle.py:400-466, 494-501), over both stores.
THEOREM GraceHasDeadline == Spec => []DeadlineIffGrace
<1>1. IInv => DeadlineIffGrace
  BY DEF IInv
<1> QED BY <1>1, AlwaysInv, PTL

\* No saved row, however old the reading it was made from, suspends a tenant
\* that is not in grace, or takes it from suspension to anything but active
\* (balance_lifecycle.py:179-196, 376-504).
THEOREM PhasesFollow == Spec => PhaseSteps
<1>1. IInv /\ [Next]_vars => [PhaseStep]_vars
  BY NextInv
<1> QED BY <1>1, AlwaysInv, PTL DEF Spec, PhaseSteps

-----------------------------------------------------------------------------
(* The answers, of the store whose save is what it says *)

Claims == {"enter_grace", "in_grace", "recovered", "alert"}

\* Nothing is said, or only of a save that took effect.
LEMMA SaysTheTruth ==
  ASSUME TypeOK, AnswersAreTrue, NEW p \in Procs, NEW answer \in Answers,
         NEW saved \in BOOLEAN, answer \in Claims => saved,
         Says(p, answer, saved)
  PROVE  AnswersAreTrue'
<1>1. reply'[p] = answer /\ \A q \in Procs \ {p} : reply'[q] = reply[q]
  BY DEF Says, TypeOK
<1>2. wrote'[p] = saved /\ \A q \in Procs \ {p} : wrote'[q] = wrote[q]
  BY DEF Says, TypeOK
<1>3. ASSUME NEW q \in Procs, reply'[q] \in Claims PROVE wrote'[q]
  <2>1. CASE q = p
    BY <2>1, <1>1, <1>2, <1>3
  <2>2. CASE q # p
    <3>1. reply[q] \in Claims
      BY <2>2, <1>1, <1>3
    <3>2. wrote[q]
      BY <3>1 DEF AnswersAreTrue, Claims
    <3> QED BY <3>2, <2>2, <1>2
  <2> QED BY <2>1, <2>2
<1> QED BY <1>3 DEF AnswersAreTrue, Claims

LEMMA SaveSaysTheTruth ==
  ASSUME Postgres = FALSE, TypeOK, AnswersAreTrue, NEW p \in Procs, NEW new,
         NEW answer \in Answers, Save(p, new, answer)
  PROVE  AnswersAreTrue'
<1>1. CASE SaysSaved(p) /\ SaveBlind(p, new, answer)
  <2>1. CanWrite(p)
    BY <1>1 DEF SaysSaved
  <2>2. CanWrite(p) \in BOOLEAN /\ Says(p, answer, CanWrite(p))
    BY <1>1 DEF SaveBlind, Return, CanWrite
  <2> QED BY <2>1, <2>2, SaysTheTruth
<1>2. CASE UNCHANGED <<reply, wrote>>
  BY <1>2 DEF AnswersAreTrue
<1>3. CASE Return(p, "concurrency_conflict", FALSE)
  BY <1>3, SaysTheTruth DEF Return, Claims, Answers
<1> QED BY <1>1, <1>2, <1>3 DEF Save

LEMMA AnswerSaysTheTruth ==
  ASSUME TypeOK, AnswersAreTrue, NEW p \in Procs, NEW answer \in Answers \ Claims,
         Answer(p, answer)
  PROVE  AnswersAreTrue'
BY SaysTheTruth DEF Answer, Return

LEMMA BeginSaysTheTruth ==
  ASSUME TypeOK, AnswersAreTrue, NEW p \in Procs, NEW label, Begin(p, label)
  PROVE  AnswersAreTrue'
<1>1. Says(p, "none", FALSE)
  BY DEF Begin, Says
<1> QED BY <1>1, SaysTheTruth DEF Answers, Claims

\* With a save that reports what it did, a transition that on_balance_changed
\* answers was written (balance_lifecycle.py:69-78, 376-425). The save of
\* PostgresLifecycleStore reports one it lost, and the theorem is false for it.
THEOREM TransitionsAreWritten == Postgres = FALSE => (Spec => []AnswersAreTrue)
<1> SUFFICES ASSUME Postgres = FALSE PROVE Spec => []AnswersAreTrue
  OBVIOUS
<1>1. Init => AnswersAreTrue
  BY DEF Init, AnswersAreTrue
<1>2. ASSUME TypeOK, AnswersAreTrue, [Next]_vars PROVE AnswersAreTrue'
  <2>1. ASSUME UNCHANGED <<reply, wrote>> PROVE AnswersAreTrue'
    BY <2>1, <1>2 DEF AnswersAreTrue
  <2>2. ASSUME NEW c \in Callers, TopUp(c) \/ ChargeLlm(c) \/ ChargeUsage(c) \/ StartHost(c)
        PROVE  AnswersAreTrue'
    <3>1. c \in Procs
      BY DEF Procs
    <3>2. UNCHANGED <<reply, wrote>> \/ \E label : Begin(c, label)
      BY <2>2 DEF TopUp, ChargeLlm, ChargeUsage, StartHost
    <3> QED BY <3>1, <3>2, <2>1, <1>2, BeginSaysTheTruth
  <2>3. ASSUME NEW s \in Schedulers, Tick(s) PROVE AnswersAreTrue'
    BY <2>3, <1>2, BeginSaysTheTruth DEF Tick, Procs
  <2>4. ASSUME NEW p \in Procs, Crash(p) PROVE AnswersAreTrue'
    BY <2>4, <1>2, AnswerSaysTheTruth DEF Crash, Answers, Claims
  <2>5. ASSUME NEW p \in Procs, Work(p) PROVE AnswersAreTrue'
    <3>1. CASE GetWallet(p) \/ StopBots(p) \/ ClearGet(p) \/ ClearWallet(p) \/ BaseGet(p)
               \/ BaseSave(p) \/ HostStarted(p)
      BY <3>1, <2>1 DEF GetWallet, StopBots, ClearGet, ClearWallet, BaseGet, BaseSave, HostStarted
    <3>2. CASE GetRow(p)
      BY <3>2, <2>1, <1>2, AnswerSaysTheTruth DEF GetRow, Answers, Claims
    <3>3. CASE EnterGrace(p) \/ InGrace(p) \/ Recover(p) \/ Alert(p) \/ NothingDue(p)
      BY <3>3, <1>2, SaveSaysTheTruth
         DEF EnterGrace, InGrace, Recover, Alert, NothingDue, Answers
    <3>4. CASE Suspend(p)
      <4>1. Says(p, "suspend", CanWrite(p)) /\ CanWrite(p) \in BOOLEAN
        BY <3>4 DEF Suspend, SaveBlind, Return, CanWrite
      <4> QED BY <4>1, <1>2, SaysTheTruth DEF Answers, Claims
    <3>5. CASE ClearEmpty(p)
      BY <3>5, <1>2, SaysTheTruth DEF ClearEmpty, AfterClear, Answers, Claims
    <3>6. CASE ClearSave(p)
      <4>1. Says(p, "unsuspended", CanWrite(p)) /\ CanWrite(p) \in BOOLEAN
        BY <3>6 DEF ClearSave, AfterClear, CanWrite
      <4> QED BY <4>1, <1>2, SaysTheTruth DEF Answers, Claims
    <3> QED BY <2>5, <3>1, <3>2, <3>3, <3>4, <3>5, <3>6 DEF Work
  <2>6. CASE Pass \/ UNCHANGED vars
    BY <2>6, <2>1 DEF Pass, vars
  <2> QED BY <1>2, <2>2, <2>3, <2>4, <2>5, <2>6 DEF Next
<1> QED BY <1>1, <1>2, TypeCorrect, PTL DEF Spec

-----------------------------------------------------------------------------
(* One call after another: the grace period is a full one                  *)

\* One process makes all the calls.
Alone == \A p, q \in Procs : p = q

Clearing == {"clearGet", "clearWallet", "clearSave"}

\* Nobody saves between a process's reading and its save, its wallet stays
\* as it read it, and a purchase during grace is about to end the grace.
Serial(p) ==
  /\ pc[p] \in Reading => CanWrite(p)
  /\ pc[p] \in {"decide", "suspend"} => saw[p] = avail
  /\ pc[p] = "suspend" => avail = 0
  /\ row.left # NoGrace /\ avail # 0 => pc[p] \in Clearing

\* What has passed of a grace period has passed with nothing available.
Full == row.left # NoGrace /\ avail = 0 => zeroFor + row.left >= Grace

SerialInv == Full /\ \A p \in Procs : Serial(p)

FullStep == row'.phase = "suspended" /\ row.phase # "suspended" => avail = 0 /\ zeroFor = Grace

\* With one process every save takes effect.
LEMMA Saved ==
  ASSUME TypeOK, NEW p \in Procs, NEW new, NEW answer, Save(p, new, answer), CanWrite(p)
  PROVE  row' = new /\ pc'[p] = "idle"
BY DEF Save, SaysSaved, SaveBlind, Put, Write, Return, Goto, TypeOK

\* A step that stores a row, or leaves the one there, out of any reading.
LEMMA StoresFull ==
  ASSUME Alone, SerialInv, NEW p \in Procs, pc'[p] \notin Reading, UNCHANGED <<avail, zeroFor>>,
         row'.left # NoGrace => avail = 0 \/ pc'[p] \in Clearing,
         row'.left # NoGrace /\ avail = 0 => zeroFor + row'.left >= Grace
  PROVE  SerialInv'
<1>1. Serial(p)'
  BY DEF Serial, Reading
<1>2. Full'
  BY DEF Full
<1> QED BY <1>1, <1>2 DEF SerialInv, Alone

\* A step that leaves the row, the wallet and the clock alone.
LEMMA GoesOnSerially ==
  ASSUME Alone, SerialInv, NEW p \in Procs, UNCHANGED <<row, avail, zeroFor>>, Serial(p)'
  PROVE  SerialInv' /\ FullStep
<1>1. Full'
  BY DEF SerialInv, Full
<1> QED BY <1>1 DEF SerialInv, Alone, FullStep

\* Steps of on_balance_changed.
LEMMA BalanceChangedSerially ==
  ASSUME Alone, IInv, SerialInv, NEW p \in Procs,
         \/ GetRow(p) \/ GetWallet(p) \/ EnterGrace(p) \/ InGrace(p) \/ StopBots(p)
         \/ Suspend(p) \/ Recover(p) \/ Alert(p) \/ NothingDue(p)
  PROVE  SerialInv' /\ FullStep
<1>0. Serial(p) /\ Full /\ st[p] \in Row /\ pc \in [Procs -> Labels] /\ Grace \in Nat
  BY GraceAssumption DEF SerialInv, IInv, TypeOK
<1>1. CASE GetRow(p)
  <2>1. pc[p] \notin Clearing
    BY <1>1 DEF GetRow, At, Clearing
  <2>2. UNCHANGED <<row, avail, zeroFor>>
    BY <1>1 DEF GetRow, Answer, store
  <2>3. pc'[p] \notin Reading \/ (pc'[p] = "wallet" /\ CanWrite(p)')
    BY <1>0, <1>1 DEF GetRow, Answer, Return, Goto, Get, CanWrite, Reading, store, IInv, TypeOK
  <2>4. Serial(p)'
    BY <1>0, <2>1, <2>2, <2>3 DEF Serial, Reading
  <2> QED BY <2>2, <2>4, GoesOnSerially
<1>2. CASE GetWallet(p)
  <2>1. /\ pc[p] = "wallet" /\ pc'[p] = "decide" /\ saw'[p] = avail
        /\ UNCHANGED <<row, exists, avail, stamp, zeroFor>>
    BY <1>2, <1>0 DEF GetWallet, At, Goto, store, IInv, TypeOK
  <2>2. Serial(p)'
    BY <1>0, <2>1 DEF Serial, Reading, CanWrite, Clearing
  <2> QED BY <2>1, <2>2, GoesOnSerially
<1>3. CASE StopBots(p)
  <2>1. /\ pc[p] = "decide" /\ saw[p] = 0 /\ pc'[p] = "suspend"
        /\ UNCHANGED <<row, exists, avail, saw, stamp, zeroFor>>
    BY <1>3, <1>0 DEF StopBots, At, Goto, store, locals
  <2>2. Serial(p)'
    BY <1>0, <2>1 DEF Serial, Reading, CanWrite, Clearing
  <2> QED BY <2>1, <2>2, GoesOnSerially
<1>4. ASSUME pc[p] = "decide" PROVE /\ CanWrite(p) /\ saw[p] = avail /\ st[p].left = row.left
                                    /\ st[p].phase = row.phase
                                    /\ row.left # NoGrace => avail = 0
  BY <1>0, <1>4, ReadsTheRow DEF Serial, Reading, Clearing
<1>5. CASE EnterGrace(p)
  <2> DEFINE new == [st[p] EXCEPT !.phase = "grace", !.left = Grace]
  <2>1. new.phase = "grace" /\ new.left = Grace
    BY <1>0 DEF Row
  <2>2. /\ pc[p] = "decide" /\ saw[p] = 0 /\ Save(p, new, "enter_grace")
        /\ UNCHANGED <<avail, zeroFor>>
    BY <1>5 DEF EnterGrace, At
  <2> HIDE DEF new
  <2>3. row' = new /\ pc'[p] = "idle"
    BY <2>2, <1>4, Saved DEF IInv
  <2>4. zeroFor + Grace >= Grace
    BY <1>0 DEF IInv, TypeOK
  <2>5. SerialInv'
    BY <2>1, <2>2, <2>3, <2>4, <1>4, StoresFull DEF Reading
  <2> QED BY <2>1, <2>3, <2>5 DEF FullStep
<1>6. CASE InGrace(p)
  <2> DEFINE new == [st[p] EXCEPT !.phase = "grace"]
  <2>1. new.phase = "grace" /\ new.left = st[p].left
    BY <1>0 DEF Row
  <2>2. pc[p] = "decide" /\ saw[p] = 0 /\ Save(p, new, "in_grace") /\ UNCHANGED <<avail, zeroFor>>
    BY <1>6 DEF InGrace, At
  <2> HIDE DEF new
  <2>3. row' = new /\ pc'[p] = "idle"
    BY <2>2, <1>4, Saved DEF IInv
  <2>4. SerialInv'
    BY <1>0, <2>1, <2>2, <2>3, <1>4, StoresFull DEF Reading, Full
  <2> QED BY <2>1, <2>3, <2>4 DEF FullStep
<1>7. CASE Suspend(p)
  <2> DEFINE new == [st[p] EXCEPT !.phase = "suspended"]
  <2>1. new.phase = "suspended" /\ new.left = st[p].left
    BY <1>0 DEF Row
  <2>2. pc[p] = "suspend" /\ SaveBlind(p, new, "suspend") /\ UNCHANGED <<avail, zeroFor>>
    BY <1>7 DEF Suspend, At
  <2>3. CanWrite(p) /\ avail = 0 /\ st[p].left = 0 /\ row.left = 0
    BY <1>0, <2>2, ReadsTheRow DEF Serial, Reading, IInv, Decides
  <2> HIDE DEF new
  <2>4. row' = new /\ pc'[p] = "idle"
    BY <2>2, <2>3, <1>0 DEF SaveBlind, Put, Write, Return, Goto
  <2>5. zeroFor + 0 >= Grace /\ zeroFor \in 0..Grace
    BY <1>0, <2>3 DEF Full, NoGrace, IInv, TypeOK
  <2>6. zeroFor = Grace
    BY <2>5, <1>0
  <2>7. SerialInv'
    BY <2>1, <2>2, <2>3, <2>4, <2>5, StoresFull DEF Reading
  <2> QED BY <2>3, <2>6, <2>7 DEF FullStep
<1>8. CASE Recover(p)
  <2> DEFINE new == [st[p] EXCEPT !.phase = "active", !.left = NoGrace]
  <2>1. new.phase = "active" /\ new.left = NoGrace
    BY <1>0 DEF Row
  <2>2. pc[p] = "decide" /\ Save(p, new, "recovered") /\ UNCHANGED <<avail, zeroFor>>
    BY <1>8 DEF Recover, At
  <2> HIDE DEF new
  <2>3. row' = new /\ pc'[p] = "idle"
    BY <2>2, <1>4, Saved DEF IInv
  <2>4. SerialInv'
    BY <2>1, <2>2, <2>3, StoresFull DEF Reading
  <2> QED BY <2>1, <2>3, <2>4 DEF FullStep
<1>9. CASE Alert(p)
  <2> DEFINE new == [st[p] EXCEPT !.phase = "warning", !.pct = Min(Due(p))]
  <2>1. new.phase = "warning" /\ new.left = st[p].left
    BY <1>0 DEF Row
  <2>2. pc[p] = "decide" /\ Save(p, new, "alert") /\ UNCHANGED <<avail, zeroFor>>
    BY <1>9 DEF Alert, At
  <2> HIDE DEF new
  <2>3. row' = new /\ pc'[p] = "idle"
    BY <2>2, <1>4, Saved DEF IInv
  <2>4. SerialInv'
    BY <1>0, <2>1, <2>2, <2>3, <1>4, StoresFull DEF Reading, Full
  <2> QED BY <2>1, <2>3, <2>4 DEF FullStep
<1>10. CASE NothingDue(p)
  <2>1. pc[p] = "decide" /\ Save(p, st[p], "none") /\ UNCHANGED <<avail, zeroFor>>
    BY <1>10 DEF NothingDue, At
  <2>2. row' = st[p] /\ pc'[p] = "idle"
    BY <2>1, <1>4, Saved DEF IInv
  <2>3. SerialInv'
    BY <1>0, <2>1, <2>2, <1>4, StoresFull DEF Reading, Full
  <2> QED BY <1>4, <2>1, <2>2, <2>3 DEF FullStep
<1> QED BY <1>1, <1>2, <1>3, <1>5, <1>6, <1>7, <1>8, <1>9, <1>10

\* Steps of a credit, and a start that ends.
LEMMA CreditSerially ==
  ASSUME Alone, IInv, SerialInv, NEW p \in Procs,
         \/ ClearGet(p) \/ ClearEmpty(p) \/ ClearWallet(p) \/ ClearSave(p)
         \/ BaseGet(p) \/ BaseSave(p) \/ HostStarted(p)
  PROVE  SerialInv' /\ FullStep
<1>0. Serial(p) /\ Full /\ st[p] \in Row /\ pc \in [Procs -> Labels]
  BY DEF SerialInv, IInv, TypeOK
<1>1. CASE ClearGet(p) \/ BaseGet(p)
  <2>1. /\ \/ pc[p] = "clearGet" /\ pc'[p] = "clearWallet"
           \/ pc[p] = "baseGet" /\ pc'[p] = "baseSave"
        /\ CanWrite(p)' /\ UNCHANGED <<row, avail, zeroFor>>
    BY <1>0, <1>1 DEF ClearGet, BaseGet, At, Goto, Get, CanWrite, store, IInv, TypeOK
  <2>2. Serial(p)'
    BY <1>0, <2>1 DEF Serial, Clearing
  <2> QED BY <2>1, <2>2, GoesOnSerially
<1>2. CASE ClearWallet(p)
  <2>1. /\ pc[p] = "clearWallet" /\ pc'[p] = "clearSave"
        /\ UNCHANGED <<row, exists, avail, stamp, zeroFor>>
    BY <1>0, <1>2 DEF ClearWallet, At, Goto, store
  <2>2. Serial(p)'
    BY <1>0, <2>1 DEF Serial, Clearing, Reading, CanWrite
  <2> QED BY <2>1, <2>2, GoesOnSerially
<1>3. CASE ClearEmpty(p)
  <2>1. avail = 0 /\ pc'[p] \in {"idle", "baseGet"} /\ UNCHANGED <<row, avail, zeroFor>>
    BY <1>0, <1>3 DEF ClearEmpty, AfterClear, Goto, store
  <2>2. Serial(p)'
    BY <2>1 DEF Serial, Reading
  <2> QED BY <2>1, <2>2, GoesOnSerially
<1>4. CASE ClearSave(p)
  <2>1. /\ pc[p] = "clearSave" /\ Put(p, Cleared(st[p])) /\ pc'[p] \in {"idle", "baseGet"}
        /\ UNCHANGED <<avail, zeroFor>>
    BY <1>0, <1>4 DEF ClearSave, AfterClear, At, Goto
  <2>2. row' = Cleared(st[p])
    BY <1>0, <2>1 DEF Serial, Reading, Put, Write
  <2>3. row'.phase = "active" /\ row'.left = NoGrace
    BY <1>0, <2>2, ClearedRow
  <2>4. SerialInv'
    BY <2>1, <2>3, StoresFull DEF Reading
  <2> QED BY <2>3, <2>4 DEF FullStep
<1>5. CASE BaseSave(p)
  <2> DEFINE new == [st[p] EXCEPT !.base = Larger(@, saw[p])]
  <2>1. new.phase = st[p].phase /\ new.left = st[p].left
    BY <1>0 DEF Row
  <2>2. pc[p] = "baseSave" /\ Put(p, new) /\ pc'[p] = "idle" /\ UNCHANGED <<avail, zeroFor>>
    BY <1>0, <1>5 DEF BaseSave, At, Goto
  <2> HIDE DEF new
  <2>3. CanWrite(p) /\ st[p].phase = row.phase /\ st[p].left = row.left
        /\ (row.left # NoGrace => avail = 0)
    BY <1>0, <2>2, ReadsTheRow DEF Serial, Reading, Clearing
  <2>4. row' = new
    BY <2>2, <2>3 DEF Put, Write
  <2>5. SerialInv'
    BY <1>0, <2>1, <2>2, <2>3, <2>4, StoresFull DEF Reading, Full
  <2> QED BY <2>1, <2>3, <2>4, <2>5 DEF FullStep
<1>6. CASE HostStarted(p)
  <2>1. pc[p] = "start" /\ pc'[p] = "idle" /\ UNCHANGED <<row, avail, zeroFor>>
    BY <1>0, <1>6 DEF HostStarted, At, Goto, store
  <2>2. Serial(p)'
    BY <1>0, <2>1 DEF Serial, Reading, Clearing
  <2> QED BY <2>1, <2>2, GoesOnSerially
<1> QED BY <1>1, <1>2, <1>3, <1>4, <1>5, <1>6

\* Steps that begin a call.
LEMMA BeginsSerially ==
  ASSUME Alone, IInv, SerialInv, NEW p \in Procs,
         TopUp(p) \/ ChargeLlm(p) \/ ChargeUsage(p) \/ StartHost(p) \/ Tick(p)
  PROVE  SerialInv' /\ FullStep
<1>0. /\ Serial(p) /\ Full /\ pc[p] = "idle" /\ row' = row /\ pc \in [Procs -> Labels]
      /\ avail \in Nat
  BY DEF SerialInv, IInv, TypeOK, TopUp, ChargeLlm, ChargeUsage, StartHost, Tick, At, store
<1>1. row.left # NoGrace => avail = 0
  BY <1>0 DEF Serial, Clearing
<1>2. FullStep
  BY <1>0 DEF FullStep
<1>3. CASE TopUp(p)
  <2>1. pc'[p] = "clearGet" /\ UNCHANGED zeroFor
    BY <1>0, <1>3 DEF TopUp, Begin, Goto
  <2>2. avail' = avail \/ avail' = avail + Pack
    BY <1>3 DEF TopUp
  <2>3. avail' = 0 => avail = 0
    BY <1>0, <2>2, AmountAssumption
  <2>4. Serial(p)'
    BY <2>1 DEF Serial, Reading, Clearing
  <2>5. Full'
    BY <1>0, <2>1, <2>3 DEF Full
  <2> QED BY <1>2, <2>4, <2>5 DEF SerialInv, Alone
<1>4. CASE StartHost(p) \/ Tick(p)
  <2>1. pc'[p] \in {"start", "get"} /\ UNCHANGED <<avail, zeroFor>>
    BY <1>0, <1>4 DEF StartHost, Tick, Begin, Goto
  <2> QED BY <1>0, <1>1, <1>2, <2>1, StoresFull DEF Reading, Full
<1>5. CASE ChargeLlm(p) \/ ChargeUsage(p)
  <2>1. pc'[p] \in {"get", "idle"} /\ Empty
    BY <1>0, <1>5 DEF ChargeLlm, ChargeUsage, Begin, Goto
  <2>2. PICK x \in Charges : avail' = avail \/ (Affordable(x) /\ avail' = avail - x)
    BY <1>5 DEF ChargeLlm, ChargeUsage
  <2>3. avail = 0 => avail' = 0
    BY <1>0, <2>2, AmountAssumption DEF Affordable
  <2>4. avail = 0 => zeroFor' = zeroFor
    BY <2>1 DEF Empty
  <2>5. Serial(p)'
    BY <1>0, <1>1, <2>1, <2>3 DEF Serial, Reading
  <2>6. Full'
    BY <1>0, <1>1, <2>4 DEF Full
  <2> QED BY <1>2, <2>5, <2>6 DEF SerialInv, Alone
<1> QED BY <1>3, <1>4, <1>5

LEMMA PassesSerially ==
  ASSUME IInv, SerialInv, Pass
  PROVE  SerialInv' /\ FullStep
<1>1. PICK near \in Row : /\ row' = near /\ near.phase = row.phase
                          /\ near.left = Less(row.left)
  BY Nearer DEF IInv, TypeOK, Pass
<1>2. UNCHANGED <<exists, avail, pc, stamp, saw>>
  BY DEF Pass
<1>3. row.left \in {NoGrace} \cup 0..Grace /\ zeroFor \in 0..Grace /\ Grace \in Nat
  BY RowFields, GraceAssumption DEF IInv, TypeOK
<1>4. Less(row.left) # NoGrace => row.left # NoGrace
  BY <1>3, GraceAssumption DEF Less, NoGrace
<1>5. Full'
  <2> SUFFICES ASSUME Less(row.left) # NoGrace, avail = 0
               PROVE  zeroFor' + Less(row.left) >= Grace
    BY <1>1, <1>2 DEF Full
  <2>1. zeroFor + row.left >= Grace /\ row.left \in 0..Grace
    BY <1>3, <1>4 DEF SerialInv, Full
  <2>2. zeroFor' = IF zeroFor < Grace THEN zeroFor + 1 ELSE zeroFor
    BY DEF Pass
  <2> QED BY <1>3, <2>1, <2>2 DEF Less
<1>6. ASSUME NEW p \in Procs PROVE Serial(p)'
  BY <1>1, <1>2, <1>4 DEF SerialInv, Serial, CanWrite
<1>7. FullStep
  BY <1>1 DEF FullStep
<1> QED BY <1>5, <1>6, <1>7 DEF SerialInv

\* Where one process makes one call after another and none is cut off, a
\* suspension follows a whole grace period with nothing available
\* (balance_lifecycle.py:437-466, 485-504): a purchase that came in between
\* had ended the grace.
THEOREM GraceIsWhole == Alone /\ Crashes = FALSE => (Spec => GraceIsFull)
<1> SUFFICES ASSUME Alone, Crashes = FALSE PROVE Spec => GraceIsFull
  OBVIOUS
<1>1. Init => SerialInv
  BY InitialRow DEF Init, SerialInv, Serial, Full, Reading
<1>2. ASSUME IInv, SerialInv, Next PROVE SerialInv' /\ FullStep
  BY <1>2, BalanceChangedSerially, CreditSerially, BeginsSerially, PassesSerially
     DEF Next, Work, Crash, Procs
<1>3. ASSUME SerialInv, UNCHANGED vars PROVE SerialInv'
  BY <1>3 DEF vars, store, locals, SerialInv, Full, Serial, CanWrite
<1>4. IInv /\ SerialInv /\ [Next]_vars => SerialInv'
  BY <1>2, <1>3
<1>5. IInv /\ SerialInv /\ [Next]_vars
        => [row'.phase = "suspended" /\ row.phase # "suspended"
              => avail = 0 /\ zeroFor = Grace]_vars
  BY <1>2 DEF FullStep
<1> QED BY <1>1, <1>4, <1>5, AlwaysInv, PTL DEF Spec, GraceIsFull

-----------------------------------------------------------------------------
(* One process: what it suspends has stopped, and stays so                 *)

\* Nobody saves between the process's reading and its save, its machine
\* has nothing running when it saves a suspension, no suspension comes
\* between its check and its start, and what it says it did it did.
Stopping(p) ==
  /\ pc[p] \in Reading => CanWrite(p)
  /\ pc[p] = "suspend" => running = {}
  /\ pc[p] = "start" => row.phase # "suspended"
  /\ reply[p] = "suspend" => wrote[p]

StopInv == SuspendStopsBots /\ \A p \in Procs : Stopping(p)

ClosedStep == running' \ running # {} => row.phase # "suspended"

\* A step of the process that starts nothing.
LEMMA StopsNothing ==
  ASSUME Alone, StopInv, NEW p \in Procs, Stopping(p)', running' \subseteq running,
         row'.phase = "suspended" => row.phase = "suspended" \/ running' = {}
  PROVE  StopInv' /\ ClosedStep
BY DEF StopInv, SuspendStopsBots, Alone, ClosedStep

\* A step that ends its call, saying anything but "suspend".
LEMMA EndsStopping ==
  ASSUME Alone, StopInv, NEW p \in Procs, pc'[p] \in {"idle", "baseGet"}, UNCHANGED running,
         \/ UNCHANGED <<reply, wrote>>
         \/ reply'[p] # "suspend",
         row'.phase # "suspended" \/ row'.phase = row.phase
  PROVE  StopInv' /\ ClosedStep
<1>1. Stopping(p)'
  BY DEF StopInv, Stopping, Reading
<1> QED BY <1>1, StopsNothing

\* A step that goes on, and touches neither the row nor a bot.
LEMMA GoesOnStopping ==
  ASSUME Alone, StopInv, NEW p \in Procs, UNCHANGED <<row, running>>,
         pc'[p] \notin {"suspend", "start"}, pc'[p] \in Reading => CanWrite(p)',
         \/ UNCHANGED <<reply, wrote>>
         \/ reply'[p] # "suspend"
  PROVE  StopInv' /\ ClosedStep
<1>1. Stopping(p)'
  BY DEF StopInv, Stopping
<1> QED BY <1>1, StopsNothing

\* With one process a save of on_balance_changed takes effect.
LEMMA SavedOnce ==
  ASSUME TypeOK, NEW p \in Procs, NEW new, NEW answer, Save(p, new, answer), CanWrite(p)
  PROVE  row' = new /\ pc'[p] = "idle" /\ reply'[p] = answer
BY DEF Save, SaysSaved, SaveBlind, Put, Write, Return, Goto, Says, TypeOK

\* The one process runs on one machine.
LEMMA OneMachine ==
  ASSUME Alone, TypeOK, NEW p \in Procs
  PROVE  running \subseteq {Node[p]}
BY DEF Alone, TypeOK

\* Steps of on_balance_changed.
LEMMA BalanceChangedStops ==
  ASSUME Alone, IInv, StopInv, NEW p \in Procs,
         \/ GetRow(p) \/ GetWallet(p) \/ EnterGrace(p) \/ InGrace(p) \/ StopBots(p)
         \/ Suspend(p) \/ Recover(p) \/ Alert(p) \/ NothingDue(p)
  PROVE  StopInv' /\ ClosedStep
<1>0. Stopping(p) /\ st[p] \in Row /\ TypeOK
  BY DEF StopInv, IInv, TypeOK
<1>1. CASE GetRow(p)
  <2>1. CASE Answer(p, "already_suspended")
    <3>1. pc'[p] = "idle" /\ reply'[p] = "already_suspended" /\ UNCHANGED <<row, running>>
      BY <1>0, <2>1 DEF Answer, Return, Goto, Says, TypeOK, store
    <3> QED BY <3>1, EndsStopping
  <2>2. CASE Get(p) /\ Goto(p, "wallet") /\ UNCHANGED <<store, running, reply, wrote>>
    <3>1. pc'[p] = "wallet" /\ CanWrite(p)' /\ UNCHANGED <<row, running, reply, wrote>>
      BY <1>0, <2>2 DEF Goto, Get, CanWrite, TypeOK, store
    <3> QED BY <3>1, GoesOnStopping
  <2> QED BY <1>1, <2>1, <2>2 DEF GetRow
<1>2. CASE GetWallet(p)
  <2>1. pc'[p] = "decide" /\ pc[p] = "wallet"
        /\ UNCHANGED <<row, exists, stamp, running, reply, wrote>>
    BY <1>0, <1>2 DEF GetWallet, At, Goto, TypeOK, store
  <2>2. CanWrite(p)'
    BY <1>0, <2>1 DEF Stopping, Reading, CanWrite
  <2> QED BY <2>1, <2>2, GoesOnStopping
<1>3. CASE StopBots(p)
  <2>1. pc'[p] = "suspend" /\ pc[p] = "decide"
        /\ UNCHANGED <<row, exists, stamp, reply, wrote>>
    BY <1>0, <1>3 DEF StopBots, At, Goto, TypeOK, store, locals
  <2>2. running' = {}
    BY <1>0, <1>3, OneMachine DEF StopBots, StillRunning
  <2>3. Stopping(p)'
    BY <1>0, <2>1, <2>2 DEF Stopping, Reading, CanWrite
  <2> QED BY <2>2, <2>3, StopsNothing
<1>4. CASE Suspend(p)
  <2>1. pc[p] = "suspend" /\ UNCHANGED running
        /\ SaveBlind(p, [st[p] EXCEPT !.phase = "suspended"], "suspend")
    BY <1>4 DEF Suspend, At
  <2>2. CanWrite(p) /\ running = {}
    BY <1>0, <2>1 DEF Stopping, Reading
  <2>3. pc'[p] = "idle" /\ wrote'[p] = CanWrite(p)
    BY <1>0, <2>1 DEF SaveBlind, Return, Goto, Says, TypeOK
  <2>4. Stopping(p)'
    BY <2>2, <2>3 DEF Stopping, Reading
  <2> QED BY <2>1, <2>2, <2>4, StopsNothing
<1>5. pc[p] = "decide" => CanWrite(p)
  BY <1>0 DEF Stopping, Reading
<1>6. ASSUME NEW new, NEW answer, answer # "suspend", new.phase # "suspended",
             At(p, "decide"), Save(p, new, answer), UNCHANGED running
      PROVE  StopInv' /\ ClosedStep
  <2>1. row' = new /\ pc'[p] = "idle" /\ reply'[p] = answer
    BY <1>0, <1>5, <1>6, SavedOnce DEF At
  <2> QED BY <1>6, <2>1, EndsStopping
<1>7. CASE EnterGrace(p)
  <2>1. [st[p] EXCEPT !.phase = "grace", !.left = Grace].phase # "suspended"
    BY <1>0 DEF Row
  <2> QED BY <1>6, <1>7, <2>1 DEF EnterGrace
<1>8. CASE InGrace(p)
  <2>1. [st[p] EXCEPT !.phase = "grace"].phase # "suspended"
    BY <1>0 DEF Row
  <2> QED BY <1>6, <1>8, <2>1 DEF InGrace
<1>9. CASE Recover(p)
  <2>1. [st[p] EXCEPT !.phase = "active", !.left = NoGrace].phase # "suspended"
    BY <1>0 DEF Row
  <2> QED BY <1>6, <1>9, <2>1 DEF Recover
<1>10. CASE Alert(p)
  <2>1. [st[p] EXCEPT !.phase = "warning", !.pct = Min(Due(p))].phase # "suspended"
    BY <1>0 DEF Row
  <2> QED BY <1>6, <1>10, <2>1 DEF Alert
<1>11. CASE NothingDue(p)
  <2>1. st[p].phase # "suspended"
    BY <1>11 DEF NothingDue
  <2> QED BY <1>6, <1>11, <2>1 DEF NothingDue
<1> QED BY <1>1, <1>2, <1>3, <1>4, <1>7, <1>8, <1>9, <1>10, <1>11

\* Steps of a credit, a start that ends, and a call that is cut off.
LEMMA CreditStops ==
  ASSUME Alone, IInv, StopInv, NEW p \in Procs,
         \/ ClearGet(p) \/ ClearEmpty(p) \/ ClearWallet(p) \/ ClearSave(p)
         \/ BaseGet(p) \/ BaseSave(p) \/ HostStarted(p) \/ Crash(p)
  PROVE  StopInv' /\ ClosedStep
<1>0. Stopping(p) /\ st[p] \in Row /\ TypeOK
  BY DEF StopInv, IInv, TypeOK
<1>1. CASE ClearGet(p) \/ BaseGet(p)
  <2>1. pc'[p] \in {"clearWallet", "baseSave"} /\ CanWrite(p)'
        /\ UNCHANGED <<row, running, reply, wrote>>
    BY <1>0, <1>1 DEF ClearGet, BaseGet, Goto, Get, CanWrite, TypeOK, store
  <2> QED BY <2>1, GoesOnStopping
<1>2. CASE ClearWallet(p)
  <2>1. pc[p] = "clearWallet" /\ pc'[p] = "clearSave"
        /\ UNCHANGED <<row, exists, stamp, running, reply, wrote>>
    BY <1>0, <1>2 DEF ClearWallet, At, Goto, TypeOK, store
  <2>2. CanWrite(p)'
    BY <1>0, <2>1 DEF Stopping, Reading, CanWrite
  <2> QED BY <2>1, <2>2, GoesOnStopping
<1>3. CASE ClearEmpty(p)
  <2>1. pc'[p] \in {"idle", "baseGet"} /\ reply'[p] = "still_empty"
        /\ UNCHANGED <<row, running>>
    BY <1>0, <1>3 DEF ClearEmpty, AfterClear, Goto, Says, TypeOK, store
  <2> QED BY <2>1, EndsStopping
<1>4. CASE ClearSave(p)
  <2>1. /\ pc[p] = "clearSave" /\ Put(p, Cleared(st[p]))
        /\ pc'[p] \in {"idle", "baseGet"} /\ reply'[p] = "unsuspended" /\ UNCHANGED running
    BY <1>0, <1>4 DEF ClearSave, AfterClear, At, Goto, Says, TypeOK
  <2>2. row' = Cleared(st[p])
    BY <1>0, <2>1 DEF Stopping, Reading, Put, Write
  <2>3. row'.phase = "active"
    BY <1>0, <2>2, ClearedRow
  <2> QED BY <2>1, <2>3, EndsStopping
<1>5. CASE BaseSave(p)
  <2> DEFINE new == [st[p] EXCEPT !.base = Larger(@, saw[p])]
  <2>1. new.phase = st[p].phase
    BY <1>0 DEF Row
  <2>2. /\ pc[p] = "baseSave" /\ Put(p, new) /\ pc'[p] = "idle"
        /\ UNCHANGED <<running, reply, wrote>>
    BY <1>0, <1>5 DEF BaseSave, At, Goto, TypeOK
  <2> HIDE DEF new
  <2>3. CanWrite(p) /\ st[p].phase = row.phase
    BY <1>0, <2>2, ReadsTheRow DEF Stopping, Reading
  <2>4. row' = new
    BY <2>2, <2>3 DEF Put, Write
  <2> QED BY <2>1, <2>2, <2>3, <2>4, EndsStopping
<1>6. CASE HostStarted(p)
  <2>1. pc[p] = "start" /\ pc'[p] = "idle" /\ UNCHANGED <<row, reply, wrote>>
    BY <1>0, <1>6 DEF HostStarted, At, Goto, TypeOK, store
  <2>2. row.phase # "suspended"
    BY <1>0, <2>1 DEF Stopping
  <2>3. Stopping(p)'
    BY <1>0, <2>1 DEF Stopping, Reading
  <2> QED BY <2>1, <2>2, <2>3 DEF StopInv, SuspendStopsBots, Alone, ClosedStep
<1>7. CASE Crash(p)
  <2>1. pc'[p] = "idle" /\ reply'[p] = "lost" /\ UNCHANGED <<row, running>>
    BY <1>0, <1>7 DEF Crash, Answer, Return, Goto, Says, TypeOK, store
  <2> QED BY <2>1, EndsStopping
<1> QED BY <1>1, <1>2, <1>3, <1>4, <1>5, <1>6, <1>7

\* Steps that begin a call.
LEMMA BeginsStopping ==
  ASSUME Alone, IInv, StopInv, NEW p \in Procs,
         TopUp(p) \/ ChargeLlm(p) \/ ChargeUsage(p) \/ StartHost(p) \/ Tick(p)
  PROVE  StopInv' /\ ClosedStep
<1>0. TypeOK
  BY DEF IInv
<1>1. CASE StartHost(p)
  <2>1. pc'[p] = "start" /\ reply'[p] = "none" /\ UNCHANGED <<row, running>>
        /\ row.phase # "suspended"
    BY <1>0, <1>1 DEF StartHost, HostGate, Begin, Goto, TypeOK, store
  <2>2. Stopping(p)'
    BY <2>1 DEF Stopping, Reading
  <2> QED BY <2>1, <2>2, StopsNothing
<1>2. CASE TopUp(p) \/ ChargeLlm(p) \/ Tick(p)
  <2>1. pc'[p] \in {"get", "clearGet"} /\ reply'[p] = "none" /\ UNCHANGED <<row, running>>
    BY <1>0, <1>2 DEF TopUp, ChargeLlm, Tick, Begin, Goto, TypeOK, store
  <2> QED BY <2>1, GoesOnStopping DEF Reading
<1>3. CASE ChargeUsage(p)
  <2>1. pc[p] = "idle" /\ UNCHANGED <<row, running>>
    BY <1>3 DEF ChargeUsage, At, store
  <2>2. \/ pc'[p] = "idle" /\ UNCHANGED <<reply, wrote>>
        \/ pc'[p] = "get" /\ reply'[p] = "none"
    BY <1>0, <1>3, <2>1 DEF ChargeUsage, Begin, Goto, TypeOK
  <2> QED BY <2>1, <2>2, GoesOnStopping DEF Reading
<1> QED BY <1>1, <1>2, <1>3

\* Where one process makes all the calls, whether or not it is cut off in
\* one, a suspended tenant has nothing running (balance_lifecycle.py:268-299,
\* 437-466), nothing is started for it (is_hosting_allowed, 506-530), and
\* "suspend" is answered only of a suspension that was saved.
THEOREM SuspensionIsDone ==
  Alone => (Spec => [](SuspendStopsBots /\ SuspendIsRecorded) /\ HostFailClosed)
<1> SUFFICES ASSUME Alone
             PROVE  Spec => [](SuspendStopsBots /\ SuspendIsRecorded) /\ HostFailClosed
  OBVIOUS
<1>1. Init => StopInv
  BY InitialRow DEF Init, StopInv, Stopping, SuspendStopsBots, Reading
<1>2. ASSUME IInv, StopInv, Pass PROVE StopInv' /\ ClosedStep
  <2>1. row'.phase = row.phase /\ UNCHANGED <<exists, running, pc, stamp, reply, wrote>>
    BY <1>2, Nearer DEF Pass, IInv, TypeOK
  <2> QED BY <1>2, <2>1
          DEF StopInv, Stopping, SuspendStopsBots, CanWrite, ClosedStep
<1>3. ASSUME IInv, StopInv, Next PROVE StopInv' /\ ClosedStep
  BY <1>2, <1>3, BalanceChangedStops, CreditStops, BeginsStopping DEF Next, Work, Procs
<1>4. ASSUME StopInv, UNCHANGED vars PROVE StopInv'
  BY <1>4 DEF vars, store, locals, StopInv, Stopping, SuspendStopsBots, CanWrite
<1>5. IInv /\ StopInv /\ [Next]_vars => StopInv'
  BY <1>3, <1>4
<1>6. IInv /\ StopInv /\ [Next]_vars => [running' \ running # {} => row.phase # "suspended"]_vars
  BY <1>3 DEF ClosedStep
<1>7. StopInv => SuspendStopsBots /\ SuspendIsRecorded
  BY DEF StopInv, Stopping, SuspendIsRecorded
<1> QED BY <1>1, <1>5, <1>6, <1>7, AlwaysInv, PTL DEF Spec, HostFailClosed
=============================================================================
