-------------------------- MODULE ReferralsProofs --------------------------
(* Proofs about Referrals: the invite cap is exceeded only in passing, a   *)
(* reward has one granter, a milestone that was reached is claimed and a   *)
(* claim is answered for, for any number of handlers, users and milestones *)
(* and any cap.                                                            *)
EXTENDS Referrals, FiniteSetTheorems, WellFoundedInduction, TLAPS

Todo == (SUBSET Milestones) \ {{}}

\* What a handler is doing, by the fields it carries.
Acting == [pc : {"insert", "recount", "rollback", "bump", "mark", "bumpq", "aggregate"},
           user : Users, by : Referrers]
Counted == [pc : {"rebuild", "count"}, by : Referrers, invited : Nat, qualified : Nat]
Looping == [pc : {"check", "grant"}, by : Referrers, todo : Todo]
Claiming == [pc : {"claim"}, by : Referrers, todo : Todo, qualified : Nat]
Doing == {Idle} \cup Acting \cup Counted \cup Looping \cup Claiming

InCreation(x) == x.pc \in {"recount", "rollback"}
Reward(x) == <<x.by, Min(x.todo)>>

Typed ==
    /\ row \in [Users -> {None} \cup [status : {"pending", "qualified"}, by : Referrers]]
    /\ claimed \in [Referrers -> SUBSET Milestones]
    /\ stats \in [Referrers -> [invited : Nat, qualified : Nat]]
    /\ granted \subseteq Referrers \X Milestones /\ lost \subseteq Referrers \X Milestones
    /\ proc \in [Processes -> Doing]
    /\ died \in [creating : Nat, elsewhere : Nat]

\* The row that a handler inserted, and may have to delete, is still there
\* and is no other handler's.
OwnRow ==
    /\ \A p \in Processes : InCreation(proc[p]) =>
         row[proc[p].user] # None /\ row[proc[p].user].by = proc[p].by
    /\ \A p, q \in Processes :
         InCreation(proc[p]) /\ InCreation(proc[q]) /\ proc[p].user = proc[q].user => p = q

\* Only what is claimed is being credited or has been.
GrantsAreClaimed ==
    /\ \A p \in Processes : proc[p].pc = "grant" => Min(proc[p].todo) \in claimed[proc[p].by]
    /\ \A r \in Referrers, ms \in Milestones : <<r, ms>> \in granted => ms \in claimed[r]

IInv == Typed /\ OwnRow /\ CapHolds /\ GrantsAreClaimed /\ OneGranter

---------------------------------------------------------------------------
(* Data *)

LEMMA MinIsIn ==
    ASSUME NEW T \in Todo
    PROVE  Min(T) \in T /\ Min(T) \in Milestones
<1>1. T \subseteq Nat /\ T # {} /\ T \subseteq Milestones
  BY ReferralsAssumption DEF Todo
<1> DEFINE Lt == {ss \in Nat \X Nat : ss[1] < ss[2]}
<1>2. IsWellFoundedOn(Lt, Nat)
  BY NatLessThanWellFounded DEF OpToRel
<1> HIDE DEF Lt
<1>3. PICK x \in T : \A y \in T : ~(<<y, x>> \in Lt)
  BY <1>1, <1>2, WFMin
<1>4. ASSUME NEW y \in T PROVE x <= y
  <2>1. x \in Nat /\ y \in Nat
    BY <1>1, <1>3
  <2>2. y < x => <<y, x>> \in Lt
    BY <2>1 DEF Lt
  <2> QED BY <2>1, <2>2, <1>3
<1> QED BY <1>1, <1>4 DEF Min

LEMMA DoingFields ==
    ASSUME NEW x \in Doing
    PROVE  /\ x # Idle => x.by \in Referrers
           /\ x.pc \in {"insert", "recount", "rollback", "bump", "mark", "bumpq", "aggregate"} => x \in Acting
           /\ x.pc \in {"rebuild", "count"} => x \in Counted
           /\ x.pc \in {"check", "grant"} => x \in Looping
           /\ x.pc = "claim" => x \in Claiming
           /\ x.pc = "idle" => x = Idle
  BY DEF Doing, Acting, Counted, Looping, Claiming, Idle

LEMMA InvitedIsFinite ==
    ASSUME NEW r
    PROVE  IsFiniteSet(Invited(r)) /\ Cardinality(Invited(r)) \in Nat
  BY ReferralsAssumption, FS_Subset, FS_CardinalityType DEF Invited

LEMMA QualifiedIsFinite ==
    ASSUME NEW r
    PROVE  Cardinality(Qualified(r)) \in Nat
<1>1. Qualified(r) \in SUBSET Users
  BY DEF Qualified, Invited
<1> QED BY <1>1, ReferralsAssumption, FS_Subset, FS_CardinalityType

LEMMA CreatingIsFinite ==
    ASSUME NEW r
    PROVE  IsFiniteSet(Creating(r)) /\ Cardinality(Creating(r)) \in Nat
  BY ReferralsAssumption, FS_Subset, FS_CardinalityType DEF Creating

\* Where the loop over the milestones goes next.
LEMMA AfterIsLoop ==
    ASSUME Typed, NEW p \in Processes, proc[p].pc \in {"check", "claim", "grant"}
    PROVE  After(p) \in {Idle} \cup Looping /\ After(p).pc \in {"idle", "check"}
<1>1. proc[p].by \in Referrers /\ proc[p].todo \in Todo
  BY DoingFields DEF Typed, Looping, Claiming
<1> DEFINE rest == proc[p].todo \ {Min(proc[p].todo)}
<1>2. rest \in Todo \/ rest = {}
  BY <1>1 DEF Todo
<1>3. After(p) = Loop(proc[p].by, rest)
  BY DEF After
<1> HIDE DEF rest
<1> QED BY <1>1, <1>2, <1>3 DEF Loop, Looping, Idle

---------------------------------------------------------------------------
(* Steps that leave the rows, the claims and the ledger alone *)

LEMMA InitInv == Init => IInv
<1> SUFFICES ASSUME Init PROVE IInv
  OBVIOUS
<1>1. Typed
  BY DEF Init, Typed, Doing
<1>2. OwnRow /\ GrantsAreClaimed /\ OneGranter
  BY DEF Init, OwnRow, InCreation, GrantsAreClaimed, OneGranter, Idle
<1>3. CapHolds
  <2> SUFFICES ASSUME NEW r \in Referrers
               PROVE  Cardinality(Invited(r)) <= Cap + Cardinality(Creating(r)) + died.creating
    BY DEF CapHolds
  <2>1. Invited(r) = {}
    BY DEF Init, Invited
  <2>2. Cardinality(Invited(r)) = 0
    BY <2>1, FS_EmptySet
  <2> QED BY <2>2, CreatingIsFinite, ReferralsAssumption DEF Init
<1> QED BY <1>1, <1>2, <1>3 DEF IInv

LEMMA Elsewhere ==
    ASSUME IInv, NEW p \in Processes, NEW x \in Doing,
           ~InCreation(proc[p]), ~InCreation(x), x.pc # "grant",
           proc' = [proc EXCEPT ![p] = x],
           UNCHANGED <<row, claimed, granted>>,
           stats' \in [Referrers -> [invited : Nat, qualified : Nat]],
           lost' \subseteq Referrers \X Milestones,
           died' \in [creating : Nat, elsewhere : Nat], died'.creating = died.creating
    PROVE  IInv'
<1>1. Typed'
  BY DEF IInv, Typed
<1>2. proc'[p] = x /\ \A q \in Processes : q # p => proc'[q] = proc[q]
  BY DEF IInv, Typed
<1>3. OwnRow'
  BY <1>2 DEF IInv, OwnRow, InCreation
<1>4. CapHolds'
  <2> SUFFICES ASSUME NEW r \in Referrers
               PROVE  (Cardinality(Invited(r)) <= Cap + Cardinality(Creating(r)) + died.creating)'
    BY DEF CapHolds
  <2>1. Invited(r)' = Invited(r)
    BY DEF Invited
  <2>2. Creating(r)' = Creating(r)
    BY <1>2 DEF Creating, InCreation
  <2> QED BY <2>1, <2>2 DEF IInv, CapHolds
<1>5. GrantsAreClaimed'
  BY <1>2 DEF IInv, GrantsAreClaimed
<1>6. OneGranter'
  BY <1>2 DEF IInv, OneGranter, Prize
<1> QED BY <1>1, <1>3, <1>4, <1>5, <1>6 DEF IInv

LEMMA RegisterInv ==
    ASSUME IInv, NEW p \in Processes, NEW r \in Referrers, NEW u \in Users, Register(p, r, u)
    PROVE  IInv'
<1> DEFINE x == [pc |-> "insert", user |-> u, by |-> r]
<1>1. x \in Doing /\ ~InCreation(x) /\ x.pc # "grant" /\ ~InCreation(proc[p])
  BY DEF Register, Doing, Acting, InCreation, Idle
<1>2. proc' = [proc EXCEPT ![p] = x]
  BY DEF Register
<1> HIDE DEF x
<1> QED BY <1>1, <1>2, Elsewhere DEF Register, history, IInv, Typed

LEMMA UseInv ==
    ASSUME IInv, NEW p \in Processes, NEW u \in Users, Use(p, u)
    PROVE  IInv'
<1> DEFINE x == [pc |-> IF row[u].status = "pending" THEN "mark" ELSE "aggregate",
                 user |-> u, by |-> row[u].by]
<1>1. row[u].by \in Referrers
  BY DEF Use, IInv, Typed, None
<1>2. x \in Acting /\ x.pc \in {"mark", "aggregate"}
  BY <1>1 DEF Acting
<1>3. proc' = [proc EXCEPT ![p] = x]
  BY DEF Use
<1>4. ~InCreation(proc[p])
  BY DEF Use, InCreation, Idle
<1> HIDE DEF x
<1>5. x \in Doing /\ ~InCreation(x) /\ x.pc # "grant"
  BY <1>2 DEF Doing, InCreation
<1> QED BY <1>3, <1>4, <1>5, Elsewhere DEF Use, history, IInv, Typed

\* Changing the pc of a handler gives it a record that it may hold.
LEMMA GotoIs ==
    ASSUME Typed, NEW p \in Processes, NEW pc, Goto(p, pc)
    PROVE  proc' = [proc EXCEPT ![p] = [proc[p] EXCEPT !.pc = pc]]
  BY DEF Typed, Goto

LEMMA BumpsInv ==
    ASSUME IInv, NEW p \in Processes, BumpInvited(p) \/ BumpQualified(p)
    PROVE  IInv'
<1>1. proc[p] \in Acting /\ ~InCreation(proc[p])
  BY DoingFields DEF BumpInvited, BumpQualified, InCreation, IInv, Typed
<1>2. stats' \in [Referrers -> [invited : Nat, qualified : Nat]]
  BY <1>1 DEF BumpInvited, BumpQualified, IInv, Typed, Acting
<1>3. CASE BumpInvited(p)
  <2>1. Idle \in Doing /\ ~InCreation(Idle) /\ Idle.pc # "grant"
    BY DEF Doing, InCreation, Idle
  <2> QED BY <1>1, <1>2, <1>3, <2>1, Elsewhere DEF BumpInvited, Done, history, IInv, Typed
<1>4. CASE BumpQualified(p)
  <2> DEFINE x == [proc[p] EXCEPT !.pc = "aggregate"]
  <2>1. x \in Acting /\ x.pc = "aggregate"
    BY <1>1 DEF Acting
  <2>2. proc' = [proc EXCEPT ![p] = x]
    BY <1>4, GotoIs DEF BumpQualified, IInv
  <2> HIDE DEF x
  <2>3. x \in Doing /\ ~InCreation(x) /\ x.pc # "grant"
    BY <2>1 DEF Doing, InCreation
  <2> QED BY <1>1, <1>2, <1>4, <2>2, <2>3, Elsewhere DEF BumpQualified, history, IInv, Typed
<1> QED BY <1>3, <1>4

LEMMA AggregateInv ==
    ASSUME IInv, NEW p \in Processes, Aggregate(p)
    PROVE  IInv'
<1> DEFINE r == proc[p].by
           x == [pc |-> "rebuild", by |-> r,
                 invited |-> Cardinality(Invited(r)), qualified |-> Cardinality(Qualified(r))]
<1>1. r \in Referrers /\ ~InCreation(proc[p])
  BY DoingFields DEF Aggregate, InCreation, IInv, Typed, Acting
<1>2. x \in Doing /\ ~InCreation(x) /\ x.pc # "grant"
  BY <1>1, InvitedIsFinite, QualifiedIsFinite DEF Doing, Counted, InCreation
<1>3. proc' = [proc EXCEPT ![p] = x]
  BY DEF Aggregate
<1> HIDE DEF x
<1> QED BY <1>1, <1>2, <1>3, Elsewhere DEF Aggregate, history, IInv, Typed

LEMMA RebuildInv ==
    ASSUME IInv, NEW p \in Processes, Rebuild(p)
    PROVE  IInv'
<1> DEFINE x == [proc[p] EXCEPT !.pc = "count"]
<1>1. proc[p] \in Counted /\ ~InCreation(proc[p])
  BY DoingFields DEF Rebuild, InCreation, IInv, Typed
<1>2. stats' \in [Referrers -> [invited : Nat, qualified : Nat]]
  BY <1>1 DEF Rebuild, IInv, Typed, Counted
<1>3. x \in Counted /\ x.pc = "count"
  BY <1>1 DEF Counted
<1>4. proc' = [proc EXCEPT ![p] = x]
  BY GotoIs DEF Rebuild, IInv
<1> HIDE DEF x
<1>5. x \in Doing /\ ~InCreation(x) /\ x.pc # "grant"
  BY <1>3 DEF Doing, InCreation
<1> QED BY <1>1, <1>2, <1>4, <1>5, Elsewhere DEF Rebuild, history, IInv, Typed

LEMMA CountInv ==
    ASSUME IInv, NEW p \in Processes, Count(p)
    PROVE  IInv'
<1> DEFINE r == proc[p].by
           x == Loop(r, Earned(r))
<1>1. r \in Referrers /\ ~InCreation(proc[p])
  BY DoingFields DEF Count, InCreation, IInv, Typed, Counted
<1>2. Earned(r) \in Todo \/ Earned(r) = {}
  BY DEF Earned, Todo
<1>3. x = Idle \/ (x \in Looping /\ x.pc = "check")
  BY <1>1, <1>2 DEF Loop, Looping
<1>4. proc' = [proc EXCEPT ![p] = x]
  BY DEF Count
<1> HIDE DEF x
<1>5. x \in Doing /\ ~InCreation(x) /\ x.pc # "grant"
  BY <1>3 DEF Doing, InCreation, Idle
<1> QED BY <1>1, <1>4, <1>5, Elsewhere DEF Count, history, IInv, Typed

LEMMA LoopOn ==
    ASSUME Typed, NEW p \in Processes, proc[p].pc \in {"check", "claim", "grant"}
    PROVE  After(p) \in Doing /\ ~InCreation(After(p)) /\ After(p).pc # "grant"
  BY AfterIsLoop DEF Doing, InCreation

LEMMA CheckInv ==
    ASSUME IInv, NEW p \in Processes, Check(p)
    PROVE  IInv'
<1> DEFINE y == [pc |-> "claim", by |-> proc[p].by, todo |-> proc[p].todo,
                 qualified |-> Cardinality(Qualified(proc[p].by))]
           x == IF Min(proc[p].todo) \notin Earned(proc[p].by) THEN After(p) ELSE y
<1>1. proc[p] \in Looping /\ ~InCreation(proc[p])
  BY DoingFields DEF Check, InCreation, IInv, Typed
<1>2. y \in Doing /\ ~InCreation(y) /\ y.pc # "grant"
  BY <1>1, QualifiedIsFinite DEF Doing, Claiming, Looping, InCreation
<1>3. After(p) \in Doing /\ ~InCreation(After(p)) /\ After(p).pc # "grant"
  BY LoopOn DEF Check, IInv
<1>4. proc' = [proc EXCEPT ![p] = x]
  BY DEF Check, IInv, Typed
<1> HIDE DEF y
<1>5. x \in Doing /\ ~InCreation(x) /\ x.pc # "grant"
  BY <1>2, <1>3
<1> HIDE DEF x
<1> QED BY <1>1, <1>4, <1>5, Elsewhere DEF Check, history, IInv, Typed

LEMMA PrizeTyped ==
    ASSUME Typed, NEW p \in Processes, proc[p].pc = "grant"
    PROVE  Prize(p) \in Referrers \X Milestones
<1>1. proc[p] \in Looping
  BY DoingFields DEF Typed
<1> QED BY <1>1, MinIsIn DEF Prize, Looping

LEMMA GrantFailsInv ==
    ASSUME IInv, NEW p \in Processes, GrantFails(p)
    PROVE  IInv'
<1>1. After(p) \in Doing /\ ~InCreation(After(p)) /\ After(p).pc # "grant"
  BY LoopOn DEF GrantFails, IInv
<1>2. lost' \subseteq Referrers \X Milestones
  BY PrizeTyped DEF GrantFails, IInv, Typed
<1>3. ~InCreation(proc[p])
  BY DEF GrantFails, InCreation
<1> QED BY <1>1, <1>2, <1>3, Elsewhere DEF GrantFails, IInv, Typed

---------------------------------------------------------------------------
(* Steps on the rows *)

LEMMA InsertInv ==
    ASSUME IInv, NEW p \in Processes, Insert(p)
    PROVE  IInv'
<1> DEFINE u == proc[p].user
           r == proc[p].by
<1>1. proc[p] \in Acting /\ ~InCreation(proc[p]) /\ u \in Users /\ r \in Referrers
  BY DoingFields DEF Insert, InCreation, IInv, Typed, Acting
<1>2. CASE row[u] # None
  <2>1. Idle \in Doing /\ ~InCreation(Idle) /\ Idle.pc # "grant"
    BY DEF Doing, InCreation, Idle
  <2> QED BY <1>1, <1>2, <2>1, Elsewhere DEF Insert, Done, history, IInv, Typed
<1>3. CASE row[u] = None
  <2> DEFINE x == [proc[p] EXCEPT !.pc = "recount"]
  <2>1. x \in Acting /\ x.pc = "recount" /\ x.user = u /\ x.by = r
    BY <1>1 DEF Acting
  <2>2. proc' = [proc EXCEPT ![p] = x]
    BY <1>3, GotoIs DEF Insert, IInv
  <2>3. row' = [row EXCEPT ![u] = Row("pending", r)] /\ UNCHANGED <<claimed, stats, granted, lost, died>>
    BY <1>3 DEF Insert, history
  <2> HIDE DEF x
  <2>4. proc'[p] = x /\ \A q \in Processes : q # p => proc'[q] = proc[q]
    BY <2>2 DEF IInv, Typed
  <2>5. row'[u] # None /\ row'[u].by = r /\ \A v \in Users : v # u => row'[v] = row[v]
    BY <1>1, <2>3 DEF IInv, Typed, Row, None
  <2>6. Typed'
    BY <1>1, <2>1, <2>2, <2>3 DEF IInv, Typed, Row, Doing
  <2>7. OwnRow'
    <3>1. \A q \in Processes : InCreation(proc[q]) => proc[q].user # u
      BY <1>3 DEF IInv, OwnRow
    <3>2. \A q \in Processes : InCreation(proc[q]) => proc[q].user \in Users
      BY DoingFields DEF InCreation, IInv, Typed, Acting
    <3> QED BY <2>1, <2>4, <2>5, <3>1, <3>2, <1>1 DEF IInv, OwnRow
  <2>8. CapHolds'
    <3> SUFFICES ASSUME NEW s \in Referrers
                 PROVE  (Cardinality(Invited(s)) <= Cap + Cardinality(Creating(s)) + died.creating)'
      BY DEF CapHolds
    <3>1. Cardinality(Invited(s)) <= Cap + Cardinality(Creating(s)) + died.creating
      BY DEF IInv, CapHolds
    <3>2. CASE s # r
      <4>1. Invited(s)' = Invited(s)
        BY <1>1, <1>3, <2>5, <3>2 DEF Invited
      <4>2. Creating(s)' = Creating(s)
        BY <1>1, <2>1, <2>4, <3>2 DEF Creating, InCreation
      <4> QED BY <2>3, <3>1, <4>1, <4>2
    <3>3. CASE s = r
      <4>1. Invited(s)' = Invited(s) \cup {u} /\ u \notin Invited(s)
        BY <1>1, <1>3, <2>5, <3>3 DEF Invited
      <4>2. Creating(s)' = Creating(s) \cup {p} /\ p \notin Creating(s)
        BY <1>1, <2>1, <2>4, <3>3 DEF Creating, InCreation
      <4>3. Cardinality(Invited(s) \cup {u}) = Cardinality(Invited(s)) + 1
        BY <4>1, InvitedIsFinite, FS_AddElement
      <4>4. Cardinality(Creating(s) \cup {p}) = Cardinality(Creating(s)) + 1
        BY <4>2, CreatingIsFinite, FS_AddElement
      <4> QED BY <2>3, <3>1, <4>1, <4>2, <4>3, <4>4, InvitedIsFinite, CreatingIsFinite,
                 ReferralsAssumption DEF IInv, Typed
    <3> QED BY <3>2, <3>3
  <2>9. GrantsAreClaimed'
    BY <2>1, <2>3, <2>4 DEF IInv, GrantsAreClaimed
  <2>10. OneGranter'
    BY <2>1, <2>3, <2>4 DEF IInv, OneGranter, Prize
  <2> QED BY <2>6, <2>7, <2>8, <2>9, <2>10 DEF IInv
<1> QED BY <1>2, <1>3

LEMMA RecountInv ==
    ASSUME IInv, NEW p \in Processes, Recount(p)
    PROVE  IInv'
<1> DEFINE r == proc[p].by
           pc == IF Cardinality(Invited(r)) > Cap THEN "rollback" ELSE "bump"
           x == [proc[p] EXCEPT !.pc = pc]
<1>1. proc[p] \in Acting /\ InCreation(proc[p]) /\ r \in Referrers
  BY DoingFields DEF Recount, InCreation, IInv, Typed, Acting
<1>2. /\ pc \in {"rollback", "bump"}
      /\ pc = "bump" => Cardinality(Invited(r)) <= Cap
  BY InvitedIsFinite, ReferralsAssumption
<1> HIDE DEF pc
<1>3. x \in Acting /\ x.pc = pc /\ x.user = proc[p].user /\ x.by = r
  BY <1>1, <1>2 DEF Acting
<1>4. proc' = [proc EXCEPT ![p] = x]
  BY GotoIs DEF Recount, IInv, pc
<1> HIDE DEF x
<1>5. proc'[p] = x /\ \A q \in Processes : q # p => proc'[q] = proc[q]
  BY <1>4 DEF IInv, Typed
<1>6. UNCHANGED <<row, claimed, stats, granted, lost, died>>
  BY DEF Recount, history
<1>7. Typed'
  BY <1>3, <1>4, <1>6 DEF IInv, Typed, Doing
<1>8. OwnRow'
  BY <1>1, <1>2, <1>3, <1>5, <1>6 DEF IInv, OwnRow
<1>9. CapHolds'
  <2> SUFFICES ASSUME NEW s \in Referrers
               PROVE  (Cardinality(Invited(s)) <= Cap + Cardinality(Creating(s)) + died.creating)'
    BY DEF CapHolds
  <2>1. Cardinality(Invited(s)) <= Cap + Cardinality(Creating(s)) + died.creating
    BY DEF IInv, CapHolds
  <2>2. Invited(s)' = Invited(s)
    BY <1>6 DEF Invited
  <2>3. CASE s # r \/ pc = "rollback"
    <3>1. Creating(s)' = Creating(s)
      BY <1>1, <1>2, <1>3, <1>5, <2>3 DEF Creating, InCreation
    <3> QED BY <1>6, <2>1, <2>2, <3>1
  <2>4. CASE s = r /\ pc = "bump"
    <3>1. Creating(s)' \subseteq Processes
      BY DEF Creating
    <3>2. Cardinality(Creating(s)') \in Nat
      BY <3>1, ReferralsAssumption, FS_Subset, FS_CardinalityType
    <3> QED BY <1>2, <1>6, <2>2, <2>4, <3>2, InvitedIsFinite, ReferralsAssumption DEF IInv, Typed
  <2> QED BY <1>2, <2>3, <2>4
<1>10. GrantsAreClaimed'
  BY <1>2, <1>3, <1>5, <1>6 DEF IInv, GrantsAreClaimed
<1>11. OneGranter'
  BY <1>2, <1>3, <1>5, <1>6 DEF IInv, OneGranter, Prize
<1> QED BY <1>7, <1>8, <1>9, <1>10, <1>11 DEF IInv

LEMMA RollBackInv ==
    ASSUME IInv, NEW p \in Processes, RollBack(p)
    PROVE  IInv'
<1> DEFINE u == proc[p].user
           r == proc[p].by
<1>1. InCreation(proc[p]) /\ u \in Users /\ r \in Referrers
  BY DoingFields DEF RollBack, InCreation, IInv, Typed, Acting
<1>2. proc'[p] = Idle /\ \A q \in Processes : q # p => proc'[q] = proc[q]
  BY DEF RollBack, Done, IInv, Typed
<1>3. row'[u] = None /\ \A v \in Users : v # u => row'[v] = row[v]
  BY <1>1 DEF RollBack, IInv, Typed
<1>4. UNCHANGED <<claimed, stats, granted, lost, died>>
  BY DEF RollBack, history
<1>5. row[u] # None /\ row[u].by = r
  BY <1>1 DEF IInv, OwnRow
<1>6. Typed'
  BY <1>4 DEF RollBack, Done, IInv, Typed, Doing
<1>7. OwnRow'
  <2>1. \A q \in Processes : InCreation(proc[q]) => proc[q].user \in Users
    BY DoingFields DEF InCreation, IInv, Typed, Acting
  <2>2. \A q \in Processes : InCreation(proc'[q]) => q # p /\ proc[q].user # u
    BY <1>1, <1>2 DEF IInv, OwnRow, InCreation, Idle
  <2> QED BY <1>1, <1>2, <1>3, <2>1, <2>2 DEF IInv, OwnRow
<1>8. CapHolds'
  <2> SUFFICES ASSUME NEW s \in Referrers
               PROVE  (Cardinality(Invited(s)) <= Cap + Cardinality(Creating(s)) + died.creating)'
    BY DEF CapHolds
  <2>1. Cardinality(Invited(s)) <= Cap + Cardinality(Creating(s)) + died.creating
    BY DEF IInv, CapHolds
  <2>2. CASE s # r
    <3>1. Invited(s)' = Invited(s)
      BY <1>3, <1>5, <2>2 DEF Invited
    <3>2. Creating(s)' = Creating(s)
      BY <1>1, <1>2, <2>2 DEF Creating, InCreation, Idle
    <3> QED BY <1>4, <2>1, <3>1, <3>2
  <2>3. CASE s = r
    <3>1. Invited(s)' = Invited(s) \ {u} /\ u \in Invited(s)
      BY <1>1, <1>3, <1>5, <2>3 DEF Invited
    <3>2. Creating(s)' = Creating(s) \ {p} /\ p \in Creating(s)
      BY <1>1, <1>2, <2>3 DEF Creating, InCreation, Idle
    <3>3. Cardinality(Invited(s) \ {u}) = Cardinality(Invited(s)) - 1
      BY <3>1, InvitedIsFinite, FS_RemoveElement
    <3>4. Cardinality(Creating(s) \ {p}) = Cardinality(Creating(s)) - 1
      BY <3>2, CreatingIsFinite, FS_RemoveElement
    <3> QED BY <1>4, <2>1, <3>1, <3>2, <3>3, <3>4, InvitedIsFinite, CreatingIsFinite,
               ReferralsAssumption DEF IInv, Typed
  <2> QED BY <2>2, <2>3
<1>9. GrantsAreClaimed'
  BY <1>2, <1>4 DEF IInv, GrantsAreClaimed, Idle
<1>10. OneGranter'
  BY <1>2, <1>4 DEF IInv, OneGranter, Prize, Idle
<1> QED BY <1>6, <1>7, <1>8, <1>9, <1>10 DEF IInv

LEMMA MarkInv ==
    ASSUME IInv, NEW p \in Processes, Mark(p)
    PROVE  IInv'
<1> DEFINE u == proc[p].user
           Marked(pc) == [proc[p] EXCEPT !.pc = pc, !.by = row[u].by]
<1>1. proc[p] \in Acting /\ ~InCreation(proc[p]) /\ u \in Users
  BY DoingFields DEF Mark, InCreation, IInv, Typed, Acting
<1>2. UNCHANGED <<claimed, stats, granted, lost, died>>
  BY DEF Mark, history
<1>3. CASE row[u] = None
  <2>1. Idle \in Doing /\ ~InCreation(Idle) /\ Idle.pc # "grant"
    BY DEF Doing, InCreation, Idle
  <2>2. row' = row /\ proc' = [proc EXCEPT ![p] = Idle]
    BY <1>3 DEF Mark, Done, None
  <2> QED BY <1>1, <1>2, <2>1, <2>2, Elsewhere DEF IInv, Typed
<1>4. ASSUME row[u] # None, NEW pc \in {"bumpq", "aggregate"}
      PROVE  Marked(pc) \in Acting /\ Marked(pc).pc = pc
  <2>1. row[u].by \in Referrers
    BY <1>1, <1>4 DEF IInv, Typed
  <2> QED BY <1>1, <1>4, <2>1 DEF Acting
<1>5. CASE row[u] # None /\ row[u].status # "pending"
  <2>1. row' = row /\ proc' = [proc EXCEPT ![p] = Marked("aggregate")]
    <3>1. row' = row /\ proc' = [proc EXCEPT ![p].pc = "aggregate", ![p].by = row[u].by]
      BY <1>5 DEF Mark
    <3> QED BY <3>1 DEF IInv, Typed
  <2>2. Marked("aggregate") \in Acting /\ Marked("aggregate").pc = "aggregate"
    BY <1>4, <1>5
  <2> HIDE DEF Marked
  <2>3. Marked("aggregate") \in Doing /\ ~InCreation(Marked("aggregate"))
    BY <2>2 DEF Doing, InCreation
  <2> QED BY <1>1, <1>2, <2>1, <2>2, <2>3, Elsewhere DEF IInv, Typed
<1>6. CASE row[u] # None /\ row[u].status = "pending"
  <2> DEFINE x == Marked("bumpq")
  <2>1. row' = [row EXCEPT ![u].status = "qualified"] /\ proc' = [proc EXCEPT ![p] = x]
    <3>1. /\ row' = [row EXCEPT ![u].status = "qualified"]
          /\ proc' = [proc EXCEPT ![p].pc = "bumpq", ![p].by = row[u].by]
      BY <1>6 DEF Mark
    <3> QED BY <3>1 DEF IInv, Typed
  <2>2. x \in Acting /\ x.pc = "bumpq"
    BY <1>4, <1>6
  <2> HIDE DEF x
  <2>3. proc'[p] = x /\ \A q \in Processes : q # p => proc'[q] = proc[q]
    BY <2>1 DEF IInv, Typed
  <2>4. /\ row'[u] # None /\ row'[u].by = row[u].by
        /\ \A v \in Users : v # u => row'[v] = row[v]
    BY <1>1, <1>6, <2>1 DEF IInv, Typed, None
  <2>5. Typed'
    BY <1>1, <1>2, <1>6, <2>1, <2>2 DEF IInv, Typed, Doing
  <2>6. OwnRow'
    <3>1. \A q \in Processes : InCreation(proc[q]) => proc[q].user \in Users
      BY DoingFields DEF InCreation, IInv, Typed, Acting
    <3> QED BY <1>6, <2>2, <2>3, <2>4, <3>1 DEF IInv, OwnRow, InCreation
  <2>7. CapHolds'
    <3> SUFFICES ASSUME NEW s \in Referrers
                 PROVE  (Cardinality(Invited(s)) <= Cap + Cardinality(Creating(s)) + died.creating)'
      BY DEF CapHolds
    <3>1. Invited(s)' = Invited(s)
      BY <1>6, <2>4 DEF Invited
    <3>2. Creating(s)' = Creating(s)
      BY <1>1, <2>2, <2>3 DEF Creating, InCreation
    <3> QED BY <1>2, <3>1, <3>2 DEF IInv, CapHolds
  <2>8. GrantsAreClaimed'
    BY <1>2, <2>2, <2>3 DEF IInv, GrantsAreClaimed
  <2>9. OneGranter'
    BY <1>2, <2>2, <2>3 DEF IInv, OneGranter, Prize
  <2> QED BY <2>5, <2>6, <2>7, <2>8, <2>9 DEF IInv
<1> QED BY <1>3, <1>5, <1>6

---------------------------------------------------------------------------
(* Steps on the claims and the ledger, and a handler that dies *)

LEMMA ClaimInv ==
    ASSUME IInv, NEW p \in Processes, Claim(p)
    PROVE  IInv'
<1> DEFINE r == proc[p].by
           ms == Min(proc[p].todo)
<1>1. proc[p] \in Claiming /\ ~InCreation(proc[p])
  BY DoingFields DEF Claim, InCreation, IInv, Typed
<1>2. r \in Referrers /\ proc[p].todo \in Todo /\ ms \in Milestones /\ proc[p].qualified \in Nat
  BY <1>1, MinIsIn DEF Claiming
<1>3. UNCHANGED <<row, granted, lost, died>>
  BY DEF Claim, history
<1>4. CASE proc' = [proc EXCEPT ![p] = After(p)] /\ UNCHANGED <<claimed, stats>>
  <2>1. After(p) \in Doing /\ ~InCreation(After(p)) /\ After(p).pc # "grant"
    BY LoopOn DEF Claim, IInv
  <2> QED BY <1>1, <1>3, <1>4, <2>1, Elsewhere DEF IInv, Typed
<1>5. CASE ms \notin claimed[r] /\ Take(p, r, ms)
  <2> DEFINE x == [pc |-> "grant", by |-> r, todo |-> proc[p].todo]
  <2>1. x \in Looping /\ x.pc = "grant" /\ x.by = r /\ Min(x.todo) = ms
    BY <1>2 DEF Looping
  <2>2. /\ claimed' = [claimed EXCEPT ![r] = @ \cup {ms}]
        /\ stats' = [stats EXCEPT ![r].qualified = proc[p].qualified]
        /\ proc' = [proc EXCEPT ![p] = x]
    BY <1>5 DEF Take, IInv, Typed
  <2> HIDE DEF x
  <2>3. proc'[p] = x /\ \A q \in Processes : q # p => proc'[q] = proc[q]
    BY <2>2 DEF IInv, Typed
  <2>4. ms \in claimed'[r] /\ \A s \in Referrers : claimed[s] \subseteq claimed'[s]
    BY <1>2, <2>2 DEF IInv, Typed
  <2>5. Typed'
    BY <1>2, <1>3, <2>1, <2>2 DEF IInv, Typed, Doing
  <2>6. OwnRow'
    BY <1>1, <1>3, <2>1, <2>3 DEF IInv, OwnRow, InCreation
  <2>7. CapHolds'
    <3> SUFFICES ASSUME NEW s \in Referrers
                 PROVE  (Cardinality(Invited(s)) <= Cap + Cardinality(Creating(s)) + died.creating)'
      BY DEF CapHolds
    <3>1. Invited(s)' = Invited(s)
      BY <1>3 DEF Invited
    <3>2. Creating(s)' = Creating(s)
      BY <1>1, <2>1, <2>3 DEF Creating, InCreation
    <3> QED BY <1>3, <3>1, <3>2 DEF IInv, CapHolds
  <2>8. GrantsAreClaimed'
    <3>1. \A q \in Processes : proc[q].pc = "grant" => proc[q].by \in Referrers
      BY DoingFields DEF IInv, Typed, Looping
    <3> QED BY <1>3, <2>1, <2>3, <2>4, <3>1 DEF IInv, GrantsAreClaimed
  <2>9. OneGranter'
    <3>1. <<r, ms>> \notin granted
      BY <1>2, <1>5 DEF IInv, GrantsAreClaimed
    <3>2. \A q \in Processes : proc[q].pc = "grant" => Prize(q) # <<r, ms>>
      BY <1>5 DEF IInv, GrantsAreClaimed, Prize
    <3>3. Prize(p)' = <<r, ms>>
      BY <2>1, <2>3 DEF Prize
    <3>4. \A q \in Processes : q # p => Prize(q)' = Prize(q) /\ proc'[q].pc = proc[q].pc
      BY <2>3 DEF Prize
    <3> QED BY <1>3, <3>1, <3>2, <3>3, <3>4 DEF IInv, OneGranter
  <2> QED BY <2>5, <2>6, <2>7, <2>8, <2>9 DEF IInv
<1> QED BY <1>4, <1>5 DEF Claim

LEMMA GrantInv ==
    ASSUME IInv, NEW p \in Processes, Grant(p)
    PROVE  IInv'
<1>1. After(p) \in Doing /\ ~InCreation(After(p)) /\ After(p).pc # "grant" /\ ~InCreation(proc[p])
  BY LoopOn DEF Grant, InCreation, IInv
<1>2. UNCHANGED <<row, claimed, stats, lost, died>> /\ granted' = granted \cup {Prize(p)}
  BY DEF Grant, history
<1>3. proc'[p] = After(p) /\ \A q \in Processes : q # p => proc'[q] = proc[q]
  BY DEF Grant, IInv, Typed
<1>4. Typed'
  BY <1>1, <1>2, PrizeTyped DEF Grant, IInv, Typed
<1>5. OwnRow'
  BY <1>1, <1>2, <1>3 DEF IInv, OwnRow
<1>6. CapHolds'
  <2> SUFFICES ASSUME NEW s \in Referrers
               PROVE  (Cardinality(Invited(s)) <= Cap + Cardinality(Creating(s)) + died.creating)'
    BY DEF CapHolds
  <2>1. Invited(s)' = Invited(s)
    BY <1>2 DEF Invited
  <2>2. Creating(s)' = Creating(s)
    BY <1>1, <1>3 DEF Creating, InCreation
  <2> QED BY <1>2, <2>1, <2>2 DEF IInv, CapHolds
<1>7. GrantsAreClaimed'
  <2>1. \A q \in Processes : proc'[q].pc = "grant" => proc'[q] = proc[q]
    BY <1>1, <1>3
  <2>2. Min(proc[p].todo) \in claimed[proc[p].by]
    BY DEF Grant, IInv, GrantsAreClaimed
  <2> QED BY <1>2, <2>1, <2>2 DEF IInv, GrantsAreClaimed, Prize
<1>8. OneGranter'
  <2>1. \A q \in Processes : proc'[q].pc = "grant" => q # p /\ proc'[q] = proc[q]
    BY <1>1, <1>3
  <2>2. \A q \in Processes : proc'[q].pc = "grant" => Prize(q)' = Prize(q) /\ Prize(q) # Prize(p)
    BY <2>1 DEF Grant, IInv, OneGranter, Prize
  <2> QED BY <1>2, <2>1, <2>2 DEF IInv, OneGranter
<1> QED BY <1>4, <1>5, <1>6, <1>7, <1>8 DEF IInv

LEMMA DieInv ==
    ASSUME IInv, NEW p \in Processes, Die(p)
    PROVE  IInv'
<1>1. proc' = [proc EXCEPT ![p] = Idle] /\ UNCHANGED <<row, claimed, stats, granted>>
  BY DEF Die, Done
<1>2. lost' \subseteq Referrers \X Milestones
  BY PrizeTyped DEF Die, IInv, Typed
<1>3. Idle \in Doing /\ ~InCreation(Idle) /\ Idle.pc # "grant"
  BY DEF Doing, InCreation, Idle
<1>4. CASE ~InCreation(proc[p])
  <2>1. died' \in [creating : Nat, elsewhere : Nat] /\ died'.creating = died.creating
    BY <1>4 DEF Die, InCreation, IInv, Typed
  <2> QED BY <1>1, <1>2, <1>3, <1>4, <2>1, Elsewhere DEF IInv, Typed
<1>5. CASE InCreation(proc[p])
  <2>1. died' \in [creating : Nat, elsewhere : Nat] /\ died'.creating = died.creating + 1
    BY <1>5 DEF Die, InCreation, IInv, Typed
  <2>2. proc'[p] = Idle /\ \A q \in Processes : q # p => proc'[q] = proc[q]
    BY <1>1 DEF IInv, Typed
  <2>3. Typed'
    BY <1>1, <1>2, <1>3, <2>1 DEF IInv, Typed
  <2>4. OwnRow'
    BY <1>1, <1>3, <2>2 DEF IInv, OwnRow
  <2>5. CapHolds'
    <3> SUFFICES ASSUME NEW s \in Referrers
                 PROVE  (Cardinality(Invited(s)) <= Cap + Cardinality(Creating(s)) + died.creating)'
      BY DEF CapHolds
    <3>1. Cardinality(Invited(s)) <= Cap + Cardinality(Creating(s)) + died.creating
      BY DEF IInv, CapHolds
    <3>2. Invited(s)' = Invited(s)
      BY <1>1 DEF Invited
    <3>3. Creating(s)' = Creating(s) \ {p}
      BY <1>3, <2>2 DEF Creating, InCreation
    <3>4. Cardinality(Creating(s) \ {p}) >= Cardinality(Creating(s)) - 1
      <4>1. CASE p \in Creating(s)
        BY <4>1, CreatingIsFinite, FS_RemoveElement
      <4>2. CASE p \notin Creating(s)
        <5>1. Creating(s) \ {p} = Creating(s)
          BY <4>2
        <5> QED BY <5>1, CreatingIsFinite
      <4> QED BY <4>1, <4>2
    <3>5. Cardinality(Creating(s) \ {p}) \in Nat
      BY CreatingIsFinite, FS_Subset, FS_CardinalityType
    <3> QED BY <2>1, <3>1, <3>2, <3>3, <3>4, <3>5, InvitedIsFinite, CreatingIsFinite,
               ReferralsAssumption DEF IInv, Typed
  <2>6. GrantsAreClaimed'
    BY <1>1, <1>3, <2>2 DEF IInv, GrantsAreClaimed
  <2>7. OneGranter'
    BY <1>1, <1>3, <2>2 DEF IInv, OneGranter, Prize
  <2> QED BY <2>3, <2>4, <2>5, <2>6, <2>7 DEF IInv
<1> QED BY <1>4, <1>5

---------------------------------------------------------------------------
(* Theorems *)

LEMMA NextInv == IInv /\ [Next]_vars => IInv'
<1> SUFFICES ASSUME IInv, [Next]_vars PROVE IInv'
  OBVIOUS
<1>1. CASE UNCHANGED vars
  BY <1>1 DEF vars, IInv, Typed, OwnRow, InCreation, CapHolds, Invited, Creating,
              GrantsAreClaimed, OneGranter, Prize
<1>2. ASSUME NEW p \in Processes, NEW r \in Referrers, NEW u \in Users, Register(p, r, u)
      PROVE  IInv'
  BY <1>2, RegisterInv
<1>3. ASSUME NEW p \in Processes, NEW u \in Users, Use(p, u)
      PROVE  IInv'
  BY <1>3, UseInv
<1>4. ASSUME NEW p \in Processes, Steps(p)
      PROVE  IInv'
  BY <1>4, InsertInv, RecountInv, RollBackInv, BumpsInv, MarkInv, AggregateInv, RebuildInv,
     CountInv, CheckInv, ClaimInv, GrantInv DEF Steps
<1>5. ASSUME NEW p \in Processes, GrantFails(p) \/ Die(p)
      PROVE  IInv'
  BY <1>5, GrantFailsInv, DieInv
<1> QED BY <1>1, <1>2, <1>3, <1>4, <1>5 DEF Next

LEMMA Inductive == Spec => []IInv
<1>1. Init => IInv
  BY InitInv
<1>2. IInv /\ [Next]_vars => IInv'
  BY NextInv
<1> QED BY <1>1, <1>2, PTL DEF Spec

\* The rows, the claims, the counters, the ledger and the handlers keep
\* their types (mongo_repository.py, referral_handlers.py).
THEOREM ReferralsTyping == Spec => []TypeOK
<1>1. IInv => TypeOK
  <2> SUFFICES ASSUME IInv PROVE TypeOK
    OBVIOUS
  <2>1. \A p \in Processes : proc[p] # Idle => proc[p].by \in Referrers
    BY DoingFields DEF IInv, Typed
  <2> QED BY <2>1 DEF IInv, Typed, TypeOK
<1> QED BY <1>1, Inductive, PTL

\* The cap on a referrer's invitations is exceeded at most by the inserts
\* that are about to count again and by those that died before they did
\* (create_pending, mongo_repository.py:125).
THEOREM InvitesCapped == Spec => []CapHolds
<1>1. IInv => CapHolds
  BY DEF IInv
<1> QED BY <1>1, Inductive, PTL

\* A milestone that a handler is crediting was credited by nobody and is
\* being credited by nobody else (claim_milestone_slot,
\* mongo_repository.py:260).
THEOREM RewardHasOneGranter == Spec => []OneGranter
<1>1. IInv => OneGranter
  BY DEF IInv
<1> QED BY <1>1, Inductive, PTL

---------------------------------------------------------------------------
(* Milestones: every one that was reached is claimed or will be *)

\* The handler will come to the milestone: it has yet to count, or the
\* milestone is among those it goes through.
Pursues(x, r, ms) ==
    /\ \/ x.pc \in {"bumpq", "aggregate", "rebuild", "count"}
       \/ x.pc \in {"check", "claim", "grant"} /\ ms \in x.todo
    /\ x.by = r

Pursued(r, ms) == ms \in claimed[r] \/ \E p \in Processes : Pursues(proc[p], r, ms)
NoneForgotten == died.elsewhere = 0 =>
    \A r \in Referrers, ms \in Milestones : ms \in Earned(r) => Pursued(r, ms)

LEMMA QualifiedShrinks ==
    ASSUME NEW r, Qualified(r)' \subseteq Qualified(r)
    PROVE  Earned(r)' \subseteq Earned(r)
<1>1. IsFiniteSet(Qualified(r))
  <2>1. Qualified(r) \in SUBSET Users
    BY DEF Qualified, Invited
  <2> QED BY <2>1, ReferralsAssumption, FS_Subset
<1>2. Qualified(r)' \in SUBSET Qualified(r)
  OBVIOUS
<1>3. /\ Cardinality(Qualified(r)') <= Cardinality(Qualified(r))
      /\ Cardinality(Qualified(r)) \in Nat /\ Cardinality(Qualified(r)') \in Nat
  BY <1>1, <1>2, FS_Subset, FS_CardinalityType
<1>4. Earned(r)' = {ms \in Milestones : ms <= Cardinality(Qualified(r)')}
  BY DEF Earned
<1>5. Milestones \subseteq Nat
  BY ReferralsAssumption
<1>6. ASSUME NEW ms \in Milestones, ms <= Cardinality(Qualified(r)')
      PROVE  ms <= Cardinality(Qualified(r))
  BY <1>3, <1>5, <1>6
<1> QED BY <1>4, <1>6 DEF Earned

\* A step forgets no milestone when nothing more is earned, no claim goes
\* away and the handler keeps what it pursues that is not claimed.
LEMMA Remembers ==
    ASSUME IInv, NoneForgotten, NEW p \in Processes, NEW x,
           proc' = [proc EXCEPT ![p] = x],
           died'.elsewhere = died.elsewhere,
           \A r \in Referrers : claimed[r] \subseteq claimed'[r],
           \A r \in Referrers : Qualified(r)' \subseteq Qualified(r),
           \A r \in Referrers, ms \in Milestones :
               ms \in Earned(r) /\ Pursues(proc[p], r, ms) => ms \in claimed'[r] \/ Pursues(x, r, ms)
    PROVE  NoneForgotten'
<1> SUFFICES ASSUME died.elsewhere = 0, NEW r \in Referrers, NEW ms \in Milestones, ms \in Earned(r)'
             PROVE  Pursued(r, ms)'
  BY DEF NoneForgotten
<1>1. ms \in Earned(r)
  BY QualifiedShrinks
<1>2. proc'[p] = x /\ \A q \in Processes : q # p => proc'[q] = proc[q]
  BY DEF IInv, Typed
<1>3. Pursued(r, ms)
  BY <1>1 DEF NoneForgotten
<1>4. CASE ms \in claimed[r]
  BY <1>4 DEF Pursued
<1>5. CASE \E q \in Processes : Pursues(proc[q], r, ms)
  <2>1. PICK q \in Processes : Pursues(proc[q], r, ms)
    BY <1>5
  <2>2. CASE q = p
    BY <1>1, <1>2, <2>1, <2>2 DEF Pursued
  <2>3. CASE q # p
    <3>1. proc'[q] = proc[q]
      BY <1>2, <2>3
    <3> QED BY <2>1, <3>1 DEF Pursued
  <2> QED BY <2>2, <2>3
<1> QED BY <1>3, <1>4, <1>5 DEF Pursued

\* Rows that are not qualified may come and go, and any row may go.
LEMMA RowsShrink ==
    ASSUME \A u \in Users : row'[u] # None /\ row'[u].status = "qualified" => row'[u] = row[u]
    PROVE  \A r \in Referrers : Qualified(r)' \subseteq Qualified(r)
  BY DEF Qualified, Invited

Idles(x) == x.pc \in {"idle", "insert", "recount", "rollback", "bump", "mark"}
OnlyForgets == \A u \in Users : row'[u] # None /\ row'[u].status = "qualified" => row'[u] = row[u]

\* A handler that pursues nothing may go anywhere but for marking a user.
LEMMA IdlersRemember ==
    ASSUME IInv, NoneForgotten, NEW p \in Processes, NEW x,
           Idles(proc[p]),
           proc' = [proc EXCEPT ![p] = x], claimed' = claimed, died'.elsewhere = died.elsewhere,
           OnlyForgets
    PROVE  NoneForgotten'
<1>1. \A r, ms : ~Pursues(proc[p], r, ms)
  BY DEF Pursues, Idles
<1>2. \A r \in Referrers : Qualified(r)' \subseteq Qualified(r)
  BY RowsShrink DEF OnlyForgets
<1> QED BY <1>1, <1>2, Remembers

\* A handler on its way to the count goes on to it.
LEMMA GoersRemember ==
    ASSUME IInv, NoneForgotten, NEW p \in Processes, BumpQualified(p) \/ Aggregate(p) \/ Rebuild(p)
    PROVE  NoneForgotten'
<1> DEFINE Going(x) == x.by = proc[p].by /\ x.pc \in {"aggregate", "rebuild", "count"}
<1>1. PICK x : Going(x) /\ proc' = [proc EXCEPT ![p] = x]
  <2>1. CASE Aggregate(p)
    BY <2>1 DEF Aggregate
  <2>2. ASSUME NEW pc \in {"aggregate", "count"}, Goto(p, pc)
        PROVE  \E x : Going(x) /\ proc' = [proc EXCEPT ![p] = x]
    <3> DEFINE x == [proc[p] EXCEPT !.pc = pc]
    <3>1. proc[p] \in Doing
      BY DEF IInv, Typed
    <3>2. Going(x)
      BY <3>1 DEF Doing, Acting, Counted, Looping, Claiming, Idle
    <3>3. proc' = [proc EXCEPT ![p] = x]
      BY <2>2, GotoIs DEF IInv
    <3> HIDE DEF x, Going
    <3> QED BY <3>2, <3>3
  <2> QED BY <2>1, <2>2 DEF BumpQualified, Rebuild
<1>2. UNCHANGED <<row, claimed, died>>
  BY DEF BumpQualified, Aggregate, Rebuild, history
<1>3. \A r, ms : Pursues(proc[p], r, ms) => Pursues(x, r, ms)
  BY <1>1 DEF Pursues, BumpQualified, Aggregate, Rebuild
<1> QED BY <1>1, <1>2, <1>3, RowsShrink, Remembers

\* Counting puts before a handler all that is earned.
LEMMA CountRemembers ==
    ASSUME IInv, NoneForgotten, NEW p \in Processes, Count(p)
    PROVE  NoneForgotten'
<1> DEFINE x == Loop(proc[p].by, Earned(proc[p].by))
<1>1. proc' = [proc EXCEPT ![p] = x] /\ UNCHANGED <<row, claimed, died>>
  BY DEF Count, history
<1>2. \A r, ms : ms \in Earned(r) /\ Pursues(proc[p], r, ms) => Pursues(x, r, ms)
  <2> SUFFICES ASSUME NEW ms \in Earned(proc[p].by)
               PROVE  Pursues(x, proc[p].by, ms)
    BY DEF Pursues, Count
  <2> QED BY DEF Loop, Pursues
<1> HIDE DEF x
<1> QED BY <1>1, <1>2, RowsShrink, Remembers

\* The loop drops a milestone that is out of reach or claimed.
LEMMA AfterPursues ==
    ASSUME NEW p \in Processes, proc[p].pc \in {"check", "claim", "grant"}, NEW r, NEW ms,
           Pursues(proc[p], r, ms), ms # Min(proc[p].todo)
    PROVE  Pursues(After(p), r, ms)
<1>1. ms \in proc[p].todo \ {Min(proc[p].todo)} /\ proc[p].by = r
  BY DEF Pursues
<1> DEFINE rest == proc[p].todo \ {Min(proc[p].todo)}
<1>2. After(p) = [pc |-> "check", by |-> r, todo |-> rest]
  BY <1>1 DEF After, Loop
<1> QED BY <1>1, <1>2 DEF Pursues

LEMMA CheckRemembers ==
    ASSUME IInv, NoneForgotten, NEW p \in Processes, Check(p)
    PROVE  NoneForgotten'
<1> DEFINE m == Min(proc[p].todo)
           y == [pc |-> "claim", by |-> proc[p].by, todo |-> proc[p].todo,
                 qualified |-> Cardinality(Qualified(proc[p].by))]
           x == IF m \notin Earned(proc[p].by) THEN After(p) ELSE y
<1>1. proc' = [proc EXCEPT ![p] = x] /\ UNCHANGED <<row, claimed, died>>
  BY DEF Check, history, IInv, Typed
<1>2. proc[p].pc = "check"
  BY DEF Check
<1>3. \A r, ms : Pursues(proc[p], r, ms) => Pursues(y, r, ms)
  BY <1>2 DEF Pursues
<1>4. \A r, ms : ms \in Earned(r) /\ Pursues(proc[p], r, ms) => Pursues(x, r, ms)
  <2> SUFFICES ASSUME NEW r, NEW ms, ms \in Earned(r), Pursues(proc[p], r, ms)
               PROVE  Pursues(x, r, ms)
    OBVIOUS
  <2>1. r = proc[p].by
    BY DEF Pursues
  <2> HIDE DEF y
  <2>2. CASE m \in Earned(proc[p].by)
    BY <1>3, <2>2
  <2>3. CASE m \notin Earned(proc[p].by)
    BY <1>2, <2>1, <2>3, AfterPursues
  <2> QED BY <2>2, <2>3
<1> HIDE DEF x
<1> QED BY <1>1, <1>4, RowsShrink, Remembers

LEMMA ClaimRemembers ==
    ASSUME IInv, NoneForgotten, NEW p \in Processes, Claim(p)
    PROVE  NoneForgotten'
<1> DEFINE r == proc[p].by
           m == Min(proc[p].todo)
<1>1. proc[p].pc = "claim" /\ UNCHANGED <<row, died>>
  BY DEF Claim, history
<1>2. CASE m \notin claimed[r] /\ Take(p, r, m)
  <2> DEFINE x == [pc |-> "grant", by |-> r, todo |-> proc[p].todo]
  <2>1. proc' = [proc EXCEPT ![p] = x] /\ claimed' = [claimed EXCEPT ![r] = @ \cup {m}]
    BY <1>2 DEF Take, IInv, Typed
  <2>2. \A s \in Referrers : claimed[s] \subseteq claimed'[s]
    BY <2>1 DEF IInv, Typed
  <2>3. \A s, ms : Pursues(proc[p], s, ms) => Pursues(x, s, ms)
    BY <1>1 DEF Pursues
  <2> HIDE DEF x
  <2> QED BY <1>1, <2>1, <2>2, <2>3, RowsShrink, Remembers
<1>3. CASE m \in claimed[r] /\ proc' = [proc EXCEPT ![p] = After(p)] /\ claimed' = claimed
  <2>1. \A s, ms : Pursues(proc[p], s, ms) => ms \in claimed[s] \/ Pursues(After(p), s, ms)
    <3> SUFFICES ASSUME NEW s, NEW ms, Pursues(proc[p], s, ms), ms \notin claimed[s]
                 PROVE  Pursues(After(p), s, ms)
      OBVIOUS
    <3>1. s = r
      BY DEF Pursues
    <3> QED BY <1>1, <1>3, <3>1, AfterPursues
  <2> QED BY <1>1, <1>3, <2>1, RowsShrink, Remembers
<1> QED BY <1>2, <1>3 DEF Claim

LEMMA GrantRemembers ==
    ASSUME IInv, NoneForgotten, NEW p \in Processes, Grant(p) \/ GrantFails(p)
    PROVE  NoneForgotten'
<1> DEFINE r == proc[p].by
           m == Min(proc[p].todo)
<1>1. /\ proc[p].pc = "grant" /\ proc' = [proc EXCEPT ![p] = After(p)]
      /\ UNCHANGED <<row, claimed, died>>
  BY DEF Grant, GrantFails, history
<1>2. m \in claimed[r]
  BY <1>1 DEF IInv, GrantsAreClaimed
<1>3. \A s, ms : Pursues(proc[p], s, ms) => ms \in claimed[s] \/ Pursues(After(p), s, ms)
  <2> SUFFICES ASSUME NEW s, NEW ms, Pursues(proc[p], s, ms), ms \notin claimed[s]
               PROVE  Pursues(After(p), s, ms)
    OBVIOUS
  <2>1. s = r
    BY DEF Pursues
  <2> QED BY <1>1, <1>2, <2>1, AfterPursues
<1> QED BY <1>1, <1>3, RowsShrink, Remembers

\* Marking a user may earn a milestone of the referrer, and the handler then
\* goes on to count for that referrer.
LEMMA MarkRemembers ==
    ASSUME IInv, NoneForgotten, NEW p \in Processes, Mark(p)
    PROVE  NoneForgotten'
<1> DEFINE u == proc[p].user
           Marked(pc) == [proc[p] EXCEPT !.pc = pc, !.by = row[u].by]
<1>1. proc[p].pc = "mark" /\ UNCHANGED <<claimed, died>> /\ proc[p] \in Acting /\ u \in Users
  BY DoingFields DEF Mark, history, IInv, Typed, Acting
<1>2. CASE row' = row
  <2>1. PICK x : proc' = [proc EXCEPT ![p] = x]
    <3>1. proc' = [proc EXCEPT ![p] = proc'[p]]
      <4>1. CASE row[u] = None
        BY <1>1, <4>1 DEF Mark, Done, IInv, Typed
      <4>2. CASE row[u] # None
        <5>1. row[u].status # "pending"
          BY <1>1, <1>2, <4>2 DEF Mark, IInv, Typed
        <5> QED BY <1>1, <4>2, <5>1 DEF Mark, IInv, Typed
      <4> QED BY <4>1, <4>2
    <3> QED BY <3>1
  <2>2. /\ Idles(proc[p])
        /\ claimed' = claimed /\ died'.elsewhere = died.elsewhere
        /\ OnlyForgets
    BY <1>1, <1>2 DEF Idles, OnlyForgets
  <2> QED BY <2>1, <2>2, IdlersRemember
<1>3. CASE row' # row
  <2> DEFINE x == Marked("bumpq")
             r == row[u].by
  <2>1. /\ row[u] # None /\ row[u].status = "pending"
        /\ row' = [row EXCEPT ![u].status = "qualified"] /\ proc' = [proc EXCEPT ![p] = x]
    <3>1. /\ row[u] # None /\ row[u].status = "pending"
          /\ row' = [row EXCEPT ![u].status = "qualified"]
          /\ proc' = [proc EXCEPT ![p].pc = "bumpq", ![p].by = row[u].by]
      <4>1. row[u] # None
        <5> SUFFICES ASSUME row[u] = None PROVE FALSE
          OBVIOUS
        <5>1. row' = row
          BY DEF Mark, None
        <5> QED BY <1>3, <5>1
      <4>2. row[u].status = "pending"
        BY <1>3, <4>1 DEF Mark
      <4> QED BY <4>1, <4>2 DEF Mark
    <3> QED BY <3>1 DEF IInv, Typed
  <2>2. x.pc = "bumpq" /\ x.by = r
    BY <1>1 DEF Acting
  <2> HIDE DEF x
  <2>3. proc'[p] = x /\ \A q \in Processes : q # p => proc'[q] = proc[q]
    BY <2>1 DEF IInv, Typed
  <2>4. \A v \in Users : v # u => row'[v] = row[v]
    BY <2>1 DEF IInv, Typed
  <2>5. row'[u].by = r
    BY <1>1, <2>1 DEF IInv, Typed
  <2> SUFFICES ASSUME died.elsewhere = 0, NEW s \in Referrers, NEW ms \in Milestones, ms \in Earned(s)'
               PROVE  Pursued(s, ms)'
    BY <1>1 DEF NoneForgotten
  <2>6. CASE s = r
    BY <2>2, <2>3, <2>6 DEF Pursued, Pursues
  <2>7. CASE s # r
    <3>1. Qualified(s)' \subseteq Qualified(s)
      BY <2>4, <2>5, <2>7 DEF Qualified, Invited
    <3>2. Pursued(s, ms)
      BY <3>1, QualifiedShrinks DEF NoneForgotten
    <3>3. CASE ms \in claimed[s]
      BY <1>1, <3>3 DEF Pursued
    <3>4. CASE \E q \in Processes : Pursues(proc[q], s, ms)
      <4>1. PICK q \in Processes : Pursues(proc[q], s, ms)
        BY <3>4
      <4>2. q # p
        BY <1>1, <4>1 DEF Pursues
      <4>3. proc'[q] = proc[q]
        BY <2>3, <4>2
      <4> QED BY <4>1, <4>3 DEF Pursued
    <3> QED BY <3>2, <3>3, <3>4 DEF Pursued
  <2> QED BY <2>6, <2>7
<1> QED BY <1>2, <1>3

LEMMA RowStepsRemember ==
    ASSUME IInv, NoneForgotten, NEW p \in Processes,
           Insert(p) \/ Recount(p) \/ RollBack(p) \/ BumpInvited(p)
    PROVE  NoneForgotten'
<1>1. /\ proc[p].pc \in {"insert", "recount", "rollback", "bump"}
      /\ UNCHANGED <<claimed, died>>
  BY DEF Insert, Recount, RollBack, BumpInvited, history
<1>2. OnlyForgets
  <2> USE DEF OnlyForgets
  <2>1. CASE row' = row
    BY <2>1
  <2>2. CASE Insert(p) /\ row' # row
    BY <2>2 DEF Insert, Row, IInv, Typed
  <2>3. CASE RollBack(p)
    BY <2>3 DEF RollBack, IInv, Typed
  <2> QED BY <2>1, <2>2, <2>3 DEF Recount, BumpInvited
<1>3. PICK x : proc' = [proc EXCEPT ![p] = x]
  <2>1. ASSUME NEW pc, Goto(p, pc) PROVE \E x : proc' = [proc EXCEPT ![p] = x]
    BY <2>1, GotoIs DEF IInv
  <2>2. ASSUME Done(p) PROVE \E x : proc' = [proc EXCEPT ![p] = x]
    BY <2>2 DEF Done
  <2>3. \/ \E pc : Goto(p, pc)
        \/ Done(p)
    BY DEF Insert, Recount, RollBack, BumpInvited
  <2> QED BY <2>1, <2>2, <2>3
<1>4. /\ Idles(proc[p])
      /\ claimed' = claimed /\ died'.elsewhere = died.elsewhere
  BY <1>1 DEF Idles
<1> QED BY <1>2, <1>3, <1>4, IdlersRemember

LEMMA StartersRemember ==
    ASSUME IInv, NoneForgotten, NEW p \in Processes,
           \/ \E r \in Referrers, u \in Users : Register(p, r, u)
           \/ \E u \in Users : Use(p, u)
    PROVE  NoneForgotten'
<1>1. proc[p].pc = "idle" /\ UNCHANGED <<row, claimed, died>>
  BY DEF Register, Use, Idle, history
<1>2. PICK x : proc' = [proc EXCEPT ![p] = x]
  BY DEF Register, Use
<1>3. /\ Idles(proc[p])
      /\ claimed' = claimed /\ died'.elsewhere = died.elsewhere
      /\ OnlyForgets
  BY <1>1 DEF Idles, OnlyForgets
<1> QED BY <1>2, <1>3, IdlersRemember

LEMMA DieRemembers ==
    ASSUME IInv, NoneForgotten, NEW p \in Processes, Die(p)
    PROVE  NoneForgotten'
<1>1. proc' = [proc EXCEPT ![p] = Idle] /\ UNCHANGED <<row, claimed>>
  BY DEF Die, Done
<1>2. CASE proc[p].pc \in {"recount", "rollback"}
  <2>1. died'.elsewhere = died.elsewhere
    BY <1>2 DEF Die, IInv, Typed
  <2>2. /\ Idles(proc[p])
        /\ claimed' = claimed
        /\ OnlyForgets
    BY <1>1, <1>2 DEF Idles, OnlyForgets
  <2> QED BY <1>1, <2>1, <2>2, IdlersRemember
<1>3. CASE proc[p].pc \notin {"recount", "rollback"}
  <2>1. died'.elsewhere = died.elsewhere + 1 /\ died.elsewhere \in Nat
    BY <1>3 DEF Die, IInv, Typed
  <2> QED BY <2>1 DEF NoneForgotten
<1> QED BY <1>2, <1>3

LEMMA NextRemembers == IInv /\ NoneForgotten /\ [Next]_vars => NoneForgotten'
<1> SUFFICES ASSUME IInv, NoneForgotten, [Next]_vars PROVE NoneForgotten'
  OBVIOUS
<1>1. CASE UNCHANGED vars
  BY <1>1 DEF vars, NoneForgotten, Earned, Qualified, Invited, Pursued
<1>2. ASSUME NEW p \in Processes, Steps(p) PROVE NoneForgotten'
  BY <1>2, RowStepsRemember, MarkRemembers, GoersRemember, CountRemembers, CheckRemembers,
     ClaimRemembers, GrantRemembers DEF Steps
<1> QED BY <1>1, <1>2, StartersRemember, GrantRemembers, DieRemembers DEF Next

\* When the handlers are done and none died, every milestone that was
\* reached is claimed, though each of them counted while the others marked
\* (referral_handlers.py:179-213).
THEOREM MilestonesAreClaimed == Spec => []NoMilestoneMissed
<1>1. Init => NoneForgotten
  <2> SUFFICES ASSUME Init, NEW r \in Referrers, NEW ms \in Milestones PROVE ms \notin Earned(r)
    BY DEF NoneForgotten
  <2>1. Qualified(r) = {}
    BY DEF Init, Qualified, Invited
  <2>2. Cardinality(Qualified(r)) = 0
    BY <2>1, FS_EmptySet
  <2> QED BY <2>2, ReferralsAssumption DEF Earned
<1>2. NoneForgotten => NoMilestoneMissed
  BY DEF NoneForgotten, NoMilestoneMissed, AtRest, Pursued, Pursues, Idle, Earned
<1> QED BY <1>1, <1>2, NextRemembers, Inductive, PTL DEF Spec

---------------------------------------------------------------------------
(* Claims: each is credited, is being credited, or met a failure *)

\* A claim is answered for as long as the handler that is crediting it keeps
\* at it or leaves it credited or among what was lost.
LEMMA ClaimStays ==
    ASSUME Typed, ClaimsArePaid, NEW p \in Processes, NEW x, proc' = [proc EXCEPT ![p] = x],
           claimed' = claimed, granted \subseteq granted', lost \subseteq lost',
           proc[p].pc = "grant" => Prize(p) \in granted' \cup lost'
    PROVE  ClaimsArePaid'
<1>1. proc'[p] = x /\ \A q \in Processes : q # p => proc'[q] = proc[q]
  BY DEF Typed
<1> SUFFICES ASSUME NEW r \in Referrers, NEW ms \in claimed[r],
                    <<r, ms>> \notin granted' \cup lost'
             PROVE  \E q \in Processes : proc'[q].pc = "grant" /\ Prize(q)' = <<r, ms>>
  BY DEF ClaimsArePaid
<1>2. PICK q \in Processes : proc[q].pc = "grant" /\ Prize(q) = <<r, ms>>
  BY DEF ClaimsArePaid
<1>3. q # p
  BY <1>2
<1> QED BY <1>1, <1>2, <1>3 DEF Prize

\* No two handlers leave a claim to each other: whoever claimed a milestone
\* credits it, unless the ledger or the process failed
\* (referral_handlers.py:198-223).
THEOREM ClaimsAreAnswered == Spec => []ClaimsArePaid
<1>1. Init => ClaimsArePaid
  BY DEF Init, ClaimsArePaid
<1>2. IInv /\ ClaimsArePaid /\ [Next]_vars => ClaimsArePaid'
  <2> SUFFICES ASSUME IInv, ClaimsArePaid, [Next]_vars PROVE ClaimsArePaid'
    OBVIOUS
  <2>0. Typed
    BY DEF IInv
  <2>1. CASE UNCHANGED vars
    BY <2>1 DEF vars, ClaimsArePaid, Prize
  <2>2. ASSUME NEW p \in Processes, NEW x, proc' = [proc EXCEPT ![p] = x],
               UNCHANGED <<claimed, granted, lost>>, proc[p].pc # "grant"
        PROVE  ClaimsArePaid'
    BY <2>0, <2>2, ClaimStays
  <2>3. ASSUME NEW p \in Processes, Claim(p) PROVE ClaimsArePaid'
    <3> DEFINE r == proc[p].by
               m == Min(proc[p].todo)
    <3>1. proc[p].pc = "claim" /\ UNCHANGED <<granted, lost>>
      BY <2>3 DEF Claim, history
    <3>2. CASE proc' = [proc EXCEPT ![p] = After(p)] /\ claimed' = claimed
      BY <2>2, <3>1, <3>2
    <3>3. CASE Take(p, r, m)
      <4> DEFINE x == [pc |-> "grant", by |-> r, todo |-> proc[p].todo]
      <4>1. proc' = [proc EXCEPT ![p] = x] /\ claimed' = [claimed EXCEPT ![r] = @ \cup {m}]
        BY <3>3 DEF Take, IInv, Typed
      <4>2. proc'[p] = x /\ \A q \in Processes : q # p => proc'[q] = proc[q]
        BY <4>1 DEF IInv, Typed
      <4>3. proc'[p].pc = "grant" /\ Prize(p)' = <<r, m>>
        BY <4>2 DEF Prize
      <4>4. \A q \in Processes : proc[q].pc = "grant" =>
              proc'[q].pc = "grant" /\ Prize(q)' = Prize(q)
        BY <3>1, <4>2 DEF Prize
      <4> HIDE DEF x
      <4> SUFFICES ASSUME NEW s \in Referrers, NEW ms \in claimed'[s],
                          <<s, ms>> \notin granted \cup lost
                   PROVE  \E q \in Processes : proc'[q].pc = "grant" /\ Prize(q)' = <<s, ms>>
        BY <3>1 DEF ClaimsArePaid
      <4>5. CASE ms \in claimed[s]
        BY <4>4, <4>5 DEF ClaimsArePaid
      <4>6. CASE ms \notin claimed[s]
        <5>1. s = r /\ ms = m
          BY <4>1, <4>6 DEF IInv, Typed
        <5> QED BY <4>3, <5>1
      <4> QED BY <4>5, <4>6
    <3> QED BY <2>3, <3>2, <3>3 DEF Claim
  <2>4. ASSUME NEW p \in Processes, Grant(p) \/ GrantFails(p) \/ Die(p) PROVE ClaimsArePaid'
    <3>1. PICK x : proc' = [proc EXCEPT ![p] = x]
      BY <2>4 DEF Grant, GrantFails, Die, Done
    <3>2. claimed' = claimed /\ granted \subseteq granted' /\ lost \subseteq lost'
      BY <2>4 DEF Grant, GrantFails, Die, history
    <3>3. proc[p].pc = "grant" => Prize(p) \in granted' \cup lost'
      BY <2>4 DEF Grant, GrantFails, Die
    <3> QED BY <2>0, <3>1, <3>2, <3>3, ClaimStays
  <2>5. ASSUME NEW p \in Processes, Steps(p), ~Claim(p), ~Grant(p) PROVE ClaimsArePaid'
    <3>1. proc[p].pc # "grant" /\ UNCHANGED <<claimed, granted, lost>>
      BY <2>5 DEF Steps, Insert, Recount, RollBack, BumpInvited, Mark, BumpQualified, Aggregate,
                  Rebuild, Count, Check, history
    <3>2. ASSUME NEW pc, Goto(p, pc) PROVE ClaimsArePaid'
      BY <2>2, <3>1, <3>2, GotoIs DEF IInv
    <3>3. ASSUME Done(p) PROVE ClaimsArePaid'
      BY <2>2, <3>1, <3>3 DEF Done
    <3>4. CASE Insert(p) \/ Recount(p) \/ RollBack(p) \/ BumpInvited(p) \/ BumpQualified(p) \/ Rebuild(p)
      BY <3>2, <3>3, <3>4 DEF Insert, Recount, RollBack, BumpInvited, BumpQualified, Rebuild
    <3>5. CASE Aggregate(p) \/ Count(p) \/ Check(p)
      BY <2>2, <3>1, <3>5 DEF Aggregate, Count, Check
    <3>6. CASE Mark(p)
      <4> DEFINE u == proc[p].user
                 Marked(pc) == [proc[p] EXCEPT !.pc = pc, !.by = row[u].by]
      <4>1. \/ Done(p)
            \/ \E pc : proc' = [proc EXCEPT ![p].pc = pc, ![p].by = row[u].by]
        BY <3>6 DEF Mark
      <4>2. ASSUME NEW pc, proc' = [proc EXCEPT ![p].pc = pc, ![p].by = row[u].by]
            PROVE  ClaimsArePaid'
        <5>1. proc' = [proc EXCEPT ![p] = Marked(pc)]
          BY <4>2 DEF IInv, Typed
        <5> QED BY <2>2, <3>1, <5>1
      <4> QED BY <3>3, <4>1, <4>2
    <3> QED BY <2>5, <3>4, <3>5, <3>6 DEF Steps
  <2>6. ASSUME NEW p \in Processes,
               \/ \E r \in Referrers, u \in Users : Register(p, r, u)
               \/ \E u \in Users : Use(p, u)
        PROVE  ClaimsArePaid'
    <3>1. proc[p].pc # "grant" /\ UNCHANGED <<claimed, granted, lost>>
      BY <2>6 DEF Register, Use, Idle, history
    <3>2. PICK x : proc' = [proc EXCEPT ![p] = x]
      BY <2>6 DEF Register, Use
    <3> QED BY <2>2, <3>1, <3>2
  <2> QED BY <2>1, <2>3, <2>4, <2>5, <2>6 DEF Next
<1> QED BY <1>1, <1>2, Inductive, PTL DEF Spec

\* Where nothing fails, every milestone that was claimed is credited: the
\* reward is lost to failures only (referral_handlers.py:198-223).  With one
\* failure it is not so (ReferralOpen.cfg).
THEOREM ClaimsAreCredited == MaxFailures = 0 => (Spec => []RewardIsNotLost)
<1> DEFINE NoneFailed == lost = {} /\ died = [creating |-> 0, elsewhere |-> 0]
<1> SUFFICES ASSUME MaxFailures = 0 PROVE Spec => []RewardIsNotLost
  OBVIOUS
<1>1. Init => NoneFailed
  BY DEF Init
<1>2. NoneFailed /\ [Next]_vars => NoneFailed'
  <2> SUFFICES ASSUME NoneFailed, [Next]_vars PROVE UNCHANGED <<lost, died>>
    OBVIOUS
  <2>1. Failures = 0
    BY FS_EmptySet DEF Failures
  <2>2. ASSUME NEW p \in Processes PROVE ~GrantFails(p) /\ ~Die(p)
    BY <2>1 DEF GrantFails, Die
  <2> QED BY <2>2 DEF Next, Steps, Register, Use, Insert, Recount, RollBack, BumpInvited, Mark,
            BumpQualified, Aggregate, Rebuild, Count, Check, Claim, Grant, vars, history
<1>3. NoneFailed /\ ClaimsArePaid => RewardIsNotLost
  <2> SUFFICES ASSUME NoneFailed, ClaimsArePaid, AtRest, NEW r \in Referrers, NEW ms \in claimed[r]
               PROVE  <<r, ms>> \in granted
    BY DEF RewardIsNotLost
  <2>1. \A p \in Processes : proc[p].pc # "grant"
    BY DEF AtRest, Idle
  <2> QED BY <2>1 DEF ClaimsArePaid
<1> HIDE DEF NoneFailed
<1> QED BY <1>1, <1>2, <1>3, ClaimsAreAnswered, PTL DEF Spec

---------------------------------------------------------------------------
(* One handler at a time: what is counted stays true until it is used *)

OneHandler == \E p : Processes = {p}

\* An insert that counted below the cap leaves it kept: nothing is rolled back.
Roomy(p) ==
    /\ proc[p].pc = "insert" =>
         row[proc[p].user] = None /\ Cardinality(Invited(proc[p].by)) < Cap
    /\ proc[p].pc = "recount" => Cardinality(Invited(proc[p].by)) <= Cap
    /\ proc[p].pc # "rollback"
AllRoomy == \A p \in Processes : Roomy(p)

LEMMA RowsStay ==
    ASSUME row' = row, NEW r
    PROVE  Invited(r)' = Invited(r) /\ Qualified(r)' = Qualified(r)
  BY DEF Invited, Qualified

\* What an insert of the only handler does to the counts.
LEMMA InsertCounts ==
    ASSUME Typed, NEW p \in Processes, Insert(p), row[proc[p].user] = None, NEW r \in Referrers
    PROVE  /\ proc' = [proc EXCEPT ![p] = [proc[p] EXCEPT !.pc = "recount"]]
           /\ Cardinality(Invited(r)') =
                Cardinality(Invited(r)) + (IF r = proc[p].by THEN 1 ELSE 0)
           /\ Qualified(r)' = Qualified(r)
<1> DEFINE u == proc[p].user
<1>1. proc[p] \in Acting /\ u \in Users /\ proc[p].by \in Referrers
  BY DoingFields DEF Insert, Typed, Acting
<1>2. row' = [row EXCEPT ![u] = Row("pending", proc[p].by)] /\ Goto(p, "recount")
  BY DEF Insert
<1>3. row'[u] # None /\ row'[u].by = proc[p].by /\ row'[u].status = "pending"
  BY <1>1, <1>2 DEF Typed, Row, None
<1>4. \A v \in Users : v # u => row'[v] = row[v]
  BY <1>1, <1>2 DEF Typed
<1>5. Invited(r)' = IF r = proc[p].by THEN Invited(r) \cup {u} ELSE Invited(r)
  BY <1>1, <1>3, <1>4 DEF Invited
<1>6. u \notin Invited(r)
  BY DEF Invited
<1>7. Cardinality(Invited(r) \cup {u}) = Cardinality(Invited(r)) + 1
  BY <1>6, InvitedIsFinite, FS_AddElement
<1>8. Qualified(r)' = Qualified(r)
  BY <1>1, <1>3, <1>4 DEF Qualified, Invited
<1> QED BY <1>2, <1>5, <1>7, <1>8, GotoIs, InvitedIsFinite

LEMMA OnlyIsRoomy ==
    ASSUME NEW p, Processes = {p}, Typed, Roomy(p), [Next]_vars
    PROVE  Roomy(p)'
<1>0. p \in Processes
  OBVIOUS
<1>1. CASE UNCHANGED vars
  BY <1>1, RowsStay DEF vars, Roomy
<1>2. ASSUME proc'[p].pc \notin {"insert", "recount", "rollback"} PROVE Roomy(p)'
  BY <1>2 DEF Roomy
<1>3. ASSUME NEW pc, Goto(p, pc), pc \notin {"insert", "recount", "rollback"}, proc[p] # Idle
      PROVE  Roomy(p)'
  <2>1. proc'[p].pc = pc
    BY <1>0, <1>3, GotoIs DEF Typed, Doing, Acting, Counted, Looping, Claiming
  <2> QED BY <1>2, <1>3, <2>1
<1>4. ASSUME Done(p) PROVE Roomy(p)'
  BY <1>0, <1>2, <1>4 DEF Done, Idle, Typed
<1>5. ASSUME NEW r \in Referrers, NEW u \in Users, Register(p, r, u) PROVE Roomy(p)'
  <2>1. proc'[p] = [pc |-> "insert", user |-> u, by |-> r] /\ row' = row
    BY <1>0, <1>5 DEF Register, Typed
  <2> QED BY <1>5, <2>1, RowsStay DEF Register, Roomy
<1>6. CASE Insert(p)
  <2>1. PICK r \in Referrers : r = proc[p].by
    BY <1>0, <1>6, DoingFields DEF Insert, Typed, Acting
  <2>2. row[proc[p].user] = None /\ Cardinality(Invited(r)) < Cap
    BY <1>6, <2>1 DEF Insert, Roomy
  <2>3. /\ proc' = [proc EXCEPT ![p] = [proc[p] EXCEPT !.pc = "recount"]]
        /\ Cardinality(Invited(r)') = Cardinality(Invited(r)) + 1
    BY <1>0, <1>6, <2>1, <2>2, InsertCounts
  <2>4. proc'[p].pc = "recount" /\ proc'[p].by = r
    <3>1. proc[p] \in Acting
      BY <1>0, <1>6, DoingFields DEF Insert, Typed
    <3> QED BY <1>0, <2>1, <2>3, <3>1 DEF Typed, Acting
  <2>5. Cardinality(Invited(r)') <= Cap
    BY <2>2, <2>3, InvitedIsFinite, ReferralsAssumption
  <2> QED BY <2>4, <2>5 DEF Roomy
<1>7. CASE Recount(p)
  <2>1. Goto(p, "bump")
    BY <1>7, InvitedIsFinite, ReferralsAssumption DEF Recount, Roomy
  <2> QED BY <1>3, <1>7, <2>1 DEF Recount, Idle
<1>8. CASE Mark(p)
  <2>1. proc[p] \in Acting
    BY <1>0, <1>8, DoingFields DEF Mark, Typed
  <2>2. Done(p) \/ \E pc \in {"bumpq", "aggregate"} :
          proc' = [proc EXCEPT ![p].pc = pc, ![p].by = row[proc[p].user].by]
    BY <1>8 DEF Mark
  <2>3. Done(p) \/ proc'[p].pc \in {"bumpq", "aggregate"}
    BY <1>0, <2>1, <2>2 DEF Typed, Acting
  <2> QED BY <1>2, <1>4, <2>3
<1>9. CASE BumpInvited(p) \/ BumpQualified(p) \/ Rebuild(p) \/ RollBack(p) \/ Die(p)
  BY <1>3, <1>4, <1>9 DEF BumpInvited, BumpQualified, Rebuild, RollBack, Die, Idle
<1>10. CASE Aggregate(p) \/ Count(p) \/ (\E u \in Users : Use(p, u))
  <2>1. proc'[p].pc \notin {"insert", "recount", "rollback"}
    BY <1>0, <1>10 DEF Aggregate, Count, Use, Loop, Idle, Typed
  <2> QED BY <1>2, <2>1
<1>11. CASE Check(p) \/ Claim(p) \/ Grant(p) \/ GrantFails(p)
  <2>1. After(p).pc \in {"idle", "check"}
    BY <1>0, <1>11, AfterIsLoop DEF Check, Claim, Grant, GrantFails
  <2>2. proc'[p] = After(p) \/ proc'[p].pc \in {"claim", "grant"}
    BY <1>0, <1>11 DEF Check, Claim, Take, Grant, GrantFails, Typed
  <2> QED BY <1>2, <2>1, <2>2
<1>12. [Next]_vars => \/ UNCHANGED vars \/ Steps(p) \/ GrantFails(p) \/ Die(p)
                      \/ \E u \in Users : Use(p, u)
                      \/ \E r \in Referrers, u \in Users : Register(p, r, u)
  BY DEF Next
<1> QED BY <1>1, <1>5, <1>6, <1>7, <1>8, <1>9, <1>10, <1>11, <1>12 DEF Steps


LEMMA HandlersRoomy ==
    ASSUME NEW p, Processes = {p}
    PROVE  Spec => []Roomy(p)
<1>1. Init => Roomy(p)
  BY DEF Init, Roomy, Idle
<1>2. IInv /\ Roomy(p) /\ [Next]_vars => Roomy(p)'
  BY OnlyIsRoomy DEF IInv
<1> QED BY <1>1, <1>2, Inductive, PTL DEF Spec

\* With one handler at a time, who has used the bot counts for good: a
\* rollback, which deletes whatever the row says, then never happens
\* (mongo_repository.py:125-130).  With two it does (ReferralOpen.cfg).
THEOREM QualifiedStayQualified == OneHandler => (Spec => QualifiedForGood)
<1> SUFFICES ASSUME NEW p, Processes = {p} PROVE Spec => QualifiedForGood
  BY DEF OneHandler
<1>1. IInv /\ Roomy(p) /\ [Next]_vars =>
        [\A u \in Users : row[u] # None /\ row[u].status = "qualified" => row'[u] = row[u]]_vars
  <2> SUFFICES ASSUME IInv, Roomy(p), Next, NEW u \in Users,
                      row[u] # None, row[u].status = "qualified"
               PROVE  row'[u] = row[u]
    OBVIOUS
  <2>1. CASE Insert(p)
    BY <2>1 DEF Insert, IInv, Typed
  <2>2. CASE Mark(p)
    <3>1. proc[p].user = u => row' = row
      BY <2>2 DEF Mark
    <3>2. proc[p].user # u => row'[u] = row[u]
      BY <2>2 DEF Mark, IInv, Typed
    <3> QED BY <3>1, <3>2
  <2>3. ~RollBack(p)
    BY DEF RollBack, Roomy
  <2>4. CASE ~Insert(p) /\ ~Mark(p)
    BY <2>3, <2>4 DEF Next, Steps, Register, Use, Recount, BumpInvited, BumpQualified, Aggregate,
       Rebuild, Count, Check, Claim, Take, Grant, GrantFails, Die, history
  <2> QED BY <2>1, <2>2, <2>4
<1> QED BY <1>1, HandlersRoomy, Inductive, PTL DEF Spec, QualifiedForGood

\* The counters are behind the rows by what the handler has yet to add, and
\* what it counted and has yet to write is so still.
Behind(x, r, pcs) == IF x.pc \in pcs /\ x.by = r THEN 1 ELSE 0
Shows(x, r) ==
    /\ stats[r].invited + Behind(x, r, {"recount", "bump"}) = Cardinality(Invited(r))
    /\ stats[r].qualified + Behind(x, r, {"bumpq"}) = Cardinality(Qualified(r))
Carries(x) ==
    /\ x.pc = "rebuild" => x.invited = Cardinality(Invited(x.by))
    /\ x.pc \in {"rebuild", "claim"} => x.qualified = Cardinality(Qualified(x.by))
Told(p) == died.creating + died.elsewhere = 0 =>
    Carries(proc[p]) /\ \A r \in Referrers : Shows(proc[p], r)

\* A step that leaves the rows and counters alone.
LEMMA QuietTold ==
    ASSUME Typed, NEW p \in Processes, Told(p), NEW x, proc' = [proc EXCEPT ![p] = x],
           row' = row, stats' = stats, died' = died, Carries(x),
           x.pc \in {"recount", "bump"} <=> proc[p].pc \in {"recount", "bump"},
           x.pc \in {"recount", "bump"} => x.by = proc[p].by,
           x.pc # "bumpq" /\ proc[p].pc # "bumpq"
    PROVE  Told(p)'
<1>1. proc'[p] = x
  BY DEF Typed
<1> HIDE DEF Typed
<1>2. Carries(x)'
  <2>1. \A r : Invited(r)' = Invited(r) /\ Qualified(r)' = Qualified(r)
    BY RowsStay
  <2> QED BY <2>1 DEF Carries
<1>3. ASSUME NEW r \in Referrers, Shows(proc[p], r) PROVE Shows(x, r)'
  BY <1>3, RowsStay DEF Shows, Behind
<1> QED BY <1>1, <1>2, <1>3 DEF Told


\* The steps on the rows: an insert, and a mark of a pending row.
LEMMA InsertTold ==
    ASSUME Typed, NEW p \in Processes, Told(p), Insert(p)
    PROVE  Told(p)'
<1>1. CASE row[proc[p].user] # None
  <2>1. Idle.pc = "idle" /\ Carries(Idle)
    BY DEF Idle, Carries
  <2> QED BY <1>1, <2>1, QuietTold DEF Insert, Done, history
<1>2. CASE row[proc[p].user] = None
  <2>0. proc[p] \in Acting
    BY DoingFields DEF Insert, Typed
  <2>1. proc' = [proc EXCEPT ![p] = [proc[p] EXCEPT !.pc = "recount"]]
    BY <1>2, GotoIs DEF Insert
  <2>2. proc'[p].pc = "recount" /\ proc'[p].by = proc[p].by
    BY <2>0, <2>1 DEF Typed, Acting
  <2>3. stats' = stats /\ died' = died /\ proc[p].pc = "insert"
    BY DEF Insert, history
  <2>4. ASSUME NEW r \in Referrers, Shows(proc[p], r) PROVE Shows(proc[p], r)'
    <3>1. /\ Cardinality(Invited(r)') = Cardinality(Invited(r)) + Behind(proc'[p], r, {"recount", "bump"})
          /\ Qualified(r)' = Qualified(r)
      BY <1>2, <2>2, InsertCounts DEF Behind
    <3>2. /\ Behind(proc[p], r, {"recount", "bump"}) = 0 /\ Behind(proc[p], r, {"bumpq"}) = 0
          /\ Behind(proc'[p], r, {"bumpq"}) = 0
      BY <2>2, <2>3 DEF Behind
    <3>3. stats[r].invited = Cardinality(Invited(r)) /\ stats[r].qualified = Cardinality(Qualified(r))
      BY <2>4, <3>2 DEF Shows, Typed
    <3>4. stats'[r].invited + Behind(proc'[p], r, {"recount", "bump"}) = Cardinality(Invited(r)')
      BY <2>3, <3>1, <3>3
    <3>5. stats'[r].qualified + Behind(proc'[p], r, {"bumpq"}) = Cardinality(Qualified(r)')
      BY <2>3, <3>1, <3>2, <3>3, QualifiedIsFinite
    <3> QED BY <3>4, <3>5 DEF Shows, Behind
  <2> QED BY <2>2, <2>3, <2>4 DEF Told, Carries
<1> QED BY <1>1, <1>2

LEMMA MarkCounts ==
    ASSUME Typed, NEW u \in Users, row[u] # None, row[u].status = "pending",
           row' = [row EXCEPT ![u].status = "qualified"], NEW r \in Referrers
    PROVE  /\ Invited(r)' = Invited(r)
           /\ Cardinality(Qualified(r)') =
                Cardinality(Qualified(r)) + (IF r = row[u].by THEN 1 ELSE 0)
<1>1. /\ row'[u] # None /\ row'[u].by = row[u].by /\ row'[u].status = "qualified"
      /\ \A v \in Users : v # u => row'[v] = row[v]
  BY DEF Typed, None
<1>2. Invited(r)' = Invited(r)
  BY <1>1 DEF Invited
<1>3. Qualified(r)' = IF r = row[u].by THEN Qualified(r) \cup {u} ELSE Qualified(r)
  BY <1>1 DEF Qualified, Invited
<1>4. u \notin Qualified(r)
  BY DEF Qualified
<1>5. IsFiniteSet(Qualified(r))
  <2>1. Qualified(r) \in SUBSET Users
    BY DEF Qualified, Invited
  <2> QED BY <2>1, ReferralsAssumption, FS_Subset
<1>6. Cardinality(Qualified(r) \cup {u}) = Cardinality(Qualified(r)) + 1
  BY <1>4, <1>5, FS_AddElement
<1> QED BY <1>2, <1>3, <1>6, QualifiedIsFinite

LEMMA MarkTold ==
    ASSUME Typed, NEW p \in Processes, Told(p), Mark(p)
    PROVE  Told(p)'
<1> DEFINE u == proc[p].user
           Marked(pc) == [proc[p] EXCEPT !.pc = pc, !.by = row[u].by]
<1>0. proc[p] \in Acting /\ u \in Users /\ proc[p].pc = "mark"
  BY DoingFields DEF Mark, Typed, Acting
<1>1. CASE row[u] = None
  <2>1. Idle.pc = "idle" /\ Carries(Idle)
    BY DEF Idle, Carries
  <2>2. row' = row /\ proc' = [proc EXCEPT ![p] = Idle] /\ stats' = stats /\ died' = died
    BY <1>1 DEF Mark, Done, None, history
  <2> QED BY <1>0, <2>1, <2>2, QuietTold
<1>2. CASE row[u] # None /\ row[u].status # "pending"
  <2>1. row' = row /\ proc' = [proc EXCEPT ![p].pc = "aggregate", ![p].by = row[u].by]
    BY <1>2 DEF Mark
  <2>2. proc' = [proc EXCEPT ![p] = Marked("aggregate")]
    BY <2>1 DEF Typed
  <2>3. Marked("aggregate").pc = "aggregate"
    BY <1>0 DEF Acting
  <2> HIDE DEF Marked
  <2>4. Carries(Marked("aggregate"))
    BY <2>3 DEF Carries
  <2> QED BY <1>0, <2>1, <2>2, <2>3, <2>4, QuietTold DEF Mark, history
<1>3. CASE row[u] # None /\ row[u].status = "pending"
  <2>1. /\ row' = [row EXCEPT ![u].status = "qualified"]
        /\ proc' = [proc EXCEPT ![p].pc = "bumpq", ![p].by = row[u].by]
        /\ stats' = stats /\ died' = died
    BY <1>3 DEF Mark, history
  <2>2. proc'[p].pc = "bumpq" /\ proc'[p].by = row[u].by
    BY <1>0, <2>1 DEF Typed, Acting
  <2>3. ASSUME NEW r \in Referrers, Shows(proc[p], r) PROVE Shows(proc[p], r)'
    <3>1. /\ Invited(r)' = Invited(r)
          /\ Cardinality(Qualified(r)') = Cardinality(Qualified(r)) + Behind(proc'[p], r, {"bumpq"})
      BY <1>0, <1>3, <2>1, <2>2, MarkCounts DEF Behind
    <3>2. /\ Behind(proc[p], r, {"recount", "bump"}) = 0 /\ Behind(proc[p], r, {"bumpq"}) = 0
          /\ Behind(proc'[p], r, {"recount", "bump"}) = 0
      BY <1>0, <2>2 DEF Behind
    <3>3. stats[r].invited = Cardinality(Invited(r)) /\ stats[r].qualified = Cardinality(Qualified(r))
      BY <2>3, <3>2 DEF Shows, Typed
    <3>4. stats'[r].qualified + Behind(proc'[p], r, {"bumpq"}) = Cardinality(Qualified(r)')
      BY <2>1, <3>1, <3>3
    <3>5. stats'[r].invited + Behind(proc'[p], r, {"recount", "bump"}) = Cardinality(Invited(r)')
      BY <2>1, <3>1, <3>2, <3>3, InvitedIsFinite
    <3> QED BY <3>4, <3>5 DEF Shows, Behind
  <2> QED BY <2>1, <2>2, <2>3 DEF Told, Carries
<1> QED BY <1>1, <1>2, <1>3

\* The steps on the counters: each adds what was missing, or writes what it
\* counted.
LEMMA CountersTold ==
    ASSUME Typed, NEW p \in Processes, Told(p),
           BumpInvited(p) \/ BumpQualified(p) \/ Rebuild(p) \/ Claim(p)
    PROVE  Told(p)'
<1> DEFINE b == proc[p].by
<1>0. b \in Referrers /\ row' = row /\ died' = died
  BY DoingFields DEF Typed, Idle, BumpInvited, BumpQualified, Rebuild, Claim, history
<1>1. CASE BumpInvited(p)
  <2>1. proc'[p] = Idle /\ stats' = [stats EXCEPT ![b].invited = @ + 1] /\ proc[p].pc = "bump"
    BY <1>1 DEF BumpInvited, Done, Typed
  <2>2. ASSUME NEW r \in Referrers, Shows(proc[p], r) PROVE Shows(proc[p], r)'
    <3>1. /\ stats'[r].invited = stats[r].invited + Behind(proc[p], r, {"recount", "bump"})
          /\ stats'[r].qualified = stats[r].qualified + Behind(proc[p], r, {"bumpq"})
      BY <1>0, <2>1 DEF Behind, Typed
    <3>2. Behind(Idle, r, {"recount", "bump"}) = 0 /\ Behind(Idle, r, {"bumpq"}) = 0
      BY DEF Behind, Idle
    <3> QED BY <1>0, <2>1, <2>2, <3>1, <3>2, RowsStay, InvitedIsFinite, QualifiedIsFinite DEF Shows
  <2> QED BY <1>0, <2>1, <2>2 DEF Told, Carries, Idle
<1>2. CASE BumpQualified(p)
  <2>0. proc[p] \in Acting /\ proc[p].pc = "bumpq"
    BY <1>2, DoingFields DEF BumpQualified, Typed
  <2>1. proc' = [proc EXCEPT ![p] = [proc[p] EXCEPT !.pc = "aggregate"]]
    BY <1>2, GotoIs DEF BumpQualified
  <2>2. proc'[p].pc = "aggregate"
    BY <2>0, <2>1 DEF Typed, Acting
  <2>3. stats' = [stats EXCEPT ![b].qualified = @ + 1]
    BY <1>2 DEF BumpQualified
  <2>4. ASSUME NEW r \in Referrers, Shows(proc[p], r) PROVE Shows(proc[p], r)'
    <3>1. /\ stats'[r].invited = stats[r].invited + Behind(proc[p], r, {"recount", "bump"})
          /\ stats'[r].qualified = stats[r].qualified + Behind(proc[p], r, {"bumpq"})
      BY <1>0, <2>0, <2>3 DEF Behind, Typed
    <3>2. Behind(proc'[p], r, {"recount", "bump"}) = 0 /\ Behind(proc'[p], r, {"bumpq"}) = 0
      BY <2>2 DEF Behind
    <3>3. /\ stats'[r].invited + Behind(proc'[p], r, {"recount", "bump"}) = Cardinality(Invited(r)')
          /\ stats'[r].qualified + Behind(proc'[p], r, {"bumpq"}) = Cardinality(Qualified(r)')
      BY <1>0, <2>4, <3>1, <3>2, RowsStay, InvitedIsFinite, QualifiedIsFinite DEF Shows
    <3> QED BY <3>3 DEF Shows, Behind
  <2> QED BY <1>0, <2>2, <2>4 DEF Told, Carries
<1>3. CASE Rebuild(p)
  <2>0. proc[p] \in Counted /\ proc[p].pc = "rebuild"
    BY <1>3, DoingFields DEF Rebuild, Typed
  <2>1. proc' = [proc EXCEPT ![p] = [proc[p] EXCEPT !.pc = "count"]]
    BY <1>3, GotoIs DEF Rebuild
  <2>2. proc'[p].pc = "count"
    BY <2>0, <2>1 DEF Typed, Counted
  <2>3. stats' = [stats EXCEPT ![b] = [invited |-> proc[p].invited, qualified |-> proc[p].qualified]]
    BY <1>3 DEF Rebuild
  <2>4. ASSUME NEW r \in Referrers, Shows(proc[p], r), Carries(proc[p]) PROVE Shows(proc[p], r)'
    <3>1. /\ Behind(proc[p], r, {"recount", "bump"}) = 0 /\ Behind(proc[p], r, {"bumpq"}) = 0
          /\ Behind(proc'[p], r, {"recount", "bump"}) = 0 /\ Behind(proc'[p], r, {"bumpq"}) = 0
      BY <2>0, <2>2 DEF Behind
    <3>2. stats[r].invited = Cardinality(Invited(r)) /\ stats[r].qualified = Cardinality(Qualified(r))
      BY <2>4, <3>1 DEF Shows, Typed
    <3>3. stats'[r].invited = Cardinality(Invited(r)) /\ stats'[r].qualified = Cardinality(Qualified(r))
      BY <1>0, <2>0, <2>3, <2>4, <3>2 DEF Carries, Typed
    <3>4. /\ stats'[r].invited + Behind(proc'[p], r, {"recount", "bump"}) = Cardinality(Invited(r)')
          /\ stats'[r].qualified + Behind(proc'[p], r, {"bumpq"}) = Cardinality(Qualified(r)')
      BY <1>0, <3>1, <3>3, RowsStay, InvitedIsFinite, QualifiedIsFinite
    <3> QED BY <3>4 DEF Shows, Behind
  <2> QED BY <1>0, <2>2, <2>4 DEF Told, Carries
<1>4. CASE Claim(p)
  <2>0. proc[p].pc = "claim"
    BY <1>4 DEF Claim
  <2>1. CASE died.creating + died.elsewhere # 0
    BY <1>0, <2>1 DEF Told
  <2>2. CASE died.creating + died.elsewhere = 0
    <3>1. ASSUME NEW r \in Referrers PROVE Shows(proc[p], r) /\ Carries(proc[p])
      BY <2>2 DEF Told
    <3>2. ASSUME NEW r \in Referrers
          PROVE  stats[r].invited = Cardinality(Invited(r)) /\ stats[r].qualified = Cardinality(Qualified(r))
      <4>1. Behind(proc[p], r, {"recount", "bump"}) = 0 /\ Behind(proc[p], r, {"bumpq"}) = 0
        BY <2>0 DEF Behind
      <4> QED BY <3>1, <4>1 DEF Shows, Typed
    <3>3. stats' = stats \/ stats' = [stats EXCEPT ![b].qualified = proc[p].qualified]
      BY <1>4 DEF Claim, Take
    <3>4. stats' = stats
      <4>1. proc[p].qualified = stats[b].qualified
        BY <1>0, <2>0, <3>1, <3>2 DEF Carries
      <4> QED BY <3>3, <4>1 DEF Typed
    <3>5. PICK x : proc' = [proc EXCEPT ![p] = x] /\ x.pc \in {"idle", "check", "grant"}
      <4>1. After(p).pc \in {"idle", "check"}
        BY <2>0, AfterIsLoop
      <4>2. \/ proc' = [proc EXCEPT ![p] = After(p)]
            \/ proc' = [proc EXCEPT ![p] = [pc |-> "grant", by |-> b, todo |-> proc[p].todo]]
        BY <1>4 DEF Claim, Take, Typed
      <4>3. [pc |-> "grant", by |-> b, todo |-> proc[p].todo].pc = "grant"
        OBVIOUS
      <4> QED BY <4>1, <4>2, <4>3
    <3>6. Carries(x)
      BY <3>5 DEF Carries
    <3> QED BY <1>0, <2>0, <3>4, <3>5, <3>6, QuietTold
  <2> QED BY <2>1, <2>2
<1> QED BY <1>1, <1>2, <1>3, <1>4


\* Every other step only counts, or moves the handler on.
LEMMA OthersTold ==
    ASSUME IInv, NEW p \in Processes, Told(p), Roomy(p),
           \/ \E r \in Referrers, u \in Users : Register(p, r, u)
           \/ \E u \in Users : Use(p, u)
           \/ Recount(p) \/ RollBack(p) \/ Aggregate(p) \/ Count(p) \/ Check(p) \/ Grant(p)
           \/ GrantFails(p) \/ Die(p)
    PROVE  Told(p)'
<1>0. Typed
  BY DEF IInv
<1>1. ASSUME NEW x, proc' = [proc EXCEPT ![p] = x], UNCHANGED <<row, stats, died>>, Carries(x),
             x.pc \notin {"recount", "bump", "bumpq"},
             proc[p].pc \notin {"recount", "bump", "bumpq"}
      PROVE  Told(p)'
  BY <1>0, <1>1, QuietTold
<1>2. ASSUME NEW r \in Referrers, NEW u \in Users, Register(p, r, u) PROVE Told(p)'
  <2> DEFINE x == [pc |-> "insert", user |-> u, by |-> r]
  <2>1. Carries(x) /\ x.pc = "insert"
    BY DEF Carries
  <2>2. proc' = [proc EXCEPT ![p] = x] /\ UNCHANGED <<row, stats, died>> /\ proc[p].pc = "idle"
    BY <1>2 DEF Register, history, Idle
  <2> HIDE DEF x
  <2> QED BY <1>1, <2>1, <2>2
<1>3. ASSUME NEW u \in Users, Use(p, u) PROVE Told(p)'
  <2> DEFINE x == [pc |-> IF row[u].status = "pending" THEN "mark" ELSE "aggregate",
                   user |-> u, by |-> row[u].by]
  <2>1. Carries(x) /\ x.pc \in {"mark", "aggregate"}
    BY DEF Carries
  <2>2. proc' = [proc EXCEPT ![p] = x] /\ UNCHANGED <<row, stats, died>> /\ proc[p].pc = "idle"
    BY <1>3 DEF Use, history, Idle
  <2> HIDE DEF x
  <2> QED BY <1>1, <2>1, <2>2
<1>4. CASE Recount(p)
  <2>1. Goto(p, "bump") /\ UNCHANGED <<row, stats, died>>
    BY <1>4, InvitedIsFinite, ReferralsAssumption DEF Recount, Roomy, history
  <2> DEFINE x == [proc[p] EXCEPT !.pc = "bump"]
  <2>2. proc[p] \in Acting /\ proc[p].pc = "recount"
    BY <1>0, <1>4, DoingFields DEF Recount, Typed
  <2>3. x.pc = "bump" /\ x.by = proc[p].by /\ proc' = [proc EXCEPT ![p] = x]
    BY <1>0, <2>1, <2>2, GotoIs DEF Acting
  <2> HIDE DEF x
  <2>4. Carries(x)
    BY <2>3 DEF Carries
  <2> QED BY <1>0, <2>1, <2>2, <2>3, <2>4, QuietTold
<1>5. CASE Aggregate(p)
  <2> DEFINE x == [pc |-> "rebuild", by |-> proc[p].by,
                   invited |-> Cardinality(Invited(proc[p].by)),
                   qualified |-> Cardinality(Qualified(proc[p].by))]
  <2>1. Carries(x) /\ x.pc = "rebuild"
    BY DEF Carries
  <2>2. /\ proc' = [proc EXCEPT ![p] = x] /\ UNCHANGED <<row, stats, died>>
        /\ proc[p].pc = "aggregate"
    BY <1>5 DEF Aggregate, history
  <2> HIDE DEF x
  <2> QED BY <1>1, <2>1, <2>2
<1>6. CASE Count(p)
  <2> DEFINE x == Loop(proc[p].by, Earned(proc[p].by))
  <2>1. x.pc \in {"idle", "check"}
    BY DEF Loop, Idle
  <2>2. proc' = [proc EXCEPT ![p] = x] /\ UNCHANGED <<row, stats, died>> /\ proc[p].pc = "count"
    BY <1>6 DEF Count, history
  <2> HIDE DEF x
  <2>3. Carries(x)
    BY <2>1 DEF Carries
  <2> QED BY <1>1, <2>1, <2>2, <2>3
<1>7. CASE Check(p) \/ Grant(p) \/ GrantFails(p)
  <2>1. UNCHANGED <<row, stats, died>> /\ proc[p].pc \in {"check", "grant"}
    BY <1>7 DEF Check, Grant, GrantFails, history
  <2>2. After(p).pc \in {"idle", "check"} /\ Carries(After(p))
    BY <1>0, <2>1, AfterIsLoop DEF Carries
  <2> DEFINE y == [pc |-> "claim", by |-> proc[p].by, todo |-> proc[p].todo,
                   qualified |-> Cardinality(Qualified(proc[p].by))]
  <2>3. Carries(y) /\ y.pc = "claim"
    BY DEF Carries
  <2>4. proc' = [proc EXCEPT ![p] = After(p)] \/ proc' = [proc EXCEPT ![p] = y]
    BY <1>0, <1>7 DEF Check, Grant, GrantFails, Typed
  <2> HIDE DEF y
  <2> QED BY <1>1, <2>1, <2>2, <2>3, <2>4
<1>8. ~RollBack(p)
  BY DEF RollBack, Roomy
<1>9. CASE Die(p)
  <2>1. died'.creating + died'.elsewhere # 0
    BY <1>0, <1>9 DEF Die, Typed
  <2> QED BY <2>1 DEF Told
<1> QED BY <1>2, <1>3, <1>4, <1>5, <1>6, <1>7, <1>8, <1>9

LEMMA OnlyTells ==
    ASSUME NEW p, Processes = {p}, IInv, Roomy(p), Told(p), [Next]_vars
    PROVE  Told(p)'
<1>0. p \in Processes /\ Typed
  BY DEF IInv
<1>1. CASE UNCHANGED vars
  <2>1. \A r : Invited(r)' = Invited(r) /\ Qualified(r)' = Qualified(r)
    BY <1>1, RowsStay DEF vars
  <2> QED BY <1>1, <2>1 DEF vars, Told, Carries, Shows, Behind
<1>2. [Next]_vars => \/ UNCHANGED vars \/ Steps(p) \/ GrantFails(p) \/ Die(p)
                     \/ \E u \in Users : Use(p, u)
                     \/ \E r \in Referrers, u \in Users : Register(p, r, u)
  BY DEF Next
<1> QED BY <1>0, <1>1, <1>2, InsertTold, MarkTold, CountersTold, OthersTold DEF Steps

\* With one handler at a time, the leaderboard shows what the rows say
\* ("Always derive counters from referrals", mongo_repository.py:199): the
\* counters go wrong only where a handler writes what it counted before
\* another's change (ReferralOpen.cfg).
THEOREM LeaderboardShowsRows == OneHandler => (Spec => []LeaderboardIsTrue)
<1> SUFFICES ASSUME NEW p, Processes = {p} PROVE Spec => []LeaderboardIsTrue
  BY DEF OneHandler
<1>1. Init => Told(p)
  <2>0. Init => Carries(proc[p])
    BY DEF Init, Carries, Idle
  <2> SUFFICES ASSUME Init, NEW r \in Referrers PROVE Shows(proc[p], r)
    BY <2>0 DEF Told
  <2>1. Invited(r) = {} /\ Qualified(r) = {}
    BY DEF Init, Invited, Qualified
  <2>2. Cardinality(Invited(r)) = 0 /\ Cardinality(Qualified(r)) = 0
    BY <2>1, FS_EmptySet
  <2> QED BY <2>2 DEF Init, Shows, Behind, Idle
<1>2. IInv /\ Roomy(p) /\ Told(p) /\ [Next]_vars => Told(p)'
  BY OnlyTells
<1>3. IInv /\ Told(p) => LeaderboardIsTrue
  <2> SUFFICES ASSUME IInv, Told(p), AtRest, died.creating + died.elsewhere = 0, NEW r \in Referrers
               PROVE  stats[r] = [invited |-> Cardinality(Invited(r)),
                                  qualified |-> Cardinality(Qualified(r))]
    BY DEF LeaderboardIsTrue
  <2>1. Shows(proc[p], r) /\ proc[p] = Idle
    BY DEF Told, AtRest
  <2>2. stats[r] \in [invited : Nat, qualified : Nat]
    BY DEF IInv, Typed
  <2> QED BY <2>1, <2>2 DEF Shows, Behind, Idle
<1> QED BY <1>1, <1>2, <1>3, HandlersRoomy, Inductive, PTL DEF Spec

=============================================================================
