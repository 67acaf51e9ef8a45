--------------------------- MODULE ChargingProofs ---------------------------
(* Proofs about the two parts that charge the ledger for what was used:    *)
(* UsageRating alone, for any number of reports, requests and sweeps, and  *)
(* Charging, where any number of agent runs with any number of steps,      *)
(* retries and outages charges the same wallet at the same time.           *)
EXTENDS Charging, FiniteSetTheorems, SequenceTheorems, TLAPS

---------------------------------------------------------------------------
(* Usage rating                                                            *)

Jobs == [pc : {"insert", "look", "charge", "record"}, id : Id, todo : Todo]

\* What a process is doing is well typed; what it rates, now or later in a
\* sweep, is in the table; what it charges costs credits; and when it is about
\* to write a rating row the deduction is made.
Sound(x) ==
    /\ x \in {Idle} \cup Jobs
    /\ x.pc \in {"look", "charge", "record"} => Stored(x.id)
    /\ x # Idle => \A n \in DOMAIN x.todo : Stored(x.todo[n])
    /\ x.pc = "charge" => Cost[x.id[1]] # 0
    /\ x.pc = "record" => Cost[x.id[1]] = 0 \/ Charged(x.id)

\* The UNIQUE constraint on the batches' idempotency key.
OneRowPerKey == \A i, j \in DOMAIN rows : rows[i][1] = rows[j][1] => rows[i] = rows[j]

ChargeIsStored == \A id \in Id : Charged(id) => Stored(id)

CreditsAreCosts == \A r \in rated : r.credits = Cost[r.id[1]]

IInv == /\ TypeOK /\ \A p \in Processes : Sound(proc[p])
        /\ OneRowPerKey /\ ChargeIsStored /\ CreditsAreCosts /\ RatingIsBacked

\* Neither a batch nor a deduction is ever taken back.
Grows == /\ \A id : Stored(id) => Stored(id)'
         /\ done \subseteq done'

---------------------------------------------------------------------------
(* Sequences of batches *)

LEMMA TodoIsSeq == \A t : t \in Todo <=> t \in Seq(Id) /\ Len(t) <= Limit
<1> USE UsageRatingAssumption
<1>1. <<>> \in Seq(Id) /\ Len(<<>>) = 0
  BY EmptySeq
<1>2. ASSUME NEW n \in Nat, NEW t \in [1..n -> Id]
      PROVE  t \in Seq(Id) /\ Len(t) = n
  <2>1. t \in Seq(Id)
    BY <1>2, SeqDef
  <2>2. Len(t) \in Nat /\ DOMAIN t = 1..Len(t) /\ DOMAIN t = 1..n
    BY <1>2, <2>1, LenProperties
  <2> QED BY <2>1, <2>2
<1>3. ASSUME NEW t, t \in Seq(Id) /\ Len(t) <= Limit
      PROVE  t \in Todo
  <2>1. Len(t) \in Nat /\ t \in [1..Len(t) -> Id]
    BY <1>3, LenProperties
  <2>2. CASE Len(t) = 0
    BY <2>2, <1>3, EmptySeq DEF Todo
  <2>3. CASE Len(t) # 0
    <3>1. Len(t) \in 1..Limit
      BY <2>3, <2>1, <1>3
    <3> DEFINE n == Len(t)
    <3>2. n \in 1..Limit /\ t \in [1..n -> Id]
      BY <3>1, <2>1
    <3> HIDE DEF n
    <3>3. t \in UNION {[1..m -> Id] : m \in 1..Limit}
      BY <3>2, Zenon
    <3> QED BY <3>3 DEF Todo
  <2> QED BY <2>2, <2>3
<1>4. ASSUME NEW t \in Todo
      PROVE  t \in Seq(Id) /\ Len(t) <= Limit
  <2>1. t = <<>> \/ \E n \in 1..Limit : t \in [1..n -> Id]
    BY <1>4, Zenon DEF Todo
  <2>2. ASSUME NEW n \in 1..Limit, t \in [1..n -> Id]
        PROVE  t \in Seq(Id) /\ Len(t) <= Limit
    BY <2>2, <1>2
  <2>3. CASE t = <<>>
    BY <2>3, <1>1
  <2> QED BY <2>1, <2>2, <2>3, Zenon
<1> QED BY <1>3, <1>4

LEMMA HeadAndTail ==
    ASSUME NEW t \in Seq(Id), t # <<>>, Len(t) <= Limit
    PROVE  /\ At("look", Head(t), Tail(t)) \in Jobs
           /\ \A S : (\A n \in DOMAIN t : t[n] \in S) =>
                Head(t) \in S /\ \A n \in DOMAIN Tail(t) : Tail(t)[n] \in S
<1> USE UsageRatingAssumption
<1>1. /\ Head(t) \in Id /\ Tail(t) \in Seq(Id) /\ Len(Tail(t)) = Len(t) - 1
      /\ \A i \in 1..Len(Tail(t)) : Tail(t)[i] = t[i + 1]
  BY HeadTailProperties
<1>2. Len(t) \in Nat \ {0} /\ DOMAIN t = 1..Len(t) /\ DOMAIN Tail(t) = 1..Len(Tail(t))
  BY <1>1, LenProperties, EmptySeq
<1>3. Head(t) = t[1]
  OBVIOUS
<1>4. Tail(t) \in Todo
  <2>1. Len(Tail(t)) <= Limit
    BY <1>1, <1>2
  <2> QED BY <2>1, <1>1, TodoIsSeq
<1>5. At("look", Head(t), Tail(t)) \in Jobs
  BY <1>1, <1>4 DEF At, Jobs
<1>6. ASSUME NEW S, \A n \in DOMAIN t : t[n] \in S
      PROVE  Head(t) \in S /\ \A n \in DOMAIN Tail(t) : Tail(t)[n] \in S
  <2>1. \A n \in DOMAIN Tail(t) : n + 1 \in DOMAIN t /\ Tail(t)[n] = t[n + 1]
    BY <1>1, <1>2
  <2> QED BY <2>1, <1>2, <1>3, <1>6
<1> QED BY <1>5, <1>6

LEMMA WindowIsRows ==
    ASSUME rows \in Seq(Id)
    PROVE  /\ Window \in Seq(Id) /\ Len(Window) <= Limit
           /\ \A n \in DOMAIN Window : Stored(Window[n])
<1> USE UsageRatingAssumption
<1> DEFINE last == IF Len(rows) < Limit THEN Len(rows) ELSE Limit
<1>1. Len(rows) \in Nat /\ DOMAIN rows = 1..Len(rows) /\ \A i \in 1..Len(rows) : rows[i] \in Id
  BY LenProperties, ElementOfSeq
<1>2. last \in Nat /\ last <= Len(rows) /\ last <= Limit
  BY <1>1
<1>3. \A i \in 1..last : rows[i] \in Id
  BY <1>1, <1>2
<1> HIDE DEF last
<1>4. /\ SubSeq(rows, 1, last) \in Seq(Id)
      /\ Len(SubSeq(rows, 1, last)) = IF 1 <= last THEN last - 1 + 1 ELSE 0
      /\ \A i \in 1..(last - 1 + 1) : SubSeq(rows, 1, last)[i] = rows[1 + i - 1]
  BY <1>2, <1>3, SubSeqProperties
<1>5. Window = SubSeq(rows, 1, last)
  BY DEF Window, last
<1>6. Len(Window) = last /\ DOMAIN Window = 1..last
  BY <1>2, <1>4, <1>5, LenProperties
<1>7. ASSUME NEW n \in DOMAIN Window
      PROVE  n \in DOMAIN rows /\ Window[n] = rows[n]
  BY <1>1, <1>2, <1>4, <1>5, <1>6
<1> QED BY <1>2, <1>4, <1>5, <1>6, <1>7 DEF Stored

---------------------------------------------------------------------------
(* One process moves, the others keep what they are doing *)

LEMMA JobFields ==
    ASSUME NEW x \in {Idle} \cup Jobs
    PROVE  /\ x # Idle => x \in Jobs /\ x.id \in Id /\ x.todo \in Todo
           /\ x.pc \in {"insert", "look", "charge", "record"} => x # Idle
  BY DEF Jobs, Idle

LEMMA IdleIsSound == Sound(Idle)
  BY DEF Sound, Idle

LEMMA Kept ==
    ASSUME NEW x, Sound(x), Grows
    PROVE  Sound(x)'
  BY DEF Sound, Grows, Charged

LEMMA OneMoves ==
    ASSUME proc \in [Processes -> {Idle} \cup Jobs], \A q \in Processes : Sound(proc[q]), Grows,
           NEW p \in Processes, NEW x, proc' = [proc EXCEPT ![p] = x], Sound(x)'
    PROVE  (\A q \in Processes : Sound(proc[q]))' /\ (proc \in [Processes -> {Idle} \cup Jobs])'
<1>1. ASSUME NEW q \in Processes
      PROVE  Sound(proc[q])'
  <2>1. PICK y : y = proc[q]
    OBVIOUS
  <2>2. Sound(y)'
    BY <2>1, Kept
  <2>3. CASE q = p
    BY <2>3 DEF Sound
  <2>4. CASE q # p
    <3>1. proc'[q] = y
      BY <2>1, <2>4
    <3> QED BY <2>2, <3>1 DEF Sound
  <2> QED BY <2>3, <2>4
<1>2. x \in {Idle} \cup Jobs
  BY DEF Sound
<1> QED BY <1>1, <1>2

\* What After leads to is in the table as well.
LEMMA AfterIsSound ==
    ASSUME NEW p \in Processes, Sound(proc[p]), proc[p] # Idle
    PROVE  Sound(After(p)) /\ After(p) \in {Idle} \cup Jobs
<1> DEFINE t == proc[p].todo
           S == {id \in Id : Stored(id)}
<1>1. proc[p] \in {Idle} \cup Jobs /\ \A n \in DOMAIN t : Stored(t[n])
  BY DEF Sound
<1>2. t \in Seq(Id) /\ Len(t) <= Limit
  BY <1>1, JobFields, TodoIsSeq
<1>3. CASE t = <<>>
  BY <1>3, IdleIsSound DEF After, Idle
<1>4. CASE t # <<>>
  <2>1. \A n \in DOMAIN t : t[n] \in S
    BY <1>1, <1>2, LenProperties, ElementOfSeq
  <2>2. At("look", Head(t), Tail(t)) \in Jobs
    BY <1>2, <1>4, HeadAndTail
  <2>3. Head(t) \in S /\ \A n \in DOMAIN Tail(t) : Tail(t)[n] \in S
    BY <1>2, <1>4, <2>1, HeadAndTail
  <2> HIDE DEF t
  <2>4. Sound(At("look", Head(t), Tail(t)))
    BY <2>2, <2>3 DEF Sound, At
  <2>5. After(p) = At("look", Head(t), Tail(t))
    BY <1>4 DEF After, t
  <2> QED BY <2>2, <2>4, <2>5
<1> QED BY <1>3, <1>4

LEMMA RateKeyIsOwn == \A i, j \in Id : RateKey(i) = RateKey(j) => i = j
  BY DEF Id, RateKey

---------------------------------------------------------------------------
(* The invariant *)

\* What a step of process p leaves to show, when it changes nothing but
\* what p is doing.
LEMMA OnlyProc ==
    ASSUME IInv, NEW p \in Processes, NEW x, Sound(x), proc' = [proc EXCEPT ![p] = x],
           UNCHANGED <<account, rows, rated>>, stops' \in 0..MaxStops
    PROVE  IInv'
<1>1. Grows
  BY DEF Grows, account, Stored
<1>2. Sound(x)'
  BY <1>1, Kept
<1>3. proc \in [Processes -> {Idle} \cup Jobs]
  BY DEF IInv, TypeOK, Jobs
<1>4. (\A q \in Processes : Sound(proc[q]))' /\ (proc \in [Processes -> {Idle} \cup Jobs])'
  BY <1>1, <1>2, <1>3, OneMoves DEF IInv
<1>5. TypeOK'
  BY <1>4 DEF IInv, TypeOK, account, Jobs
<1>6. (OneRowPerKey /\ ChargeIsStored /\ CreditsAreCosts /\ RatingIsBacked)'
  BY DEF IInv, OneRowPerKey, ChargeIsStored, CreditsAreCosts, RatingIsBacked, account, Stored, Charged
<1> QED BY <1>4, <1>5, <1>6 DEF IInv

LEMMA IInvInit == Init => IInv
<1> SUFFICES ASSUME Init PROVE IInv
  OBVIOUS
<1> USE DEF Init
<1>1. TypeOK
  BY UsageRatingAssumption, EmptySeq DEF TypeOK, Account!Init
<1>2. \A p \in Processes : Sound(proc[p])
  BY IdleIsSound
<1>3. OneRowPerKey /\ ChargeIsStored /\ CreditsAreCosts /\ RatingIsBacked
  BY DEF OneRowPerKey, ChargeIsStored, CreditsAreCosts, RatingIsBacked, Charged, Account!Init
<1> QED BY <1>1, <1>2, <1>3 DEF IInv

\* The ledger moves under the ratings: the balance changes and keys that
\* are not theirs are posted.
LEMMA LedgerMoves ==
    ASSUME IInv, UNCHANGED rating, available' \in Int, held' = held,
           done \subseteq done', done' \subseteq Keys,
           \A id \in Id : Charged(id)' => Charged(id)
    PROVE  IInv'
<1>1. UNCHANGED <<rows, rated, proc, stops>>
  BY DEF rating
<1>2. Grows /\ \A id \in Id : Charged(id)' <=> Charged(id)
  BY <1>1 DEF Grows, Stored, Charged
<1>3. TypeOK'
  BY <1>1 DEF IInv, TypeOK
<1>4. ASSUME NEW q \in Processes
      PROVE  Sound(proc[q])'
  <2>1. PICK y : y = proc[q]
    OBVIOUS
  <2>2. Sound(y)'
    BY <1>2, <2>1, Kept DEF IInv
  <2> QED BY <1>1, <2>1, <2>2 DEF Sound
<1>5. (OneRowPerKey /\ ChargeIsStored /\ CreditsAreCosts)'
  BY <1>1, <1>2 DEF IInv, OneRowPerKey, ChargeIsStored, CreditsAreCosts, Stored
<1>6. RatingIsBacked'
  BY <1>1, <1>2 DEF IInv, RatingIsBacked, TypeOK, Stored
<1> QED BY <1>3, <1>4, <1>5, <1>6 DEF IInv

LEMMA TopUpKeeps ==
    ASSUME IInv, TopUp
    PROVE  IInv'
<1>1. PICK k \in TopUps : Account!Deposit(k) /\ UNCHANGED <<rows, rated, proc, stops>>
  BY DEF TopUp
<1>2. /\ k \in Keys /\ done' = done \cup {k}
      /\ available' = available + Call[k].amt /\ held' = held
  BY <1>1 DEF Account!Deposit, Account!Once
<1>3. Call[k].amt \in Nat /\ \A id \in Id : RateKey(id) # k
  BY UsageRatingAssumption
<1>4. available' \in Int /\ done' \subseteq Keys /\ \A id \in Id : Charged(id)' => Charged(id)
  BY <1>2, <1>3 DEF IInv, TypeOK, Charged
<1> QED BY <1>1, <1>2, <1>4, LedgerMoves DEF rating

LEMMA IngestKeeps ==
    ASSUME IInv, NEW p \in Senders, NEW k \in Usage, Ingest(p, k)
    PROVE  IInv'
<1> DEFINE x == At("insert", <<k, p>>, <<>>)
<1>1. <<>> \in Todo /\ <<k, p>> \in Id
  BY DEF Todo, Id
<1>2. Sound(x)
  BY <1>1 DEF Sound, At, Jobs
<1>3. p \in Processes /\ stops' \in 0..MaxStops
  BY DEF Processes, Ingest, IInv, TypeOK
<1>4. proc' = [proc EXCEPT ![p] = x] /\ UNCHANGED <<account, rows, rated>>
  BY DEF Ingest
<1> HIDE DEF x
<1> QED BY <1>2, <1>3, <1>4, OnlyProc

LEMMA SweepKeeps ==
    ASSUME IInv, NEW p \in Sweepers, Sweep(p)
    PROVE  IInv'
<1> DEFINE x == At("look", Head(Window), Tail(Window))
           S == {id \in Id : Stored(id)}
<1>1. rows \in Seq(Id)
  BY DEF IInv, TypeOK
<1>2. Window \in Seq(Id) /\ Len(Window) <= Limit /\ Window # <<>>
  BY <1>1, WindowIsRows DEF Sweep
<1>3. \A n \in DOMAIN Window : Window[n] \in S
  BY <1>1, <1>2, WindowIsRows, LenProperties, ElementOfSeq
<1>4. x \in Jobs /\ Head(Window) \in S /\ \A n \in DOMAIN Tail(Window) : Tail(Window)[n] \in S
  BY <1>2, <1>3, HeadAndTail
<1>5. Sound(x)
  BY <1>4 DEF Sound, At
<1>6. p \in Processes /\ stops' \in 0..MaxStops
  BY DEF Processes, Sweep, IInv, TypeOK
<1>7. proc' = [proc EXCEPT ![p] = x] /\ UNCHANGED <<account, rows, rated>>
  BY DEF Sweep
<1> HIDE DEF x
<1> QED BY <1>5, <1>6, <1>7, OnlyProc

LEMMA StopKeeps ==
    ASSUME IInv, NEW p \in Processes, Stop(p)
    PROVE  IInv'
<1>1. stops' \in 0..MaxStops
  BY UsageRatingAssumption DEF Stop, IInv, TypeOK
<1> QED BY <1>1, IdleIsSound, OnlyProc DEF Stop

LEMMA LookKeeps ==
    ASSUME IInv, NEW p \in Processes, Look(p)
    PROVE  IInv'
<1> DEFINE id == proc[p].id
           pc == IF Cost[id[1]] = 0 THEN "record" ELSE "charge"
           x == IF IsRated(id) THEN After(p) ELSE [proc[p] EXCEPT !.pc = pc]
<1>1. Sound(proc[p]) /\ proc[p].pc = "look"
  BY DEF IInv, Look
<1>2. proc[p] \in Jobs /\ proc[p] # Idle
  BY <1>1, JobFields DEF Sound
<1>3. Sound(After(p))
  BY <1>1, <1>2, AfterIsSound
<1>4. Sound([proc[p] EXCEPT !.pc = pc])
  <2> PICK y \in Jobs : y = proc[p] /\ Sound(y) /\ y.pc = "look"
    BY <1>1, <1>2
  <2>1. /\ [y EXCEPT !.pc = pc] \in Jobs
        /\ [y EXCEPT !.pc = pc].id = y.id /\ [y EXCEPT !.pc = pc].todo = y.todo
        /\ [y EXCEPT !.pc = pc].pc = pc
    BY DEF Jobs
  <2>2. y # Idle
    BY <1>2
  <2> QED BY <2>1, <2>2 DEF Sound
<1>5. Sound(x)
  BY <1>3, <1>4
<1>6. proc' = [proc EXCEPT ![p] = x] /\ UNCHANGED <<account, rows, rated>> /\ stops' \in 0..MaxStops
  BY DEF Look, IInv, TypeOK
<1> HIDE DEF x
<1> QED BY <1>5, <1>6, OnlyProc

\* A deduction is made on behalf of the batch that p is rating.
LEMMA ChargeKeeps ==
    ASSUME IInv, NEW p \in Processes, Charge(p)
    PROVE  IInv'
<1> DEFINE id == proc[p].id
<1>1. Sound(proc[p]) /\ proc[p].pc = "charge"
  BY DEF IInv, Charge
<1>2. proc[p] \in Jobs /\ proc[p] # Idle /\ id \in Id /\ Stored(id) /\ Cost[id[1]] # 0
  BY <1>1, JobFields DEF Sound
<1>3. PICK y \in Jobs : y = proc[p] /\ Sound(y) /\ y # Idle
  BY <1>1, <1>2
<1> DEFINE x == [y EXCEPT !.pc = "record"]
<1>4. x \in Jobs /\ x.id = y.id /\ x.todo = y.todo /\ x.pc = "record"
  BY DEF Jobs
<1>5. stops' \in 0..MaxStops
  BY DEF Charge, IInv, TypeOK
<1>6. CASE Account!Spend(RateKey(id)) /\ proc' = [proc EXCEPT ![p].pc = "record"]
  <2>1. /\ RateKey(id) \in Keys /\ done' = done \cup {RateKey(id)}
        /\ available' = available - Call[RateKey(id)].amt /\ held' = held
        /\ rows' = rows /\ rated' = rated
    BY <1>6 DEF Account!Spend, Account!Once, Charge
  <2>2. Cost[id[1]] > 0 /\ Call[RateKey(id)].amt = Cost[id[1]] /\ Cost[id[1]] \in Nat
    BY <1>2, UsageRatingAssumption DEF Id
  <2>3. Grows /\ (\A i \in Id : Charged(i)' <=> Charged(i) \/ i = id)
    BY <1>2, <2>1, RateKeyIsOwn DEF Grows, Stored, Charged
  <2>4. Sound(x)'
    BY <1>3, <1>4, <2>1, <1>2, <2>3, Kept DEF Sound, Charged, Stored
  <2>5. proc' = [proc EXCEPT ![p] = x] /\ proc \in [Processes -> {Idle} \cup Jobs]
    BY <1>3, <1>6 DEF IInv, TypeOK, Jobs
  <2> HIDE DEF x, id
  <2>6. (\A q \in Processes : Sound(proc[q]))' /\ (proc \in [Processes -> {Idle} \cup Jobs])'
    BY <2>3, <2>4, <2>5, OneMoves DEF IInv
  <2>7. TypeOK'
    BY <1>5, <2>1, <2>2, <2>6 DEF IInv, TypeOK, Jobs
  <2>8. (OneRowPerKey /\ CreditsAreCosts)'
    BY <2>1 DEF IInv, OneRowPerKey, CreditsAreCosts
  <2>9. ChargeIsStored'
    BY <1>2, <2>3, <2>1 DEF IInv, ChargeIsStored, Stored, id
  <2>10. RatingIsBacked'
    BY <2>1, <2>3 DEF IInv, TypeOK, RatingIsBacked, Stored
  <2> QED BY <2>6, <2>7, <2>8, <2>9, <2>10 DEF IInv
<1>7. CASE Charged(id) /\ proc' = [proc EXCEPT ![p].pc = "record"] /\ UNCHANGED account
  <2>1. Sound(x)
    <3>1. /\ Charged(y.id) /\ Stored(y.id)
          /\ \A n \in DOMAIN y.todo : Stored(y.todo[n])
      BY <1>2, <1>3, <1>7 DEF Sound
    <3> HIDE DEF x
    <3> QED BY <1>4, <3>1 DEF Sound
  <2>2. proc' = [proc EXCEPT ![p] = x] /\ UNCHANGED <<account, rows, rated>>
    BY <1>3, <1>7 DEF Charge
  <2> HIDE DEF x
  <2> QED BY <1>5, <2>1, <2>2, OnlyProc
<1>8. CASE proc' = [proc EXCEPT ![p] = After(p)] /\ UNCHANGED account
  <2>1. Sound(After(p))
    BY <1>1, <1>2, AfterIsSound
  <2>2. UNCHANGED <<account, rows, rated>>
    BY <1>8 DEF Charge
  <2> QED BY <1>5, <1>8, <2>1, <2>2, OnlyProc
<1> QED BY <1>6, <1>7, <1>8 DEF Charge

LEMMA RecordKeeps ==
    ASSUME IInv, NEW p \in Processes, Record(p)
    PROVE  IInv'
<1> DEFINE id == proc[p].id
<1>1. Sound(proc[p]) /\ proc[p].pc = "record"
  BY DEF IInv, Record
<1>2. proc[p] # Idle /\ id \in Id /\ Stored(id) /\ (Cost[id[1]] = 0 \/ Charged(id))
  BY <1>1, JobFields DEF Sound
<1>3. Sound(After(p))
  BY <1>1, <1>2, AfterIsSound
<1>4. Cost[id[1]] \in Nat
  BY <1>2, UsageRatingAssumption DEF Id
<1>5. PICK x : x = After(p) /\ Sound(x)
  BY <1>3
<1>6. UNCHANGED <<available, held, done, rows, stops>> /\ proc' = [proc EXCEPT ![p] = x]
  BY <1>5 DEF Record, account
<1>7. Grows
  BY <1>6 DEF Grows, Stored
<1>8. proc \in [Processes -> {Idle} \cup Jobs]
  BY DEF IInv, TypeOK, Jobs
<1>9. Sound(x)'
  BY <1>5, <1>7, Kept
<1>10. (\A q \in Processes : Sound(proc[q]))' /\ (proc \in [Processes -> {Idle} \cup Jobs])'
  BY <1>6, <1>7, <1>8, <1>9, OneMoves DEF IInv
<1>11. \A r \in rated' : r \in rated \/ r = [id |-> id, credits |-> Cost[id[1]]]
  BY DEF Record
<1>12. rated' \subseteq [id : Id, credits : Nat]
  BY <1>2, <1>4, <1>11 DEF IInv, TypeOK
<1>13. TypeOK'
  BY <1>6, <1>10, <1>12 DEF IInv, TypeOK, Jobs
<1>14. (OneRowPerKey /\ ChargeIsStored)'
  BY <1>6 DEF IInv, OneRowPerKey, ChargeIsStored, Stored, Charged
<1>15. CreditsAreCosts'
  BY <1>11 DEF IInv, CreditsAreCosts
<1>16. RatingIsBacked'
  BY <1>2, <1>4, <1>6, <1>11 DEF IInv, RatingIsBacked, Stored, Charged
<1> QED BY <1>10, <1>13, <1>14, <1>15, <1>16 DEF IInv

\* The UNIQUE constraint turns a second batch with the same key away.
LEMMA InsertKeeps ==
    ASSUME IInv, NEW p \in Senders, Insert(p)
    PROVE  IInv'
<1> DEFINE id == proc[p].id
<1>1. p \in Processes /\ Sound(proc[p]) /\ proc[p].pc = "insert"
  BY DEF IInv, Insert, Processes
<1>2. PICK y \in Jobs : y = proc[p] /\ Sound(y) /\ y # Idle
  BY <1>1, JobFields DEF Sound
<1>3. id \in Id /\ stops' \in 0..MaxStops
  BY <1>2 DEF Jobs, Insert, IInv, TypeOK
<1>4. CASE HasKey(id[1])
  BY <1>1, <1>3, <1>4, IdleIsSound, OnlyProc DEF Insert
<1>5. CASE ~HasKey(id[1])
  <2> PICK x \in Jobs : /\ x = [y EXCEPT !.pc = "look"]
                        /\ x.id = y.id /\ x.todo = y.todo /\ x.pc = "look"
    <3>1. /\ [y EXCEPT !.pc = "look"] \in Jobs
          /\ [y EXCEPT !.pc = "look"].id = y.id
          /\ [y EXCEPT !.pc = "look"].todo = y.todo
          /\ [y EXCEPT !.pc = "look"].pc = "look"
      BY DEF Jobs
    <3> QED BY <3>1, Zenon
  <2>1. rows' = Append(rows, id) /\ proc' = [proc EXCEPT ![p] = x] /\ UNCHANGED <<account, rated>>
    BY <1>2, <1>5 DEF Insert
  <2>2. rows \in Seq(Id) /\ Len(rows) \in Nat /\ DOMAIN rows = 1..Len(rows)
    BY LenProperties DEF IInv, TypeOK
  <2>3. /\ rows' \in Seq(Id) /\ DOMAIN rows' = 1..(Len(rows) + 1)
        /\ \A i \in 1..Len(rows) : rows'[i] = rows[i]
        /\ rows'[Len(rows) + 1] = id
    BY <1>3, <2>1, <2>2, AppendProperties, LenProperties
  <2>4. (\A i : Stored(i) => Stored(i)') /\ Stored(y.id)'
    <3>1. DOMAIN rows \subseteq DOMAIN rows' /\ Len(rows) + 1 \in DOMAIN rows'
      BY <2>2, <2>3
    <3>2. \A n \in DOMAIN rows : rows'[n] = rows[n]
      BY <2>2, <2>3
    <3>3. ASSUME NEW i, Stored(i)
          PROVE  Stored(i)'
      BY <3>1, <3>2, <3>3 DEF Stored
    <3>4. rows'[Len(rows) + 1] = y.id
      BY <1>2, <2>3
    <3> QED BY <3>1, <3>3, <3>4 DEF Stored
  <2>5. Grows
    BY <2>1, <2>4 DEF Grows, account
  <2>6. \A n \in DOMAIN y.todo : Stored(y.todo[n])'
    BY <1>2, <2>4 DEF Sound
  <2>7. Sound(x)'
    BY <2>4, <2>6 DEF Sound
  <2>8. proc \in [Processes -> {Idle} \cup Jobs]
    BY DEF IInv, TypeOK, Jobs
  <2>9. (\A q \in Processes : Sound(proc[q]))' /\ (proc \in [Processes -> {Idle} \cup Jobs])'
    BY <1>1, <2>1, <2>5, <2>7, <2>8, OneMoves DEF IInv
  <2>10. TypeOK'
    BY <1>3, <2>1, <2>3, <2>9 DEF IInv, TypeOK, Jobs, account
  <2>11. OneRowPerKey'
    <3>1. \A i \in 1..Len(rows) : rows[i][1] # id[1]
      BY <1>5, <2>2 DEF HasKey
    <3> QED BY <2>2, <2>3, <3>1 DEF IInv, OneRowPerKey
  <2>12. ChargeIsStored' /\ CreditsAreCosts'
    BY <2>1, <2>4 DEF IInv, ChargeIsStored, CreditsAreCosts, Charged, account
  <2>13. RatingIsBacked'
    BY <2>1, <2>4 DEF IInv, RatingIsBacked, Charged, account
  <2> QED BY <2>9, <2>10, <2>11, <2>12, <2>13 DEF IInv
<1> QED BY <1>4, <1>5

LEMMA NextKeeps == IInv /\ [Next]_vars => IInv'
<1> SUFFICES ASSUME IInv, [Next]_vars PROVE IInv'
  OBVIOUS
<1>1. CASE UNCHANGED vars
  <2>1. UNCHANGED <<available, held, done, rows, rated, proc, stops>>
    BY <1>1 DEF vars, account
  <2>2. TypeOK'
    BY <2>1 DEF IInv, TypeOK
  <2>3. (OneRowPerKey /\ CreditsAreCosts)'
    BY <2>1 DEF IInv, OneRowPerKey, CreditsAreCosts
  <2>4. (ChargeIsStored /\ RatingIsBacked)'
    BY <2>1 DEF IInv, ChargeIsStored, RatingIsBacked, Stored, Charged
  <2>5. ASSUME NEW p \in Processes
        PROVE  Sound(proc[p])'
    <3>1. Sound(proc[p])
      BY DEF IInv
    <3> QED BY <2>1, <3>1 DEF Sound, Stored, Charged
  <2> QED BY <2>2, <2>3, <2>4, <2>5 DEF IInv
<1>2. CASE TopUp
  BY <1>2, TopUpKeeps
<1>3. ASSUME NEW p \in Senders, Insert(p) \/ \E k \in Usage : Ingest(p, k)
      PROVE  IInv'
  BY <1>3, InsertKeeps, IngestKeeps
<1>4. ASSUME NEW p \in Sweepers, Sweep(p)
      PROVE  IInv'
  BY <1>4, SweepKeeps
<1>5. ASSUME NEW p \in Processes, Rate(p) \/ Stop(p)
      PROVE  IInv'
  BY <1>5, LookKeeps, ChargeKeeps, RecordKeeps, StopKeeps DEF Rate
<1> QED BY <1>1, <1>2, <1>3, <1>4, <1>5 DEF Next

LEMMA Inductive == Spec => []IInv
  BY IInvInit, NextKeeps, PTL DEF Spec

---------------------------------------------------------------------------
(* Theorems *)

\* The tables of usage_batches.py and rating_engine.py and what each process
\* does with them keep their types.
THEOREM RatingTyping == Spec => []TypeOK
<1>1. IInv => TypeOK
  BY DEF IInv
<1> QED BY <1>1, Inductive, PTL

LEMMA ChargedOnceHolds == IInv => UsageChargedOnce
<1> SUFFICES ASSUME IInv, NEW i \in Id, NEW j \in Id, Charged(i), Charged(j), i[1] = j[1]
             PROVE  i = j
  BY DEF UsageChargedOnce
<1>1. Stored(i) /\ Stored(j)
  BY DEF IInv, ChargeIsStored
<1> QED BY <1>1 DEF Stored, IInv, OneRowPerKey

\* A report is charged once, whichever requests carry it, whichever of them
\* or of the sweeps rate it, and wherever they stop (rating_engine.py:253,
\* usage_batches.py:376-410): what was charged was stored, and the table has
\* one row of a report.
THEOREM ChargedOnce == Spec => []UsageChargedOnce
  BY ChargedOnceHolds, Inductive, PTL

\* No rating row without its batch and its deduction (rating_engine.py:253-287).
THEOREM RatedIsPaid == Spec => []RatingIsBacked
<1>1. IInv => RatingIsBacked
  BY DEF IInv
<1> QED BY <1>1, Inductive, PTL

---------------------------------------------------------------------------
(* Live LLM charging                                                       *)

\* The two modules count alike.
LEMMA SameCount == ASSUME NEW S PROVE Llm!Cardinality(S) = Cardinality(S)
  BY DEF Llm!Cardinality, Cardinality

\* Every run has a directory of its own: a repair does not, see LlmRepair.cfg.
DirsAreOwn == \A q, r \in Runs : Dir[q] = Dir[r] => q = r

Base(r) == run[r].calls + (IF run[r].recovering THEN Recovery ELSE 0)

\* Between decisions the usage counter is behind the step, and the index is
\* ahead of the counter by no more than the attempts.
InRange(r) ==
    /\ run[r].calls <= run[r].step
    /\ ~run[r].recovering => run[r].calls < run[r].step
    /\ run[r].pc = "new" => run[r].attempt = 1
    /\ run[r].index >= Base(r)
    /\ run[r].pc = "charge" => run[r].index > Base(r)
    /\ run[r].index <= Base(r) + run[r].attempt
    /\ run[r].pc \in {"new", "call"} => run[r].index < Base(r) + run[r].attempt

\* What a run has posted: keys of earlier steps, and of this step up to the
\* index; the key it is about to charge is fresh.
Past(r, s, i) ==
    \/ s < run[r].step
    \/ s = run[r].step /\ i <= run[r].index /\ (run[r].pc = "charge" => i < run[r].index)
Fresh(r) == \A s \in Llm!Step, i \in Llm!Index :
    Llm!LlmKey(Dir[r], s, i) \in done => Past(r, s, i)

PostedCalls == done \cap Llm!LlmKeys
Counted == IsFiniteSet(PostedCalls) /\ Llm!CallsArePaid

LlmInv == Llm!TypeOK /\ Counted /\ \A r \in Runs : InRange(r) /\ Fresh(r)

---------------------------------------------------------------------------
(* A run's record *)

\* The fields of a run's record and their types.
LEMMA RunFields ==
    ASSUME Llm!Parameters, Llm!TypeOK, NEW r \in Runs
    PROVE /\ run[r].step \in Nat /\ run[r].step >= 1 /\ run[r].step <= MaxSteps
          /\ run[r].calls \in Nat /\ run[r].calls <= MaxSteps
          /\ run[r].index \in Nat
          /\ run[r].attempt \in Nat /\ run[r].attempt >= 1 /\ run[r].attempt <= MaxAttempts
<1>1. run[r] \in Llm!Running
  BY DEF Llm!TypeOK
<1> QED
  BY <1>1 DEF Llm!Parameters, Llm!Running, Llm!Step, Llm!Index

LEMMA BaseIsNat ==
    ASSUME Llm!Parameters, Llm!TypeOK, NEW r \in Runs
    PROVE Base(r) \in Nat /\ Base(r) <= run[r].calls + Recovery
  BY RunFields DEF Llm!Parameters, Base

\* The index never leaves the range the keys are drawn from.
LEMMA IndexFits ==
    ASSUME Llm!Parameters, Llm!TypeOK, NEW r \in Runs, NEW i \in Nat, NEW a \in Nat,
           a <= MaxAttempts, i <= Base(r) + a
    PROVE i \in Llm!Index \cup {0}
  BY RunFields, BaseIsNat DEF Llm!Parameters, Llm!Index

\* A step of a run gives it a record and leaves the others theirs.
LEMMA OneRun ==
    ASSUME Llm!Parameters, Llm!TypeOK, NEW r \in Runs, NEW x \in Llm!Running,
           run' = [run EXCEPT ![r] = x]
    PROVE run' \in [Runs -> Llm!Running] /\ run'[r] = x
             /\ \A q \in Runs \ {r} : run'[q] = run[q]
  BY DEF Llm!TypeOK

\* Runs that do not move keep their part of the invariant when the ledger
\* gains no key of theirs.
LEMMA OthersKeep ==
    ASSUME Llm!Parameters, NEW q \in Runs, InRange(q), Fresh(q), run'[q] = run[q],
           \A s \in Llm!Step, i \in Llm!Index :
               Llm!LlmKey(Dir[q], s, i) \in done' => Llm!LlmKey(Dir[q], s, i) \in done
    PROVE InRange(q)' /\ Fresh(q)'
  BY DEF InRange, Fresh, Past, Base

\* The invariant after a step of one run that posts no key.
LEMMA RunInv ==
    ASSUME Llm!Parameters, LlmInv, NEW r \in Runs, NEW x \in Llm!Running,
           run' = [run EXCEPT ![r] = x],
           done' = done, served' = served, outages' = outages, InRange(r)', Fresh(r)'
    PROVE LlmInv'
<1>1. Llm!TypeOK'
  BY OneRun DEF LlmInv, Llm!TypeOK
<1>2. Counted'
  BY SameCount DEF LlmInv, Counted, Llm!CallsArePaid, PostedCalls
<1>3. \A q \in Runs \ {r} : InRange(q)' /\ Fresh(q)'
  BY OneRun, OthersKeep DEF LlmInv
<1> QED
  BY <1>1, <1>2, <1>3 DEF LlmInv

---------------------------------------------------------------------------
(* Steps that only move a run on *)

Moved(r, pc) == [run[r] EXCEPT !.pc = pc]

LEMMA MovedFields ==
    ASSUME Llm!Parameters, Llm!TypeOK, NEW r \in Runs, NEW pc \in {"call", "decided", "over"}
    PROVE /\ Moved(r, pc) \in Llm!Running /\ Moved(r, pc).pc = pc
          /\ Moved(r, pc).step = run[r].step /\ Moved(r, pc).calls = run[r].calls
          /\ Moved(r, pc).index = run[r].index /\ Moved(r, pc).attempt = run[r].attempt
          /\ Moved(r, pc).recovering = run[r].recovering
  BY DEF Moved, Llm!TypeOK, Llm!Running

LEMMA Goes ==
    ASSUME Llm!Parameters, LlmInv, NEW r \in Runs, NEW pc \in {"call", "decided", "over"},
           Llm!Goto(r, pc),
           pc = "call" => run[r].pc = "new"
    PROVE /\ run' = [run EXCEPT ![r] = Moved(r, pc)]
          /\ InRange(r)'
          /\ \A s \in Llm!Step, i \in Llm!Index : Past(r, s, i) => Past(r, s, i)'
          /\ run'[r].step = run[r].step /\ run'[r].index = run[r].index /\ run'[r].pc = pc
<1>1. run' = [run EXCEPT ![r] = Moved(r, pc)]
  BY DEF Llm!Goto, Moved, LlmInv, Llm!TypeOK
<1>2. run'[r] = Moved(r, pc)
  BY <1>1, MovedFields, OneRun DEF LlmInv
<1>3. Base(r)' = Base(r)
  BY <1>2, MovedFields DEF LlmInv, Base
<1>4. InRange(r)'
  BY <1>2, <1>3, MovedFields DEF LlmInv, InRange
<1>5. \A s \in Llm!Step, i \in Llm!Index : Past(r, s, i) => Past(r, s, i)'
  BY <1>2, MovedFields DEF LlmInv, Past
<1> QED
  BY <1>1, <1>2, <1>4, <1>5, MovedFields DEF LlmInv

\* Going on without a charge keeps the invariant.
LEMMA GoesKeeps ==
    ASSUME Llm!Parameters, LlmInv, NEW r \in Runs, NEW pc \in {"call", "decided", "over"},
           Llm!Goto(r, pc),
           pc = "call" => run[r].pc = "new",
           UNCHANGED <<Llm!account, served, outages>>
    PROVE LlmInv'
<1>1. Fresh(r)'
  BY Goes DEF LlmInv, Fresh, Llm!account
<1> QED
  BY <1>1, Goes, MovedFields, RunInv DEF LlmInv, Llm!account

LEMMA StartKeeps == ASSUME Llm!Parameters, LlmInv, NEW r \in Runs, Llm!Start(r) PROVE LlmInv'
  BY GoesKeeps DEF Llm!Start

LEMMA EndKeeps ==
    ASSUME Llm!Parameters, LlmInv, NEW r \in Runs, Llm!Unmetered(r) \/ Llm!Broke(r)
              \/ Llm!Finish(r) \/ Llm!Die(r)
    PROVE LlmInv'
  BY GoesKeeps DEF Llm!Unmetered, Llm!Broke, Llm!Finish, Llm!Die

\* A decision's next step: more attempts, and the index of an answer.
LEMMA RespondKeeps == ASSUME Llm!Parameters, LlmInv, NEW r \in Runs,
  Llm!Respond(r) PROVE LlmInv'
<1> DEFINE x == [run[r] EXCEPT !.pc = "charge", !.index = @ + 1]
<1>1. run[r] \in Llm!Running /\ run[r].pc = "call" /\ run[r].index \in Nat
  BY RunFields DEF LlmInv, Llm!TypeOK, Llm!Respond
<1>2. run[r].index + 1 <= Base(r) + run[r].attempt
  BY <1>1, RunFields, BaseIsNat DEF LlmInv, InRange
<1>3. run[r].index + 1 \in Llm!Index
  BY <1>1, <1>2, RunFields, BaseIsNat, IndexFits DEF LlmInv, Llm!Index
<1>4. x \in Llm!Running
  BY <1>1, <1>3 DEF Llm!Running
<1>5. run' = [run EXCEPT ![r] = x]
  BY DEF Llm!Respond, LlmInv, Llm!TypeOK
<1>6. /\ run'[r].pc = "charge" /\ run'[r].index = run[r].index + 1
      /\ run'[r].step = run[r].step /\ run'[r].calls = run[r].calls
      /\ run'[r].attempt = run[r].attempt /\ run'[r].recovering = run[r].recovering
  BY <1>1, <1>4, <1>5, OneRun DEF LlmInv, Llm!Running
<1> HIDE DEF x
<1>7. Base(r)' = Base(r)
  BY <1>6 DEF Base
<1>8. InRange(r)'
  BY <1>1, <1>2, <1>6, <1>7, RunFields, BaseIsNat DEF LlmInv, InRange
<1>9. \A s \in Llm!Step, i \in Llm!Index : Past(r, s, i) => Past(r, s, i)'
  BY <1>1, <1>6 DEF Past, Llm!Index
<1>10. Fresh(r)'
  BY <1>9 DEF Fresh, LlmInv, Llm!Respond, Llm!account
<1> QED
  BY <1>4, <1>5, <1>8, <1>10, RunInv DEF Llm!Respond, Llm!account

LEMMA NoCallKeeps == ASSUME Llm!Parameters, LlmInv, NEW r \in Runs, Llm!NoCall(r) PROVE LlmInv'
<1> DEFINE x == [run[r] EXCEPT !.pc = "decided", !.attempt = MaxAttempts]
<1>1. run[r] \in Llm!Running /\ run[r].pc = "call" /\ MaxAttempts \in 1..MaxAttempts
  BY DEF Llm!Parameters, LlmInv, Llm!TypeOK, Llm!NoCall
<1>2. x \in Llm!Running
  BY <1>1 DEF Llm!Running
<1>3. run' = [run EXCEPT ![r] = x]
  BY DEF Llm!NoCall, LlmInv, Llm!TypeOK
<1>4. /\ run'[r].pc = "decided" /\ run'[r].index = run[r].index
      /\ run'[r].step = run[r].step /\ run'[r].calls = run[r].calls
      /\ run'[r].attempt = MaxAttempts /\ run'[r].recovering = run[r].recovering
  BY <1>1, <1>2, <1>3, OneRun DEF LlmInv, Llm!Running
<1> HIDE DEF x
<1>5. Base(r)' = Base(r)
  BY <1>4 DEF Base
<1>6. InRange(r)'
  BY <1>1, <1>4, <1>5, RunFields, BaseIsNat DEF Llm!Parameters, LlmInv, InRange
<1>7. \A s \in Llm!Step, i \in Llm!Index : Past(r, s, i) => Past(r, s, i)'
  BY <1>1, <1>4 DEF Past
<1>8. Fresh(r)'
  BY <1>7 DEF Fresh, LlmInv, Llm!NoCall, Llm!account
<1> QED
  BY <1>2, <1>3, <1>6, <1>8, RunInv DEF Llm!NoCall, Llm!account

LEMMA RetryKeeps == ASSUME Llm!Parameters, LlmInv, NEW r \in Runs, Llm!Retry(r) PROVE LlmInv'
<1> DEFINE x == [run[r] EXCEPT !.pc = "call", !.attempt = @ + 1]
<1>1. run[r] \in Llm!Running /\ run[r].pc \in {"call", "decided"}
         /\ run[r].attempt + 1 \in 1..MaxAttempts
  BY RunFields DEF Llm!Parameters, LlmInv, Llm!TypeOK, Llm!Retry
<1>2. x \in Llm!Running
  BY <1>1 DEF Llm!Running
<1>3. run' = [run EXCEPT ![r] = x]
  BY DEF Llm!Retry, LlmInv, Llm!TypeOK
<1>4. /\ run'[r].pc = "call" /\ run'[r].index = run[r].index
      /\ run'[r].step = run[r].step /\ run'[r].calls = run[r].calls
      /\ run'[r].attempt = run[r].attempt + 1 /\ run'[r].recovering = run[r].recovering
  BY <1>1, <1>2, <1>3, OneRun DEF LlmInv, Llm!Running
<1> HIDE DEF x
<1>5. Base(r)' = Base(r)
  BY <1>4 DEF Base
<1>6. InRange(r)'
  BY <1>1, <1>4, <1>5, RunFields, BaseIsNat DEF LlmInv, InRange
<1>7. \A s \in Llm!Step, i \in Llm!Index : Past(r, s, i) => Past(r, s, i)'
  BY <1>1, <1>4 DEF Past
<1>8. Fresh(r)'
  BY <1>7 DEF Fresh, LlmInv, Llm!Retry, Llm!account
<1> QED
  BY <1>2, <1>3, <1>6, <1>8, RunInv DEF Llm!Retry, Llm!account

---------------------------------------------------------------------------
(* A new decision *)

\* A recovery's keys are beyond those of the decision it recovers, a step's
\* beyond those of the steps before: neither can meet a posted key.
LEMMA BindKeeps ==
    ASSUME Llm!Parameters, LlmInv, NEW r \in Runs, NEW calls \in Llm!Used(r),
           NEW rec \in BOOLEAN, NEW step \in Llm!Step,
           run[r].pc = "decided",
           \/ rec /\ ~run[r].recovering /\ step = run[r].step
           \/ ~rec /\ step = run[r].step + 1,
           NEW index, index = calls + (IF rec THEN Recovery ELSE 0),
           Llm!Bind(r, step, calls, index, rec),
           UNCHANGED <<Llm!account, served, outages>>
    PROVE LlmInv'
<1> DEFINE x == [pc |-> "call", step |-> step, calls |-> calls, index |-> index,
                 attempt |-> 1, recovering |-> rec]
<1>1. step \in Nat /\ step <= MaxSteps /\ calls \in Nat /\ calls <= run[r].step
         /\ run[r].calls <= calls
  <2>1. run[r].calls \in Nat /\ run[r].calls <= run[r].step
        /\ (~run[r].recovering => run[r].calls < run[r].step)
    BY RunFields DEF LlmInv, InRange
  <2> QED
    BY <2>1, RunFields DEF Llm!Parameters, LlmInv, Llm!Used, Llm!Step
<1>2. calls \in 0..MaxSteps /\ (~rec => calls < step) /\ calls <= step
  <2>1. run[r].step \in Nat /\ (step = run[r].step \/ step = run[r].step + 1)
        /\ (~rec => step = run[r].step + 1)
    BY RunFields DEF LlmInv
  <2> QED
    BY <1>1, <2>1 DEF Llm!Parameters
<1>3. index \in Nat /\ index \in Llm!Index \cup {0}
  BY <1>1, <1>2 DEF Llm!Parameters, Llm!Index
<1>4. x \in Llm!Running
  BY <1>2, <1>3 DEF Llm!Parameters, Llm!Running
<1>5. run' = [run EXCEPT ![r] = x]
  BY DEF Llm!Bind
<1>6. /\ run'[r].pc = "call" /\ run'[r].index = index /\ run'[r].step = step
      /\ run'[r].calls = calls /\ run'[r].attempt = 1 /\ run'[r].recovering = rec
  BY <1>4, <1>5, OneRun DEF LlmInv
<1> HIDE DEF x
<1>7. Base(r)' = index
  BY <1>6 DEF Base
<1>8. InRange(r)'
  BY <1>2, <1>3, <1>6, <1>7 DEF InRange
<1>9. \A s \in Llm!Step, i \in Llm!Index : Past(r, s, i) => Past(r, s, i)'
  <2> SUFFICES ASSUME NEW s \in Llm!Step, NEW i \in Llm!Index, Past(r, s, i)
               PROVE s < step \/ (s = step /\ i <= index)
    BY <1>6 DEF Past
  <2>1. s \in Nat /\ i \in Nat /\ run[r].step \in Nat
    BY RunFields DEF Llm!Parameters, LlmInv, Llm!Step, Llm!Index
  <2>2. s < run[r].step \/ (s = run[r].step /\ i <= run[r].index)
    BY DEF Past
  <2>3. CASE ~rec
    BY <2>1, <2>2, <2>3
  <2>4. CASE rec
    <3>1. run[r].index <= run[r].calls + run[r].attempt
      BY <2>4, RunFields DEF LlmInv, InRange, Base
    <3>2. run[r].index <= index
      BY <3>1, <2>4, <1>1, RunFields DEF Llm!Parameters, LlmInv
    <3> QED
      BY <3>2, <2>1, <2>2, <2>4, <1>3, RunFields DEF LlmInv
  <2> QED
    BY <2>3, <2>4
<1>10. Fresh(r)'
  BY <1>9 DEF Fresh, LlmInv, Llm!account
<1> QED
  BY <1>4, <1>5, <1>8, <1>10, RunInv DEF Llm!account

LEMMA RecoverKeeps == ASSUME Llm!Parameters, LlmInv, NEW r \in Runs,
  Llm!Recover(r) PROVE LlmInv'
<1>1. PICK calls \in Llm!Used(r) : Llm!Bind(r, run[r].step, calls, calls + Recovery, TRUE)
  BY DEF Llm!Recover
<1>2. run[r].step \in Llm!Step
  BY DEF LlmInv, Llm!TypeOK, Llm!Running
<1> QED
  BY <1>1, <1>2, BindKeeps DEF Llm!Recover

LEMMA NextStepKeeps == ASSUME Llm!Parameters, LlmInv, NEW r \in Runs,
  Llm!NextStep(r) PROVE LlmInv'
<1>1. PICK calls \in Llm!Used(r) : Llm!Bind(r, run[r].step + 1, calls, calls, FALSE)
  BY DEF Llm!NextStep
<1>2. run[r].step + 1 \in Llm!Step
  BY RunFields DEF Llm!Parameters, LlmInv, Llm!NextStep, Llm!Step
<1>3. calls = calls + 0
  BY RunFields DEF LlmInv, Llm!Used
<1> QED
  BY <1>1, <1>2, <1>3, BindKeeps DEF Llm!NextStep

---------------------------------------------------------------------------
(* The charge *)

\* What a run is about to charge is a key of its own that it has not posted.
LEMMA KeyIsNew ==
    ASSUME Llm!Parameters, LlmInv, NEW r \in Runs, run[r].pc = "charge"
    PROVE /\ run[r].step \in Llm!Step /\ run[r].index \in Llm!Index
          /\ Llm!TheKey(r) \in Llm!LlmKeys /\ Llm!TheKey(r) \notin done
<1>1. run[r].index > 0
  BY RunFields, BaseIsNat DEF LlmInv, InRange
<1>2. run[r].step \in Llm!Step /\ run[r].index \in Llm!Index
  BY <1>1 DEF LlmInv, Llm!TypeOK, Llm!Running
<1>3. ~Past(r, run[r].step, run[r].index)
  BY RunFields DEF LlmInv, Past
<1> QED
  BY <1>2, <1>3 DEF LlmInv, Fresh, Llm!TheKey, Llm!LlmKeys

LEMMA PaymentKeeps ==
    ASSUME Llm!Parameters, LlmInv, DirsAreOwn, NEW r \in Runs, Llm!Charge(r)
    PROVE LlmInv'
<1>1. /\ run[r].step \in Llm!Step /\ run[r].index \in Llm!Index
      /\ Llm!TheKey(r) \in Llm!LlmKeys /\ Llm!TheKey(r) \notin done
  BY KeyIsNew DEF Llm!Charge
<1>2. done' = done \cup {Llm!TheKey(r)} /\ served' = served + 1 /\ outages' = outages
      /\ Llm!Goto(r, "decided")
  BY <1>1 DEF Llm!Charge, Llm!Account!Spend, Llm!Account!Once
<1>3. run' = [run EXCEPT ![r] = Moved(r, "decided")] /\ InRange(r)'
      /\ run'[r].step = run[r].step /\ run'[r].index = run[r].index /\ run'[r].pc = "decided"
      /\ \A s \in Llm!Step, i \in Llm!Index : Past(r, s, i) => Past(r, s, i)'
  BY <1>2, Goes
<1>4. Llm!TypeOK'
  BY <1>2, <1>3, MovedFields, OneRun DEF LlmInv, Llm!TypeOK
<1>5. Counted'
  <2>1. PostedCalls' = PostedCalls \cup {Llm!TheKey(r)} /\ Llm!TheKey(r) \notin PostedCalls
    BY <1>1, <1>2 DEF PostedCalls
  <2>2. IsFiniteSet(PostedCalls') /\ Cardinality(PostedCalls') = Cardinality(PostedCalls) + 1
    BY <2>1, FS_AddElement DEF LlmInv, Counted
  <2>3. Cardinality(PostedCalls) \in Nat /\ served = Cardinality(PostedCalls) + outages
           /\ outages \in Nat
    BY FS_CardinalityType, SameCount DEF LlmInv, Counted, Llm!CallsArePaid, Llm!TypeOK,
       PostedCalls
  <2>4. served' = Cardinality(PostedCalls') + outages'
    BY <2>2, <2>3, <1>2
  <2> QED
    BY <2>2, <2>4, SameCount DEF Counted, Llm!CallsArePaid, PostedCalls
<1>6. Fresh(r)'
  <2> SUFFICES ASSUME NEW s \in Llm!Step, NEW i \in Llm!Index, Llm!LlmKey(Dir[r], s,
    i) \in done'
               PROVE Past(r, s, i)'
    BY DEF Fresh
  <2>1. CASE Llm!LlmKey(Dir[r], s, i) \in done
    BY <2>1, <1>3 DEF LlmInv, Fresh
  <2>2. CASE Llm!LlmKey(Dir[r], s, i) = Llm!TheKey(r)
    <3>1. s = run[r].step /\ i = run[r].index
      BY <2>2 DEF Llm!LlmKey, Llm!TheKey
    <3> QED
      BY <3>1, <1>3, RunFields DEF LlmInv, Past
  <2> QED
    BY <2>1, <2>2, <1>2
<1>7. \A q \in Runs \ {r} : InRange(q)' /\ Fresh(q)'
  <2> SUFFICES ASSUME NEW q \in Runs \ {r} PROVE InRange(q)' /\ Fresh(q)'
    OBVIOUS
  <2>1. \A s, i : Llm!LlmKey(Dir[q], s, i) # Llm!TheKey(r)
    BY DEF DirsAreOwn, Llm!LlmKey, Llm!TheKey
  <2>2. run'[q] = run[q]
    BY <1>3, MovedFields, OneRun DEF LlmInv
  <2> QED
    BY <1>2, <2>1, <2>2, OthersKeep DEF LlmInv
<1> QED
  BY <1>3, <1>4, <1>5, <1>6, <1>7 DEF LlmInv

LEMMA OutageKeeps == ASSUME Llm!Parameters, LlmInv, NEW r \in Runs, Llm!Outage(r) PROVE LlmInv'
<1>1. Llm!Goto(r, "decided") /\ served' = served + 1 /\ outages' = outages + 1
      /\ done' = done /\ outages < MaxOutages
  BY DEF Llm!Outage, Llm!account
<1>2. run' = [run EXCEPT ![r] = Moved(r, "decided")] /\ InRange(r)'
      /\ \A s \in Llm!Step, i \in Llm!Index : Past(r, s, i) => Past(r, s, i)'
  BY <1>1, Goes
<1>3. outages \in Nat /\ outages' \in 0..MaxOutages /\ served' \in Nat
  BY <1>1 DEF Llm!Parameters, LlmInv, Llm!TypeOK
<1>4. Llm!TypeOK'
  BY <1>2, <1>3, MovedFields, OneRun DEF LlmInv, Llm!TypeOK
<1>5. Counted'
  <2>1. Cardinality(PostedCalls) \in Nat /\ served = Cardinality(PostedCalls) + outages
    BY FS_CardinalityType, SameCount DEF LlmInv, Counted, Llm!CallsArePaid, PostedCalls
  <2>2. PostedCalls' = PostedCalls
    BY <1>1 DEF PostedCalls
  <2>3. served' = Cardinality(PostedCalls') + outages'
    BY <2>1, <2>2, <1>1, <1>3
  <2> QED
    BY <2>2, <2>3, SameCount DEF LlmInv, Counted, Llm!CallsArePaid, PostedCalls
<1>6. Fresh(r)'
  BY <1>1, <1>2 DEF LlmInv, Fresh
<1>7. \A q \in Runs \ {r} : InRange(q)' /\ Fresh(q)'
  BY <1>1, <1>2, MovedFields, OneRun, OthersKeep DEF LlmInv
<1> QED
  BY <1>2, <1>4, <1>5, <1>6, <1>7 DEF LlmInv

LEMMA LlmInvInit == Llm!Parameters /\ Llm!Init => LlmInv
<1> SUFFICES ASSUME Llm!Parameters, Llm!Init PROVE LlmInv
  OBVIOUS
<1>1. done = {} /\ PostedCalls = {}
  BY DEF Llm!Init, Llm!Account!Init, PostedCalls
<1>2. Counted
  BY <1>1, FS_EmptySet, SameCount DEF Llm!Init, Counted, Llm!CallsArePaid, PostedCalls
<1>3. Llm!TypeOK
  BY DEF Llm!Parameters, Llm!Init, Llm!TypeOK, Llm!Running, Llm!Step
<1>4. \A r \in Runs : InRange(r) /\ Fresh(r)
  BY <1>1 DEF Llm!Init, InRange, Base, Fresh
<1> QED
  BY <1>2, <1>3, <1>4 DEF LlmInv

LEMMA ActKeeps ==
    ASSUME Llm!Parameters, LlmInv, DirsAreOwn, NEW r \in Runs, Llm!Act(r)
    PROVE LlmInv'
  BY StartKeeps, RespondKeeps, NoCallKeeps, PaymentKeeps, EndKeeps, OutageKeeps,
     RetryKeeps, RecoverKeeps, NextStepKeeps DEF Llm!Act

---------------------------------------------------------------------------
(* One wallet: neither part posts a key of the other                       *)

LEMMA KeysDiffer ==
    /\ \A id, d, s, i : RateKey(id) # Llm!LlmKey(d, s, i)
    /\ \A id : RateKey(id) \notin Llm!LlmKeys
<1>1. ASSUME NEW id, NEW d, NEW s, NEW i, RateKey(id) = Llm!LlmKey(d, s, i)
      PROVE  FALSE
  <2>1. RateKey(id)[1] = "rate" /\ Llm!LlmKey(d, s, i)[1] = "llm"
    BY DEF RateKey, Llm!LlmKey
  <2> QED BY <1>1, <2>1
<1> QED BY <1>1 DEF Llm!LlmKeys

LEMMA TopUpsDiffer == Llm!Parameters => TopUps \cap Llm!LlmKeys = {}
  BY DEF Llm!Parameters, TopUps

\* A step of the ratings posts the key of a batch or of a deposit.
LEMMA RatingPosts ==
    ASSUME Llm!Parameters, [Next]_vars
    PROVE  done' \cap Llm!LlmKeys = done \cap Llm!LlmKeys
<1> USE DEF account
<1>1. CASE UNCHANGED vars
  BY <1>1 DEF vars
<1>2. CASE TopUp
  <2>1. PICK k \in TopUps : done' = done \cup {k}
    BY <1>2 DEF TopUp, Account!Deposit, Account!Once
  <2> QED BY <2>1, TopUpsDiffer
<1>3. ASSUME NEW p, Charge(p)
      PROVE  done' \cap Llm!LlmKeys = done \cap Llm!LlmKeys
  <2>1. done' = done \/ done' = done \cup {RateKey(proc[p].id)}
    BY <1>3 DEF Charge, Account!Spend, Account!Once
  <2> QED BY <2>1, KeysDiffer
<1>4. ASSUME NEW p, NEW k, \/ Ingest(p, k) \/ Insert(p) \/ Sweep(p) \/ Look(p)
                           \/ Record(p) \/ Stop(p)
      PROVE  done' = done
  BY <1>4 DEF Ingest, Insert, Sweep, Look, Record, Stop
<1> QED BY <1>1, <1>2, <1>3, <1>4 DEF Next, Rate

\* The runs keep what they count on while the ratings take a step.
LEMMA RatingKeepsLlm ==
    ASSUME Llm!Parameters, LlmInv, [Next]_vars, UNCHANGED llm
    PROVE  LlmInv'
<1>1. PostedCalls' = PostedCalls
  BY RatingPosts DEF PostedCalls
<1>2. UNCHANGED <<run, served, outages>>
  BY DEF llm
<1>3. Counted'
  BY <1>1, <1>2, SameCount DEF LlmInv, Counted, Llm!CallsArePaid, PostedCalls
<1>4. \A r \in Runs, s \in Llm!Step, i \in Llm!Index :
        Llm!LlmKey(Dir[r], s, i) \in done' => Llm!LlmKey(Dir[r], s, i) \in done
  BY <1>1 DEF PostedCalls, Llm!LlmKeys
<1>5. \A r \in Runs : InRange(r)' /\ Fresh(r)'
  BY <1>2, <1>4, OthersKeep DEF LlmInv
<1> QED BY <1>2, <1>3, <1>5 DEF LlmInv, Llm!TypeOK

\* A step of a run posts the key of a call and takes its price, or leaves the
\* ledger alone.
LEMMA ActPosts ==
    ASSUME NEW r \in Runs, Llm!Act(r)
    PROVE  \/ UNCHANGED account
           \/ /\ Llm!TheKey(r) \in Keys /\ done' = done \cup {Llm!TheKey(r)}
              /\ available' = available - Call[Llm!TheKey(r)].amt /\ held' = held
  BY DEF Llm!Act, Llm!Start, Llm!Respond, Llm!NoCall, Llm!Charge, Llm!Unmetered, Llm!Broke,
     Llm!Outage, Llm!Retry, Llm!Recover, Llm!NextStep, Llm!Finish, Llm!Die, Llm!account,
     account, Llm!Account!Spend, Llm!Account!Once

\* The ratings keep what they count on while a run takes a step.
LEMMA ActKeepsRating ==
    ASSUME IInv, NEW r \in Runs, Llm!Act(r), UNCHANGED rating
    PROVE  IInv'
<1>1. \A id : RateKey(id) # Llm!TheKey(r)
  BY KeysDiffer DEF Llm!TheKey
<1>2. /\ done \subseteq done' /\ done' \subseteq Keys /\ held' = held /\ available' \in Int
      /\ \A id \in Id : Charged(id)' => Charged(id)
  <2>1. CASE UNCHANGED account
    BY <2>1 DEF IInv, TypeOK, account, Charged
  <2>2. CASE ~UNCHANGED account
    BY <1>1, <2>2, ActPosts, ChargingAssumption DEF IInv, TypeOK, Charged
  <2> QED BY <2>1, <2>2
<1> QED BY <1>2, LedgerMoves

LEMMA RatingInductive == ChargingSpec => []IInv
<1>1. ChargingInit => IInv
  BY IInvInit DEF ChargingInit
<1>2. IInv /\ [ChargingNext]_<<vars, llm>> => IInv'
  <2> SUFFICES ASSUME IInv, [ChargingNext]_<<vars, llm>> PROVE IInv'
    OBVIOUS
  <2>1. CASE [Next]_vars
    BY <2>1, NextKeeps
  <2>2. ASSUME NEW r \in Runs, Llm!Act(r), UNCHANGED rating
        PROVE  IInv'
    BY <2>2, ActKeepsRating
  <2> QED BY <2>1, <2>2 DEF ChargingNext
<1> QED BY <1>1, <1>2, PTL DEF ChargingSpec

\* The invariant of the runs, when no two share a directory.
LEMMA LlmInductive == DirsAreOwn => (ChargingSpec => []LlmInv)
<1> SUFFICES ASSUME DirsAreOwn PROVE ChargingSpec => []LlmInv
  OBVIOUS
<1> USE ChargingAssumption
<1>1. ChargingInit => LlmInv
  BY LlmInvInit DEF ChargingInit
<1>2. LlmInv /\ [ChargingNext]_<<vars, llm>> => LlmInv'
  <2> SUFFICES ASSUME LlmInv, [ChargingNext]_<<vars, llm>> PROVE LlmInv'
    OBVIOUS
  <2>1. CASE [Next]_vars /\ UNCHANGED llm
    BY <2>1, RatingKeepsLlm
  <2>2. ASSUME NEW r \in Runs, Llm!Act(r)
        PROVE  LlmInv'
    BY <2>2, ActKeeps
  <2> QED BY <2>1, <2>2 DEF ChargingNext
<1> QED BY <1>1, <1>2, PTL DEF ChargingSpec

---------------------------------------------------------------------------
(* Theorems of the composition *)

\* Where no two runs share a directory, every answer a run goes on with was
\* paid for under a key of its own, but for the charges the ledger failed,
\* while reports are rated over the same wallet (llm_live.py:281-365,
\* agent_loop.py:503-512).  Without the hypothesis LlmRepair.cfg breaks it.
THEOREM OwnRunsPay == DirsAreOwn => (ChargingSpec => []CallsArePaid)
<1> SUFFICES ASSUME DirsAreOwn PROVE ChargingSpec => []CallsArePaid
  OBVIOUS
<1>1. LlmInv => CallsArePaid
  BY DEF LlmInv, Counted, CallsArePaid
<1> QED BY <1>1, LlmInductive, PTL

\* With a ledger that always answers, such runs get no call for free.
\* Without that, LlmOutage.cfg shows one.
THEOREM NoneIsFree == DirsAreOwn /\ MaxOutages = 0 => (ChargingSpec => []NoFreeCall)
<1> SUFFICES ASSUME DirsAreOwn, MaxOutages = 0 PROVE ChargingSpec => []NoFreeCall
  OBVIOUS
<1>1. LlmInv => NoFreeCall
  <2> SUFFICES ASSUME LlmInv PROVE NoFreeCall
    OBVIOUS
  <2>1. outages = 0 /\ Cardinality(PostedCalls) \in Nat
    BY FS_CardinalityType DEF LlmInv, Counted, Llm!TypeOK
  <2> QED BY <2>1, SameCount DEF LlmInv, Counted, Llm!CallsArePaid, NoFreeCall,
                                 Llm!NoFreeCall, PostedCalls
<1> QED BY <1>1, LlmInductive, PTL

\* The ratings keep their promises beside any runs: a report is charged
\* once, and a rating row is backed by its deduction.
THEOREM RatingBesideRuns == ChargingSpec => [](UsageChargedOnce /\ RatingIsBacked)
<1>1. IInv => UsageChargedOnce /\ RatingIsBacked
  BY ChargedOnceHolds DEF IInv
<1> QED BY <1>1, RatingInductive, PTL
=============================================================================
