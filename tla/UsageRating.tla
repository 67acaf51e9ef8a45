---------------------------- MODULE UsageRating ----------------------------
(* From a usage batch to a deduction (platform/usage_batches.py,           *)
(* rating_engine.py).                                                      *)
(*                                                                         *)
(* A sender stores a batch once under its idempotency key, in a table that *)
(* a trigger makes append-only, and rates it at once; the ops loop sweeps  *)
(* what was left.  Rating is three transactions: is there a rating row,    *)
(* deduct under "rate-<batch>", write the rating row.  The ledger is used  *)
(* through its contract CreditAccount, which PgCredits implements.         *)
EXTENDS Integers, Sequences, FiniteSets

CONSTANTS
    Usage,       \* idempotency keys of the batches bots may report
    Senders,     \* API requests, each of which carries some of the keys
    Sweepers,    \* ops loops, one per process that runs one
    Cost,        \* what compute_batch_cost makes of each batch
    Limit,       \* how many stored batches a sweep takes
    MaxStops,    \* bound: crashes and exceptions in the middle of a rating
    Keys, Call   \* the ledger: every key, and the request it stands for

Processes == Senders \cup Sweepers
Id == Usage \X Senders           \* a batch id is drawn by the sender
RateKey(id) == <<"rate", id[1], id[2]>>
TopUps == {k \in Keys : Call[k].op = "credit"}

ASSUME UsageRatingAssumption ==
    /\ Senders \cap Sweepers = {}
    /\ Cost \in [Usage -> Nat] /\ Limit \in Nat \ {0} /\ MaxStops \in Nat
    /\ \A k \in TopUps : Call[k].amt \in Nat
    /\ \A id \in Id : RateKey(id) \notin TopUps
    /\ \A id \in Id : Cost[id[1]] > 0 =>
         /\ RateKey(id) \in Keys
         /\ Call[RateKey(id)].op = "deduct"
         /\ Call[RateKey(id)].amt = Cost[id[1]]

VARIABLES
    available, held, done,   \* the ledger
    rows,      \* table usage_batches: ids in the order they were created
    rated,     \* table usage_ratings: id and credits charged
    proc,      \* what each process is doing
    stops      \* history: how often a process stopped half way

account == <<available, held, done>>
vars == <<account, rows, rated, proc, stops>>

Account == INSTANCE CreditAccount

Idle == [pc |-> "idle"]
At(pc, id, todo) == [pc |-> pc, id |-> id, todo |-> todo]

Stored(id) == \E i \in DOMAIN rows : rows[i] = id
HasKey(k) == \E i \in DOMAIN rows : rows[i][1] = k
IsRated(id) == \E r \in rated : r.id = id
Charged(id) == RateKey(id) \in done

Init ==
    /\ Account!Init
    /\ rows = <<>>
    /\ rated = {}
    /\ proc = [p \in Processes |-> Idle]
    /\ stops = 0

TopUp == \E k \in TopUps : Account!Deposit(k) /\ UNCHANGED <<rows, rated, proc, stops>>

---------------------------------------------------------------------------
(* ingest *)

\* The SELECT that finds no batch with the key; a replay changes nothing.
Ingest(p, k) ==
    /\ proc[p] = Idle
    /\ ~HasKey(k)
    /\ proc' = [proc EXCEPT ![p] = At("insert", <<k, p>>, <<>>)]
    /\ UNCHANGED <<account, rows, rated, stops>>

\* The INSERT.  A sender that loses the race meets the UNIQUE constraint,
\* answers with the stored batch, and leaves its rating to the winner.
Insert_NoConstraint(p) ==
    /\ proc[p].pc = "insert"
    /\ rows' = Append(rows, proc[p].id)
    /\ proc' = [proc EXCEPT ![p].pc = "look"]
    /\ UNCHANGED <<account, rated, stops>>

Insert(p) ==
    /\ proc[p].pc = "insert"
    /\ IF HasKey(proc[p].id[1])
         THEN rows' = rows /\ proc' = [proc EXCEPT ![p] = Idle]
         ELSE rows' = Append(rows, proc[p].id) /\ proc' = [proc EXCEPT ![p].pc = "look"]
    /\ UNCHANGED <<account, rated, stops>>

---------------------------------------------------------------------------
(* rate_batch, and the sweep that calls it *)

\* Rated batches keep their status: the window is the oldest Limit rows.
Window_ShortByOne == SubSeq(rows, 1, IF Len(rows) < Limit THEN Len(rows) ELSE Limit - 1)

Window == SubSeq(rows, 1, IF Len(rows) < Limit THEN Len(rows) ELSE Limit)

Sweep(p) ==
    /\ proc[p] = Idle
    /\ Window # <<>>
    /\ proc' = [proc EXCEPT ![p] = At("look", Head(Window), Tail(Window))]
    /\ UNCHANGED <<account, rows, rated, stops>>

\* What p does after this batch: the next of its sweep, or nothing.
After(p) == IF proc[p].todo = <<>> THEN Idle
            ELSE At("look", Head(proc[p].todo), Tail(proc[p].todo))

Look(p) ==
    /\ proc[p].pc = "look"
    /\ proc' = [proc EXCEPT ![p] =
         IF IsRated(proc[p].id) THEN After(p)
         ELSE [@ EXCEPT !.pc = IF Cost[proc[p].id[1]] = 0 THEN "record" ELSE "charge"]]
    /\ UNCHANGED <<account, rows, rated, stops>>

\* The deduction, its replay when an earlier attempt posted it, and its
\* refusal: the batch stays accepted and unpaid.
Charge_FreshKey(p) ==
    /\ proc[p].pc = "charge"
    /\ \/ /\ Account!Spend(RateKey(proc[p].id))
          /\ proc' = [proc EXCEPT ![p].pc = "record"]
       \/ /\ available < Cost[proc[p].id[1]]
          /\ proc' = [proc EXCEPT ![p] = After(p)]
          /\ UNCHANGED account
    /\ UNCHANGED <<rows, rated, stops>>

Charge_RecordsRefusal(p) ==
    /\ proc[p].pc = "charge"
    /\ \/ Account!Spend(RateKey(proc[p].id))
       \/ available < Cost[proc[p].id[1]] /\ UNCHANGED account
    /\ proc' = [proc EXCEPT ![p].pc = "record"]
    /\ UNCHANGED <<rows, rated, stops>>

Charge(p) ==
    /\ proc[p].pc = "charge"
    /\ \/ /\ Account!Spend(RateKey(proc[p].id))
          /\ proc' = [proc EXCEPT ![p].pc = "record"]
       \/ /\ Charged(proc[p].id)
          /\ proc' = [proc EXCEPT ![p].pc = "record"]
          /\ UNCHANGED account
       \/ /\ ~Charged(proc[p].id) /\ available < Cost[proc[p].id[1]]
          /\ proc' = [proc EXCEPT ![p] = After(p)]
          /\ UNCHANGED account
    /\ UNCHANGED <<rows, rated, stops>>

\* The rating row; a row that is there already is answered instead.
Record(p) ==
    /\ proc[p].pc = "record"
    /\ rated' = IF IsRated(proc[p].id) THEN rated
                ELSE rated \cup {[id |-> proc[p].id, credits |-> Cost[proc[p].id[1]]]}
    /\ proc' = [proc EXCEPT ![p] = After(p)]
    /\ UNCHANGED <<account, rows, stops>>

\* A crash, or an exception: ingest and the ops loop swallow both, and the
\* rest of a sweep is dropped.
Stop(p) ==
    /\ proc[p] # Idle
    /\ stops < MaxStops
    /\ stops' = stops + 1
    /\ proc' = [proc EXCEPT ![p] = Idle]
    /\ UNCHANGED <<account, rows, rated>>

Rate(p) == Look(p) \/ Charge(p) \/ Record(p)

Next ==
    \/ TopUp
    \/ \E p \in Senders : Insert(p) \/ \E k \in Usage : Ingest(p, k)
    \/ \E p \in Sweepers : Sweep(p)
    \/ \E p \in Processes : Rate(p) \/ Stop(p)

\* The ops loop comes round, and a started rating goes on.
Fairness ==
    /\ \A p \in Sweepers : WF_vars(Sweep(p))
    /\ \A p \in Processes : WF_vars(Rate(p))

Spec == Init /\ [][Next]_vars /\ Fairness

---------------------------------------------------------------------------
(* Properties *)

Todo == {<<>>} \cup UNION {[1..n -> Id] : n \in 1..Limit}

\* Every variable holds what the tables and the processes may hold.
TypeOK ==
    /\ done \subseteq Keys /\ available \in Int /\ held = 0
    /\ rows \in Seq(Id)
    /\ rated \subseteq [id : Id, credits : Nat]
    /\ proc \in [Processes -> {Idle} \cup
         [pc : {"insert", "look", "charge", "record"}, id : Id, todo : Todo]]
    /\ stops \in 0..MaxStops

\* A bot's report is paid for once, however many requests carry it and
\* whichever of them, or of the sweeps, rate it (usage_batches.py:344-419).
UsageChargedOnce ==
    \A i, j \in Id : Charged(i) /\ Charged(j) /\ i[1] = j[1] => i = j

\* A rating row says what the ledger did: its credits were deducted, for a
\* stored batch (rating_engine.py:246-287, "single debit gate").
RatingIsBacked ==
    \A r \in rated : Stored(r.id) /\ (r.credits > 0 => Charged(r.id))

\* A deduction is followed by its rating row, even when the process that
\* made it dies in between and another must find the batch again.
ChargedIsRated == \A id \in Id : Charged(id) ~> IsRated(id)

\* A stored batch is rated once the wallet can pay for it and stays so.
\* This needs the sweep to reach the batch: see RatingStarves.cfg.
UsageSettles ==
    \A id \in Id : <>[](Stored(id) /\ available >= Cost[id[1]]) => <>IsRated(id)
=============================================================================
