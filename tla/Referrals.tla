----------------------------- MODULE Referrals -----------------------------
(* Invitations, their qualification and the milestone rewards              *)
(* (application/handlers/referral_handlers.py, platform/referrals).        *)
(*                                                                         *)
(* A handler is a sequence of single Mongo commands on two collections:    *)
(* referrals, with one row per invited user (a unique index), and a stats  *)
(* document per referrer.  Nothing holds a lock between the commands.  A   *)
(* reward is claimed on the stats document and then credited under         *)
(* referral-ms-<referrer>-<milestone>, which the ledger does once.         *)
EXTENDS Integers, FiniteSets, FiniteSetsExt

CONSTANTS
    Referrers,    \* users whose link is opened
    Users,        \* users who open links
    Processes,    \* handlers that run at the same time
    Cap,          \* REFERRAL_MAX_PER_REFERRER
    Milestones,   \* qualified users that earn a reward: 10, 20, ..., 50
    MaxFailures   \* bound: credits that fail and handlers that die

ASSUME ReferralsAssumption ==
    /\ Cap \in Nat /\ MaxFailures \in Nat
    /\ Milestones \subseteq Nat \ {0} /\ IsFiniteSet(Milestones)
    /\ IsFiniteSet(Users) /\ IsFiniteSet(Processes)

VARIABLES
    row,       \* collection referrals: each invited user's status and referrer
    claimed,   \* milestones_paid of each stats document
    stats,     \* its counters
    granted,   \* the ledger: rewards credited, by referrer and milestone
    proc,      \* what each handler is doing
    lost,      \* history: rewards whose claim was not followed by a credit
    died       \* history: handlers that died, while creating a row and elsewhere

vars == <<row, claimed, stats, granted, proc, lost, died>>
history == <<lost, died>>

None == [status |-> "none"]
Row(status, r) == [status |-> status, by |-> r]
Idle == [pc |-> "idle"]

Invited(r) == {u \in Users : row[u] # None /\ row[u].by = r}
Qualified(r) == {u \in Invited(r) : row[u].status = "qualified"}
Failures == Cardinality(lost) + died.creating + died.elsewhere

Init ==
    /\ row = [u \in Users |-> None]
    /\ claimed = [r \in Referrers |-> {}]
    /\ stats = [r \in Referrers |-> [invited |-> 0, qualified |-> 0]]
    /\ granted = {}
    /\ proc = [p \in Processes |-> Idle]
    /\ lost = {}
    /\ died = [creating |-> 0, elsewhere |-> 0]

Goto(p, pc) == proc' = [proc EXCEPT ![p].pc = pc]
Done(p) == proc' = [proc EXCEPT ![p] = Idle]

---------------------------------------------------------------------------
(* handle_register_referral: create_pending *)

\* The link of r is opened by u, who has no row yet, while r has room.  An
\* invited user's link and a full referrer are answered without a change.
Register(p, r, u) ==
    /\ proc[p] = Idle
    /\ r # u /\ row[u] = None
    /\ Cardinality(Invited(r)) < Cap
    /\ proc' = [proc EXCEPT ![p] = [pc |-> "insert", user |-> u, by |-> r]]
    /\ UNCHANGED <<row, claimed, stats, granted, history>>

\* insert_one; the unique index turns a second row of u away.
Insert(p) ==
    /\ proc[p].pc = "insert"
    /\ IF row[proc[p].user] = None
         THEN /\ row' = [row EXCEPT ![proc[p].user] = Row("pending", proc[p].by)]
              /\ Goto(p, "recount")
         ELSE row' = row /\ Done(p)
    /\ UNCHANGED <<claimed, stats, granted, history>>

Recount_Never(p) ==
    /\ proc[p].pc = "recount"
    /\ Goto(p, "bump")
    /\ UNCHANGED <<row, claimed, stats, granted, history>>

Recount_ForgetsReferrer(p) ==
    /\ proc[p].pc = "recount"
    /\ proc' = [proc EXCEPT ![p] = [pc |-> "bump", by |-> proc[p].user]]
    /\ UNCHANGED <<row, claimed, stats, granted, history>>

\* Parallel inserts may have passed the check: count again.
Recount(p) ==
    /\ proc[p].pc = "recount"
    /\ Goto(p, IF Cardinality(Invited(proc[p].by)) > Cap THEN "rollback" ELSE "bump")
    /\ UNCHANGED <<row, claimed, stats, granted, history>>

\* delete_one by the invited user, whatever the row says by now.
RollBack(p) ==
    /\ proc[p].pc = "rollback"
    /\ row' = [row EXCEPT ![proc[p].user] = None]
    /\ Done(p)
    /\ UNCHANGED <<claimed, stats, granted, history>>

BumpInvited(p) ==
    /\ proc[p].pc = "bump"
    /\ stats' = [stats EXCEPT ![proc[p].by].invited = @ + 1]
    /\ Done(p)
    /\ UNCHANGED <<row, claimed, granted, history>>

---------------------------------------------------------------------------
(* handle_qualify_referral: an invited user uses the bot *)

Use(p, u) ==
    /\ proc[p] = Idle
    /\ row[u] # None
    /\ proc' = [proc EXCEPT ![p] =
         [pc |-> IF row[u].status = "pending" THEN "mark" ELSE "aggregate",
          user |-> u, by |-> row[u].by]]
    /\ UNCHANGED <<row, claimed, stats, granted, history>>

\* find_one_and_update, from pending only; a row that is gone ends the call.
Mark(p) ==
    /\ proc[p].pc = "mark"
    /\ LET u == proc[p].user IN
       CASE row[u] = None -> row' = row /\ Done(p)
         [] row[u].status = "pending" ->
              /\ row' = [row EXCEPT ![u].status = "qualified"]
              /\ proc' = [proc EXCEPT ![p].pc = "bumpq", ![p].by = row[u].by]
         [] OTHER -> row' = row /\ proc' = [proc EXCEPT ![p].pc = "aggregate", ![p].by = row[u].by]
    /\ UNCHANGED <<claimed, stats, granted, history>>

BumpQualified(p) ==
    /\ proc[p].pc = "bumpq"
    /\ stats' = [stats EXCEPT ![proc[p].by].qualified = @ + 1]
    /\ Goto(p, "aggregate")
    /\ UNCHANGED <<row, claimed, granted, history>>

\* stats_for counts the rows and then writes what it counted.
Aggregate(p) ==
    /\ proc[p].pc = "aggregate"
    /\ LET r == proc[p].by IN
       proc' = [proc EXCEPT ![p] = [pc |-> "rebuild", by |-> r,
                  invited |-> Cardinality(Invited(r)), qualified |-> Cardinality(Qualified(r))]]
    /\ UNCHANGED <<row, claimed, stats, granted, history>>

Rebuild(p) ==
    /\ proc[p].pc = "rebuild"
    /\ stats' = [stats EXCEPT ![proc[p].by] =
         [invited |-> proc[p].invited, qualified |-> proc[p].qualified]]
    /\ Goto(p, "count")
    /\ UNCHANGED <<row, claimed, granted, history>>

\* The milestones from the lowest; the loop ends at the first out of reach.
Earned(r) == {ms \in Milestones : ms <= Cardinality(Qualified(r))}
Loop(r, todo) == IF todo = {} THEN Idle ELSE [pc |-> "check", by |-> r, todo |-> todo]
After(p) == Loop(proc[p].by, proc[p].todo \ {Min(proc[p].todo)})

\* The count after stats_for decides how far the loop goes.
Count_Newest(p) ==
    /\ proc[p].pc = "count"
    /\ proc' = [proc EXCEPT ![p] = Loop(proc[p].by,
         {ms \in Milestones : ms = Cardinality(Qualified(proc[p].by))})]
    /\ UNCHANGED <<row, claimed, stats, granted, history>>

Count(p) ==
    /\ proc[p].pc = "count"
    /\ proc' = [proc EXCEPT ![p] = Loop(proc[p].by, Earned(proc[p].by))]
    /\ UNCHANGED <<row, claimed, stats, granted, history>>

\* claim_milestone_slot counts once more.
Check(p) ==
    /\ proc[p].pc = "check"
    /\ proc' = [proc EXCEPT ![p] =
         IF Min(@.todo) \notin Earned(@.by) THEN After(p)
         ELSE [pc |-> "claim", by |-> @.by, todo |-> @.todo,
               qualified |-> Cardinality(Qualified(@.by))]]
    /\ UNCHANGED <<row, claimed, stats, granted, history>>

\* $nin and $addToSet in one command, which also writes that count.
Take(p, r, ms) ==
    /\ claimed' = [claimed EXCEPT ![r] = @ \cup {ms}]
    /\ stats' = [stats EXCEPT ![r].qualified = proc[p].qualified]
    /\ proc' = [proc EXCEPT ![p] = [pc |-> "grant", by |-> r, todo |-> @.todo]]

Claim_NoCompare(p) ==
    /\ proc[p].pc = "claim"
    /\ Take(p, proc[p].by, Min(proc[p].todo))
    /\ UNCHANGED <<row, granted, history>>

\* A milestone that is taken sends the loop to the next.
Claim(p) ==
    /\ proc[p].pc = "claim"
    /\ LET r == proc[p].by
           ms == Min(proc[p].todo)
       IN \/ ms \notin claimed[r] /\ Take(p, r, ms)
          \/ /\ ms \in claimed[r]
             /\ proc' = [proc EXCEPT ![p] = After(p)]
             /\ UNCHANGED <<claimed, stats>>
    /\ UNCHANGED <<row, granted, history>>

Prize(p) == <<proc[p].by, Min(proc[p].todo)>>

\* credit_credits; the key makes a second credit a replay.
Grant(p) ==
    /\ proc[p].pc = "grant"
    /\ granted' = granted \cup {Prize(p)}
    /\ proc' = [proc EXCEPT ![p] = After(p)]
    /\ UNCHANGED <<row, claimed, stats, history>>

\* The ledger is out of reach or refuses: an error is logged, the claim stays.
GrantFails(p) ==
    /\ proc[p].pc = "grant"
    /\ Failures < MaxFailures
    /\ lost' = lost \cup {Prize(p)}
    /\ proc' = [proc EXCEPT ![p] = After(p)]
    /\ UNCHANGED <<row, claimed, stats, granted, died>>

\* The process dies, or Mongo raises: the handler is over.
Die(p) ==
    /\ proc[p] # Idle
    /\ Failures < MaxFailures
    /\ lost' = IF proc[p].pc = "grant" THEN lost \cup {Prize(p)} ELSE lost
    /\ died' = IF proc[p].pc \in {"recount", "rollback"}
                 THEN [died EXCEPT !.creating = @ + 1] ELSE [died EXCEPT !.elsewhere = @ + 1]
    /\ Done(p)
    /\ UNCHANGED <<row, claimed, stats, granted>>

Steps(p) ==
    \/ Insert(p) \/ Recount(p) \/ RollBack(p) \/ BumpInvited(p)
    \/ Mark(p) \/ BumpQualified(p) \/ Aggregate(p) \/ Rebuild(p) \/ Count(p)
    \/ Check(p) \/ Claim(p) \/ Grant(p)

Next == \E p \in Processes :
    \/ \E r \in Referrers, u \in Users : Register(p, r, u)
    \/ \E u \in Users : Use(p, u)
    \/ Steps(p) \/ GrantFails(p) \/ Die(p)

Spec == Init /\ [][Next]_vars

---------------------------------------------------------------------------
(* Properties *)

Creating(r) == {p \in Processes :
    proc[p].pc \in {"recount", "rollback"} /\ proc[p].by = r}
AtRest == \A p \in Processes : proc[p] = Idle

\* The two collections and the handlers keep their types.
TypeOK ==
    /\ row \in [Users -> {None} \cup [status : {"pending", "qualified"}, by : Referrers]]
    /\ claimed \in [Referrers -> SUBSET Milestones]
    /\ stats \in [Referrers -> [invited : Nat, qualified : Nat]]
    /\ granted \subseteq Referrers \X Milestones /\ lost \subseteq Referrers \X Milestones
    /\ \A p \in Processes : proc[p] # Idle => proc[p].by \in Referrers
    /\ died \in [creating : Nat, elsewhere : Nat]

\* The invite cap is exceeded only by inserts that are about to be counted
\* again, and by handlers that died there (mongo_repository.py:125).
CapHolds == \A r \in Referrers :
    Cardinality(Invited(r)) <= Cap + Cardinality(Creating(r)) + died.creating

\* At most one handler is crediting a given milestone, and none that has
\* been credited: the claim, and not only the ledger's key, makes it once
\* (mongo_repository.py:260, "CAS: claim one milestone reward").
OneGranter == \A p, q \in Processes :
    proc[p].pc = "grant" =>
      /\ Prize(p) \notin granted
      /\ proc[q].pc = "grant" /\ Prize(q) = Prize(p) => p = q

\* When the handlers are done and none died, every milestone that was
\* reached is claimed, though each of them counted while the others marked
\* (referral_handlers.py:179-213).
NoMilestoneMissed == AtRest /\ died.elsewhere = 0 =>
    \A r \in Referrers : Earned(r) \subseteq claimed[r]

\* A claim is credited, is being credited, or met a failure: two handlers
\* never leave a claim to each other (referral_handlers.py:198-223).
ClaimsArePaid == \A r \in Referrers : \A ms \in claimed[r] :
    \/ <<r, ms>> \in granted \cup lost
    \/ \E p \in Processes : proc[p].pc = "grant" /\ Prize(p) = <<r, ms>>

\* A milestone that was claimed is paid in the end: refuted by
\* ReferralOpen.cfg, since a failed credit keeps its claim.
RewardIsNotLost == AtRest => \A r \in Referrers : {r} \X claimed[r] \subseteq granted

\* A user who has used the bot counts for good: refuted by
\* ReferralOpen.cfg, since a rollback deletes whatever the row says.
QualifiedForGood == [][\A u \in Users :
    row[u] # None /\ row[u].status = "qualified" => row'[u] = row[u]]_vars

\* Once no handler runs, the counters the leaderboard shows are those of
\* the rows ("Always derive counters from referrals", mongo_repository.py:199):
\* refuted by ReferralOpen.cfg.
LeaderboardIsTrue == AtRest /\ died.creating + died.elsewhere = 0 => \A r \in Referrers :
    stats[r] = [invited |-> Cardinality(Invited(r)), qualified |-> Cardinality(Qualified(r))]
=============================================================================
