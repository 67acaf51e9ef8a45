--------------------------- MODULE PgCreditsProofs ---------------------------
(***************************************************************************)
(* Proofs about PgCredits for any set of callers and of requests, with and *)
(* without row level security.  The invariant IInv is inductive as it      *)
(* stands: the ledger sums are needed with the balance because a burn      *)
(* without legs must be accounted for, and the types of the rows callers   *)
(* have read because expire_promotional burns an amount computed from one. *)
(* Each later section strengthens it for one more invariant: the sums of   *)
(* what was posted for ChargedOncePerKey, what was read being what is      *)
(* stored for PaidCreditsSurvive, the grants that back the promotional     *)
(* part of the wallet for GrantsLastTheirTtl, and what a lone caller is    *)
(* about to be told for RetryNotRefused and FreshWallet.                   *)
(***************************************************************************)
EXTENDS PgCredits, FiniteSetTheorems, WellFoundedInduction, TLAPS

IInv == TypeOK /\ WithinBalance /\ LedgerMatchesWallet /\ AcknowledgedIsPosted

-----------------------------------------------------------------------------
(* The row operators.                                                      *)

\* Least of two naturals is a natural below both.
LEMMA LeastBelow ==
  ASSUME NEW a \in Nat, NEW b \in Nat
  PROVE  Least(a, b) \in Nat /\ Least(a, b) <= a /\ Least(a, b) <= b
BY DEF Least

\* credit() adds the amount and touches no reservation.
LEMMA CreditedRow ==
  ASSUME NEW w \in Row, NEW r \in Account!Request
  PROVE  /\ Credited(w, r) \in Row
         /\ Credited(w, r).cur = w.cur + r.amt
         /\ Credited(w, r).res = w.res
BY DEF Row, Account!Request, Credited, EarliestExpiry, Least, WalletRow

\* deduct() takes the amount, and promotional credits down to zero at most.
LEMMA DeductedRow ==
  ASSUME NEW w \in Row, NEW x \in Nat, x <= w.cur
  PROVE  /\ Deducted(w, x) \in Row
         /\ Deducted(w, x).cur = w.cur - x
         /\ Deducted(w, x).res = w.res
BY DEF Row, Deducted, Least, WalletRow

\* The burn in reserve() takes SweptAmount, which the balance covers.
LEMMA SweptRow ==
  ASSUME NEW w \in Row, NEW t \in Nat
  PROVE  /\ SweptAmount(w, t) \in Nat
         /\ SweptAmount(w, t) <= w.cur
         /\ Swept(w, t) \in Row
         /\ Swept(w, t).cur = w.cur - SweptAmount(w, t)
         /\ Swept(w, t).res = w.res
<1>1. SweptAmount(w, t) \in Nat /\ SweptAmount(w, t) <= w.cur
  BY DEF Row, SweptAmount, Least, PromoExpired
<1>2. QED
  BY <1>1 DEF Row, Swept, WalletRow

\* Posting a pair of legs moves the amount between two accounts: a grant's,
LEMMA PostTopUp ==
  ASSUME NEW n \in [Accounts -> Int], NEW x \in Int
  PROVE  LET legs == Post(n, "treasury", "wallet", x)
         IN  /\ legs \in [Accounts -> Int]
             /\ legs["treasury"] = n["treasury"] - x
             /\ legs["wallet"] = n["wallet"] + x
             /\ legs["hold"] = n["hold"]
             /\ legs["holds"] = n["holds"]
             /\ legs["revenue"] = n["revenue"]
BY DEF Post, Accounts

\* a charge's,
LEMMA PostCharge ==
  ASSUME NEW n \in [Accounts -> Int], NEW x \in Int
  PROVE  LET legs == Post(n, "wallet", "revenue", x)
         IN  /\ legs \in [Accounts -> Int]
             /\ legs["wallet"] = n["wallet"] - x
             /\ legs["revenue"] = n["revenue"] + x
             /\ legs["hold"] = n["hold"]
             /\ legs["holds"] = n["holds"]
             /\ legs["treasury"] = n["treasury"]
BY DEF Post, Accounts

\* a reservation's,
LEMMA PostHold ==
  ASSUME NEW n \in [Accounts -> Int], NEW x \in Int
  PROVE  LET legs == Post(n, "hold", "holds", x)
         IN  /\ legs \in [Accounts -> Int]
             /\ legs["hold"] = n["hold"] - x
             /\ legs["holds"] = n["holds"] + x
             /\ legs["wallet"] = n["wallet"]
             /\ legs["treasury"] = n["treasury"]
             /\ legs["revenue"] = n["revenue"]
BY DEF Post, Accounts

\* and a release's.
LEMMA PostFree ==
  ASSUME NEW n \in [Accounts -> Int], NEW x \in Int
  PROVE  LET legs == Post(n, "holds", "hold", x)
         IN  /\ legs \in [Accounts -> Int]
             /\ legs["holds"] = n["holds"] - x
             /\ legs["hold"] = n["hold"] + x
             /\ legs["wallet"] = n["wallet"]
             /\ legs["treasury"] = n["treasury"]
             /\ legs["revenue"] = n["revenue"]
BY DEF Post, Accounts

LEMMA AccountNames ==
  /\ "wallet" \in Accounts /\ "hold" \in Accounts /\ "holds" \in Accounts
  /\ "treasury" \in Accounts /\ "revenue" \in Accounts
BY DEF Accounts

\* Each operation's legs keep the ledger equal to the row they go with.
LEMMA CreditLegs ==
  ASSUME NEW n \in [Accounts -> Int], NEW w \in Row, NEW s \in Nat,
         NEW r \in Account!Request, Explains(n, w, s)
  PROVE  /\ Post(n, "treasury", "wallet", r.amt) \in [Accounts -> Int]
         /\ Explains(Post(n, "treasury", "wallet", r.amt), Credited(w, r), s)
<1> DEFINE legs == Post(n, "treasury", "wallet", r.amt)
<1>1. r.amt \in Int /\ w.cur \in Int /\ w.res \in Int
  BY DEF Account!Request, Row
<1>2. /\ legs \in [Accounts -> Int]
      /\ legs["treasury"] = n["treasury"] - r.amt
      /\ legs["wallet"] = n["wallet"] + r.amt
      /\ legs["hold"] = n["hold"]
      /\ legs["holds"] = n["holds"]
      /\ legs["revenue"] = n["revenue"]
  BY <1>1, PostTopUp
<1> HIDE DEF legs
<1>3. Explains(legs, Credited(w, r), s)
  BY <1>1, <1>2, CreditedRow, AccountNames DEF Explains
<1> QED
  BY <1>2, <1>3 DEF legs

LEMMA DeductLegs ==
  ASSUME NEW n \in [Accounts -> Int], NEW w \in Row, NEW s \in Nat,
         NEW x \in Nat, x <= w.cur, Explains(n, w, s)
  PROVE  /\ Post(n, "wallet", "revenue", x) \in [Accounts -> Int]
         /\ Explains(Post(n, "wallet", "revenue", x), Deducted(w, x), s)
<1> DEFINE legs == Post(n, "wallet", "revenue", x)
<1>1. w.cur \in Int /\ w.res \in Int
  BY DEF Row
<1>2. /\ legs \in [Accounts -> Int]
      /\ legs["wallet"] = n["wallet"] - x
      /\ legs["revenue"] = n["revenue"] + x
      /\ legs["hold"] = n["hold"]
      /\ legs["holds"] = n["holds"]
      /\ legs["treasury"] = n["treasury"]
  BY PostCharge
<1> HIDE DEF legs
<1>3. Explains(legs, Deducted(w, x), s)
  BY <1>1, <1>2, DeductedRow, AccountNames DEF Explains
<1> QED
  BY <1>2, <1>3 DEF legs

LEMMA ReserveLegs ==
  ASSUME NEW n \in [Accounts -> Int], NEW w \in Row, NEW s \in Nat,
         NEW t \in Nat, NEW x \in Nat, Explains(n, w, s)
  PROVE  /\ Reserved(Swept(w, t), x) \in Row
         /\ Reserved(Swept(w, t), x).cur = w.cur - SweptAmount(w, t)
         /\ Reserved(Swept(w, t), x).res = w.res + x
         /\ Post(n, "hold", "holds", x) \in [Accounts -> Int]
         /\ Explains(Post(n, "hold", "holds", x), Reserved(Swept(w, t), x),
                     s + SweptAmount(w, t))
<1> DEFINE row == Swept(w, t)
           burn == SweptAmount(w, t)
           legs == Post(n, "hold", "holds", x)
<1>1. w.cur \in Int /\ w.res \in Nat
  BY DEF Row
<1>2. row \in Row /\ row.cur = w.cur - burn /\ row.res = w.res /\ burn \in Nat
  BY SweptRow
<1>3. /\ legs \in [Accounts -> Int]
      /\ legs["hold"] = n["hold"] - x
      /\ legs["holds"] = n["holds"] + x
      /\ legs["wallet"] = n["wallet"]
      /\ legs["treasury"] = n["treasury"]
      /\ legs["revenue"] = n["revenue"]
  BY PostHold, x \in Int
<1> HIDE DEF row, burn, legs
<1>4. /\ Reserved(row, x) \in Row
      /\ Reserved(row, x).cur = row.cur
      /\ Reserved(row, x).res = row.res + x
  BY <1>1, <1>2 DEF Reserved, WalletRow, Row
<1>5. Explains(legs, Reserved(row, x), s + burn)
  BY <1>1, <1>2, <1>3, <1>4, AccountNames DEF Explains
<1> QED
  BY <1>2, <1>3, <1>4, <1>5 DEF row, burn, legs

LEMMA ReleaseLegs ==
  ASSUME NEW n \in [Accounts -> Int], NEW w \in Row, NEW s \in Nat,
         NEW x \in Nat, Explains(n, w, s)
  PROVE  /\ Released(w, x) \in Row
         /\ Released(w, x).cur = w.cur
         /\ Released(w, x).res <= w.res
         /\ Post(n, "holds", "hold", Least(x, w.res)) \in [Accounts -> Int]
         /\ Explains(Post(n, "holds", "hold", Least(x, w.res)), Released(w, x), s)
<1> DEFINE back == Least(x, w.res)
           legs == Post(n, "holds", "hold", back)
<1>1. w.cur \in Nat /\ w.res \in Nat
  BY DEF Row
<1>2. back \in Nat /\ back <= w.res
  BY <1>1, LeastBelow
<1>3. /\ Released(w, x) \in Row
      /\ Released(w, x).cur = w.cur
      /\ Released(w, x).res = w.res - back
  BY <1>1, <1>2 DEF Released, WalletRow, Row
<1> HIDE DEF back
<1>4. /\ legs \in [Accounts -> Int]
      /\ legs["holds"] = n["holds"] - back
      /\ legs["hold"] = n["hold"] + back
      /\ legs["wallet"] = n["wallet"]
      /\ legs["treasury"] = n["treasury"]
      /\ legs["revenue"] = n["revenue"]
  BY <1>2, PostFree
<1> HIDE DEF legs
<1>5. Explains(legs, Released(w, x), s)
  BY <1>1, <1>2, <1>3, <1>4, AccountNames DEF Explains
<1> QED
  BY <1>1, <1>2, <1>3, <1>4, <1>5 DEF legs, back

LEMMA CaptureLegs ==
  ASSUME NEW n \in [Accounts -> Int], NEW w \in Row, NEW s \in Nat,
         NEW x \in Nat, x <= w.res, x <= w.cur, Explains(n, w, s)
  PROVE  LET legs == Post(Post(n, "holds", "hold", x), "wallet", "revenue", x)
         IN  /\ Captured(w, x) \in Row
             /\ Captured(w, x).cur = w.cur - x
             /\ Captured(w, x).res = w.res - x
             /\ legs \in [Accounts -> Int]
             /\ Explains(legs, Captured(w, x), s)
<1> DEFINE first == Post(n, "holds", "hold", x)
           legs == Post(first, "wallet", "revenue", x)
<1>1. w.cur \in Nat /\ w.res \in Nat
  BY DEF Row
<1>2. /\ Captured(w, x) \in Row
      /\ Captured(w, x).cur = w.cur - x
      /\ Captured(w, x).res = w.res - x
  BY <1>1 DEF Captured, WalletRow, Row
<1>3. /\ first \in [Accounts -> Int]
      /\ first["holds"] = n["holds"] - x
      /\ first["hold"] = n["hold"] + x
      /\ first["wallet"] = n["wallet"]
      /\ first["treasury"] = n["treasury"]
      /\ first["revenue"] = n["revenue"]
  BY PostFree
<1> HIDE DEF first
<1>4. /\ legs \in [Accounts -> Int]
      /\ legs["wallet"] = first["wallet"] - x
      /\ legs["revenue"] = first["revenue"] + x
      /\ legs["hold"] = first["hold"]
      /\ legs["holds"] = first["holds"]
      /\ legs["treasury"] = first["treasury"]
  BY <1>3, PostCharge
<1> HIDE DEF legs
<1>5. Explains(legs, Captured(w, x), s)
  BY <1>1, <1>2, <1>3, <1>4, AccountNames DEF Explains
<1> QED
  BY <1>2, <1>4, <1>5 DEF legs, first
-----------------------------------------------------------------------------
(* The caller's side of a step.                                            *)

\* A step to another label of the same call changes only pc.
LEMMA GotoTypes ==
  ASSUME CallerTypes, NEW c \in Callers, pc[c] # "idle",
         NEW l \in Labels, Goto(c, l)
  PROVE  CallerTypes' /\ reply' = reply /\ key' = key
BY DEF CallerTypes, Goto

\* A return leaves the caller idle, with an answer.
LEMMA ReturnTypes ==
  ASSUME CallerTypes, NEW c \in Callers, NEW r \in Replies, Return(c, r)
  PROVE  CallerTypes' /\ key' = key
<1>1. EmptyRow \in Row
  BY DEF EmptyRow, WalletRow, Row
<1> QED
  BY <1>1 DEF CallerTypes, Return, Labels

\* A yes is only ever answered for a key that is posted by then.
LEMMA ReturnAck ==
  ASSUME CallerTypes, AcknowledgedIsPosted, NEW c \in Callers, NEW r,
         Return(c, r), posted \subseteq posted',
         r \in {"ok", "replay"} => key[c] \in posted'
  PROVE  AcknowledgedIsPosted'
BY DEF CallerTypes, AcknowledgedIsPosted, Return

\* A transaction either commits its row, its legs and its key together, or
\* finds the key and changes nothing.
LEMMA CommitTypes ==
  ASSUME TypeOK, AcknowledgedIsPosted, NEW c \in Callers, pc[c] # "idle",
         NEW row, NEW legs, Commit(c, row, legs)
  PROVE  /\ CallerTypes' /\ AcknowledgedIsPosted'
         /\ posted' \subseteq Keys
         /\ \/ key[c] \in posted /\ UNCHANGED <<wallet, net, posted>>
            \/ /\ key[c] \in Keys \ posted /\ posted' = posted \cup {key[c]}
               /\ wallet' = row /\ net' = legs
<1>1. key[c] \in Keys
  BY DEF TypeOK, CallerTypes
<1>2. CASE key[c] \in posted
  <2>1. Return(c, "replay") /\ UNCHANGED <<wallet, posted, net>>
    BY <1>2 DEF Commit
  <2>2. CallerTypes'
    BY <2>1, ReturnTypes DEF TypeOK, Replies
  <2>3. AcknowledgedIsPosted'
    BY <1>2, <2>1, ReturnAck DEF TypeOK
  <2> QED
    BY <1>2, <2>1, <2>2, <2>3 DEF TypeOK, StoreTypes
<1>3. CASE key[c] \notin posted
  <2>1. /\ Return(c, "ok") /\ wallet' = row /\ net' = legs
        /\ posted' = posted \cup {key[c]}
    BY <1>3 DEF Commit
  <2>2. CallerTypes'
    BY <2>1, ReturnTypes DEF TypeOK, Replies
  <2>3. AcknowledgedIsPosted'
    BY <2>1, ReturnAck DEF TypeOK
  <2> QED
    BY <1>1, <1>3, <2>1, <2>2, <2>3 DEF TypeOK, StoreTypes
<1> QED
  BY <1>2, <1>3

\* A step that leaves the store alone preserves its part of the invariant.
LEMMA StoreUnchanged ==
  ASSUME IInv, UNCHANGED <<wallet, posted, expired, net, clock, burnt>>,
         CallerTypes', AcknowledgedIsPosted'
  PROVE  IInv'
BY DEF IInv, TypeOK, StoreTypes, WithinBalance, LedgerMatchesWallet

\* A step of a call that changes nothing but where the caller is.
LEMMA GotoOnly ==
  ASSUME IInv, NEW c \in Callers, pc[c] # "idle", NEW l \in Labels, Goto(c, l),
         UNCHANGED <<wallet, posted, expired, net, clock, burnt>>
  PROVE  IInv'
<1>1. CallerTypes' /\ reply' = reply /\ key' = key
  BY GotoTypes DEF IInv, TypeOK
<1>2. AcknowledgedIsPosted'
  BY <1>1 DEF IInv, AcknowledgedIsPosted
<1> QED
  BY <1>1, <1>2, StoreUnchanged

\* A refusal, or a crash: the caller is told something other than yes.
LEMMA RefuseOnly ==
  ASSUME IInv, NEW c \in Callers, NEW r \in Replies \ {"ok", "replay"}, Refuse(c, r)
  PROVE  IInv'
<1>1. Return(c, r) /\ UNCHANGED <<wallet, posted, expired, net, clock, burnt>>
  BY DEF Refuse
<1>2. CallerTypes'
  BY <1>1, ReturnTypes DEF IInv, TypeOK
<1>3. AcknowledgedIsPosted'
  BY <1>1, ReturnAck DEF IInv, TypeOK
<1> QED
  BY <1>1, <1>2, <1>3, StoreUnchanged

-----------------------------------------------------------------------------
(* The transactions.                                                       *)

\* What a request in its transaction is: a posted key's request, with a
\* positive amount; and what the invariant says of the rows at hand.
LEMMA RequestTypes ==
  ASSUME IInv, NEW c \in Callers, pc[c] # "idle"
  PROVE  /\ key[c] \in Keys
         /\ Req(c) \in Account!Request
         /\ Req(c).amt \in Nat /\ Req(c).amt > 0
         /\ at[c] \in Nat /\ seen[c] \in Row
         /\ wallet \in Row /\ wallet.cur \in Nat /\ wallet.res \in Nat
         /\ wallet.res <= wallet.cur
         /\ net \in [Accounts -> Int] /\ burnt.silent \in Nat
         /\ Explains(net, wallet, burnt.silent)
<1>1. key[c] \in Keys /\ at[c] \in Nat /\ seen[c] \in Row
  BY DEF IInv, TypeOK, CallerTypes
<1>2. Req(c) \in Account!Request
  BY <1>1, CallAssumption DEF Req
<1>3. Req(c).amt \in Nat /\ Req(c).amt > 0
  BY <1>2 DEF Account!Request
<1> QED
  BY <1>1, <1>2, <1>3
     DEF IInv, TypeOK, StoreTypes, WithinBalance, LedgerMatchesWallet, Row

\* A transaction that burns nothing preserves the invariant if the row and
\* the legs it would commit do.
LEMMA CommitStep ==
  ASSUME IInv, NEW c \in Callers, pc[c] # "idle",
         NEW row \in Row, NEW legs \in [Accounts -> Int],
         row.res <= row.cur, Explains(legs, row, burnt.silent),
         Commit(c, row, legs), UNCHANGED <<expired, clock, burnt>>
  PROVE  IInv'
<1>1. /\ CallerTypes' /\ AcknowledgedIsPosted'
      /\ posted' \subseteq Keys
      /\ \/ UNCHANGED <<wallet, net, posted>>
         \/ wallet' = row /\ net' = legs
  BY CommitTypes DEF IInv
<1>2. CASE UNCHANGED <<wallet, net, posted>>
  BY <1>1, <1>2, StoreUnchanged
<1>3. CASE wallet' = row /\ net' = legs
  <2>1. StoreTypes'
    BY <1>1, <1>3 DEF IInv, TypeOK, StoreTypes
  <2>2. WithinBalance'
    BY <1>3 DEF WithinBalance, Row
  <2>3. LedgerMatchesWallet'
    BY <1>3 DEF LedgerMatchesWallet
  <2> QED
    BY <1>1, <2>1, <2>2, <2>3 DEF IInv, TypeOK
<1> QED
  BY <1>1, <1>2, <1>3

LEMMA CreditTxStep ==
  ASSUME IInv, NEW c \in Callers, CreditTx(c)
  PROVE  IInv'
<1>1. pc[c] # "idle"
  BY DEF CreditTx, InTx
<1>2. /\ Req(c) \in Account!Request /\ Req(c).amt \in Nat
      /\ wallet \in Row /\ wallet.cur \in Nat /\ wallet.res <= wallet.cur
      /\ wallet.res \in Nat /\ net \in [Accounts -> Int] /\ burnt.silent \in Nat
      /\ Explains(net, wallet, burnt.silent)
  BY <1>1, RequestTypes
<1> DEFINE row == Credited(wallet, Req(c))
           legs == Post(net, "treasury", "wallet", Req(c).amt)
<1>3. row \in Row /\ row.cur = wallet.cur + Req(c).amt /\ row.res = wallet.res
  BY <1>2, CreditedRow
<1>4. legs \in [Accounts -> Int] /\ Explains(legs, row, burnt.silent)
  BY <1>2, CreditLegs
<1>5. Commit(c, row, legs) /\ UNCHANGED <<expired, clock, burnt>>
  BY DEF CreditTx
<1> HIDE DEF row, legs
<1>6. row.res <= row.cur
  BY <1>2, <1>3
<1> QED
  BY <1>1, <1>3, <1>4, <1>5, <1>6, CommitStep

LEMMA DeductTxStep ==
  ASSUME IInv, NEW c \in Callers, DeductTx(c)
  PROVE  IInv'
<1>1. pc[c] # "idle"
  BY DEF DeductTx, InTx
<1>2. /\ Req(c).amt \in Nat
      /\ wallet \in Row /\ wallet.cur \in Nat /\ wallet.res <= wallet.cur
      /\ wallet.res \in Nat /\ net \in [Accounts -> Int] /\ burnt.silent \in Nat
      /\ Explains(net, wallet, burnt.silent)
  BY <1>1, RequestTypes
<1>3. wallet.cur - wallet.res >= Req(c).amt
  BY DEF DeductTx, CanDeduct
<1>4. Req(c).amt <= wallet.cur
  BY <1>2, <1>3
<1> DEFINE row == Deducted(wallet, Req(c).amt)
           legs == Post(net, "wallet", "revenue", Req(c).amt)
<1>5. row \in Row /\ row.cur = wallet.cur - Req(c).amt /\ row.res = wallet.res
  BY <1>2, <1>4, DeductedRow
<1>6. legs \in [Accounts -> Int] /\ Explains(legs, row, burnt.silent)
  BY <1>2, <1>4, DeductLegs
<1>7. Commit(c, row, legs) /\ UNCHANGED <<expired, clock, burnt>>
  BY DEF DeductTx
<1> HIDE DEF row, legs
<1>8. row.res <= row.cur
  BY <1>2, <1>3, <1>5
<1> QED
  BY <1>1, <1>5, <1>6, <1>7, <1>8, CommitStep

LEMMA ReleaseTxStep ==
  ASSUME IInv, NEW c \in Callers, ReleaseTx(c)
  PROVE  IInv'
<1>1. pc[c] # "idle"
  BY DEF ReleaseTx, InTx
<1>2. /\ Req(c).amt \in Nat
      /\ wallet \in Row /\ wallet.cur \in Nat /\ wallet.res <= wallet.cur
      /\ wallet.res \in Nat /\ net \in [Accounts -> Int] /\ burnt.silent \in Nat
      /\ Explains(net, wallet, burnt.silent)
  BY <1>1, RequestTypes
<1> DEFINE row == Released(wallet, Req(c).amt)
           legs == Post(net, "holds", "hold", Least(Req(c).amt, wallet.res))
<1>3. /\ row \in Row /\ row.cur = wallet.cur /\ row.res <= wallet.res
      /\ legs \in [Accounts -> Int] /\ Explains(legs, row, burnt.silent)
  BY <1>2, ReleaseLegs
<1>4. Commit(c, row, legs) /\ UNCHANGED <<expired, clock, burnt>>
  BY DEF ReleaseTx
<1> HIDE DEF row, legs
<1>5. row.res <= row.cur
  BY <1>2, <1>3 DEF Row
<1> QED
  BY <1>1, <1>3, <1>4, <1>5, CommitStep

LEMMA CaptureTxStep ==
  ASSUME IInv, NEW c \in Callers, CaptureTx(c)
  PROVE  IInv'
<1>1. pc[c] # "idle"
  BY DEF CaptureTx, InTx
<1>2. /\ Req(c).amt \in Nat
      /\ wallet \in Row /\ wallet.cur \in Nat /\ wallet.res <= wallet.cur
      /\ wallet.res \in Nat /\ net \in [Accounts -> Int] /\ burnt.silent \in Nat
      /\ Explains(net, wallet, burnt.silent)
  BY <1>1, RequestTypes
<1>3. Req(c).amt <= wallet.res /\ Req(c).amt <= wallet.cur
  BY <1>2 DEF CaptureTx, CanCapture
<1> DEFINE row == Captured(wallet, Req(c).amt)
           legs == Post(Post(net, "holds", "hold", Req(c).amt), "wallet", "revenue", Req(c).amt)
<1>4. /\ row \in Row /\ row.cur = wallet.cur - Req(c).amt
      /\ row.res = wallet.res - Req(c).amt
      /\ legs \in [Accounts -> Int] /\ Explains(legs, row, burnt.silent)
  BY <1>2, <1>3, CaptureLegs
<1>5. Commit(c, row, legs) /\ UNCHANGED <<expired, clock, burnt>>
  BY DEF CaptureTx
<1> HIDE DEF row, legs
<1>6. row.res <= row.cur
  BY <1>2, <1>4
<1> QED
  BY <1>1, <1>4, <1>5, <1>6, CommitStep

\* reserve() commits the burn of SweptAmount with the hold; the part of the
\* burn that has no legs is what burnt.silent counts.
LEMMA ReserveTxStep ==
  ASSUME IInv, NEW c \in Callers, ReserveTx(c)
  PROVE  IInv'
<1> DEFINE row == Swept(wallet, at[c])
           burn == SweptAmount(wallet, at[c])
           held == Reserved(row, Req(c).amt)
           legs == Post(net, "hold", "holds", Req(c).amt)
<1>1. pc[c] # "idle"
  BY DEF ReserveTx, InTx
<1>2. /\ Req(c).amt \in Nat /\ at[c] \in Nat /\ key[c] \in Keys
      /\ wallet \in Row /\ wallet.cur \in Nat /\ wallet.res \in Nat
      /\ net \in [Accounts -> Int] /\ burnt.silent \in Nat
      /\ Explains(net, wallet, burnt.silent)
  BY <1>1, RequestTypes
<1>3. burn \in Nat /\ row.cur = wallet.cur - burn /\ row.res = wallet.res
  BY <1>2, SweptRow
<1>9. \A t, x \in Nat :
         /\ Reserved(Swept(wallet, t), x) \in Row
         /\ Reserved(Swept(wallet, t), x).cur = wallet.cur - SweptAmount(wallet, t)
         /\ Reserved(Swept(wallet, t), x).res = wallet.res + x
         /\ Post(net, "hold", "holds", x) \in [Accounts -> Int]
         /\ Explains(Post(net, "hold", "holds", x), Reserved(Swept(wallet, t), x),
                     burnt.silent + SweptAmount(wallet, t))
  BY <1>2, ReserveLegs
<1>4. /\ held \in Row /\ held.cur = wallet.cur - burn
      /\ held.res = wallet.res + Req(c).amt
      /\ legs \in [Accounts -> Int] /\ Explains(legs, held, burnt.silent + burn)
  BY <1>2, <1>9, Zenon
<1>5. /\ row.cur - row.res >= Req(c).amt
      /\ Commit(c, held, legs)
      /\ burnt' = IF key[c] \in posted THEN burnt ELSE [burnt EXCEPT !.silent = @ + burn]
      /\ UNCHANGED <<expired, clock>>
  BY DEF ReserveTx
<1> HIDE DEF row, burn, held, legs
<1>6. /\ CallerTypes' /\ AcknowledgedIsPosted'
      /\ posted' \subseteq Keys
      /\ \/ key[c] \in posted /\ UNCHANGED <<wallet, net, posted>>
         \/ /\ key[c] \in Keys \ posted
            /\ wallet' = held /\ net' = legs
  BY <1>1, <1>5, CommitTypes DEF IInv
<1>7. CASE key[c] \in posted
  BY <1>5, <1>6, <1>7, StoreUnchanged
<1>8. CASE key[c] \notin posted
  <2>1. /\ wallet' = held /\ net' = legs
        /\ burnt' = [burnt EXCEPT !.silent = @ + burn]
    BY <1>5, <1>6, <1>8
  <2>2. burnt \in [ledgered : Nat, silent : Nat, paid : Nat]
    BY DEF IInv, TypeOK, StoreTypes
  <2>3. /\ burnt' \in [ledgered : Nat, silent : Nat, paid : Nat]
        /\ burnt'.silent = burnt.silent + burn
    BY <1>3, <2>1, <2>2
  <2>4. StoreTypes'
    BY <1>4, <1>5, <1>6, <2>1, <2>3 DEF IInv, TypeOK, StoreTypes
  <2>5. WithinBalance'
    BY <1>2, <1>3, <1>4, <1>5, <2>1 DEF WithinBalance
  <2>6. LedgerMatchesWallet'
    BY <1>4, <2>1, <2>3 DEF LedgerMatchesWallet
  <2> QED
    BY <1>6, <2>4, <2>5, <2>6 DEF IInv, TypeOK
<1> QED
  BY <1>7, <1>8

\* expire_promotional()'s deduct of an amount computed from a stale row:
\* covered by the guard, so the balance stays above the reservations.
LEMMA BurnTxStep ==
  ASSUME IInv, NEW c \in Callers, BurnTx(c)
  PROVE  IInv'
<1> DEFINE x == SweptAmount(seen[c], at[c])
           row == Deducted(wallet, x)
           legs == Post(net, "wallet", "revenue", x)
<1>1. pc[c] # "idle"
  BY DEF BurnTx
<1>2. /\ seen[c] \in Row /\ at[c] \in Nat
      /\ wallet \in Row /\ wallet.cur \in Nat /\ wallet.res \in Nat
      /\ wallet.res <= wallet.cur
      /\ net \in [Accounts -> Int] /\ burnt.silent \in Nat
      /\ Explains(net, wallet, burnt.silent)
  BY <1>1, RequestTypes
<1>3. x \in Nat
  BY <1>2, SweptRow
<1>4. /\ wallet.cur - wallet.res >= x
      /\ \/ UNCHANGED <<wallet, expired, net, burnt>>
         \/ /\ wallet' = row /\ net' = legs
            /\ expired' = expired \cup {seen[c].exp}
            /\ burnt' = [burnt EXCEPT !.ledgered = @ + x,
                                      !.paid = @ + x - Least(wallet.promo, x)]
      /\ Goto(c, "zero")
      /\ UNCHANGED <<posted, clock>>
  BY DEF BurnTx
<1>5. x <= wallet.cur
  BY <1>2, <1>3, <1>4
<1>6. row \in Row /\ row.cur = wallet.cur - x /\ row.res = wallet.res
  BY <1>2, <1>3, <1>5, DeductedRow
<1>7. legs \in [Accounts -> Int] /\ Explains(legs, row, burnt.silent)
  BY <1>2, <1>3, <1>5, DeductLegs
<1> HIDE DEF x, row, legs
<1>8. CallerTypes' /\ reply' = reply /\ key' = key
  BY <1>1, <1>4, GotoTypes DEF IInv, TypeOK, Labels
<1>9. AcknowledgedIsPosted'
  BY <1>4, <1>8 DEF IInv, AcknowledgedIsPosted
<1>10. CASE UNCHANGED <<wallet, expired, net, burnt>>
  BY <1>4, <1>8, <1>9, <1>10, StoreUnchanged
<1>11. CASE /\ wallet' = row /\ net' = legs
            /\ expired' = expired \cup {seen[c].exp}
            /\ burnt' = [burnt EXCEPT !.ledgered = @ + x,
                                      !.paid = @ + x - Least(wallet.promo, x)]
  <2>1. burnt \in [ledgered : Nat, silent : Nat, paid : Nat] /\ wallet.promo \in Nat
    BY DEF IInv, TypeOK, StoreTypes, Row
  <2>2. burnt.ledgered \in Nat /\ burnt.paid \in Nat
    BY <2>1
  <2>3. burnt.ledgered + x \in Nat /\ burnt.paid + x - Least(wallet.promo, x) \in Nat
    BY <1>3, <2>1, <2>2 DEF Least
  <2>4. /\ burnt' \in [ledgered : Nat, silent : Nat, paid : Nat]
        /\ burnt'.silent = burnt.silent
    BY <1>11, <2>1, <2>3
  <2>5. seen[c].exp \in Nat
    BY <1>2 DEF Row
  <2>6. StoreTypes'
    BY <1>4, <1>6, <1>7, <1>11, <2>4, <2>5 DEF IInv, TypeOK, StoreTypes
  <2>7. WithinBalance'
    BY <1>2, <1>3, <1>4, <1>6, <1>11 DEF WithinBalance
  <2>8. LedgerMatchesWallet'
    BY <1>7, <1>11, <2>4 DEF LedgerMatchesWallet
  <2> QED
    BY <1>8, <1>9, <2>6, <2>7, <2>8 DEF IInv, TypeOK
<1> QED
  BY <1>4, <1>10, <1>11

\* The UPDATE that zeroes the promotional fields moves no credits.
LEMMA ZeroStep ==
  ASSUME IInv, NEW c \in Callers, Zero(c)
  PROVE  IInv'
<1>1. pc[c] # "idle" /\ Goto(c, AfterExpire(c)) /\ AfterExpire(c) \in Labels
  BY DEF Zero, AfterExpire, Labels
<1>2. CallerTypes' /\ reply' = reply /\ key' = key
  BY <1>1, GotoTypes DEF IInv, TypeOK
<1>3. AcknowledgedIsPosted'
  BY <1>2 DEF IInv, AcknowledgedIsPosted, Zero
<1>4. wallet \in Row
  BY DEF IInv, TypeOK, StoreTypes
<1>5. wallet' \in Row /\ wallet'.cur = wallet.cur /\ wallet'.res = wallet.res
  BY <1>4 DEF Zero, WalletRow, Row
<1>6. UNCHANGED <<posted, expired, net, clock, burnt>>
  BY DEF Zero
<1>7. StoreTypes'
  BY <1>5, <1>6 DEF IInv, TypeOK, StoreTypes
<1>8. WithinBalance' /\ LedgerMatchesWallet'
  BY <1>5, <1>6 DEF IInv, WithinBalance, LedgerMatchesWallet, Explains
<1> QED
  BY <1>2, <1>3, <1>7, <1>8 DEF IInv, TypeOK

-----------------------------------------------------------------------------
(* The inductive step, and the theorems.                                   *)

LEMMA InitIInv == Init => IInv
<1> SUFFICES ASSUME Init PROVE IInv
  OBVIOUS
<1>1. EmptyRow \in Row /\ EmptyRow.cur = 0 /\ EmptyRow.res = 0
  BY DEF EmptyRow, WalletRow, Row
<1>2. StoreTypes
  BY <1>1 DEF Init, StoreTypes
<1>3. CallerTypes
  BY <1>1 DEF Init, CallerTypes, Labels, Replies
<1>4. WithinBalance
  BY <1>1 DEF Init, WithinBalance
<1>5. /\ \A a \in Accounts : net[a] = 0
      /\ wallet.cur = 0 /\ wallet.res = 0 /\ burnt.silent = 0
  BY <1>1 DEF Init
<1>6. LedgerMatchesWallet
  BY <1>5, AccountNames DEF LedgerMatchesWallet, Explains
<1>7. AcknowledgedIsPosted
  BY DEF Init, AcknowledgedIsPosted
<1> QED
  BY <1>2, <1>3, <1>4, <1>6, <1>7 DEF IInv, TypeOK

LEMMA NextIInv == IInv /\ [Next]_vars => IInv'
<1> SUFFICES ASSUME IInv, [Next]_vars PROVE IInv'
  OBVIOUS
<1>1. ASSUME NEW c \in Callers, NEW k \in Keys, Invoke(c, k) PROVE IInv'
  <2>1. EmptyRow \in Row
    BY DEF EmptyRow, WalletRow, Row
  <2>2. CallerTypes'
    BY <1>1, <2>1 DEF IInv, TypeOK, CallerTypes, Invoke, Labels, Replies
  <2>3. AcknowledgedIsPosted'
    BY <1>1 DEF IInv, TypeOK, CallerTypes, AcknowledgedIsPosted, Invoke
  <2> QED
    BY <1>1, <2>2, <2>3, StoreUnchanged DEF Invoke
<1>2. ASSUME NEW c \in Callers, ExpireRead(c) PROVE IInv'
  <2>1. wallet \in Row /\ clock \in Nat
    BY DEF IInv, TypeOK, StoreTypes
  <2>2. CallerTypes'
    BY <1>2, <2>1 DEF IInv, TypeOK, CallerTypes, ExpireRead, AfterExpire, Labels
  <2>3. AcknowledgedIsPosted'
    BY <1>2 DEF IInv, AcknowledgedIsPosted, ExpireRead
  <2> QED
    BY <1>2, <2>2, <2>3, StoreUnchanged DEF ExpireRead
<1>3. ASSUME NEW c \in Callers, BurnFetch(c) PROVE IInv'
  <2>1. \E l \in Labels : Goto(c, l)
    BY <1>3 DEF BurnFetch, Labels
  <2> QED
    BY <1>3, <2>1, GotoOnly DEF BurnFetch
<1>4. ASSUME NEW c \in Callers, BurnRefused(c) PROVE IInv'
  <2>1. \E l \in Labels : Goto(c, l)
    BY <1>4 DEF BurnRefused, AfterExpire, Labels
  <2> QED
    BY <1>4, <2>1, GotoOnly DEF BurnRefused
<1>5. ASSUME NEW c \in Callers, ReadWallet(c) PROVE IInv'
  <2>1. wallet \in Row
    BY DEF IInv, TypeOK, StoreTypes
  <2>2. CallerTypes'
    BY <1>5, <2>1 DEF IInv, TypeOK, CallerTypes, ReadWallet, Labels, Replies
  <2>3. AcknowledgedIsPosted'
    BY <1>5 DEF IInv, TypeOK, CallerTypes, AcknowledgedIsPosted, ReadWallet
  <2> QED
    BY <1>5, <2>2, <2>3, StoreUnchanged DEF ReadWallet
<1>6. ASSUME NEW c \in Callers, Fetch(c) PROVE IInv'
  <2>1. UNCHANGED <<wallet, posted, expired, net, clock, burnt>>
    BY <1>6 DEF Fetch
  <2>2. CASE key[c] \in posted /\ Return(c, "replay")
    <3>1. CallerTypes'
      BY <2>2, ReturnTypes DEF IInv, TypeOK, Replies
    <3>2. AcknowledgedIsPosted'
      BY <2>1, <2>2, ReturnAck DEF IInv, TypeOK
    <3> QED
      BY <2>1, <3>1, <3>2, StoreUnchanged
  <2>3. CASE key[c] \notin posted
    <3>1. EmptyRow \in Row /\ clock \in Nat
      BY DEF EmptyRow, WalletRow, Row, IInv, TypeOK, StoreTypes
    <3>2. CallerTypes'
      BY <1>6, <2>3, <3>1 DEF IInv, TypeOK, CallerTypes, Fetch, Labels
    <3>3. AcknowledgedIsPosted'
      BY <1>6, <2>3 DEF IInv, AcknowledgedIsPosted, Fetch
    <3> QED
      BY <2>1, <3>2, <3>3, StoreUnchanged
  <2> QED
    BY <1>6, <2>2, <2>3 DEF Fetch
<1>7. ASSUME NEW c \in Callers,
             \/ DeductRefused(c) \/ ReserveRaises(c) \/ ReserveRefused(c)
             \/ ReleaseRefused(c) \/ CaptureRefused(c)
      PROVE IInv'
  <2>1. \E r \in Replies \ {"ok", "replay"} : Refuse(c, r)
    BY <1>7 DEF DeductRefused, ReserveRaises, ReserveRefused, ReleaseRefused,
                CaptureRefused, Replies
  <2> QED
    BY <2>1, RefuseOnly
<1>8. ASSUME NEW c \in Callers, Crash(c) PROVE IInv'
  <2>1. Refuse(c, "lost") /\ "lost" \in Replies \ {"ok", "replay"}
    BY <1>8 DEF Crash, Refuse, Replies
  <2> QED
    BY <2>1, RefuseOnly
<1>9. ASSUME NEW c \in Callers, Transaction(c) PROVE IInv'
  BY <1>9, BurnTxStep, ZeroStep, CreditTxStep, DeductTxStep, ReserveTxStep,
     ReleaseTxStep, CaptureTxStep DEF Transaction
<1>10. CASE Tick
  <2>1. clock' \in Nat
    BY <1>10 DEF Tick, IInv, TypeOK, StoreTypes
  <2> QED
    BY <1>10, <2>1 DEF Tick, locals, IInv, TypeOK, StoreTypes, CallerTypes,
                       WithinBalance, LedgerMatchesWallet, AcknowledgedIsPosted
<1>11. CASE UNCHANGED vars
  BY <1>11 DEF vars, locals, IInv, TypeOK, StoreTypes, CallerTypes,
               WithinBalance, LedgerMatchesWallet, AcknowledgedIsPosted
<1> QED
  BY <1>1, <1>2, <1>3, <1>4, <1>5, <1>6, <1>7, <1>8, <1>9, <1>10, <1>11
     DEF Next, Step

\* The inductive invariant holds in every reachable state.
THEOREM Invariant == Spec => []IInv
<1> QED
  BY InitIInv, NextIInv, PTL DEF Spec

\* The variables keep their types; no balance is ever negative.
THEOREM Typing == Spec => []TypeOK
<1>1. IInv => TypeOK
  BY DEF IInv
<1> QED
  BY <1>1, Invariant, PTL

\* No tenant ever spends or holds credits it does not have, whatever calls
\* race, crash and are retried: the conditions of deduct(), reserve() and
\* capture_reservation() under the row lock are enough.
THEOREM NoOverdraft == Spec => []WithinBalance
<1>1. IInv => WithinBalance
  BY DEF IInv
<1> QED
  BY <1>1, Invariant, PTL

\* The ledger explains the wallet row in every reachable state, up to what
\* reserve() burned without writing legs.
THEOREM LedgerExplainsWallet == Spec => []LedgerMatchesWallet
<1>1. IInv => LedgerMatchesWallet
  BY DEF IInv
<1> QED
  BY <1>1, Invariant, PTL

\* An operation that was answered ok, or as a replay, has its row in
\* credit_transactions, and keeps it.
THEOREM YesMeansPosted == Spec => []AcknowledgedIsPosted
<1>1. IInv => AcknowledgedIsPosted
  BY DEF IInv
<1> QED
  BY <1>1, Invariant, PTL

-----------------------------------------------------------------------------
(* The store implements CreditAccount: a committed transaction is one step *)
(* of the account, the burn of expire_promotional is a lapse, and every    *)
(* other step changes nothing the account promises.                        *)

\* A transaction's Commit is one Once of the account, or no step at all.
LEMMA CommitIsOnce ==
  ASSUME IInv, NEW c \in Callers, NEW op, InTx(c, op), NEW row, NEW legs,
         Commit(c, row, legs)
  PROVE  \/ UNCHANGED Account!vars
         \/ /\ Account!Once(key[c], op) /\ key[c] \in Keys
            /\ Call[key[c]].op = op
            /\ wallet' = row
<1>1. pc[c] # "idle" /\ Req(c).op = op
  BY DEF InTx
<1>2. \/ key[c] \in posted /\ UNCHANGED <<wallet, net, posted>>
      \/ /\ key[c] \in Keys \ posted /\ posted' = posted \cup {key[c]}
         /\ wallet' = row /\ net' = legs
  BY <1>1, CommitTypes DEF IInv
<1>3. CASE UNCHANGED <<wallet, net, posted>>
  BY <1>3 DEF Account!vars
<1>4. CASE /\ key[c] \in Keys \ posted /\ posted' = posted \cup {key[c]}
           /\ wallet' = row
  BY <1>1, <1>4 DEF Account!Once, Req
<1> QED
  BY <1>2, <1>3, <1>4

LEMMA CreditIsDeposit ==
  ASSUME IInv, NEW c \in Callers, CreditTx(c)
  PROVE  [Account!Next]_(Account!vars)
<1> DEFINE row == Credited(wallet, Req(c))
           legs == Post(net, "treasury", "wallet", Req(c).amt)
<1>1. InTx(c, "credit") /\ pc[c] # "idle" /\ Commit(c, row, legs)
  BY DEF CreditTx, InTx
<1>2. /\ Req(c) \in Account!Request /\ Req(c).amt \in Nat /\ wallet \in Row
      /\ wallet.cur \in Nat /\ wallet.res \in Nat
  BY <1>1, RequestTypes
<1>3. row.cur = wallet.cur + Req(c).amt /\ row.res = wallet.res
  BY <1>2, CreditedRow
<1> HIDE DEF row, legs
<1>4. \/ UNCHANGED Account!vars
      \/ Account!Once(key[c], "credit") /\ key[c] \in Keys /\ wallet' = row
  BY <1>1, CommitIsOnce
<1>5. CASE Account!Once(key[c], "credit") /\ key[c] \in Keys /\ wallet' = row
  <2>1. Account!Deposit(key[c])
    BY <1>2, <1>3, <1>5 DEF Account!Deposit, Req
  <2> QED
    BY <1>5, <2>1 DEF Account!Next
<1> QED
  BY <1>4, <1>5

LEMMA DeductIsSpend ==
  ASSUME IInv, NEW c \in Callers, DeductTx(c)
  PROVE  [Account!Next]_(Account!vars)
<1> DEFINE row == Deducted(wallet, Req(c).amt)
           legs == Post(net, "wallet", "revenue", Req(c).amt)
<1>1. InTx(c, "deduct") /\ pc[c] # "idle" /\ Commit(c, row, legs)
  BY DEF DeductTx, InTx
<1>2. /\ Req(c).amt \in Nat /\ wallet \in Row
      /\ wallet.cur \in Nat /\ wallet.res \in Nat
  BY <1>1, RequestTypes
<1>3. wallet.cur - wallet.res >= Req(c).amt
  BY DEF DeductTx, CanDeduct
<1>4. Req(c).amt <= wallet.cur
  BY <1>2, <1>3
<1>5. row.cur = wallet.cur - Req(c).amt /\ row.res = wallet.res
  BY <1>2, <1>4, DeductedRow
<1> HIDE DEF row, legs
<1>6. \/ UNCHANGED Account!vars
      \/ Account!Once(key[c], "deduct") /\ key[c] \in Keys /\ wallet' = row
  BY <1>1, CommitIsOnce
<1>7. CASE Account!Once(key[c], "deduct") /\ key[c] \in Keys /\ wallet' = row
  <2>1. Account!Spend(key[c])
    BY <1>2, <1>3, <1>5, <1>7 DEF Account!Spend, Req
  <2> QED
    BY <1>7, <2>1 DEF Account!Next
<1> QED
  BY <1>6, <1>7

\* The burn in reserve() is the part of Hold that lapses: its guard leaves
\* the amount free after the burn.
LEMMA ReserveIsHold ==
  ASSUME IInv, NEW c \in Callers, ReserveTx(c)
  PROVE  [Account!Next]_(Account!vars)
<1> DEFINE swept == Swept(wallet, at[c])
           burn == SweptAmount(wallet, at[c])
           row == Reserved(swept, Req(c).amt)
           legs == Post(net, "hold", "holds", Req(c).amt)
<1>1. InTx(c, "reserve") /\ pc[c] # "idle" /\ Commit(c, row, legs)
      /\ swept.cur - swept.res >= Req(c).amt
  BY DEF ReserveTx, InTx
<1>2. /\ Req(c).amt \in Nat /\ wallet \in Row /\ at[c] \in Nat
      /\ wallet.cur \in Nat /\ wallet.res \in Nat
  BY <1>1, RequestTypes
<1>3. burn \in Nat /\ swept.cur = wallet.cur - burn /\ swept.res = wallet.res
  BY <1>2, SweptRow
<1>4. row.cur = swept.cur /\ row.res = swept.res + Req(c).amt
  BY DEF Reserved, WalletRow
<1> HIDE DEF swept, burn, row, legs
<1>5. /\ burn \in 0..(wallet.cur - wallet.res)
      /\ wallet.cur - wallet.res - burn >= Req(c).amt
      /\ row.cur - row.res = wallet.cur - wallet.res - burn - Req(c).amt
      /\ row.res = wallet.res + Req(c).amt
  BY <1>1, <1>2, <1>3, <1>4
<1>6. \/ UNCHANGED Account!vars
      \/ Account!Once(key[c], "reserve") /\ key[c] \in Keys /\ wallet' = row
  BY <1>1, CommitIsOnce
<1>7. CASE Account!Once(key[c], "reserve") /\ key[c] \in Keys /\ wallet' = row
  <2>1. Account!Hold(key[c])
    BY <1>5, <1>7 DEF Account!Hold, Req
  <2> QED
    BY <1>7, <2>1 DEF Account!Next
<1> QED
  BY <1>6, <1>7

LEMMA ReleaseIsUnhold ==
  ASSUME IInv, NEW c \in Callers, ReleaseTx(c)
  PROVE  [Account!Next]_(Account!vars)
<1> DEFINE back == Least(Req(c).amt, wallet.res)
           row == Released(wallet, Req(c).amt)
           legs == Post(net, "holds", "hold", back)
<1>1. InTx(c, "release") /\ pc[c] # "idle" /\ Commit(c, row, legs) /\ wallet.res > 0
  BY DEF ReleaseTx, InTx
<1>2. /\ Req(c).amt \in Nat /\ Req(c).amt > 0 /\ wallet \in Row
      /\ wallet.cur \in Nat /\ wallet.res \in Nat
  BY <1>1, RequestTypes
<1>3. back \in 1..Req(c).amt /\ back <= wallet.res
  BY <1>1, <1>2 DEF Least
<1>4. row.cur = wallet.cur /\ row.res = wallet.res - back
  BY DEF Released, WalletRow
<1> HIDE DEF back, row, legs
<1>5. row.cur - row.res = wallet.cur - wallet.res + back
  BY <1>2, <1>3, <1>4
<1>6. \/ UNCHANGED Account!vars
      \/ Account!Once(key[c], "release") /\ key[c] \in Keys /\ wallet' = row
  BY <1>1, CommitIsOnce
<1>7. CASE Account!Once(key[c], "release") /\ key[c] \in Keys /\ wallet' = row
  <2>1. Account!Unhold(key[c])
    BY <1>3, <1>4, <1>5, <1>7 DEF Account!Unhold, Req
  <2> QED
    BY <1>7, <2>1 DEF Account!Next
<1> QED
  BY <1>6, <1>7

LEMMA CaptureIsSettle ==
  ASSUME IInv, NEW c \in Callers, CaptureTx(c)
  PROVE  [Account!Next]_(Account!vars)
<1> DEFINE row == Captured(wallet, Req(c).amt)
           legs == Post(Post(net, "holds", "hold", Req(c).amt), "wallet", "revenue", Req(c).amt)
<1>1. InTx(c, "capture") /\ pc[c] # "idle" /\ Commit(c, row, legs)
      /\ wallet.res >= Req(c).amt
  BY DEF CaptureTx, CanCapture, InTx
<1>2. /\ Req(c).amt \in Nat /\ wallet \in Row
      /\ wallet.cur \in Nat /\ wallet.res \in Nat
  BY <1>1, RequestTypes
<1>3. row.cur = wallet.cur - Req(c).amt /\ row.res = wallet.res - Req(c).amt
  BY DEF Captured, WalletRow
<1> HIDE DEF row, legs
<1>4. row.cur - row.res = wallet.cur - wallet.res
  BY <1>2, <1>3
<1>5. \/ UNCHANGED Account!vars
      \/ Account!Once(key[c], "capture") /\ key[c] \in Keys /\ wallet' = row
  BY <1>1, CommitIsOnce
<1>6. CASE Account!Once(key[c], "capture") /\ key[c] \in Keys /\ wallet' = row
  <2>1. Account!Settle(key[c])
    BY <1>1, <1>3, <1>4, <1>6 DEF Account!Settle, Req
  <2> QED
    BY <1>6, <2>1 DEF Account!Next
<1> QED
  BY <1>5, <1>6

LEMMA BurnIsLapse ==
  ASSUME IInv, NEW c \in Callers, BurnTx(c)
  PROVE  [Account!Next]_(Account!vars)
<1> DEFINE x == SweptAmount(seen[c], at[c])
           row == Deducted(wallet, x)
<1>1. pc[c] # "idle" /\ posted' = posted /\ wallet.cur - wallet.res >= x
      /\ (wallet' = wallet \/ wallet' = row)
  BY DEF BurnTx
<1>2. /\ seen[c] \in Row /\ at[c] \in Nat /\ wallet \in Row
      /\ wallet.cur \in Nat /\ wallet.res \in Nat
  BY <1>1, RequestTypes
<1>3. x \in Nat
  BY <1>2, SweptRow
<1>4. x <= wallet.cur
  BY <1>1, <1>2, <1>3
<1>5. row.cur = wallet.cur - x /\ row.res = wallet.res
  BY <1>2, <1>3, <1>4, DeductedRow
<1> HIDE DEF x, row
<1>6. CASE wallet' = wallet
  BY <1>1, <1>6 DEF Account!vars
<1>7. CASE wallet' = row /\ x = 0
  BY <1>1, <1>2, <1>5, <1>7 DEF Account!vars
<1>8. CASE wallet' = row /\ x # 0
  <2>1. /\ wallet'.cur - wallet'.res \in 0..(wallet.cur - wallet.res - 1)
        /\ wallet'.res = wallet.res
    BY <1>1, <1>2, <1>3, <1>5, <1>8
  <2>2. Account!Lapse
    BY <1>1, <2>1 DEF Account!Lapse
  <2> QED
    BY <2>2 DEF Account!Next
<1> QED
  BY <1>1, <1>6, <1>7, <1>8

\* A step that leaves the balance, the reservations and the keys alone.
LEMMA Stutter ==
  ASSUME posted' = posted, wallet'.cur = wallet.cur, wallet'.res = wallet.res
  PROVE  [Account!Next]_(Account!vars)
BY DEF Account!vars

LEMMA ZeroIsStutter ==
  ASSUME NEW c \in Callers, Zero(c)
  PROVE  [Account!Next]_(Account!vars)
<1>1. wallet'.cur = wallet.cur /\ wallet'.res = wallet.res /\ posted' = posted
  BY DEF Zero, WalletRow
<1> QED
  BY <1>1, Stutter

LEMMA InitImplements == Init => Account!Init
BY DEF Init, EmptyRow, WalletRow, Account!Init

LEMMA NextImplements == IInv /\ [Next]_vars => [Account!Next]_(Account!vars)
<1> SUFFICES ASSUME IInv, [Next]_vars PROVE [Account!Next]_(Account!vars)
  OBVIOUS
<1>1. ASSUME NEW c \in Callers, Transaction(c) PROVE [Account!Next]_(Account!vars)
  BY <1>1, CreditIsDeposit, DeductIsSpend, ReserveIsHold, ReleaseIsUnhold,
     CaptureIsSettle, BurnIsLapse, ZeroIsStutter DEF Transaction
<1>2. ASSUME NEW c \in Callers, Step(c), ~Transaction(c)
      PROVE  wallet' = wallet /\ posted' = posted
  BY <1>2 DEF Step, ExpireRead, BurnFetch, BurnRefused, ReadWallet, Fetch, DeductRefused,
              ReserveRaises, ReserveRefused, ReleaseRefused, CaptureRefused, Refuse
<1>3. ASSUME NEW c \in Callers, (\E k \in Keys : Invoke(c, k)) \/ Crash(c)
      PROVE  wallet' = wallet /\ posted' = posted
  BY <1>3 DEF Invoke, Crash
<1>4. ASSUME Tick \/ UNCHANGED vars
      PROVE  wallet' = wallet /\ posted' = posted
  BY <1>4 DEF Tick, vars
<1> QED
  BY <1>1, <1>2, <1>3, <1>4, Stutter DEF Next

\* Refinement: for any callers and requests, with and without row level
\* security, every behaviour of the store is one of the atomic account whose
\* keys take effect at most once and which is never overdrawn.
THEOREM Refinement == Spec => ImplementsAccount
<1> QED
  BY InitIInv, NextIInv, InitImplements, NextImplements, PTL
     DEF Spec, ImplementsAccount, Account!Spec

-----------------------------------------------------------------------------
(* Sums of amounts.  Amount folds over a set in an order CHOOSE picks: that *)
(* the recursion has a solution, and that no order matters, is proved by    *)
(* the size of the sets, from the well-foundedness of the naturals.         *)

Any(s) == CHOOSE x \in s : TRUE

\* The sums of the subsets of S, from those of the smaller ones.
SumsFrom(S, g) ==
  [s \in SUBSET S |-> IF s = {} THEN 0 ELSE Call[Any(s)].amt + g[s \ {Any(s)}]]

\* The function by which Amount adds up a set.
Sums(S) == CHOOSE g : g = SumsFrom(S, g)

LEMMA AmountIsSum == ASSUME NEW S PROVE Amount(S) = Sums(S)[S]
BY DEF Amount, Sums, SumsFrom, Any, MapThenSumSet, MapThenFoldSet

\* A set of naturals that is not all of them has a least one outside.
LEMMA LeastOutside ==
  ASSUME NEW T \in SUBSET Nat, T # Nat
  PROVE  \E n \in Nat \ T : \A m \in Nat : m < n => m \in T
<1> DEFINE Lt == {ss \in Nat \X Nat : ss[1] < ss[2]}
<1>1. IsWellFoundedOn(Lt, Nat)
  BY NatLessThanWellFounded DEF OpToRel
<1> HIDE DEF Lt
<1>2. Nat \ T # {} /\ Nat \ T \subseteq Nat
  OBVIOUS
<1>3. PICK n \in Nat \ T : \A m \in Nat \ T : ~(<<m, n>> \in Lt)
  BY <1>1, <1>2, WFMin
<1>4. ASSUME NEW m \in Nat, m < n PROVE m \in T
  <2>1. <<m, n>> \in Lt
    BY <1>4 DEF Lt
  <2> QED BY <2>1, <1>3
<1> QED BY <1>4

\* What holds of a subset when it holds of the smaller ones holds of all.
LEMMA BySize ==
  ASSUME NEW S, IsFiniteSet(S), NEW good,
         \A s \in SUBSET S :
           (\A t \in SUBSET S : Cardinality(t) < Cardinality(s) => t \in good) => s \in good
  PROVE  SUBSET S \subseteq good
<1> DEFINE T == {n \in Nat : \A s \in SUBSET S : Cardinality(s) = n => s \in good}
<1>1. \A s \in SUBSET S : Cardinality(s) \in Nat
  BY FS_Subset, FS_CardinalityType
<1>2. T = Nat
  <2> SUFFICES ASSUME T # Nat PROVE FALSE
    OBVIOUS
  <2>1. T \in SUBSET Nat
    OBVIOUS
  <2>2. PICK n \in Nat \ T : \A m \in Nat : m < n => m \in T
    BY <2>1, LeastOutside
  <2>3. PICK s \in SUBSET S : Cardinality(s) = n /\ s \notin good
    BY <2>2
  <2>4. \A t \in SUBSET S : Cardinality(t) < Cardinality(s) => t \in good
    BY <1>1, <2>2, <2>3
  <2> QED BY <2>3, <2>4
<1> QED BY <1>1, <1>2

LEMMA Smaller ==
  ASSUME NEW S, IsFiniteSet(S), NEW s \in SUBSET S, NEW x \in s
  PROVE  /\ s \ {x} \in SUBSET S /\ IsFiniteSet(s)
         /\ Cardinality(s) \in Nat /\ Cardinality(s \ {x}) \in Nat
         /\ Cardinality(s) = Cardinality(s \ {x}) + 1
<1>1. IsFiniteSet(s)
  BY FS_Subset
<1>2. IsFiniteSet(s \ {x}) /\ Cardinality(s \ {x}) = Cardinality(s) - 1
  BY <1>1, FS_RemoveElement
<1>3. Cardinality(s) \in Nat /\ Cardinality(s \ {x}) \in Nat
  BY <1>1, <1>2, FS_CardinalityType
<1> QED BY <1>1, <1>2, <1>3

LEMMA AnyIsIn == ASSUME NEW s, s # {} PROVE Any(s) \in s
BY DEF Any

LEMMA AmtIsNat == ASSUME NEW k \in Keys PROVE Call[k].amt \in Nat
BY CallAssumption DEF Account!Request

LEMMA SumsFromType ==
  ASSUME NEW S \in SUBSET Keys, NEW g \in [SUBSET S -> Nat]
  PROVE  SumsFrom(S, g) \in [SUBSET S -> Nat]
<1> SUFFICES ASSUME NEW s \in SUBSET S, s # {}
             PROVE  Call[Any(s)].amt + g[s \ {Any(s)}] \in Nat
  BY DEF SumsFrom
<1>1. Any(s) \in Keys /\ s \ {Any(s)} \in SUBSET S
  BY AnyIsIn
<1> QED BY <1>1, AmtIsNat

\* The recursion by which Amount is defined has a solution.
LEMMA SumsExist ==
  ASSUME NEW S \in SUBSET Keys, IsFiniteSet(S)
  PROVE  Sums(S) = SumsFrom(S, Sums(S))
<1> DEFINE Upto(n) == \E g \in [SUBSET S -> Nat] :
             \A s \in SUBSET S : Cardinality(s) <= n => g[s] = SumsFrom(S, g)[s]
           T == {n \in Nat : Upto(n)}
<1>1. \A s \in SUBSET S : Cardinality(s) \in Nat
  BY FS_Subset, FS_CardinalityType
<1>2. Upto(0)
  <2> DEFINE g == [s \in SUBSET S |-> 0]
  <2>1. ASSUME NEW s \in SUBSET S, Cardinality(s) <= 0 PROVE g[s] = SumsFrom(S, g)[s]
    <3>1. s = {}
      BY <2>1, <1>1, FS_Subset, FS_EmptySet
    <3> QED BY <3>1 DEF SumsFrom
  <2>2. g \in [SUBSET S -> Nat]
    OBVIOUS
  <2> QED BY <2>1, <2>2
<1>3. ASSUME NEW n \in Nat, Upto(n) PROVE Upto(n + 1)
  <2>1. PICK g \in [SUBSET S -> Nat] :
          \A s \in SUBSET S : Cardinality(s) <= n => g[s] = SumsFrom(S, g)[s]
    BY <1>3
  <2> DEFINE h == SumsFrom(S, g)
  <2>2. h \in [SUBSET S -> Nat]
    BY SumsFromType
  <2>3. ASSUME NEW s \in SUBSET S, Cardinality(s) <= n + 1 PROVE h[s] = SumsFrom(S, h)[s]
    <3>1. CASE s = {}
      BY <3>1 DEF SumsFrom
    <3>2. CASE s # {}
      <4>1. /\ s \ {Any(s)} \in SUBSET S /\ Cardinality(s \ {Any(s)}) <= n
        BY <2>3, <3>2, AnyIsIn, Smaller
      <4>2. g[s \ {Any(s)}] = h[s \ {Any(s)}]
        BY <4>1, <2>1
      <4> HIDE DEF h
      <4>3. SumsFrom(S, h)[s] = Call[Any(s)].amt + h[s \ {Any(s)}]
        BY <3>2 DEF SumsFrom
      <4>4. h[s] = Call[Any(s)].amt + g[s \ {Any(s)}]
        BY <3>2 DEF SumsFrom, h
      <4> QED BY <4>2, <4>3, <4>4
    <3> QED BY <3>1, <3>2
  <2> HIDE DEF h
  <2> QED BY <2>2, <2>3
<1> HIDE DEF Upto
<1>4. T = Nat
  <2> SUFFICES ASSUME T # Nat PROVE FALSE
    OBVIOUS
  <2>1. PICK n \in Nat \ T : \A m \in Nat : m < n => m \in T
    BY LeastOutside
  <2>2. n # 0
    BY <1>2, <2>1
  <2>3. n - 1 \in Nat /\ n - 1 < n /\ (n - 1) + 1 = n
    BY <2>2
  <2>4. Upto(n - 1)
    BY <2>1, <2>3
  <2>5. Upto((n - 1) + 1)
    BY <2>3, <2>4, <1>3
  <2> QED BY <2>1, <2>3, <2>5
<1>5. Upto(Cardinality(S))
  BY <1>1, <1>4
<1>6. PICK g \in [SUBSET S -> Nat] :
        \A s \in SUBSET S : Cardinality(s) <= Cardinality(S) => g[s] = SumsFrom(S, g)[s]
  BY <1>5 DEF Upto
<1>7. \A s \in SUBSET S : g[s] = SumsFrom(S, g)[s]
  BY <1>6, FS_Subset
<1>8. g = SumsFrom(S, g)
  <2>1. SumsFrom(S, g) \in [SUBSET S -> Nat]
    BY SumsFromType
  <2> QED BY <2>1, <1>7
<1>9. \E f : f = SumsFrom(S, f)
  BY <1>8
<1> QED BY <1>9 DEF Sums

LEMMA SumOf ==
  ASSUME NEW S \in SUBSET Keys, IsFiniteSet(S), NEW s \in SUBSET S
  PROVE  Sums(S)[s] = IF s = {} THEN 0 ELSE Call[Any(s)].amt + Sums(S)[s \ {Any(s)}]
<1> DEFINE g == Sums(S)
<1>1. g = SumsFrom(S, g)
  BY SumsExist
<1> HIDE DEF g
<1>2. g[s] = IF s = {} THEN 0 ELSE Call[Any(s)].amt + g[s \ {Any(s)}]
  BY <1>1 DEF SumsFrom
<1> QED BY <1>2 DEF g

\* The sum of a set does not depend on the set it is taken in.
LEMMA SumsAgree ==
  ASSUME NEW S \in SUBSET Keys, IsFiniteSet(S), NEW R \in SUBSET S
  PROVE  \A s \in SUBSET R : Sums(S)[s] = Sums(R)[s]
<1> DEFINE good == {s \in SUBSET R : Sums(S)[s] = Sums(R)[s]}
<1>1. IsFiniteSet(R) /\ R \in SUBSET Keys
  BY FS_Subset
<1>2. ASSUME NEW s \in SUBSET R,
             \A t \in SUBSET R : Cardinality(t) < Cardinality(s) => t \in good
      PROVE  s \in good
  <2>1. /\ Sums(S)[s] = IF s = {} THEN 0 ELSE Call[Any(s)].amt + Sums(S)[s \ {Any(s)}]
        /\ Sums(R)[s] = IF s = {} THEN 0 ELSE Call[Any(s)].amt + Sums(R)[s \ {Any(s)}]
    BY <1>1, SumOf
  <2>2. CASE s = {}
    BY <2>1, <2>2
  <2>3. CASE s # {}
    <3>1. s \ {Any(s)} \in SUBSET R /\ Cardinality(s \ {Any(s)}) < Cardinality(s)
      BY <2>3, <1>1, AnyIsIn, Smaller
    <3>2. Sums(S)[s \ {Any(s)}] = Sums(R)[s \ {Any(s)}]
      BY <3>1, <1>2
    <3> QED BY <2>1, <2>3, <3>2
  <2> QED BY <2>2, <2>3
<1> HIDE DEF good
<1>3. SUBSET R \subseteq good
  BY <1>1, <1>2, BySize
<1> QED BY <1>3 DEF good

LEMMA AmountOfAny ==
  ASSUME NEW S \in SUBSET Keys, IsFiniteSet(S)
  PROVE  Amount(S) = IF S = {} THEN 0 ELSE Call[Any(S)].amt + Amount(S \ {Any(S)})
<1>1. CASE S = {}
  BY <1>1, SumOf, AmountIsSum
<1>2. CASE S # {}
  <2> DEFINE R == S \ {Any(S)}
  <2>1. R \in SUBSET S /\ R \in SUBSET Keys /\ R \in SUBSET R /\ IsFiniteSet(R)
    BY FS_Subset
  <2>2. Sums(S)[S] = Call[Any(S)].amt + Sums(S)[R]
    BY <1>2, SumOf
  <2>3. Sums(S)[R] = Sums(R)[R]
    BY <2>1, SumsAgree
  <2> QED BY <1>2, <2>2, <2>3, AmountIsSum
<1> QED BY <1>1, <1>2

LEMMA AmountIsNat ==
  ASSUME NEW S \in SUBSET Keys, IsFiniteSet(S)
  PROVE  Amount(S) \in Nat
<1> DEFINE good == {s \in SUBSET S : Amount(s) \in Nat}
<1>1. ASSUME NEW s \in SUBSET S,
             \A t \in SUBSET S : Cardinality(t) < Cardinality(s) => t \in good
      PROVE  s \in good
  <2>1. s \in SUBSET Keys /\ IsFiniteSet(s)
    BY FS_Subset
  <2>2. Amount(s) = IF s = {} THEN 0 ELSE Call[Any(s)].amt + Amount(s \ {Any(s)})
    BY <2>1, AmountOfAny
  <2>3. CASE s = {}
    BY <2>2, <2>3
  <2>4. CASE s # {}
    <3>1. /\ s \ {Any(s)} \in SUBSET S /\ Cardinality(s \ {Any(s)}) < Cardinality(s)
          /\ Any(s) \in Keys
      BY <2>4, <2>1, AnyIsIn, Smaller
    <3>2. Amount(s \ {Any(s)}) \in Nat /\ Call[Any(s)].amt \in Nat
      BY <3>1, <1>1, AmtIsNat
    <3> QED BY <2>2, <2>4, <3>2
  <2> QED BY <2>3, <2>4
<1> HIDE DEF good
<1>2. SUBSET S \subseteq good
  BY <1>1, BySize
<1> QED BY <1>2 DEF good

\* Taking any element out takes its amount.
LEMMA AmountWithout ==
  ASSUME NEW S \in SUBSET Keys, IsFiniteSet(S), NEW k \in S
  PROVE  Amount(S) = Amount(S \ {k}) + Call[k].amt
<1> DEFINE good == {s \in SUBSET S : \A x \in s : Amount(s) = Amount(s \ {x}) + Call[x].amt}
<1>1. ASSUME NEW s \in SUBSET S,
             \A t \in SUBSET S : Cardinality(t) < Cardinality(s) => t \in good
      PROVE  s \in good
  <2> SUFFICES ASSUME NEW x \in s PROVE Amount(s) = Amount(s \ {x}) + Call[x].amt
    OBVIOUS
  <2> DEFINE y == Any(s)
             both == (s \ {x}) \ {y}
  <2>1. y \in s /\ x \in Keys /\ y \in Keys
    BY AnyIsIn
  <2>2. s \in SUBSET Keys /\ IsFiniteSet(s)
    BY FS_Subset
  <2>3. Amount(s) = Call[y].amt + Amount(s \ {y})
    BY <2>2, AmountOfAny
  <2>4. /\ s \ {y} \in SUBSET S /\ Cardinality(s \ {y}) < Cardinality(s)
        /\ s \ {x} \in SUBSET S /\ Cardinality(s \ {x}) < Cardinality(s)
    BY <2>1, Smaller
  <2>5. /\ s \ {y} \in SUBSET Keys /\ IsFiniteSet(s \ {y})
        /\ s \ {x} \in SUBSET Keys /\ IsFiniteSet(s \ {x})
        /\ both \in SUBSET Keys /\ IsFiniteSet(both)
    BY <2>2, FS_Subset
  <2>6. /\ Call[x].amt \in Nat /\ Call[y].amt \in Nat /\ Amount(both) \in Nat
        /\ Amount(s \ {x}) \in Nat /\ Amount(s \ {y}) \in Nat
    BY <2>1, <2>5, AmtIsNat, AmountIsNat
  <2>7. CASE x = y
    BY <2>3, <2>6, <2>7
  <2>8. CASE x # y
    <3>1. (s \ {y}) \ {x} = both /\ x \in s \ {y} /\ y \in s \ {x}
      BY <2>1, <2>8
    <3>2. Amount(s \ {y}) = Amount(both) + Call[x].amt
      BY <2>4, <3>1, <1>1
    <3>3. Amount(s \ {x}) = Amount(both) + Call[y].amt
      BY <2>4, <3>1, <1>1
    <3> HIDE DEF y, both
    <3> QED BY <2>3, <2>6, <3>2, <3>3
  <2> QED BY <2>7, <2>8
<1> HIDE DEF good
<1>2. SUBSET S \subseteq good
  BY <1>1, BySize
<1> QED BY <1>2 DEF good

LEMMA AmountWith ==
  ASSUME NEW S \in SUBSET Keys, IsFiniteSet(S), NEW k \in Keys \ S
  PROVE  Amount(S \cup {k}) = Amount(S) + Call[k].amt
<1>1. (S \cup {k}) \ {k} = S /\ k \in S \cup {k}
  OBVIOUS
<1>2. IsFiniteSet(S \cup {k}) /\ S \cup {k} \in SUBSET Keys
  BY FS_AddElement
<1> QED BY <1>1, <1>2, AmountWithout

-----------------------------------------------------------------------------
(* Charges.                                                                *)

Charged == IsFiniteSet(posted) /\ ChargedOncePerKey

\* A new key joins the keys of its operation, and no others.
LEMMA PostedGrows ==
  ASSUME NEW k, k \notin posted, posted' = posted \cup {k}, NEW op
  PROVE  PostedAs(op)' = IF Call[k].op = op THEN PostedAs(op) \cup {k} ELSE PostedAs(op)
BY DEF PostedAs

LEMMA PostedSets ==
  ASSUME IInv, IsFiniteSet(posted), NEW op
  PROVE  /\ PostedAs(op) \in SUBSET Keys /\ IsFiniteSet(PostedAs(op))
         /\ PostedAs(op) \subseteq posted /\ Amount(PostedAs(op)) \in Nat
<1>1. posted \in SUBSET Keys /\ PostedAs(op) \in SUBSET posted
  BY DEF IInv, TypeOK, StoreTypes, PostedAs
<1>2. IsFiniteSet(PostedAs(op))
  BY <1>1, FS_Subset
<1> QED BY <1>1, <1>2, AmountIsNat

LEMMA SpentSet ==
  ASSUME IInv, IsFiniteSet(posted)
  PROVE  LET spent == PostedAs("deduct") \cup PostedAs("capture")
         IN  spent \in SUBSET Keys /\ IsFiniteSet(spent) /\ spent \subseteq posted
             /\ Amount(spent) \in Nat
<1> DEFINE spent == PostedAs("deduct") \cup PostedAs("capture")
<1>1. posted \in SUBSET Keys /\ spent \in SUBSET posted
  BY DEF IInv, TypeOK, StoreTypes, PostedAs
<1>2. IsFiniteSet(spent)
  BY <1>1, FS_Subset
<1> QED BY <1>1, <1>2, AmountIsNat

\* Neither the keys nor the accounts of grants and charges change.
LEMMA NothingCharged ==
  ASSUME Charged, posted' = posted, net'["treasury"] = net["treasury"],
         net'["revenue"] - burnt'.ledgered = net["revenue"] - burnt.ledgered,
         net["revenue"] \in Int, net'["revenue"] \in Int,
         burnt.ledgered \in Int, burnt'.ledgered \in Int, IInv
  PROVE  Charged'
<1>1. PostedAs("credit")' = PostedAs("credit")
      /\ (PostedAs("deduct") \cup PostedAs("capture"))' = PostedAs("deduct") \cup PostedAs("capture")
  BY DEF PostedAs
<1>2. /\ Amount(PostedAs("deduct") \cup PostedAs("capture")) \in Nat
      /\ Amount(PostedAs("credit")) \in Nat
  BY SpentSet, PostedSets DEF Charged
<1>3. /\ -net["treasury"] = Amount(PostedAs("credit"))
      /\ net["revenue"] = Amount(PostedAs("deduct") \cup PostedAs("capture")) + burnt.ledgered
  BY DEF Charged, ChargedOncePerKey
<1>4. -net'["treasury"] = Amount(PostedAs("credit"))
  BY <1>3
<1>5. net'["revenue"] = Amount(PostedAs("deduct") \cup PostedAs("capture")) + burnt'.ledgered
  BY <1>2, <1>3
<1> QED BY <1>1, <1>4, <1>5 DEF Charged, ChargedOncePerKey

\* A commit charges what its request says, and only with its key.
LEMMA CommitCharges ==
  ASSUME IInv, Charged, NEW c \in Callers, pc[c] # "idle", NEW row, NEW legs,
         Commit(c, row, legs), burnt'.ledgered = burnt.ledgered,
         legs["treasury"]
           = net["treasury"] - (IF Req(c).op = "credit" THEN Req(c).amt ELSE 0),
         legs["revenue"]
           = net["revenue"] + (IF Req(c).op \in {"deduct", "capture"} THEN Req(c).amt ELSE 0)
  PROVE  Charged'
<1>1. \/ key[c] \in posted /\ UNCHANGED <<wallet, net, posted>>
      \/ /\ key[c] \in Keys \ posted /\ posted' = posted \cup {key[c]}
         /\ wallet' = row /\ net' = legs
  BY CommitTypes DEF IInv
<1>2. /\ net["treasury"] \in Int /\ net["revenue"] \in Int /\ burnt.ledgered \in Nat
      /\ Req(c).amt \in Nat
  BY RequestTypes, AccountNames DEF IInv, TypeOK, StoreTypes
<1>3. CASE UNCHANGED <<wallet, net, posted>>
  BY <1>2, <1>3, NothingCharged
<1>4. CASE /\ key[c] \in Keys \ posted /\ posted' = posted \cup {key[c]}
           /\ net' = legs
  <2> DEFINE k == key[c]
             given == PostedAs("credit")
             spent == PostedAs("deduct") \cup PostedAs("capture")
  <2>1. IsFiniteSet(posted')
    BY <1>4, FS_AddElement DEF Charged
  <2>2. given' = IF Req(c).op = "credit" THEN given \cup {k} ELSE given
    BY <1>4, PostedGrows DEF Req
  <2>3. spent' = IF Req(c).op \in {"deduct", "capture"} THEN spent \cup {k} ELSE spent
    BY <1>4 DEF Req, PostedAs
  <2>4. /\ given \in SUBSET Keys /\ IsFiniteSet(given) /\ given \subseteq posted
        /\ Amount(given) \in Nat
        /\ spent \in SUBSET Keys /\ IsFiniteSet(spent) /\ spent \subseteq posted
        /\ Amount(spent) \in Nat
    BY PostedSets, SpentSet DEF Charged
  <2>5. k \in Keys \ given /\ k \in Keys \ spent /\ Call[k].amt = Req(c).amt
    BY <1>4, <2>4 DEF Req
  <2>6. Amount(given') = Amount(given) + (IF Req(c).op = "credit" THEN Req(c).amt ELSE 0)
    BY <1>2, <2>2, <2>4, <2>5, AmountWith
  <2>7. Amount(spent') = Amount(spent)
                           + (IF Req(c).op \in {"deduct", "capture"} THEN Req(c).amt ELSE 0)
    <3> HIDE DEF given, spent, k
    <3>1. Amount(spent \cup {k}) = Amount(spent) + Call[k].amt
      BY <2>4, <2>5, AmountWith
    <3> QED BY <1>2, <2>3, <2>4, <2>5, <3>1
  <2>8. -net["treasury"] = Amount(given) /\ net["revenue"] = Amount(spent) + burnt.ledgered
    BY DEF Charged, ChargedOncePerKey
  <2>9. -net'["treasury"] = Amount(given') /\ net'["revenue"] = Amount(spent') + burnt'.ledgered
    <3> HIDE DEF given, spent, k
    <3> QED BY <1>2, <1>4, <2>4, <2>6, <2>7, <2>8
  <2> QED BY <2>1, <2>9 DEF Charged, ChargedOncePerKey
<1> QED BY <1>1, <1>3, <1>4

LEMMA TxCharges ==
  ASSUME IInv, Charged, NEW c \in Callers,
         CreditTx(c) \/ DeductTx(c) \/ ReserveTx(c) \/ ReleaseTx(c) \/ CaptureTx(c)
  PROVE  Charged'
<1>1. pc[c] # "idle"
  BY DEF CreditTx, DeductTx, ReserveTx, ReleaseTx, CaptureTx, InTx
<1>2. /\ Req(c).amt \in Nat /\ net \in [Accounts -> Int] /\ wallet \in Row
      /\ wallet.res \in Nat /\ Req(c).amt \in Int
      /\ net["treasury"] \in Int /\ net["revenue"] \in Int
  BY <1>1, RequestTypes, AccountNames
<1>3. burnt \in [ledgered : Nat, silent : Nat, paid : Nat]
  BY DEF IInv, TypeOK, StoreTypes
<1>4. CASE CreditTx(c)
  <2>1. /\ Req(c).op = "credit" /\ burnt'.ledgered = burnt.ledgered
        /\ Commit(c, Credited(wallet, Req(c)), Post(net, "treasury", "wallet", Req(c).amt))
    BY <1>4 DEF CreditTx, InTx
  <2>2. /\ Post(net, "treasury", "wallet", Req(c).amt)["treasury"] = net["treasury"] - Req(c).amt
        /\ Post(net, "treasury", "wallet", Req(c).amt)["revenue"] = net["revenue"]
    BY <1>2, PostTopUp
  <2> QED BY <1>1, <1>2, <2>1, <2>2, CommitCharges
<1>5. CASE DeductTx(c)
  <2>1. /\ Req(c).op = "deduct" /\ burnt'.ledgered = burnt.ledgered
        /\ Commit(c, Deducted(wallet, Req(c).amt), Post(net, "wallet", "revenue", Req(c).amt))
    BY <1>5 DEF DeductTx, InTx
  <2>2. /\ Post(net, "wallet", "revenue", Req(c).amt)["treasury"] = net["treasury"]
        /\ Post(net, "wallet", "revenue", Req(c).amt)["revenue"] = net["revenue"] + Req(c).amt
    BY <1>2, PostCharge
  <2> QED BY <1>1, <1>2, <2>1, <2>2, CommitCharges
<1>6. CASE ReserveTx(c)
  <2>1. /\ Req(c).op = "reserve" /\ burnt'.ledgered = burnt.ledgered
        /\ Commit(c, Reserved(Swept(wallet, at[c]), Req(c).amt), Post(net, "hold", "holds", Req(c).amt))
    BY <1>3, <1>6 DEF ReserveTx, InTx
  <2>2. /\ Post(net, "hold", "holds", Req(c).amt)["treasury"] = net["treasury"]
        /\ Post(net, "hold", "holds", Req(c).amt)["revenue"] = net["revenue"]
    BY <1>2, PostHold
  <2> QED BY <1>1, <1>2, <2>1, <2>2, CommitCharges
<1>7. CASE ReleaseTx(c)
  <2> DEFINE back == Least(Req(c).amt, wallet.res)
  <2>1. /\ Req(c).op = "release" /\ burnt'.ledgered = burnt.ledgered
        /\ Commit(c, Released(wallet, Req(c).amt), Post(net, "holds", "hold", back))
    BY <1>7 DEF ReleaseTx, InTx
  <2>2. back \in Int
    BY <1>2, LeastBelow
  <2> HIDE DEF back
  <2>3. /\ Post(net, "holds", "hold", back)["treasury"] = net["treasury"]
        /\ Post(net, "holds", "hold", back)["revenue"] = net["revenue"]
    BY <1>2, <2>2, PostFree
  <2> QED BY <1>1, <1>2, <2>1, <2>3, CommitCharges
<1>8. CASE CaptureTx(c)
  <2> DEFINE freed == Post(net, "holds", "hold", Req(c).amt)
  <2>1. /\ Req(c).op = "capture" /\ burnt'.ledgered = burnt.ledgered
        /\ Commit(c, Captured(wallet, Req(c).amt), Post(freed, "wallet", "revenue", Req(c).amt))
    BY <1>8 DEF CaptureTx, InTx
  <2>2. /\ freed \in [Accounts -> Int]
        /\ freed["treasury"] = net["treasury"] /\ freed["revenue"] = net["revenue"]
    BY <1>2, PostFree
  <2> HIDE DEF freed
  <2>3. /\ Post(freed, "wallet", "revenue", Req(c).amt)["treasury"] = net["treasury"]
        /\ Post(freed, "wallet", "revenue", Req(c).amt)["revenue"] = net["revenue"] + Req(c).amt
    BY <1>2, <2>2, PostCharge
  <2> QED BY <1>1, <1>2, <2>1, <2>3, CommitCharges
<1> QED BY <1>4, <1>5, <1>6, <1>7, <1>8

LEMMA BurnCharges == ASSUME IInv, Charged, NEW c \in Callers, BurnTx(c) PROVE Charged'
<1> DEFINE x == SweptAmount(seen[c], at[c])
           legs == Post(net, "wallet", "revenue", x)
<1>1. pc[c] # "idle" /\ posted' = posted
      /\ \/ UNCHANGED <<wallet, expired, net, burnt>>
         \/ net' = legs /\ burnt' = [burnt EXCEPT !.ledgered = @ + x,
                                                  !.paid = @ + x - Least(wallet.promo, x)]
  BY DEF BurnTx
<1>2. seen[c] \in Row /\ at[c] \in Nat /\ net \in [Accounts -> Int]
  BY <1>1, RequestTypes
<1>3. x \in Nat
  BY <1>2, SweptRow
<1>4. legs["treasury"] = net["treasury"] /\ legs["revenue"] = net["revenue"] + x
  BY <1>2, <1>3, PostCharge
<1> HIDE DEF x, legs
<1>5. burnt \in [ledgered : Nat, silent : Nat, paid : Nat] /\ net["revenue"] \in Int
  BY <1>2, AccountNames DEF IInv, TypeOK, StoreTypes
<1>6. CASE UNCHANGED <<wallet, expired, net, burnt>>
  BY <1>1, <1>5, <1>6, NothingCharged
<1>7. CASE net' = legs /\ burnt' = [burnt EXCEPT !.ledgered = @ + x,
                                                 !.paid = @ + x - Least(wallet.promo, x)]
  <2>1. burnt'.ledgered = burnt.ledgered + x
    BY <1>5, <1>7
  <2>2. burnt.ledgered \in Nat
    BY <1>5
  <2> QED BY <1>1, <1>3, <1>4, <1>5, <1>7, <2>1, <2>2, NothingCharged
<1> QED BY <1>1, <1>6, <1>7

LEMMA NextCharges == ASSUME IInv, Charged, [Next]_vars PROVE Charged'
<1>1. ASSUME UNCHANGED <<posted, net, burnt>> PROVE Charged'
  <2>1. net["revenue"] \in Int /\ burnt.ledgered \in Int
    BY AccountNames DEF IInv, TypeOK, StoreTypes
  <2> QED BY <1>1, <2>1, NothingCharged
<1>2. ASSUME NEW c \in Callers, Transaction(c) PROVE Charged'
  BY <1>1, <1>2, TxCharges, BurnCharges DEF Transaction, Zero
<1>3. ASSUME NEW c \in Callers, Step(c), ~Transaction(c) PROVE Charged'
  BY <1>1, <1>3 DEF Step, ExpireRead, BurnFetch, BurnRefused, ReadWallet, Fetch, DeductRefused,
                    ReserveRaises, ReserveRefused, ReleaseRefused, CaptureRefused, Refuse
<1>4. ASSUME NEW c \in Callers, (\E k \in Keys : Invoke(c, k)) \/ Crash(c) PROVE Charged'
  BY <1>1, <1>4 DEF Invoke, Crash
<1>5. CASE Tick \/ UNCHANGED vars
  BY <1>1, <1>5 DEF Tick, vars
<1> QED BY <1>2, <1>3, <1>4, <1>5 DEF Next

\* What a tenant was given and charged is the sum of the distinct requests
\* posted, whatever raced, crashed or was retried, for any callers and
\* requests.
THEOREM EachKeyChargesOnce == Spec => []ChargedOncePerKey
<1>1. Init => Charged
  <2> SUFFICES ASSUME Init PROVE Charged
    OBVIOUS
  <2>1. IsFiniteSet(posted) /\ posted = {}
    BY FS_EmptySet DEF Init
  <2>2. PostedAs("credit") = {} /\ PostedAs("deduct") \cup PostedAs("capture") = {}
    BY <2>1 DEF PostedAs
  <2>3. Amount({}) = 0
    BY FS_EmptySet, AmountOfAny
  <2>4. net["treasury"] = 0 /\ net["revenue"] = 0 /\ burnt.ledgered = 0
    BY AccountNames DEF Init
  <2>5. -net["treasury"] = 0
    <3>1. \A n \in Int : -n = 0 - n
      OBVIOUS
    <3>2. net["treasury"] \in Int /\ 0 - net["treasury"] = 0
      BY <2>4
    <3> QED BY <3>1, <3>2, Zenon
  <2>6. net["revenue"] = 0 + burnt.ledgered
    BY <2>4
  <2> QED BY <2>1, <2>2, <2>3, <2>5, <2>6, Zenon DEF Charged, ChargedOncePerKey
<1>2. Charged => ChargedOncePerKey
  BY DEF Charged
<1> QED BY <1>1, <1>2, NextCharges, Invariant, PTL DEF Spec

-----------------------------------------------------------------------------
(* Reconciliation.                                                         *)

NoHolds == \A k \in Keys : Call[k].op # "reserve"

\* Without reservations nothing is burned in silence, and reconcile() finds
\* the wallet and its legs equal; with them, or under row level security, it
\* does not.
THEOREM ReconciledWithoutHolds ==
  NoHolds /\ RlsEnforced = FALSE => (Spec => []Reconciles)
<1> SUFFICES ASSUME NoHolds, RlsEnforced = FALSE PROVE Spec => []Reconciles
  OBVIOUS
<1> DEFINE Silent == burnt.silent = 0
<1>1. Init => Silent
  BY DEF Init
<1>2. IInv /\ Silent /\ [Next]_vars => Silent'
  <2> SUFFICES ASSUME IInv, Silent, [Next]_vars PROVE Silent'
    OBVIOUS
  <2>1. ASSUME NEW c \in Callers PROVE ~ReserveTx(c)
    <3>1. ASSUME ReserveTx(c) PROVE FALSE
      <4>1. pc[c] # "idle" /\ Req(c).op = "reserve"
        BY <3>1 DEF ReserveTx, InTx
      <4>2. key[c] \in Keys
        BY <4>1, RequestTypes
      <4> QED BY <4>1, <4>2 DEF NoHolds, Req
    <3> QED BY <3>1
  <2>2. ASSUME NEW c \in Callers, BurnTx(c) PROVE Silent'
    <3>1. burnt \in [ledgered : Nat, silent : Nat, paid : Nat]
      BY DEF IInv, TypeOK, StoreTypes
    <3> QED BY <2>2, <3>1 DEF BurnTx
  <2>3. ASSUME NEW c \in Callers, Step(c), ~BurnTx(c) PROVE burnt' = burnt
    BY <2>1, <2>3
       DEF Step, Transaction, Zero, CreditTx, DeductTx, ReleaseTx, CaptureTx, ExpireRead, BurnFetch,
           BurnRefused, ReadWallet, Fetch, DeductRefused, ReserveRaises, ReserveRefused,
           ReleaseRefused, CaptureRefused, Refuse
  <2>4. ASSUME NEW c \in Callers, (\E k \in Keys : Invoke(c, k)) \/ Crash(c) PROVE burnt' = burnt
    BY <2>4 DEF Invoke, Crash
  <2>5. CASE Tick \/ UNCHANGED vars
    BY <2>5 DEF Tick, vars
  <2> QED BY <2>2, <2>3, <2>4, <2>5 DEF Next
<1>3. IInv /\ Silent => Reconciles
  <2> SUFFICES ASSUME IInv, Silent PROVE net["wallet"] = wallet.cur
    BY DEF Reconciles, VisibleWallet
  <2>1. net["wallet"] = wallet.cur + burnt.silent
    BY DEF IInv, LedgerMatchesWallet, Explains
  <2>2. wallet.cur \in Nat
    BY DEF IInv, TypeOK, StoreTypes, Row
  <2> QED BY <2>1, <2>2
<1> QED BY <1>1, <1>2, <1>3, Invariant, PTL DEF Spec

-----------------------------------------------------------------------------
(* Promotional credits, where one call follows another.                    *)

OneCaller == \A c, d \in Callers : c = d

\* What a caller is about to burn it read from the row as it is.
AsRead == \A c \in Callers : pc[c] \in {"burnFetch", "burn"} => seen[c] = wallet

\* Nobody reads the future.
InTime == \A c \in Callers : at[c] <= clock

LEMMA StepAsRead ==
  ASSUME OneCaller, IInv, AsRead, [Next]_vars
  PROVE  AsRead'
<1> SUFFICES ASSUME NEW c \in Callers, pc'[c] \in {"burnFetch", "burn"}
             PROVE  seen'[c] = wallet'
  BY DEF AsRead
<1>0. /\ pc \in [Callers -> Labels] /\ seen \in [Callers -> Row]
  BY DEF IInv, TypeOK, CallerTypes
<1>1. ASSUME UNCHANGED <<wallet, pc, seen>> PROVE seen'[c] = wallet'
  BY <1>1 DEF AsRead
<1>2. CASE Tick \/ UNCHANGED vars
  BY <1>1, <1>2 DEF Tick, vars, locals
<1>3. ASSUME NEW d \in Callers, (\E k \in Keys : Invoke(d, k)) \/ Step(d) \/ Crash(d)
      PROVE  seen'[c] = wallet'
  <2>1. d = c
    BY DEF OneCaller
  <2>2. ~(\E k \in Keys : Invoke(c, k)) /\ ~Crash(c)
    BY <1>0 DEF Invoke, Crash, Return
  <2>3. ASSUME NEW row, NEW legs, Commit(c, row, legs) PROVE FALSE
    BY <1>0, <2>3 DEF Commit, Return
  <2>4. ~CreditTx(c) /\ ~DeductTx(c) /\ ~ReserveTx(c) /\ ~ReleaseTx(c) /\ ~CaptureTx(c)
    BY <2>3 DEF CreditTx, DeductTx, ReserveTx, ReleaseTx, CaptureTx
  <2>5. ~(\E r : Refuse(c, r))
    BY <1>0 DEF Refuse, Return
  <2>6. ~DeductRefused(c) /\ ~ReserveRaises(c) /\ ~ReserveRefused(c) /\ ~ReleaseRefused(c)
        /\ ~CaptureRefused(c)
    BY <2>5 DEF DeductRefused, ReserveRaises, ReserveRefused, ReleaseRefused, CaptureRefused
  <2>7. ~BurnRefused(c) /\ ~BurnTx(c) /\ ~Zero(c) /\ ~ReadWallet(c) /\ ~Fetch(c)
    BY <1>0 DEF BurnRefused, BurnTx, Zero, ReadWallet, Fetch, Goto, Return, AfterExpire
  <2>8. CASE ExpireRead(c)
    BY <1>0, <2>8 DEF ExpireRead
  <2>9. CASE BurnFetch(c)
    BY <2>9 DEF BurnFetch, Goto, AsRead
  <2> QED BY <1>3, <2>1, <2>2, <2>4, <2>6, <2>7, <2>8, <2>9 DEF Step, Transaction
<1> QED BY <1>2, <1>3 DEF Next

LEMMA StepInTime == ASSUME IInv, InTime, [Next]_vars PROVE InTime'
<1>0. /\ at \in [Callers -> Nat] /\ clock \in Nat
  BY DEF IInv, TypeOK, CallerTypes, StoreTypes
<1> SUFFICES ASSUME NEW c \in Callers PROVE at'[c] <= clock'
  BY DEF InTime
<1>1. at[c] <= clock /\ at[c] \in Nat /\ 0 <= clock
  BY <1>0 DEF InTime
<1>2. CASE Tick
  BY <1>0, <1>1, <1>2 DEF Tick, locals
<1>3. ASSUME NEW d \in Callers, (\E k \in Keys : Invoke(d, k)) \/ Step(d) \/ Crash(d)
      PROVE  clock' = clock /\ (at'[c] = at[c] \/ at'[c] = 0 \/ at'[c] = clock)
  <2>1. ASSUME NEW r, Return(d, r) PROVE at'[c] = at[c] \/ at'[c] = 0
    BY <1>0, <2>1 DEF Return
  <2>2. ASSUME NEW row, NEW legs, Commit(d, row, legs) PROVE at'[c] = at[c] \/ at'[c] = 0
    BY <2>1, <2>2 DEF Commit
  <2>3. CASE CreditTx(d) \/ DeductTx(d) \/ ReserveTx(d) \/ ReleaseTx(d) \/ CaptureTx(d)
    BY <2>2, <2>3 DEF CreditTx, DeductTx, ReserveTx, ReleaseTx, CaptureTx
  <2>4. CASE DeductRefused(d) \/ ReserveRaises(d) \/ ReserveRefused(d) \/ ReleaseRefused(d)
             \/ CaptureRefused(d) \/ Crash(d)
    BY <2>1, <2>4 DEF DeductRefused, ReserveRaises, ReserveRefused, ReleaseRefused,
                      CaptureRefused, Refuse, Crash
  <2>5. CASE BurnFetch(d) \/ BurnRefused(d) \/ BurnTx(d) \/ Zero(d) \/ ReadWallet(d)
    BY <2>5 DEF BurnFetch, BurnRefused, BurnTx, Zero, ReadWallet, Goto
  <2>6. CASE ExpireRead(d) \/ \E k \in Keys : Invoke(d, k)
    BY <1>0, <2>6 DEF ExpireRead, Invoke
  <2>7. CASE Fetch(d)
    BY <1>0, <2>1, <2>7 DEF Fetch
  <2> QED BY <1>3, <2>3, <2>4, <2>5, <2>6, <2>7 DEF Step, Transaction
<1>4. CASE UNCHANGED vars
  BY <1>1, <1>4 DEF vars, locals
<1> QED BY <1>0, <1>1, <1>2, <1>3, <1>4 DEF Next

\* What is burned of a row as it is was promotional.
LEMMA BurnOfTheRow ==
  ASSUME IInv, AsRead, NEW c \in Callers, BurnTx(c)
  PROVE  /\ SweptAmount(wallet, at[c]) \in Nat /\ SweptAmount(wallet, at[c]) <= wallet.promo
         /\ Deducted(wallet, SweptAmount(wallet, at[c])).promo
              = wallet.promo - SweptAmount(wallet, at[c])
         /\ \/ UNCHANGED <<wallet, burnt>>
            \/ /\ wallet' = Deducted(wallet, SweptAmount(wallet, at[c]))
               /\ burnt'.ledgered = burnt.ledgered + SweptAmount(wallet, at[c])
               /\ burnt'.paid = burnt.paid /\ burnt'.silent = burnt.silent
<1> DEFINE x == SweptAmount(wallet, at[c])
<1>1. seen[c] = wallet
  BY DEF AsRead, BurnTx
<1>2. wallet \in Row /\ at[c] \in Nat /\ wallet.promo \in Nat /\ wallet.cur \in Nat
  BY DEF IInv, TypeOK, StoreTypes, CallerTypes, Row
<1>3. x \in Nat /\ x <= wallet.promo
  BY <1>2 DEF SweptAmount, Least
<1>4. Least(wallet.promo, x) = x
  BY <1>2, <1>3 DEF Least
<1>5. Deducted(wallet, x).promo = wallet.promo - Least(wallet.promo, x)
  BY DEF Deducted, WalletRow
<1>6. \/ UNCHANGED <<wallet, expired, net, burnt>>
      \/ /\ wallet' = Deducted(wallet, x)
         /\ burnt' = [burnt EXCEPT !.ledgered = @ + x,
                                   !.paid = @ + x - Least(wallet.promo, x)]
  BY <1>1 DEF BurnTx
<1>7. burnt \in [ledgered : Nat, silent : Nat, paid : Nat] /\ burnt.paid \in Nat
  BY DEF IInv, TypeOK, StoreTypes
<1> HIDE DEF x
<1>8. burnt.paid + x - x = burnt.paid
  BY <1>3, <1>7
<1>9. CASE /\ wallet' = Deducted(wallet, x)
           /\ burnt' = [burnt EXCEPT !.ledgered = @ + x,
                                     !.paid = @ + x - Least(wallet.promo, x)]
  <2>1. burnt' = [burnt EXCEPT !.ledgered = burnt.ledgered + x, !.paid = burnt.paid]
    BY <1>4, <1>8, <1>9
  <2>2. burnt'.ledgered = burnt.ledgered + x /\ burnt'.paid = burnt.paid
        /\ burnt'.silent = burnt.silent
    BY <1>7, <2>1
  <2> QED BY <1>3, <1>4, <1>5, <1>9, <2>2 DEF x
<1>10. CASE UNCHANGED <<wallet, expired, net, burnt>>
  BY <1>3, <1>4, <1>5, <1>10 DEF x
<1> QED BY <1>6, <1>9, <1>10

\* One call after another, expiry takes promotional credits and no others,
\* for any grants and amounts, crashes and retries included.
THEOREM ExpiryTakesNoPaidCredits == OneCaller => (Spec => []PaidCreditsSurvive)
<1> SUFFICES ASSUME OneCaller PROVE Spec => []PaidCreditsSurvive
  OBVIOUS
<1>1. Init => AsRead /\ PaidCreditsSurvive
  BY DEF Init, AsRead, PaidCreditsSurvive
<1>2. IInv /\ AsRead /\ [Next]_vars => AsRead'
  BY StepAsRead
<1>3. IInv /\ AsRead /\ PaidCreditsSurvive /\ [Next]_vars => PaidCreditsSurvive'
  <2> SUFFICES ASSUME IInv, AsRead, PaidCreditsSurvive, [Next]_vars
               PROVE  burnt'.paid = burnt.paid
    BY DEF PaidCreditsSurvive
  <2>1. ASSUME NEW c \in Callers, BurnTx(c) PROVE burnt'.paid = burnt.paid
    BY <2>1, BurnOfTheRow
  <2>2. ASSUME NEW c \in Callers, ReserveTx(c) PROVE burnt'.paid = burnt.paid
    <3>1. burnt \in [ledgered : Nat, silent : Nat, paid : Nat]
      BY DEF IInv, TypeOK, StoreTypes
    <3> QED BY <2>2, <3>1 DEF ReserveTx
  <2>3. ASSUME NEW c \in Callers, Step(c), ~BurnTx(c), ~ReserveTx(c) PROVE burnt' = burnt
    BY <2>3
       DEF Step, Transaction, Zero, CreditTx, DeductTx, ReleaseTx, CaptureTx, ExpireRead, BurnFetch,
           BurnRefused, ReadWallet, Fetch, DeductRefused, ReserveRaises, ReserveRefused,
           ReleaseRefused, CaptureRefused, Refuse
  <2>4. ASSUME NEW c \in Callers, (\E k \in Keys : Invoke(c, k)) \/ Crash(c) PROVE burnt' = burnt
    BY <2>4 DEF Invoke, Crash
  <2>5. CASE Tick \/ UNCHANGED vars
    BY <2>5 DEF Tick, vars
  <2> QED BY <2>1, <2>2, <2>3, <2>4, <2>5 DEF Next
<1> QED BY <1>1, <1>2, <1>3, Invariant, PTL DEF Spec

-----------------------------------------------------------------------------
(* Grants.                                                                 *)

Promotional(k) == Call[k].op = "credit" /\ Call[k].exp > 0

OneExpiry == \A j, k \in Keys : Promotional(j) /\ Promotional(k) => Call[j].exp = Call[k].exp

Granted == {k \in posted : Promotional(k)}

Taken == burnt.ledgered + burnt.silent

\* What was burned and what is left were granted; the row's expiry is a
\* grant's, and nothing is burned before one is over.
Backed ==
  /\ Taken + wallet.promo <= Amount(Granted)
  /\ wallet.exp # 0 => \E k \in Granted : Call[k].exp = wallet.exp
  /\ Taken > 0 => \E k \in Granted : Call[k].exp <= clock

GrantInv == IInv /\ IsFiniteSet(posted) /\ AsRead /\ InTime /\ Backed

LEMMA GrantTypes ==
  ASSUME IInv, IsFiniteSet(posted)
  PROVE  /\ Granted \in SUBSET Keys /\ IsFiniteSet(Granted) /\ Amount(Granted) \in Nat
         /\ wallet.promo \in Nat /\ wallet.exp \in Nat /\ Taken \in Nat
         /\ burnt.ledgered \in Nat /\ burnt.silent \in Nat /\ clock \in Nat
<1>1. posted \in SUBSET Keys /\ Granted \in SUBSET posted
  BY DEF IInv, TypeOK, StoreTypes, Granted
<1>2. IsFiniteSet(Granted)
  BY <1>1, FS_Subset
<1>3. Amount(Granted) \in Nat
  BY <1>1, <1>2, AmountIsNat
<1>4. /\ wallet.promo \in Nat /\ wallet.exp \in Nat /\ clock \in Nat
      /\ burnt.ledgered \in Nat /\ burnt.silent \in Nat
  BY DEF IInv, TypeOK, StoreTypes, Row
<1> QED BY <1>1, <1>2, <1>3, <1>4 DEF Taken

\* A step that grants nothing, and burns only what has expired.
LEMMA NothingGranted ==
  ASSUME GrantInv, IInv', clock' = clock \/ clock' = clock + 1,
         posted' = posted \/ (\E k \in Keys : ~Promotional(k) /\ posted' = posted \cup {k}),
         wallet'.exp \in {0, wallet.exp},
         NEW x \in Nat, Taken' = Taken + x, wallet'.promo <= wallet.promo - x,
         x > 0 => wallet.exp # 0 /\ wallet.exp <= clock
  PROVE  Backed' /\ IsFiniteSet(posted')
<1>1. Granted' = Granted /\ IsFiniteSet(posted')
  BY FS_AddElement DEF Granted, GrantInv
<1>2. /\ Granted \in SUBSET Keys /\ Amount(Granted) \in Nat
      /\ wallet.promo \in Nat /\ wallet.exp \in Nat /\ Taken \in Nat /\ clock \in Nat
  BY GrantTypes DEF GrantInv
<1>3. wallet'.promo \in Nat
  BY DEF IInv, TypeOK, StoreTypes, Row
<1>4. Taken + wallet.promo <= Amount(Granted)
  BY DEF GrantInv, Backed
<1>5. Taken' + wallet'.promo <= Amount(Granted)
  BY <1>2, <1>3, <1>4
<1>6. wallet'.exp # 0 => \E k \in Granted : Call[k].exp = wallet'.exp
  BY DEF GrantInv, Backed
<1>7. \A k \in Granted : Call[k].exp \in Nat
  BY <1>2, CallAssumption DEF Account!Request
<1>8. Taken' > 0 => \E k \in Granted : Call[k].exp <= clock'
  <2>1. CASE x > 0
    <3>1. PICK k \in Granted : Call[k].exp = wallet.exp
      BY <2>1 DEF GrantInv, Backed
    <3>2. Call[k].exp <= clock'
      BY <1>2, <2>1, <3>1
    <3> QED BY <3>2
  <2>2. CASE x = 0
    <3>1. Taken' > 0 => Taken > 0
      BY <1>2, <2>2
    <3>2. Taken > 0 => \E k \in Granted : Call[k].exp <= clock
      BY DEF GrantInv, Backed
    <3>3. \A k \in Granted : Call[k].exp <= clock => Call[k].exp <= clock'
      BY <1>2, <1>7
    <3> QED BY <3>1, <3>2, <3>3
  <2> QED BY <2>1, <2>2
<1> QED BY <1>1, <1>5, <1>6, <1>8 DEF Backed

\* What SweptAmount takes of the row has expired.
LEMMA SweptIsOver ==
  ASSUME NEW w \in Row, NEW t \in Nat, NEW now \in Nat, t <= now
  PROVE  /\ SweptAmount(w, t) \in Nat /\ SweptAmount(w, t) <= w.promo
         /\ SweptAmount(w, t) > 0 => w.exp # 0 /\ w.exp <= now
         /\ Swept(w, t).exp \in {0, w.exp}
         /\ Swept(w, t).promo \in Nat /\ Swept(w, t).promo <= w.promo - SweptAmount(w, t)
<1>1. w.promo \in Nat /\ w.cur \in Nat /\ w.exp \in Nat
  BY DEF Row
<1>2. SweptAmount(w, t) \in Nat /\ SweptAmount(w, t) <= w.promo
  BY <1>1 DEF SweptAmount, Least
<1>3. SweptAmount(w, t) > 0 => w.exp # 0 /\ w.exp <= now
  BY <1>1 DEF SweptAmount, PromoExpired
<1>4. CASE SweptAmount(w, t) > 0
  BY <1>1, <1>2, <1>3, <1>4 DEF Swept, WalletRow
<1>5. CASE ~(SweptAmount(w, t) > 0)
  <2>1. SweptAmount(w, t) = 0 /\ Swept(w, t) = w
    BY <1>2, <1>5 DEF Swept
  <2> QED BY <1>1, <1>2, <2>1
<1> QED BY <1>4, <1>5

LEMMA CommitCases ==
  ASSUME IInv, NEW c \in Callers, pc[c] # "idle", NEW row, NEW legs, Commit(c, row, legs)
  PROVE  \/ key[c] \in posted /\ UNCHANGED <<wallet, posted>>
         \/ key[c] \in Keys \ posted /\ posted' = posted \cup {key[c]} /\ wallet' = row
BY CommitTypes DEF IInv

LEMMA CreditGrants ==
  ASSUME GrantInv, IInv', NEW c \in Callers, CreditTx(c)
  PROVE  Backed' /\ IsFiniteSet(posted')
<1> DEFINE r == Req(c)
           k == key[c]
<1>1. /\ pc[c] # "idle" /\ r.op = "credit" /\ UNCHANGED <<expired, clock, burnt>>
      /\ Commit(c, Credited(wallet, r), Post(net, "treasury", "wallet", r.amt))
  BY DEF CreditTx, InTx
<1>2. /\ r.amt \in Nat /\ r.exp \in Nat /\ k \in Keys /\ Call[k] = r
      /\ wallet.promo \in Nat /\ wallet.exp \in Nat
  <2>1. k \in Keys /\ r \in Account!Request
    BY <1>1, RequestTypes DEF GrantInv
  <2> QED BY <2>1, GrantTypes DEF GrantInv, Account!Request, Req
<1>3. \/ k \in posted /\ UNCHANGED <<wallet, posted>>
      \/ k \in Keys \ posted /\ posted' = posted \cup {k} /\ wallet' = Credited(wallet, r)
  BY <1>1, CommitCases DEF GrantInv
<1>4. Taken' = Taken + 0 /\ Taken \in Nat
  <2>1. Taken \in Nat /\ Taken' = Taken
    BY <1>1, GrantTypes DEF GrantInv, Taken
  <2> QED BY <2>1
<1>5. CASE UNCHANGED <<wallet, posted>>
  <2>1. wallet'.promo <= wallet.promo - 0 /\ wallet'.exp \in {0, wallet.exp}
    BY <1>2, <1>5
  <2> HIDE DEF r, k
  <2> QED BY <1>1, <1>4, <1>5, <2>1, NothingGranted
<1>6. CASE k \in Keys \ posted /\ posted' = posted \cup {k} /\ wallet' = Credited(wallet, r)
           /\ r.exp = 0
  <2>1. wallet'.promo = wallet.promo /\ wallet'.exp = wallet.exp
    BY <1>6 DEF Credited, WalletRow
  <2>2. wallet'.promo <= wallet.promo - 0 /\ wallet'.exp \in {0, wallet.exp}
    BY <1>2, <2>1
  <2>3. \E j \in Keys : ~Promotional(j) /\ posted' = posted \cup {j}
    BY <1>2, <1>6 DEF Promotional
  <2>4. clock' = clock
    BY <1>1
  <2> QED BY <1>4, <2>2, <2>3, <2>4, NothingGranted
<1>7. CASE k \in Keys \ posted /\ posted' = posted \cup {k} /\ wallet' = Credited(wallet, r)
           /\ r.exp > 0
  <2>1. /\ wallet'.promo = wallet.promo + r.amt
        /\ wallet'.exp \in {wallet.exp, r.exp} /\ (wallet'.exp = wallet.exp => wallet.exp # 0)
    BY <1>2, <1>7 DEF Credited, WalletRow, EarliestExpiry, Least
  <2>2. Promotional(k)
    BY <1>1, <1>2, <1>7 DEF Promotional
  <2>3. Granted' = Granted \cup {k} /\ k \in Keys \ Granted
    BY <1>7, <2>2 DEF Granted
  <2>4. /\ Granted \in SUBSET Keys /\ IsFiniteSet(Granted) /\ Amount(Granted) \in Nat
    BY GrantTypes DEF GrantInv
  <2>5. Amount(Granted') = Amount(Granted) + r.amt
    <3>1. Amount(Granted \cup {k}) = Amount(Granted) + Call[k].amt
      BY <2>3, <2>4, AmountWith
    <3> QED BY <1>2, <2>3, <3>1
  <2>6. Taken' + wallet'.promo <= Amount(Granted')
    <3>1. Taken + wallet.promo <= Amount(Granted)
      BY DEF GrantInv, Backed
    <3> HIDE DEF r, k
    <3> QED BY <1>2, <1>4, <2>1, <2>4, <2>5, <3>1
  <2>7. wallet'.exp # 0 => \E j \in Granted' : Call[j].exp = wallet'.exp
    BY <1>2, <2>1, <2>3 DEF GrantInv, Backed
  <2>8. Taken' > 0 => \E j \in Granted' : Call[j].exp <= clock'
    BY <1>1, <1>4, <2>3 DEF GrantInv, Backed
  <2>9. IsFiniteSet(posted')
    BY <1>7, FS_AddElement DEF GrantInv
  <2> QED BY <2>6, <2>7, <2>8, <2>9 DEF Backed
<1> QED BY <1>2, <1>3, <1>5, <1>6, <1>7

LEMMA OthersGrantNothing ==
  ASSUME GrantInv, IInv', NEW c \in Callers, DeductTx(c) \/ ReleaseTx(c) \/ CaptureTx(c)
  PROVE  Backed' /\ IsFiniteSet(posted')
<1>1. /\ pc[c] # "idle" /\ Req(c).op # "credit" /\ UNCHANGED <<clock, burnt>>
  BY DEF DeductTx, ReleaseTx, CaptureTx, InTx
<1>2. PICK row : /\ \E legs : Commit(c, row, legs)
                 /\ row.exp = wallet.exp
                 /\ row.promo \in {wallet.promo, wallet.promo - Least(wallet.promo, Req(c).amt)}
  BY DEF DeductTx, ReleaseTx, CaptureTx, Deducted, Released, Captured, WalletRow
<1>3. key[c] \in Keys /\ Req(c).amt \in Nat /\ ~Promotional(key[c])
  BY <1>1, RequestTypes DEF GrantInv, Promotional, Req
<1>4. wallet.promo \in Nat /\ Taken \in Nat
  BY GrantTypes DEF GrantInv
<1>5. Taken' = Taken + 0
  BY <1>1, <1>4 DEF Taken
<1>6. /\ posted' = posted \/ posted' = posted \cup {key[c]}
      /\ wallet' = wallet \/ wallet' = row
  BY <1>1, <1>2, CommitCases DEF GrantInv
<1>7. row.promo <= wallet.promo - 0 /\ wallet.promo <= wallet.promo - 0
  BY <1>2, <1>3, <1>4 DEF Least
<1>8. wallet'.promo <= wallet.promo - 0 /\ wallet'.exp \in {0, wallet.exp}
  BY <1>2, <1>6, <1>7
<1> QED BY <1>1, <1>3, <1>5, <1>6, <1>8, NothingGranted

LEMMA ReserveGrantsNothing ==
  ASSUME GrantInv, IInv', NEW c \in Callers, ReserveTx(c)
  PROVE  Backed' /\ IsFiniteSet(posted')
<1> DEFINE swept == Swept(wallet, at[c])
           x == SweptAmount(wallet, at[c])
           row == Reserved(swept, Req(c).amt)
           legs == Post(net, "hold", "holds", Req(c).amt)
<1>1. /\ pc[c] # "idle" /\ Req(c).op = "reserve" /\ Commit(c, row, legs) /\ clock' = clock
      /\ burnt' = IF key[c] \in posted THEN burnt ELSE [burnt EXCEPT !.silent = @ + x]
  BY DEF ReserveTx, InTx
<1>2. key[c] \in Keys /\ ~Promotional(key[c])
  BY <1>1, RequestTypes DEF GrantInv, Promotional, Req
<1>3. /\ wallet \in Row /\ at[c] \in Nat /\ clock \in Nat /\ at[c] <= clock
  BY DEF GrantInv, IInv, TypeOK, StoreTypes, CallerTypes, InTime
<1>4. /\ x \in Nat /\ x <= wallet.promo
      /\ x > 0 => wallet.exp # 0 /\ wallet.exp <= clock
      /\ swept.exp \in {0, wallet.exp} /\ swept.promo <= wallet.promo - x
  BY <1>3, SweptIsOver
<1>5. row.exp = swept.exp /\ row.promo = swept.promo
  BY DEF Reserved, WalletRow
<1> HIDE DEF swept, x, row, legs
<1>6. \/ key[c] \in posted /\ UNCHANGED <<wallet, posted>>
      \/ key[c] \in Keys \ posted /\ posted' = posted \cup {key[c]} /\ wallet' = row
  BY <1>1, CommitCases DEF GrantInv
<1>7. /\ burnt \in [ledgered : Nat, silent : Nat, paid : Nat]
      /\ burnt.ledgered \in Nat /\ burnt.silent \in Nat /\ wallet.promo \in Nat /\ Taken \in Nat
  BY GrantTypes DEF GrantInv, IInv, TypeOK, StoreTypes
<1>8. CASE key[c] \in posted /\ UNCHANGED <<wallet, posted>>
  <2>1. Taken' = Taken + 0 /\ wallet'.promo <= wallet.promo - 0 /\ wallet'.exp = wallet.exp
    BY <1>1, <1>7, <1>8 DEF Taken
  <2> QED BY <1>1, <1>8, <2>1, NothingGranted
<1>9. CASE key[c] \in Keys \ posted /\ posted' = posted \cup {key[c]} /\ wallet' = row
  <2>1. burnt'.ledgered = burnt.ledgered /\ burnt'.silent = burnt.silent + x
    BY <1>1, <1>7, <1>9
  <2>2. Taken' = Taken + x
    BY <1>4, <1>7, <2>1 DEF Taken
  <2> QED BY <1>1, <1>2, <1>4, <1>5, <1>9, <2>2, NothingGranted
<1> QED BY <1>6, <1>8, <1>9

LEMMA BurnGrantsNothing ==
  ASSUME GrantInv, IInv', NEW c \in Callers, BurnTx(c)
  PROVE  Backed' /\ IsFiniteSet(posted')
<1> DEFINE x == SweptAmount(wallet, at[c])
<1>1. /\ wallet \in Row /\ at[c] \in Nat /\ clock \in Nat /\ at[c] <= clock
  BY DEF GrantInv, IInv, TypeOK, StoreTypes, CallerTypes, InTime
<1>2. x > 0 => wallet.exp # 0 /\ wallet.exp <= clock
  BY <1>1, SweptIsOver
<1>3. /\ x \in Nat /\ x <= wallet.promo
      /\ Deducted(wallet, x).promo = wallet.promo - x
      /\ \/ UNCHANGED <<wallet, burnt>>
         \/ /\ wallet' = Deducted(wallet, x)
            /\ burnt'.ledgered = burnt.ledgered + x
            /\ burnt'.paid = burnt.paid /\ burnt'.silent = burnt.silent
  BY BurnOfTheRow DEF GrantInv
<1>4. Deducted(wallet, x).exp = wallet.exp
  BY DEF Deducted, WalletRow
<1> HIDE DEF x
<1>5. posted' = posted /\ clock' = clock
  BY DEF BurnTx
<1>6. burnt.ledgered \in Nat /\ burnt.silent \in Nat /\ wallet.promo \in Nat /\ Taken \in Nat
  BY GrantTypes DEF GrantInv
<1>7. CASE UNCHANGED <<wallet, burnt>>
  <2>1. Taken' = Taken + 0 /\ wallet'.promo <= wallet.promo - 0 /\ wallet'.exp = wallet.exp
    BY <1>6, <1>7 DEF Taken
  <2> QED BY <1>5, <2>1, NothingGranted
<1>8. CASE /\ wallet' = Deducted(wallet, x)
           /\ burnt'.ledgered = burnt.ledgered + x /\ burnt'.silent = burnt.silent
  <2>1. Taken' = Taken + x
    BY <1>3, <1>6, <1>8 DEF Taken
  <2>2. wallet'.promo <= wallet.promo - x /\ wallet'.exp = wallet.exp
    BY <1>3, <1>4, <1>6, <1>8
  <2> QED BY <1>2, <1>3, <1>5, <2>1, <2>2, NothingGranted
<1> QED BY <1>3, <1>7, <1>8

LEMMA NextGrants == ASSUME OneCaller, GrantInv, [Next]_vars PROVE GrantInv'
<1>0. IInv' /\ AsRead' /\ InTime'
  BY NextIInv, StepAsRead, StepInTime DEF GrantInv
<1>1. wallet.promo \in Nat /\ Taken \in Nat
  BY GrantTypes DEF GrantInv
<1>2. ASSUME posted' = posted, burnt' = burnt, clock' = clock \/ clock' = clock + 1,
             wallet'.exp \in {0, wallet.exp}, wallet'.promo \in {0, wallet.promo}
      PROVE  Backed' /\ IsFiniteSet(posted')
  <2>1. Taken' = Taken + 0 /\ wallet'.promo <= wallet.promo - 0
    BY <1>1, <1>2 DEF Taken
  <2> QED BY <1>0, <1>2, <2>1, NothingGranted
<1>3. ASSUME NEW c \in Callers, Transaction(c) PROVE Backed' /\ IsFiniteSet(posted')
  <2>1. CASE Zero(c)
    BY <1>2, <2>1 DEF Zero, WalletRow
  <2> QED BY <1>0, <1>3, <2>1, CreditGrants, OthersGrantNothing, ReserveGrantsNothing,
             BurnGrantsNothing DEF Transaction
<1>4. ASSUME NEW c \in Callers, Step(c), ~Transaction(c) PROVE Backed' /\ IsFiniteSet(posted')
  <2>1. UNCHANGED <<wallet, posted, burnt, clock>>
    BY <1>4 DEF Step, ExpireRead, BurnFetch, BurnRefused, ReadWallet, Fetch, DeductRefused,
                ReserveRaises, ReserveRefused, ReleaseRefused, CaptureRefused, Refuse
  <2> QED BY <1>2, <2>1
<1>5. ASSUME NEW c \in Callers, (\E k \in Keys : Invoke(c, k)) \/ Crash(c)
      PROVE  Backed' /\ IsFiniteSet(posted')
  BY <1>2, <1>5 DEF Invoke, Crash
<1>6. ASSUME Tick \/ UNCHANGED vars PROVE Backed' /\ IsFiniteSet(posted')
  <2>1. posted' = posted /\ burnt' = burnt /\ wallet' = wallet
    BY <1>6 DEF Tick, vars
  <2>2. clock' = clock \/ clock' = clock + 1
    BY <1>6 DEF Tick, vars
  <2> QED BY <1>2, <2>1, <2>2
<1>7. Backed' /\ IsFiniteSet(posted')
  BY <1>3, <1>4, <1>5, <1>6 DEF Next
<1> QED BY <1>0, <1>7 DEF GrantInv

\* One call after another, and with one expiry, what expiry has taken is
\* covered by the grants that are over, for any amounts, reservations,
\* crashes and retries.
THEOREM GrantsLast == OneCaller /\ OneExpiry => (Spec => []GrantsLastTheirTtl)
<1> SUFFICES ASSUME OneCaller, OneExpiry PROVE Spec => []GrantsLastTheirTtl
  OBVIOUS
<1>1. Init => GrantInv
  <2> SUFFICES ASSUME Init PROVE GrantInv
    OBVIOUS
  <2>1. IInv
    BY InitIInv
  <2>2. IsFiniteSet(posted) /\ Granted = {} /\ Taken = 0 /\ wallet.promo = 0 /\ wallet.exp = 0
    BY FS_EmptySet DEF Init, Granted, Taken, EmptyRow, WalletRow
  <2>3. Amount({}) = 0
    BY FS_EmptySet, AmountOfAny
  <2>4. AsRead /\ InTime
    BY DEF Init, AsRead, InTime
  <2>5. Backed
    BY <2>2, <2>3 DEF Backed
  <2> QED BY <2>1, <2>2, <2>4, <2>5 DEF GrantInv
<1>2. GrantInv => GrantsLastTheirTtl
  <2> SUFFICES ASSUME GrantInv PROVE GrantsLastTheirTtl
    OBVIOUS
  <2> DEFINE over == {k \in PostedAs("credit") : Call[k].exp \in 1..clock}
  <2>1. /\ Granted \in SUBSET Keys /\ IsFiniteSet(Granted) /\ Amount(Granted) \in Nat
        /\ wallet.promo \in Nat /\ Taken \in Nat /\ clock \in Nat
    BY GrantTypes DEF GrantInv
  <2>2. \A k \in Granted : Call[k].exp \in Nat /\ Call[k].exp > 0
    BY <2>1, CallAssumption DEF Account!Request, Granted, Promotional
  <2>3. over \in SUBSET Granted
    BY <2>1 DEF Granted, Promotional, PostedAs, GrantInv, IInv, TypeOK, StoreTypes
  <2>4. Amount(over) \in Nat
    BY <2>1, <2>3, FS_Subset, AmountIsNat
  <2>5. CASE Taken = 0
    BY <2>4, <2>5 DEF GrantsLastTheirTtl, Taken
  <2>6. CASE Taken > 0
    <3>1. PICK j \in Granted : Call[j].exp <= clock
      BY <2>6 DEF GrantInv, Backed
    <3>2. ASSUME NEW k \in Granted PROVE k \in over
      <4>1. Call[k].exp = Call[j].exp
        BY <2>1 DEF OneExpiry, Granted
      <4>2. Call[k].exp \in 1..clock
        BY <2>1, <2>2, <3>1, <4>1
      <4> QED BY <4>2 DEF Granted, Promotional, PostedAs
    <3>3. over = Granted
      BY <2>3, <3>2
    <3>4. Taken + wallet.promo <= Amount(Granted)
      BY DEF GrantInv, Backed
    <3>5. Taken <= Amount(over)
      <4>1. Taken <= Amount(Granted)
        BY <2>1, <3>4
      <4> QED BY <3>3, <4>1
    <3> QED BY <3>5 DEF GrantsLastTheirTtl, Taken
  <2> QED BY <2>1, <2>5, <2>6
<1> QED BY <1>1, <1>2, NextGrants, PTL DEF Spec
-----------------------------------------------------------------------------
(* What is shown and answered, without captures, holds or races.           *)

NoCaptures == \A k \in Keys : Call[k].op # "capture"

LEMMA AllowedOps ==
  ASSUME IInv, NEW c \in Callers
  PROVE  /\ NoCaptures => ~CaptureTx(c)
         /\ NoHolds => ~ReserveTx(c)
<1>1. pc[c] # "idle" => key[c] \in Keys
  BY RequestTypes
<1> QED BY <1>1 DEF CaptureTx, ReserveTx, InTx, Req, NoCaptures, NoHolds

\* The row operators keep the promotional credits within the balance.
LEMMA PromoOfRow ==
  ASSUME NEW w \in Row, w.promo <= w.cur
  PROVE  /\ \A r \in Account!Request : Credited(w, r).promo <= Credited(w, r).cur
         /\ \A x \in Nat : x <= w.cur => Deducted(w, x).promo <= Deducted(w, x).cur
         /\ \A x, t \in Nat : Reserved(Swept(w, t), x).promo <= Reserved(Swept(w, t), x).cur
         /\ \A x \in Nat : Released(w, x).promo <= Released(w, x).cur
<1>1. ASSUME NEW r \in Account!Request PROVE Credited(w, r).promo <= Credited(w, r).cur
  BY DEF Account!Request, Credited, WalletRow, Row
<1>2. ASSUME NEW x \in Nat, x <= w.cur PROVE Deducted(w, x).promo <= Deducted(w, x).cur
  BY <1>2 DEF Deducted, WalletRow, Row, Least
<1>3. ASSUME NEW x \in Nat, NEW t \in Nat
      PROVE  Reserved(Swept(w, t), x).promo <= Reserved(Swept(w, t), x).cur
  BY DEF Reserved, Swept, SweptAmount, WalletRow, Row, Least
<1>4. ASSUME NEW x \in Nat PROVE Released(w, x).promo <= Released(w, x).cur
  BY DEF Released, WalletRow, Row
<1> QED BY <1>1, <1>2, <1>3, <1>4

\* A step that captures nothing keeps them so.
LEMMA StepPromo ==
  ASSUME IInv, PromoWithinBalance, [Next]_vars, \A c \in Callers : ~CaptureTx(c)
  PROVE  PromoWithinBalance'
<1>0. wallet \in Row /\ wallet.promo <= wallet.cur
  BY DEF IInv, TypeOK, StoreTypes, PromoWithinBalance
<1>1. ASSUME wallet' = wallet PROVE PromoWithinBalance'
  BY <1>1 DEF PromoWithinBalance
<1>2. ASSUME NEW c \in Callers, NEW row, NEW legs, Commit(c, row, legs), row.promo <= row.cur
      PROVE  PromoWithinBalance'
  BY <1>1, <1>2 DEF Commit, PromoWithinBalance
<1>3. ASSUME NEW c \in Callers, CreditTx(c) \/ DeductTx(c) \/ ReserveTx(c) \/ ReleaseTx(c)
      PROVE  PromoWithinBalance'
  <2>1. /\ Req(c) \in Account!Request /\ Req(c).amt \in Nat /\ at[c] \in Nat
        /\ wallet.cur \in Nat /\ wallet.res \in Nat
    BY <1>3, RequestTypes DEF CreditTx, DeductTx, ReserveTx, ReleaseTx, InTx
  <2>2. CASE CreditTx(c)
    BY <1>0, <1>2, <2>1, <2>2, PromoOfRow DEF CreditTx
  <2>3. CASE DeductTx(c)
    <3>1. Req(c).amt <= wallet.cur
      BY <2>1, <2>3 DEF DeductTx, CanDeduct
    <3> QED BY <1>0, <1>2, <2>1, <2>3, <3>1, PromoOfRow DEF DeductTx
  <2>4. CASE ReserveTx(c)
    BY <1>0, <1>2, <2>1, <2>4, PromoOfRow DEF ReserveTx
  <2>5. CASE ReleaseTx(c)
    BY <1>0, <1>2, <2>1, <2>5, PromoOfRow DEF ReleaseTx
  <2> QED BY <1>3, <2>2, <2>3, <2>4, <2>5
<1>4. ASSUME NEW c \in Callers, BurnTx(c) PROVE PromoWithinBalance'
  <2>1. /\ at[c] \in Nat /\ seen[c] \in Row /\ wallet.cur \in Nat /\ wallet.res \in Nat
    BY <1>4, RequestTypes DEF BurnTx
  <2>2. SweptAmount(seen[c], at[c]) \in Nat
    BY <2>1, SweptRow
  <2>3. SweptAmount(seen[c], at[c]) <= wallet.cur
    BY <1>4, <2>1, <2>2 DEF BurnTx
  <2>4. \/ wallet' = wallet
        \/ wallet' = Deducted(wallet, SweptAmount(seen[c], at[c]))
    BY <1>4 DEF BurnTx
  <2> QED BY <1>0, <1>1, <2>2, <2>3, <2>4, PromoOfRow DEF PromoWithinBalance
<1>5. ASSUME NEW c \in Callers, Zero(c) PROVE PromoWithinBalance'
  <2>1. wallet' = wallet \/ wallet' = WalletRow(wallet.cur, wallet.res, 0, 0)
    BY <1>5 DEF Zero
  <2>2. wallet.cur \in Nat
    BY <1>0 DEF Row
  <2> QED BY <1>1, <2>1, <2>2 DEF PromoWithinBalance, WalletRow
<1>6. ASSUME NEW c \in Callers, Step(c), ~Transaction(c) PROVE wallet' = wallet
  BY <1>6 DEF Step, ExpireRead, BurnFetch, BurnRefused, ReadWallet, Fetch, DeductRefused,
              ReserveRaises, ReserveRefused, ReleaseRefused, CaptureRefused, Refuse
<1>7. ASSUME NEW c \in Callers, Crash(c) \/ \E k \in Keys : Invoke(c, k) PROVE wallet' = wallet
  BY <1>7 DEF Crash, Invoke
<1>8. CASE Tick \/ UNCHANGED vars
  BY <1>1, <1>8 DEF Tick, vars
<1> QED BY <1>1, <1>3, <1>4, <1>5, <1>6, <1>7, <1>8 DEF Next, Transaction

\* The promotional balance is a part of the balance ("subset of
\* current_balance", types.py:16) as long as no reservation is captured:
\* captured credits are not counted as promotional ones spent (PgOpen.cfg).
THEOREM PromoIsAPart == NoCaptures => (Spec => []PromoWithinBalance)
<1> SUFFICES ASSUME NoCaptures PROVE Spec => []PromoWithinBalance
  OBVIOUS
<1>1. Init => PromoWithinBalance
  BY DEF Init, PromoWithinBalance, EmptyRow, WalletRow
<1>2. IInv /\ PromoWithinBalance /\ [Next]_vars => PromoWithinBalance'
  BY StepPromo, AllowedOps
<1> QED BY <1>1, <1>2, Invariant, PTL DEF Spec

\* A call that goes on has no answer yet.
Unanswered == \A c \in Callers : pc[c] # "idle" => reply[c] = "none"

LEMMA StepUnanswered == ASSUME IInv, Unanswered, [Next]_vars PROVE Unanswered'
<1> SUFFICES ASSUME NEW c \in Callers, pc'[c] # "idle" PROVE reply'[c] = "none"
  BY DEF Unanswered
<1>0. /\ pc \in [Callers -> Labels] /\ reply \in [Callers -> Replies]
      /\ pc[c] # "idle" => reply[c] = "none"
  BY DEF IInv, TypeOK, CallerTypes, Unanswered
<1>1. ASSUME NEW d \in Callers, NEW r, Return(d, r) PROVE reply'[c] = "none"
  BY <1>0, <1>1 DEF Return
<1>2. ASSUME NEW d \in Callers, NEW l, pc[d] # "idle", Goto(d, l) PROVE reply'[c] = "none"
  BY <1>0, <1>2 DEF Goto
<1>3. ASSUME NEW d \in Callers, NEW k \in Keys, Invoke(d, k) PROVE reply'[c] = "none"
  BY <1>0, <1>3 DEF Invoke
<1>4. ASSUME NEW d \in Callers, ExpireRead(d) \/ ReadWallet(d) PROVE reply'[c] = "none"
  BY <1>0, <1>4 DEF ExpireRead, ReadWallet
<1>5. ASSUME NEW d \in Callers, BurnFetch(d) \/ BurnRefused(d) \/ BurnTx(d) \/ Zero(d)
      PROVE  reply'[c] = "none"
  <2>1. pc[d] # "idle" /\ \E l : Goto(d, l)
    BY <1>5 DEF BurnFetch, BurnRefused, BurnTx, Zero
  <2> QED BY <1>2, <2>1
<1>6. ASSUME NEW d \in Callers, Fetch(d) PROVE reply'[c] = "none"
  <2>1. CASE Return(d, "replay")
    BY <1>1, <2>1
  <2>2. CASE pc' = [pc EXCEPT ![d] = "tx"] /\ reply' = reply
    BY <1>0, <1>6, <2>2 DEF Fetch
  <2> QED BY <1>6, <2>1, <2>2 DEF Fetch
<1>7. ASSUME NEW d \in Callers, NEW row, NEW legs, Commit(d, row, legs) PROVE reply'[c] = "none"
  BY <1>1, <1>7 DEF Commit
<1>8. ASSUME NEW d \in Callers,
             CreditTx(d) \/ DeductTx(d) \/ ReserveTx(d) \/ ReleaseTx(d) \/ CaptureTx(d)
      PROVE  reply'[c] = "none"
  BY <1>7, <1>8 DEF CreditTx, DeductTx, ReserveTx, ReleaseTx, CaptureTx
<1>9. ASSUME NEW d \in Callers,
             \/ DeductRefused(d) \/ ReserveRaises(d) \/ ReserveRefused(d)
             \/ ReleaseRefused(d) \/ CaptureRefused(d) \/ Crash(d)
      PROVE  reply'[c] = "none"
  <2>1. \E r : Return(d, r)
    BY <1>9 DEF DeductRefused, ReserveRaises, ReserveRefused, ReleaseRefused, CaptureRefused,
                Refuse, Crash
  <2> QED BY <1>1, <2>1
<1>10. CASE Tick \/ UNCHANGED vars
  BY <1>0, <1>10 DEF Tick, vars, locals
<1> QED BY <1>3, <1>4, <1>5, <1>6, <1>8, <1>9, <1>10 DEF Next, Step, Transaction

\* One caller at a time is not refused for a key that is posted.
NoLateRefusal ==
  \A c \in Callers : pc[c] = "tx" \/ reply[c] = "insufficient" => key[c] \notin posted

LEMMA StepRefusal ==
  ASSUME OneCaller, IInv, Unanswered, NoLateRefusal, [Next]_vars
  PROVE  NoLateRefusal'
<1> SUFFICES ASSUME NEW c \in Callers, pc'[c] = "tx" \/ reply'[c] = "insufficient"
             PROVE  key'[c] \notin posted'
  BY DEF NoLateRefusal
<1>0. /\ pc \in [Callers -> Labels] /\ reply \in [Callers -> Replies]
      /\ pc[c] # "idle" => reply[c] = "none"
      /\ pc[c] = "tx" \/ reply[c] = "insufficient" => key[c] \notin posted
  BY DEF IInv, TypeOK, CallerTypes, Unanswered, NoLateRefusal
<1>1. ASSUME UNCHANGED <<pc, reply, key, posted>> PROVE key'[c] \notin posted'
  BY <1>0, <1>1
<1>2. CASE Tick \/ UNCHANGED vars
  BY <1>1, <1>2 DEF Tick, vars, locals
<1>3. ASSUME NEW r, Return(c, r), UNCHANGED posted, pc[c] = "tx" \/ r # "insufficient"
      PROVE  key'[c] \notin posted'
  BY <1>0, <1>3 DEF Return
<1>4. ASSUME NEW k \in Keys, Invoke(c, k) PROVE key'[c] \notin posted'
  BY <1>0, <1>4 DEF Invoke
<1>5. ASSUME ExpireRead(c) \/ ReadWallet(c) PROVE key'[c] \notin posted'
  BY <1>0, <1>5 DEF ExpireRead, ReadWallet, AfterExpire
<1>6. ASSUME BurnFetch(c) \/ BurnRefused(c) \/ BurnTx(c) \/ Zero(c) PROVE key'[c] \notin posted'
  <2>1. pc[c] # "idle" /\ \E l \in {"zero", "burn", "read", "fetch"} : Goto(c, l)
    BY <1>6 DEF BurnFetch, BurnRefused, BurnTx, Zero, AfterExpire
  <2> QED BY <1>0, <2>1 DEF Goto
<1>7. ASSUME Fetch(c) PROVE key'[c] \notin posted'
  <2>1. posted' = posted
    BY <1>7 DEF Fetch
  <2>2. CASE Return(c, "replay")
    BY <1>3, <2>1, <2>2
  <2>3. CASE key[c] \notin posted /\ key' = key
    BY <2>1, <2>3
  <2> QED BY <1>7, <2>2, <2>3 DEF Fetch
<1>8. ASSUME NEW row, NEW legs, Commit(c, row, legs) PROVE FALSE
  BY <1>0, <1>8 DEF Commit, Return
<1>9. ~CreditTx(c) /\ ~DeductTx(c) /\ ~ReserveTx(c) /\ ~ReleaseTx(c) /\ ~CaptureTx(c)
  BY <1>8 DEF CreditTx, DeductTx, ReserveTx, ReleaseTx, CaptureTx
<1>10. ASSUME \/ DeductRefused(c) \/ ReserveRaises(c) \/ ReserveRefused(c)
              \/ ReleaseRefused(c) \/ CaptureRefused(c)
       PROVE  key'[c] \notin posted'
  <2>1. pc[c] = "tx" /\ posted' = posted /\ \E r : Return(c, r)
    BY <1>10 DEF DeductRefused, ReserveRaises, ReserveRefused, ReleaseRefused, CaptureRefused,
                 Refuse, InTx
  <2> QED BY <1>3, <2>1
<1>11. ASSUME Crash(c) PROVE key'[c] \notin posted'
  BY <1>3, <1>11 DEF Crash
<1>12. \A d \in Callers : d = c
  BY DEF OneCaller
<1> QED BY <1>2, <1>4, <1>5, <1>6, <1>7, <1>9, <1>10, <1>11, <1>12 DEF Next, Step, Transaction

\* Retries that follow one another are answered as replays: to be refused for
\* credits it has already spent, a retry has to look its key up before another
\* attempt commits (PgOpenPlain.cfg).
THEOREM RetriesAreReplays == OneCaller => (Spec => []RetryNotRefused)
<1> SUFFICES ASSUME OneCaller PROVE Spec => []RetryNotRefused
  OBVIOUS
<1>1. Init => Unanswered /\ NoLateRefusal
  BY DEF Init, Unanswered, NoLateRefusal
<1>2. IInv /\ Unanswered /\ NoLateRefusal /\ [Next]_vars => Unanswered' /\ NoLateRefusal'
  BY StepUnanswered, StepRefusal
<1>3. NoLateRefusal => RetryNotRefused
  BY DEF NoLateRefusal, RetryNotRefused
<1> QED BY <1>1, <1>2, <1>3, Invariant, PTL DEF Spec

\* What a caller is about to be shown, and was shown, has not expired.
ShownClean ==
  /\ \A c \in Callers : pc[c] = "read" => ~(wallet.promo > 0 /\ wallet.exp \in 1..at[c])
  /\ FreshWallet
NoneHeld == wallet.res = 0
FreshInv ==
  IInv /\ Unanswered /\ AsRead /\ PromoWithinBalance /\ NoneHeld /\ ShownClean

LEMMA StepNoneHeld ==
  ASSUME IInv, NoneHeld, NoHolds, [Next]_vars
  PROVE  NoneHeld' /\ \A c \in Callers : ~CaptureTx(c)
<1>0. wallet \in Row /\ wallet.res = 0
  BY DEF IInv, TypeOK, StoreTypes, NoneHeld
<1>1. \A c \in Callers : ~ReserveTx(c)
  BY AllowedOps
<1>2. ASSUME NEW c \in Callers, CaptureTx(c) PROVE FALSE
  <2>1. Req(c).amt \in Nat /\ Req(c).amt > 0
    BY <1>2, RequestTypes DEF CaptureTx, InTx
  <2> QED BY <1>0, <1>2, <2>1 DEF CaptureTx, CanCapture
<1>3. ASSUME wallet' = wallet PROVE NoneHeld'
  BY <1>3 DEF NoneHeld
<1>4. ASSUME NEW c \in Callers, NEW row, NEW legs, Commit(c, row, legs), row.res = 0
      PROVE  NoneHeld'
  BY <1>3, <1>4 DEF Commit, NoneHeld
<1>5. ASSUME NEW c \in Callers, CreditTx(c) PROVE NoneHeld'
  BY <1>0, <1>4, <1>5 DEF CreditTx, Credited, WalletRow
<1>6. ASSUME NEW c \in Callers, DeductTx(c) PROVE NoneHeld'
  BY <1>0, <1>4, <1>6 DEF DeductTx, Deducted, WalletRow
<1>7. ASSUME NEW c \in Callers, ReleaseTx(c) PROVE NoneHeld'
  BY <1>0, <1>7 DEF ReleaseTx
<1>8. ASSUME NEW c \in Callers, BurnTx(c) PROVE NoneHeld'
  BY <1>0, <1>3, <1>8 DEF BurnTx, Deducted, WalletRow, NoneHeld
<1>9. ASSUME NEW c \in Callers, Zero(c) PROVE NoneHeld'
  BY <1>0, <1>9 DEF Zero, WalletRow, NoneHeld
<1>10. ASSUME NEW c \in Callers, Step(c), ~Transaction(c) PROVE NoneHeld'
  BY <1>3, <1>10
     DEF Step, ExpireRead, BurnFetch, BurnRefused, ReadWallet, Fetch, DeductRefused,
         ReserveRaises, ReserveRefused, ReleaseRefused, CaptureRefused, Refuse
<1>11. ASSUME NEW c \in Callers, Crash(c) \/ \E k \in Keys : Invoke(c, k) PROVE NoneHeld'
  BY <1>3, <1>11 DEF Crash, Invoke
<1>12. CASE Tick \/ UNCHANGED vars
  BY <1>2, <1>3, <1>12 DEF Tick, vars
<1>13. ASSUME NEW c \in Callers, Transaction(c) PROVE NoneHeld'
  BY <1>1, <1>2, <1>5, <1>6, <1>7, <1>8, <1>9, <1>13 DEF Transaction
<1> QED BY <1>2, <1>10, <1>11, <1>12, <1>13 DEF Next

LEMMA StepShown ==
  ASSUME OneCaller, RlsEnforced = FALSE, NoHolds, FreshInv, [Next]_vars
  PROVE  ShownClean'
<1>0. /\ pc \in [Callers -> Labels] /\ reply \in [Callers -> Replies]
      /\ at \in [Callers -> Nat] /\ seen \in [Callers -> Row]
      /\ wallet \in Row /\ clock \in Nat /\ wallet.promo <= wallet.cur /\ wallet.res = 0
  BY DEF FreshInv, IInv, TypeOK, CallerTypes, StoreTypes, PromoWithinBalance, NoneHeld
<1>1. ASSUME UNCHANGED <<wallet, pc, at, seen, reply>> PROVE ShownClean'
  BY <1>1 DEF FreshInv, ShownClean, FreshWallet
<1>2. CASE Tick \/ UNCHANGED vars
  BY <1>1, <1>2 DEF Tick, vars, locals
<1> SUFFICES ASSUME NEW c \in Callers,
                    (\E k \in Keys : Invoke(c, k)) \/ Step(c) \/ Crash(c)
             PROVE  ShownClean'
  BY <1>2 DEF Next
<1>3. \A d \in Callers : d = c
  BY DEF OneCaller
<1>4. pc[c] = "read" => ~(wallet.promo > 0 /\ wallet.exp \in 1..at[c])
  BY DEF FreshInv, ShownClean
<1>5. pc[c] # "idle" => reply[c] = "none"
  BY DEF FreshInv, Unanswered
<1>6. ASSUME pc'[c] # "read", reply'[c] # "wallet" PROVE ShownClean'
  BY <1>3, <1>6 DEF ShownClean, FreshWallet
<1>7. ASSUME NEW r, Return(c, r), r # "wallet" PROVE ShownClean'
  BY <1>0, <1>6, <1>7 DEF Return
<1>8. ASSUME NEW k \in Keys, Invoke(c, k) PROVE ShownClean'
  BY <1>0, <1>6, <1>8 DEF Invoke
<1>9. ASSUME ExpireRead(c) PROVE ShownClean'
  <2>1. reply'[c] # "wallet" /\ at'[c] = clock /\ wallet' = wallet
    BY <1>0, <1>5, <1>9 DEF ExpireRead
  <2>2. pc'[c] = "read" => ~(SweptAmount(wallet, clock) > 0)
    BY <1>0, <1>9 DEF ExpireRead
  <2>3. ~(SweptAmount(wallet, clock) > 0) => ~(wallet.promo > 0 /\ wallet.exp \in 1..clock)
    BY <1>0 DEF SweptAmount, PromoExpired, Least, Row
  <2> QED BY <1>3, <2>1, <2>2, <2>3 DEF ShownClean, FreshWallet
<1>10. ASSUME BurnFetch(c) PROVE ShownClean'
  BY <1>0, <1>5, <1>6, <1>10 DEF BurnFetch, Goto
<1>11. ASSUME BurnTx(c) PROVE ShownClean'
  BY <1>0, <1>5, <1>6, <1>11 DEF BurnTx, Goto
<1>12. ~BurnRefused(c)
  <2>1. ASSUME BurnRefused(c) PROVE FALSE
    <3>1. seen[c] = wallet /\ at[c] \in Nat
      BY <1>0, <2>1 DEF BurnRefused, FreshInv, AsRead
    <3>2. SweptAmount(wallet, at[c]) \in Nat /\ SweptAmount(wallet, at[c]) <= wallet.cur
      BY <1>0, <3>1, SweptRow
    <3>3. wallet.cur \in Nat
      BY <1>0 DEF Row
    <3> QED BY <1>0, <2>1, <3>1, <3>2, <3>3 DEF BurnRefused
  <2> QED BY <2>1
<1>13. ASSUME Zero(c) PROVE ShownClean'
  <2>1. wallet'.promo = 0 /\ reply'[c] # "wallet"
    BY <1>5, <1>13 DEF Zero, Goto, WalletRow
  <2> QED BY <1>3, <2>1 DEF ShownClean, FreshWallet
<1>14. ASSUME ReadWallet(c) PROVE ShownClean'
  <2>1. pc'[c] # "read" /\ seen'[c] = wallet /\ at'[c] = at[c]
    BY <1>0, <1>14 DEF ReadWallet
  <2>2. ~(wallet.promo > 0 /\ wallet.exp \in 1..at[c])
    BY <1>4, <1>14 DEF ReadWallet
  <2> QED BY <1>3, <2>1, <2>2 DEF ShownClean, FreshWallet
<1>15. ASSUME Fetch(c) PROVE ShownClean'
  <2>1. CASE Return(c, "replay")
    BY <1>7, <2>1
  <2>2. CASE pc' = [pc EXCEPT ![c] = "tx"] /\ reply' = reply
    BY <1>0, <1>5, <1>6, <1>15, <2>2 DEF Fetch
  <2> QED BY <1>15, <2>1, <2>2 DEF Fetch
<1>16. ASSUME NEW row, NEW legs, Commit(c, row, legs) PROVE ShownClean'
  BY <1>7, <1>16 DEF Commit
<1>17. ASSUME CreditTx(c) \/ DeductTx(c) \/ ReserveTx(c) \/ ReleaseTx(c) \/ CaptureTx(c)
       PROVE  ShownClean'
  BY <1>16, <1>17 DEF CreditTx, DeductTx, ReserveTx, ReleaseTx, CaptureTx
<1>18. ASSUME \/ DeductRefused(c) \/ ReserveRaises(c) \/ ReserveRefused(c)
              \/ ReleaseRefused(c) \/ CaptureRefused(c) \/ Crash(c)
       PROVE  ShownClean'
  <2>1. \E r : Return(c, r) /\ r # "wallet"
    BY <1>18 DEF DeductRefused, ReserveRaises, ReserveRefused, ReleaseRefused, CaptureRefused,
                 Refuse, Crash
  <2> QED BY <1>7, <2>1
<1> QED BY <1>8, <1>9, <1>10, <1>11, <1>12, <1>13, <1>14, <1>15, <1>17, <1>18
        DEF Step, Transaction

\* "Always surface post-expiry truth" (service.py:33) is so of one caller,
\* when nothing is reserved and the expiry may write (no row level security):
\* what holds cover is not expired (PgOpen.cfg), nor what another call has
\* spent meanwhile; and an expiry date that stays on the row after its burn
\* is taken over by the next grant, whose own burn is then a replay.
THEOREM WalletIsFresh ==
  OneCaller /\ NoHolds /\ RlsEnforced = FALSE => (Spec => []FreshWallet)
<1> SUFFICES ASSUME OneCaller, NoHolds, RlsEnforced = FALSE PROVE Spec => []FreshWallet
  OBVIOUS
<1>1. Init => FreshInv
  <2>1. ASSUME Init PROVE wallet.promo = 0 /\ wallet.cur = 0 /\ wallet.res = 0
    BY <2>1 DEF Init, EmptyRow, WalletRow
  <2>2. ASSUME Init, NEW c \in Callers PROVE pc[c] = "idle" /\ reply[c] = "none"
    BY <2>2 DEF Init
  <2> QED BY <2>1, <2>2, InitIInv
          DEF FreshInv, Unanswered, AsRead, PromoWithinBalance, NoneHeld, ShownClean, FreshWallet
<1>2. FreshInv /\ [Next]_vars => FreshInv'
  BY NextIInv, StepUnanswered, StepAsRead, StepNoneHeld, StepPromo, StepShown DEF FreshInv
<1>3. FreshInv => FreshWallet
  BY DEF FreshInv, ShownClean
<1> QED BY <1>1, <1>2, <1>3, PTL DEF Spec
=============================================================================
