---------------------------- MODULE CashOutsProofs ----------------------------
(***************************************************************************)
(* The cash-out from end to end, for any calls, workers and providers.     *)
(*                                                                         *)
(* The composition is one of its two parts: the requests with the workers  *)
(* beside them are still the payment endpoints (CashOutsArePayments), and  *)
(* the workers with the requests beside them are still the payouts         *)
(* (PayoutsApart), because a request touches a payout row only to create   *)
(* it.  What the two say of each other rests on one link, PaidIsPosted: a  *)
(* payout row exists only of a committed transaction.                      *)
(*                                                                         *)
(* The audits beside it read only (AuditsOnlyRead), so every invariant of  *)
(* the two parts holds while they run, and what they report follows from   *)
(* those: the books balance with what is posted (BalancesMatchEntries),    *)
(* and what the provider says of a reference is about the payout that has  *)
(* it (the proofs of Payouts, instantiated).                               *)
(***************************************************************************)
EXTENDS Audits, Routing, PaymentsProofs

\* Whatever shows that somebody deals with a payout (its row, a lock on it, a
\* transfer, a retry that has read it) belongs to a committed transaction.
PaidIsPosted ==
  /\ \A p \in Posts :
       /\ row[p].status # "ABSENT" => p \in txns
       /\ lock[p] # None => p \in txns
       /\ \A n \in 1 .. P!MaxSends : xfer[p][n].state # "none" => p \in txns
  /\ \A a \in Admins : retry[a] # None => retry[a] \in txns

\* A row that a worker transaction holds is not decided.
HeldIsOpen == \A p \in Posts : lock[p] # None => row[p].status \in {"PENDING", "SENT"}

\* What a submission to Thunes carries: it depends on constants only.
ThunesKey(p) == P!Coalesce(ExternalRef[p], <<p, 0>>)

\* All transfers of a Thunes payout carry one key, and there is one at most.
OneTransfer ==
  "THUNES" \in Dedups =>
    \A p \in Posts, m, n \in 1 .. P!MaxSends :
      Kind[p] = "THUNES" /\ xfer[p][n].state # "none" =>
        /\ xfer[p][n].key = ThunesKey(p)
        /\ xfer[p][m].state # "none" => m = n

Indexed ==
  /\ DOMAIN row = Posts /\ DOMAIN xfer = Posts /\ DOMAIN retry = Admins
  /\ \A p \in Posts : DOMAIN xfer[p] = 1 .. P!MaxSends
  /\ \A p \in Posts, n \in 1 .. P!MaxSends : DOMAIN xfer[p][n] = {"state", "key"}

CInv == Indexed /\ PaidIsPosted /\ HeldIsOpen /\ OneTransfer

-----------------------------------------------------------------------------
\* Workers, providers and operators leave the endpoints alone.
LEMMA StepsOfPayments == [CashNext]_allVars => [PayNext]_vars
<1> SUFFICES ASSUME CashNext PROVE [PayNext]_vars
  BY DEF allVars, vars
<1>1. ASSUME NEW c \in Calls, Request(c) \/ Debits(c) PROVE PayNext
  BY <1>1 DEF Request, Debits, PayNext, Running
<1>2. CASE PayoutStep
  BY <1>2 DEF PayoutStep
<1> QED
  BY <1>1, <1>2 DEF CashNext

\* Every behaviour of the composition is one of the endpoints, so their
\* theorems hold of it.
THEOREM CashOutsArePayments == CashSpec => PaySpec
<1>1. CashInit => PayInit
  BY DEF CashInit
<1> QED
  BY <1>1, StepsOfPayments, PTL DEF CashSpec, PaySpec

\* The ledger keeps its invariant in the composition.
LEMMA LedgerHolds == CashSpec => []IInv
  BY CashOutsArePayments, PaymentsUseLedger, KeysAreGuarded, PTL

\* The books stay right while payouts are claimed, sent and retried: every
\* cached balance is that of its entries, and no money is made or lost between
\* the accounts.  A payout posts nothing (cash_out_mobile_money has posted the
\* debit before the row is there).
THEOREM BooksStayRight ==
  ASSUME IsFiniteSet(Wallets)
  PROVE  CashSpec => [](BalancesMatchEntries /\ MoneyIsConserved)
<1>1. Spec => []MoneyIsConserved
  BY MoneyStays
<1> QED
  BY <1>1, CashOutsArePayments, PaymentsUseLedger, BalancesMatch, PTL

-----------------------------------------------------------------------------
\* A cash-out request that commits names a posted cash-out: its own, or one
\* of its key, and so, as keys serve one use, of its operation.
LEMMA DebitedIsPost ==
  ASSUME IInv, NEW c \in Calls, FinishCashOut(c)
  PROVE  result[c] \in Posts /\ result[c] \in txns'
<1>1. /\ Op(c) = "CASHOUT" /\ result[c] # None /\ Commit(c) /\ stage[c] = "done"
  BY DEF FinishCashOut, Commit
<1>2. result[c] \in Calls
  BY <1>1 DEF IInv, LedgerTypeOK
<1>3. CASE result[c] = c
  BY <1>1, <1>3 DEF Posts, Commit
<1>4. CASE result[c] # c
  <2>1. result[c] \in txns /\ Key(result[c]) = Key(c)
    BY <1>1, <1>4 DEF IInv, AnswersFit
  <2>2. Op(result[c]) = "CASHOUT"
    BY <1>1, <1>2, <2>1, OneUsePerKey
  <2> QED
    BY <1>1, <1>2, <2>1, <2>2 DEF Posts, Commit
<1> QED
  BY <1>3, <1>4

\* To the payouts a request is either the creation of a row or nothing.
LEMMA StepsOfPayouts == IInv /\ [CashNext]_allVars => [P!Next]_P!vars
<1> SUFFICES ASSUME IInv, CashNext PROVE [P!Next]_P!vars
  BY DEF allVars, payoutVars, P!vars
<1>1. ASSUME NEW c \in Calls, Request(c) PROVE UNCHANGED P!vars
  BY <1>1 DEF Request, payoutVars, P!vars
<1>2. ASSUME NEW c \in Calls, Debits(c) PROVE [P!Next]_P!vars
  <2>1. result[c] \in Posts /\ InsertPayout(result[c])
    BY <1>2, DebitedIsPost DEF Debits
  <2>2. CASE P!Create(result[c])
    BY <2>1, <2>2 DEF P!Next
  <2>3. CASE UNCHANGED payoutVars
    BY <2>3 DEF payoutVars, P!vars
  <2> QED
    BY <2>1, <2>2, <2>3 DEF InsertPayout
<1>3. CASE PayoutStep
  BY <1>3 DEF PayoutStep, P!Next
<1> QED
  BY <1>1, <1>2, <1>3 DEF CashNext

\* The composition implements the payouts alone: a cash-out sent again never
\* disturbs a payout that exists.
THEOREM PayoutsApart == CashSpec => PayoutsUndisturbed
<1>1. CashInit => P!Init
  BY DEF CashInit
<1> QED
  BY <1>1, StepsOfPayouts, LedgerHolds, PTL DEF CashSpec, PayoutsUndisturbed, P!Spec

-----------------------------------------------------------------------------
(* The steps of the payouts, as far as the invariant can tell.              *)

\* A notice changes only rows that nobody holds and that are open to it.
LEMMA NoticeSteps ==
  ASSUME NEW notice, NEW override \in BOOLEAN, P!Notify(notice, override),
         NEW p \in Posts, row'[p] # row[p]
  PROVE  lock[p] = None /\ P!Open(row[p], override)
<1> DEFINE hits == P!Hits(notice, override)
           v == notice.verdict
           first == [q \in Posts |-> IF q \in hits THEN P!Applied(row[q], v) ELSE row[q]]
<1>1. PICK ok \in BOOLEAN : P!Update(notice, override, ok)
  BY DEF P!Notify
<1>2. \A q \in hits : lock[q] = None /\ P!Open(row[q], override)
  BY <1>1 DEF P!Update, P!Hits, P!Unlocked
<1>3. CASE row' = first
  BY <1>2, <1>3
<1>4. ASSUME NEW q \in Posts, lock[q] = None, P!Open(first[q], override),
             row' = [first EXCEPT ![q] = P!Applied(first[q], v)]
      PROVE  lock[p] = None /\ P!Open(row[p], override)
  <2>1. CASE p \in hits
    BY <1>2, <2>1
  <2>2. CASE p \notin hits
    <3>1. first[p] = row[p]
      BY <2>2
    <3>2. p = q
      BY <1>4, <3>1
    <3> QED
      BY <1>4, <3>1, <3>2
  <2> QED
    BY <2>1, <2>2
<1>5. \/ row' = first
      \/ \E q \in Posts : /\ lock[q] = None /\ P!Open(first[q], override)
                          /\ row' = [first EXCEPT ![q] = P!Applied(first[q], v)]
  BY <1>1 DEF P!Update, P!Named, P!Unlocked
<1> QED
  BY <1>3, <1>4, <1>5

\* A worker that submits p adds at most one transfer, of p, under the key of the
\* submission, unless the provider recognises the key.
Submitted(p) ==
  \/ UNCHANGED xfer
  \/ /\ P!Duplicates(p, P!SubmissionKey(p)) = {}
     /\ \E n, s : xfer' = [xfer EXCEPT ![p][n] = [state |-> s, key |-> P!SubmissionKey(p)]]

\* A worker that handles a row writes nothing yet.
LEMMA HandleSteps ==
  ASSUME NEW w \in Workers, NEW p \in Posts, P!Handle(w, p)
  PROVE  /\ UNCHANGED <<row, lock, retry>>
         /\ UNCHANGED xfer \/ (row[p].status # "ABSENT" /\ Submitted(p))
<1>1. ASSUME NEW took, P!Request(p, P!SubmissionKey(p), took)
      PROVE  Submitted(p)
  BY <1>1 DEF P!Request, Submitted
<1>2. ASSUME P!GiveUp(w, p) \/ P!RejectIncomplete(w, p) \/ P!RejectUnsupported(w, p)
      PROVE  UNCHANGED <<row, lock, retry, xfer>>
  BY <1>2 DEF P!GiveUp, P!RejectIncomplete, P!RejectUnsupported, P!Write
<1>3. ASSUME P!Submission(w, p)
      PROVE  UNCHANGED <<row, lock, retry>> /\ Submitted(p)
  <2>1. PICK answer : P!Request(p, P!SubmissionKey(p), answer.took) /\ P!Record(w, p, answer)
    BY <1>3 DEF P!Submission
  <2>2. UNCHANGED <<row, lock, retry>>
    BY <2>1 DEF P!Record, P!Write
  <2> QED
    BY <1>1, <2>1, <2>2
<1>4. ASSUME P!Send(w, p) \/ P!Resend(w, p)
      PROVE  P!Submission(w, p) /\ row[p].status # "ABSENT"
  BY <1>4 DEF P!Send, P!Resend
<1>5. ASSUME NEW answer, P!Poll(w, p, answer)
      PROVE  UNCHANGED <<row, lock, retry, xfer>>
  BY <1>5 DEF P!Poll, P!Write
<1>6. CASE P!HandlerError(w, p)
  <2>1. UNCHANGED <<row, lock, retry>>
    BY <1>6 DEF P!HandlerError, P!Write
  <2>2. \/ UNCHANGED xfer
        \/ P!Submits(p) /\ \E took \in BOOLEAN : P!Request(p, P!SubmissionKey(p), took)
    BY <1>6 DEF P!HandlerError
  <2> QED
    BY <1>1, <2>1, <2>2 DEF P!Submits
<1> QED
  BY <1>2, <1>3, <1>4, <1>5, <1>6 DEF P!Handle

\* A new transfer keeps a Thunes payout at one: every submission of it carries
\* the same key, so the provider would have recognised a second one.
LEMMA SubmittedKeeps ==
  ASSUME Indexed, PaidIsPosted, OneTransfer, UNCHANGED <<row, lock, retry>>, txns' = txns,
         NEW p \in Posts, p \in txns, Submitted(p)
  PROVE  Indexed' /\ PaidIsPosted' /\ OneTransfer'
<1>1. CASE UNCHANGED xfer
  BY <1>1 DEF Indexed, PaidIsPosted, OneTransfer
<1>2. CASE ~UNCHANGED xfer
  <2> DEFINE key == P!SubmissionKey(p)
  <2>1. PICK n, s : xfer' = [xfer EXCEPT ![p][n] = [state |-> s, key |-> key]]
    BY <1>2 DEF Submitted
  <2>2. P!Duplicates(p, key) = {}
    BY <1>2 DEF Submitted
  <2>3. DOMAIN xfer' = Posts /\ \A q \in Posts \ {p} : xfer'[q] = xfer[q]
    BY <2>1 DEF Indexed
  <2>4. /\ DOMAIN xfer'[p] = 1 .. P!MaxSends
        /\ \A m \in 1 .. P!MaxSends :
             xfer'[p][m] = IF m = n THEN [state |-> s, key |-> key] ELSE xfer[p][m]
    BY <2>1 DEF Indexed
  <2>5. Indexed'
    <3>1. DOMAIN [state |-> s, key |-> key] = {"state", "key"}
      OBVIOUS
    <3>2. \A m \in 1 .. P!MaxSends : DOMAIN xfer'[p][m] = {"state", "key"}
      BY <2>4, <3>1 DEF Indexed
    <3> HIDE DEF key
    <3>3. \A q \in Posts : DOMAIN xfer'[q] = 1 .. P!MaxSends
      BY <2>3, <2>4 DEF Indexed
    <3>4. \A q \in Posts, m \in 1 .. P!MaxSends : DOMAIN xfer'[q][m] = {"state", "key"}
      BY <2>3, <3>2 DEF Indexed
    <3>5. DOMAIN row' = Posts /\ DOMAIN retry' = Admins
      BY DEF Indexed
    <3> QED
      BY <2>3, <3>3, <3>4, <3>5 DEF Indexed
  <2>6. PaidIsPosted'
    BY <2>3 DEF PaidIsPosted
  <2>7. ASSUME Kind[p] = "THUNES", "THUNES" \in Dedups, NEW m \in 1 .. P!MaxSends
        PROVE  key = ThunesKey(p) /\ xfer[p][m].state = "none"
    <3>1. key = ThunesKey(p)
      BY <2>7 DEF P!SubmissionKey, ThunesKey
    <3>2. <<p, m>> \notin P!Duplicates(p, key)
      BY <2>2
    <3>3. xfer[p][m].state = "none" \/ xfer[p][m].key # key
      BY <2>7, <3>2 DEF P!Duplicates, P!Transfers
    <3> QED
      BY <2>7, <3>1, <3>3 DEF OneTransfer
  <2>8. OneTransfer'
    <3> SUFFICES ASSUME "THUNES" \in Dedups, NEW q \in Posts, Kind[q] = "THUNES",
                        NEW m \in 1 .. P!MaxSends, NEW k \in 1 .. P!MaxSends,
                        xfer'[q][k].state # "none"
                 PROVE  /\ xfer'[q][k].key = ThunesKey(q)
                        /\ xfer'[q][m].state # "none" => m = k
      BY DEF OneTransfer, ThunesKey, P!Coalesce
    <3>1. CASE q = p
      BY <2>4, <2>7, <3>1
    <3>2. CASE q # p
      BY <2>3, <3>2 DEF OneTransfer
    <3> QED
      BY <3>1, <3>2
  <2> QED
    BY <2>5, <2>6, <2>8
<1> QED
  BY <1>1, <1>2

\* A transfer that is settled keeps its key.
LEMMA SettleKeeps ==
  ASSUME CInv, UNCHANGED txns, NEW p \in Posts, NEW n \in 1 .. P!MaxSends, NEW o,
         P!Settle(p, n, o)
  PROVE  CInv'
<1> USE DEF CInv
<1>1. /\ xfer[p][n].state = "open"
      /\ xfer' = [xfer EXCEPT ![p][n].state = o]
      /\ UNCHANGED <<row, lock, retry>>
  BY DEF P!Settle
<1>2. DOMAIN xfer' = Posts /\ \A q \in Posts \ {p} : xfer'[q] = xfer[q]
  BY <1>1 DEF Indexed
<1>3. /\ DOMAIN xfer'[p] = 1 .. P!MaxSends
      /\ \A m \in (1 .. P!MaxSends) \ {n} : xfer'[p][m] = xfer[p][m]
      /\ xfer'[p][n] = [xfer[p][n] EXCEPT !.state = o]
  BY <1>1 DEF Indexed
<1>4. DOMAIN xfer'[p][n] = {"state", "key"} /\ xfer'[p][n].key = xfer[p][n].key
  BY <1>3 DEF Indexed
<1>5. Indexed'
  <2>1. \A m \in 1 .. P!MaxSends : DOMAIN xfer'[p][m] = {"state", "key"}
    BY <1>3, <1>4 DEF Indexed
  <2> QED
    BY <1>1, <1>2, <1>3, <2>1 DEF Indexed
<1>6. PaidIsPosted' /\ HeldIsOpen'
  BY <1>1, <1>2 DEF PaidIsPosted, HeldIsOpen
<1>7. OneTransfer'
  <2> SUFFICES ASSUME "THUNES" \in Dedups, NEW q \in Posts, Kind[q] = "THUNES",
                      NEW m \in 1 .. P!MaxSends, NEW k \in 1 .. P!MaxSends,
                      xfer'[q][k].state # "none"
               PROVE  /\ xfer'[q][k].key = ThunesKey(q)
                      /\ xfer'[q][m].state # "none" => m = k
    BY DEF OneTransfer, ThunesKey, P!Coalesce
  <2>1. /\ xfer'[q][k].key = xfer[q][k].key
        /\ \A l \in 1 .. P!MaxSends : xfer'[q][l].state # "none" => xfer[q][l].state # "none"
    BY <1>1, <1>2, <1>3, <1>4
  <2> QED
    BY <2>1 DEF OneTransfer
<1> QED
  BY <1>5, <1>6, <1>7

\* Who moves a row, a lock, a transfer or a retry, and of which payout.
LEMMA PayoutSteps ==
  ASSUME CInv, PayoutStep
  PROVE  CInv'
<1> USE DEF CInv
<1>0. txns' = txns
  BY DEF PayoutStep, vars, ledgerVars
<1>1. ASSUME UNCHANGED <<lock, xfer>>, DOMAIN row' = Posts, DOMAIN retry' = Admins,
             \A p \in Posts : row'[p] # row[p] => lock[p] = None /\ p \in txns,
             \A a \in Admins : retry'[a] \in {None, retry[a]} \/ retry'[a] \in txns
      PROVE  CInv'
  <2>1. Indexed'
    BY <1>1 DEF Indexed
  <2>2. PaidIsPosted'
    BY <1>0, <1>1 DEF PaidIsPosted
  <2>3. HeldIsOpen' /\ OneTransfer'
    BY <1>1 DEF HeldIsOpen, OneTransfer
  <2> QED
    BY <2>1, <2>2, <2>3
<1>3. ASSUME NEW p \in Posts, NEW n \in 1 .. P!MaxSends, NEW o, P!Settle(p, n, o)
      PROVE  CInv'
  BY <1>0, <1>3, SettleKeeps
<1>4. ASSUME NEW w \in Workers, NEW S \in SUBSET P!Claimable, P!Claim(w, S)
      PROVE  CInv'
  <2>1. /\ UNCHANGED <<row, xfer, retry>>
        /\ lock' = [p \in Posts |-> IF p \in S THEN w ELSE lock[p]]
        /\ \A p \in S : row[p].status \in {"PENDING", "SENT"}
    BY <1>4 DEF P!Claim, P!Claimable
  <2> QED
    BY <1>0, <2>1 DEF Indexed, PaidIsPosted, HeldIsOpen, OneTransfer
<1>5. ASSUME NEW w \in Workers, NEW p \in Posts, P!Handle(w, p)
      PROVE  CInv'
  <2>1. UNCHANGED <<row, lock, retry>>
    BY <1>5, HandleSteps
  <2>2. CASE UNCHANGED xfer
    BY <1>0, <2>1, <2>2 DEF Indexed, PaidIsPosted, HeldIsOpen, OneTransfer
  <2>3. CASE row[p].status # "ABSENT" /\ Submitted(p)
    <3>1. p \in txns
      BY <2>3 DEF PaidIsPosted
    <3>2. Indexed' /\ PaidIsPosted' /\ OneTransfer'
      BY <1>0, <2>1, <2>3, <3>1, SubmittedKeeps
    <3> QED
      BY <2>1, <3>2 DEF HeldIsOpen
  <2> QED
    BY <1>5, <2>2, <2>3, HandleSteps
<1>6. ASSUME NEW w \in Workers, P!Commit(w) \/ P!Abort(w)
      PROVE  CInv'
  <2>1. /\ UNCHANGED <<xfer, retry>> /\ DOMAIN row' = Posts
        /\ lock' = [p \in Posts |-> IF lock[p] = w THEN None ELSE lock[p]]
        /\ \A p \in Posts : lock[p] # w => row'[p] = row[p]
    BY <1>6 DEF P!Commit, P!Abort, P!EndTx, Indexed
  <2>2. \A p \in Posts : row'[p] = row[p] \/ lock[p] # None
    BY <2>1, PayoutsFit DEF P!PayoutsAssumption
  <2> QED
    BY <1>0, <2>1, <2>2 DEF Indexed, PaidIsPosted, HeldIsOpen, OneTransfer
<1>7. ASSUME NEW notice, NEW override \in BOOLEAN, P!Notify(notice, override)
      PROVE  CInv'
  <2>1. UNCHANGED <<lock, xfer, retry>> /\ DOMAIN row' = Posts
    BY <1>7 DEF P!Notify, P!Update
  <2>2. \A p \in Posts : row'[p] # row[p] => lock[p] = None /\ p \in txns
    BY <1>7, NoticeSteps DEF P!Open, PaidIsPosted
  <2> QED
    BY <1>1, <2>1, <2>2 DEF Indexed
<1>8. ASSUME NEW p \in Posts, P!ConfirmByHand(p)
      PROVE  CInv'
  BY <1>1, <1>8 DEF P!ConfirmByHand, P!Unlocked, Indexed, PaidIsPosted
<1>9. ASSUME NEW a \in Admins, NEW p \in Posts, P!RetryWrite(a, p)
      PROVE  CInv'
  <2>1. p \in txns
    BY <1>9, LedgerAssumption DEF P!RetryWrite, PaidIsPosted, Posts, LedgerAssumption
  <2> QED
    BY <1>1, <1>9, <2>1 DEF P!RetryWrite, P!Unlocked, Indexed
<1>10. ASSUME NEW a \in Admins, NEW p \in Posts, P!RetryRead(a, p)
       PROVE  CInv'
  <2>1. p \in txns
    BY <1>10 DEF P!RetryRead, PaidIsPosted
  <2> QED
    BY <1>1, <1>10, <2>1 DEF P!RetryRead, Indexed
<1>11. ASSUME NEW a \in Admins, P!RetryLost(a)
       PROVE  CInv'
  BY <1>1, <1>11 DEF P!RetryLost, Indexed
<1>12. P!Webhook \/ P!Replay => CInv'
  BY <1>7 DEF P!Webhook, P!Replay
<1>13. ASSUME NEW w \in Workers, P!Start(w)
       PROVE  CInv'
  BY <1>0, <1>13 DEF P!Start, Indexed, PaidIsPosted, HeldIsOpen, OneTransfer
<1> QED
  BY <1>3, <1>4, <1>5, <1>6, <1>8, <1>9, <1>10, <1>11, <1>12, <1>13 DEF PayoutStep, P!AdminStep

\* A request deals with a payout in the step that commits its transaction.
LEMMA CashNextCInv == IInv /\ CInv /\ [CashNext]_allVars => CInv'
<1> SUFFICES ASSUME IInv, CInv, [CashNext]_allVars PROVE CInv'
  OBVIOUS
<1> USE DEF CInv
<1>1. txns \subseteq txns'
  <2>1. [Next]_ledgerVars
    BY StepsOfPayments, StepsOfLedger DEF vars
  <2> QED
    BY <2>1, PostedStays
<1>2. CASE UNCHANGED payoutVars
  BY <1>1, <1>2 DEF payoutVars, Indexed, PaidIsPosted, HeldIsOpen, OneTransfer
<1>3. ASSUME NEW c \in Calls, Debits(c), P!Create(result[c])
      PROVE  CInv'
  <2>1. result[c] \in Posts /\ result[c] \in txns'
    BY <1>3, DebitedIsPost DEF Debits
  <2>2. /\ UNCHANGED <<lock, xfer, retry>> /\ DOMAIN row' = Posts
        /\ row[result[c]].status = "ABSENT"
        /\ \A p \in Posts \ {result[c]} : row'[p] = row[p]
    BY <1>3, <2>1 DEF P!Create, Indexed
  <2>3. lock[result[c]] = None
    BY <2>1, <2>2 DEF HeldIsOpen
  <2> QED
    BY <1>1, <2>1, <2>2, <2>3 DEF Indexed, PaidIsPosted, HeldIsOpen, OneTransfer
<1>4. CASE PayoutStep
  BY <1>4, PayoutSteps
<1>5. ASSUME NEW c \in Calls, Request(c) \/ Debits(c)
      PROVE  UNCHANGED payoutVars \/ (Debits(c) /\ P!Create(result[c]))
  BY <1>5 DEF Request, Debits, InsertPayout
<1>6. UNCHANGED allVars => UNCHANGED payoutVars
  BY DEF allVars
<1> QED
  BY <1>2, <1>3, <1>4, <1>5, <1>6 DEF CashNext

\* Nobody deals with a payout that is not posted, and nobody decides a payout
\* that a worker holds.
THEOREM PayoutsFollowPosts == CashSpec => []CInv
<1>1. CashInit => CInv
  <2> SUFFICES ASSUME P!Init PROVE CInv
    BY DEF CashInit
  <2>1. DOMAIN P!NoTransfer = {"state", "key"} /\ P!NoTransfer.state = "none"
    BY DEF P!NoTransfer
  <2>2. xfer = [p \in Posts |-> [n \in 1 .. P!MaxSends |-> P!NoTransfer]]
    BY DEF P!Init
  <2>3. /\ DOMAIN xfer = Posts
        /\ \A p \in Posts : DOMAIN xfer[p] = 1 .. P!MaxSends
        /\ \A p \in Posts, n \in 1 .. P!MaxSends : xfer[p][n] = P!NoTransfer
    BY <2>2
  <2>4. Indexed
    BY <2>1, <2>3 DEF P!Init, Indexed
  <2>5. PaidIsPosted /\ HeldIsOpen /\ OneTransfer
    BY <2>1, <2>3 DEF P!Init, PaidIsPosted, HeldIsOpen, OneTransfer
  <2> QED
    BY <2>4, <2>5 DEF CInv
<1> QED
  BY <1>1, CashNextCInv, LedgerHolds, PTL DEF CashSpec

-----------------------------------------------------------------------------
(* The properties.                                                          *)

\* A CONFIRMED or FAILED payout stays so, however often its cash-out is sent
\* again, unless an operator acts.
THEOREM DecidedStays == CashSpec => PayoutsStayDecided
<1> DEFINE Keeps == \A p \in Posts :
             row[p].status \in P!Terminal /\ row'[p].status # row[p].status => P!AdminStep
<1>1. IInv /\ CInv /\ [CashNext]_allVars => [Keeps]_P!vars
  <2> SUFFICES ASSUME IInv, CInv, [CashNext]_allVars, NEW p \in Posts,
                      row[p].status \in P!Terminal, row'[p].status # row[p].status
               PROVE  P!AdminStep
    OBVIOUS
  <2> USE DEF CInv
  <2>1. P!Next
    BY StepsOfPayouts DEF P!vars
  <2>2. lock[p] = None
    BY DEF HeldIsOpen, P!Terminal
  <2>3. \A q \in Posts : ~P!Create(q)
    BY DEF P!Create, P!Terminal, Indexed
  <2>4. \A w \in Workers : ~P!Commit(w)
    BY <2>2, PayoutsFit DEF P!PayoutsAssumption, P!Commit
  <2>5. ~P!Webhook
    BY NoticeSteps DEF P!Webhook, P!Open
  <2>6. \A w \in Workers, q \in Posts : ~P!Handle(w, q)
    BY HandleSteps
  <2>7. \A w \in Workers : /\ ~P!Abort(w) /\ ~P!Start(w)
                            /\ \A S \in SUBSET P!Claimable : ~P!Claim(w, S)
    BY DEF P!Abort, P!Start, P!Claim
  <2>8. \A a \in Admins : ~P!RetryLost(a) /\ \A q \in Posts : ~P!RetryRead(a, q)
    BY DEF P!RetryLost, P!RetryRead
  <2>9. \A q \in Posts, n \in 1 .. P!MaxSends, o \in {"paid", "rejected"} : ~P!Settle(q, n, o)
    BY DEF P!Settle
  <2> QED
    BY <2>1, <2>3, <2>4, <2>5, <2>6, <2>7, <2>8, <2>9 DEF P!Next
<1> QED
  BY <1>1, LedgerHolds, PayoutsFollowPosts, PTL DEF CashSpec, PayoutsStayDecided, P!OnlyAdminsReopen

\* No money is on its way that was not debited, and the Thunes money of one key
\* leaves at most once: one key posts one transaction, only that one can be
\* paid, and it has one transfer at most.
THEOREM DebitedFirst == CashSpec => []NoMoneyLeavesUndebited
<1>1. IInv /\ CInv => NoMoneyLeavesUndebited
  <2> SUFFICES ASSUME IInv, CInv PROVE NoMoneyLeavesUndebited
    OBVIOUS
  <2>1. \A p \in Posts, n \in 1 .. P!MaxSends : xfer[p][n].state # "none" => p \in txns
    BY DEF CInv, PaidIsPosted
  <2>2. ASSUME "THUNES" \in Dedups, NEW p \in Posts, NEW q \in Posts,
               NEW m \in 1 .. P!MaxSends, NEW n \in 1 .. P!MaxSends,
               Key(p) = Key(q), Kind[p] = "THUNES", P!Moved(p, m), P!Moved(q, n)
        PROVE  p = q /\ m = n
    <3>1. xfer[p][m].state # "none" /\ xfer[q][n].state # "none"
      BY <2>2 DEF P!Moved
    <3>2. p = q
      BY <2>1, <2>2, <3>1 DEF IInv, OneTransactionPerKey
    <3> QED
      BY <2>2, <3>1, <3>2 DEF CInv, OneTransfer
  <2> QED
    BY <2>1, <2>2 DEF NoMoneyLeavesUndebited
<1> QED
  BY <1>1, LedgerHolds, PayoutsFollowPosts, PTL

-----------------------------------------------------------------------------
(* What is proved of the payouts alone holds of the composition.             *)
M == INSTANCE PayoutMoneyProofs WITH Payouts <- Posts, draft <- written

\* The two instances assume and mean the same: they unfold alike.
LEMMA PayoutsFitM == M!PayoutsAssumption /\ M!NoneIsNoRow
BY PayoutsFit
DEF P!PayoutsAssumption, M!PayoutsAssumption, P!NoneIsNoRow, M!NoneIsNoRow, P!Row, M!Row, P!Kinds,
    M!Kinds, P!Status, M!Status, P!Refs, M!Refs, P!ProviderIds, M!ProviderIds, P!MaxSends,
    M!MaxSends, P!Terminal, M!Terminal

\* The bound on submissions, and the references there are.
LEMMA SameSends == P!MaxSends = M!MaxSends /\ P!Refs = M!Refs
BY DEF P!MaxSends, M!MaxSends, P!Refs, M!Refs, P!ProviderIds, M!ProviderIds

\* The types.
LEMMA SameTypes == P!TypeOK = M!TypeOK
BY DEF P!TypeOK, M!TypeOK, P!Row, M!Row, P!Status, M!Status, P!Refs, M!Refs, P!ProviderIds,
       M!ProviderIds, P!MaxSends, M!MaxSends, P!Terminal, M!Terminal, P!Transfer, M!Transfer

\* The initial states.
LEMMA SameInit == P!Init <=> M!Init
BY DEF P!Init, M!Init, P!MaxSends, M!MaxSends, P!NoTransfer, M!NoTransfer

\* Status queries.
LEMMA SamePolls ==
  ASSUME NEW p, NEW r
  PROVE  P!PollAnswers(p, r) = M!PollAnswers(p, r)
BY DEF P!PollAnswers, M!PollAnswers, P!TmoneyPoll, M!TmoneyPoll, P!FloozPoll, M!FloozPoll,
       P!MomoPoll, M!MomoPoll, P!ThunesPoll, M!ThunesPoll, P!LegacyPoll, M!LegacyPoll, P!MtnPoll,
       M!MtnPoll, P!Found, M!Found, P!Transfers, M!Transfers, P!Verdict, M!Verdict, P!MaxSends,
       M!MaxSends

\* Submissions, with what the adapters answer.
LEMMA SameSubmission ==
  ASSUME NEW w, NEW p
  PROVE  P!Submission(w, p) = M!Submission(w, p)
BY DEF P!Submission, M!Submission, P!SubmissionKey, M!SubmissionKey, P!Coalesce, M!Coalesce,
       P!Answers, M!Answers, P!TmoneyAnswers, M!TmoneyAnswers, P!FloozAnswers, M!FloozAnswers,
       P!MomoAnswers, M!MomoAnswers, P!ThunesAnswers, M!ThunesAnswers, P!MtnAnswers, M!MtnAnswers,
       P!LegacyAnswers, M!LegacyAnswers, P!Accepted, M!Accepted, P!Refusal, M!Refusal, P!Refusals,
       M!Refusals, P!IdsFor, M!IdsFor, P!Duplicates, M!Duplicates, P!Transfers, M!Transfers,
       P!MaxSends, M!MaxSends, P!Request, M!Request, P!Record, M!Record, P!Write, M!Write,
       P!Updated, M!Updated

\* All a worker does with a row.
LEMMA SameHandle ==
  ASSUME NEW w, NEW p
  PROVE  P!Handle(w, p) = M!Handle(w, p)
BY SameSubmission, SamePolls
DEF P!Handle, M!Handle, P!GiveUp, M!GiveUp, P!RejectIncomplete, M!RejectIncomplete,
    P!RejectUnsupported, M!RejectUnsupported, P!Send, M!Send, P!Resend, M!Resend, P!Poll, M!Poll,
    P!HandlerError, M!HandlerError, P!Turn, M!Turn, P!Exhausted, M!Exhausted, P!MissingRef,
    M!MissingRef, P!Submits, M!Submits, P!Write, M!Write, P!Updated, M!Updated, P!Coalesce,
    M!Coalesce, P!Terminal, M!Terminal, P!Request, M!Request, P!SubmissionKey, M!SubmissionKey,
    P!Duplicates, M!Duplicates, P!Transfers, M!Transfers, P!MaxSends, M!MaxSends

\* Each instance brings the cardinality of the library with it.
LEMMA SameCardinality ==
  ASSUME NEW S
  PROVE  P!Cardinality(S) = M!Cardinality(S)
BY DEF P!Cardinality, M!Cardinality

\* The transactions of workers.
LEMMA SameTransactions ==
  ASSUME NEW w
  PROVE  /\ P!Claimable = M!Claimable /\ \A S : P!Claim(w, S) = M!Claim(w, S)
         /\ P!Commit(w) = M!Commit(w) /\ P!Abort(w) = M!Abort(w) /\ P!Start(w) = M!Start(w)
BY SameCardinality
DEF P!Claimable, M!Claimable, P!Claim, M!Claim, P!Unlocked, M!Unlocked, P!Commit, M!Commit,
    P!Abort, M!Abort, P!EndTx, M!EndTx, P!Start, M!Start

\* What the providers may report.
LEMMA SameNotices == P!Notices = M!Notices
BY DEF P!Notices, M!Notices, P!NoticesOf, M!NoticesOf, P!Transfers, M!Transfers, P!Verdict,
       M!Verdict, P!MaxSends, M!MaxSends

\* The update of a notice.
LEMMA SameNotify ==
  ASSUME NEW notice, NEW override
  PROVE  P!Notify(notice, override) <=> M!Notify(notice, override)
BY SameCardinality
DEF P!Notify, M!Notify, P!Update, M!Update, P!Hits, M!Hits, P!Named, M!Named, P!Open, M!Open,
    P!Applied, M!Applied, P!Unlocked, M!Unlocked, P!Terminal, M!Terminal

\* The steps of requests, providers and operators.
LEMMA SameOthers ==
  /\ \A p : P!Create(p) = M!Create(p) /\ P!ConfirmByHand(p) = M!ConfirmByHand(p)
  /\ \A p, n, o : P!Settle(p, n, o) = M!Settle(p, n, o)
  /\ \A a, p : P!RetryRead(a, p) = M!RetryRead(a, p) /\ P!RetryWrite(a, p) = M!RetryWrite(a, p)
  /\ \A a : P!RetryLost(a) = M!RetryLost(a)
BY DEF P!Create, M!Create, P!ConfirmByHand, M!ConfirmByHand, P!Settle, M!Settle, P!RetryRead,
       M!RetryRead, P!RetryWrite, M!RetryWrite, P!RetryLost, M!RetryLost, P!Unlocked, M!Unlocked

\* So each step of one instance is one of the other.
LEMMA SameNext == P!Next <=> M!Next
<1>0. \A notice, override : P!Notify(notice, override) <=> M!Notify(notice, override)
  BY SameNotify
<1>1. P!Webhook <=> M!Webhook
  BY <1>0, SameNotices, Zenon DEF P!Webhook, M!Webhook
<1>2. P!AdminStep <=> M!AdminStep
  <2>1. P!Replay <=> M!Replay
    BY <1>0, SameNotices, Zenon DEF P!Replay, M!Replay
  <2> QED
    BY <2>1, SameOthers DEF P!AdminStep, M!AdminStep
<1> QED
  BY <1>1, <1>2, SameSends, SameHandle, SameTransactions, SameOthers DEF P!Next, M!Next

\* So the composition is one of the payouts, as their proofs mean it.
LEMMA PayoutsInside == CashSpec => M!Spec
<1>1. P!Init => M!Init
  BY SameInit
<1>2. [P!Next]_P!vars => [M!Next]_M!vars
  BY SameNext DEF P!vars, M!vars
<1> QED
  BY <1>1, <1>2, PayoutsApart, PTL DEF PayoutsUndisturbed, P!Spec, M!Spec

\* No two cash-outs of different keys bring one reference.  (A client that sends
\* a cash-out again may bring its reference again; nothing in the code keeps
\* different ones apart, so that they are is an assumption.)
ReferencesByKey ==
  /\ M!OwnIds
  /\ \A p, q \in Posts :
       ExternalRef[p] # None /\ ExternalRef[p] = ExternalRef[q] => Key(p) = Key(q)

\* What holds of the payouts whatever references the cash-outs bring, and what
\* holds if they bring different ones.
SoundPayouts == M!IInv /\ M!RefInv

\* The payouts keep their invariant while cash-outs are sent again: types,
\* exclusive claims, attempts within the limit, submissions accounted for, and
\* a reference to poll by.
THEOREM PayoutsStaySound ==
  CashSpec => [](P!TypeOK /\ P!ClaimsAreExclusive /\ P!AttemptsWithinLimit
                 /\ P!UncountedSendsAreFaults /\ P!SentHasReference)
<1>1. M!Spec => []M!TypeOK /\ []M!ClaimsAreExclusive /\ []M!AttemptsWithinLimit
                /\ []M!UncountedSendsAreFaults /\ []M!SentHasReference
  BY PayoutsFitM, M!TypeCorrect, M!ExclusiveClaims, M!BoundedAttempts, M!AccountedSubmissions,
     M!SentKeepsReference, PTL
<1>2. M!TypeOK => P!TypeOK
  BY SameTypes
<1>3. M!ClaimsAreExclusive => P!ClaimsAreExclusive
  BY DEF M!ClaimsAreExclusive, P!ClaimsAreExclusive
<1>4. M!AttemptsWithinLimit => P!AttemptsWithinLimit
  BY DEF M!AttemptsWithinLimit, P!AttemptsWithinLimit, M!Visible, P!Visible
<1>5. M!UncountedSendsAreFaults => P!UncountedSendsAreFaults
  BY DEF M!UncountedSendsAreFaults, P!UncountedSendsAreFaults, M!Visible, P!Visible
<1>6. M!SentHasReference => P!SentHasReference
  BY DEF M!SentHasReference, P!SentHasReference
<1> QED
  BY <1>1, <1>2, <1>3, <1>4, <1>5, <1>6, PayoutsInside, PTL

\* What is proved of the payouts whatever references they bring.
LEMMA SoundHolds == CashSpec => []SoundPayouts
<1>1. M!Spec => []M!IInv
  BY PayoutsFitM, M!Accounting
<1>2. M!Spec => []M!RefInv
  BY PayoutsFitM, M!RefInvHolds
<1>3. SoundPayouts <=> M!IInv /\ M!RefInv
  BY DEF SoundPayouts
<1> QED
  BY <1>1, <1>2, <1>3, PayoutsInside, PTL

\* A key posts one transaction, so no two rows that are there share a reference.
LEMMA UnmixedHolds ==
  ASSUME ReferencesByKey
  PROVE  CashSpec => []M!Unmixed
<1>1. IInv /\ CInv => M!Unmixed
  BY DEF ReferencesByKey, M!Unmixed, IInv, OneTransactionPerKey, CInv, PaidIsPosted
<1> QED
  BY <1>1, LedgerHolds, PayoutsFollowPosts, PTL

\* What is proved of them if no two rows share a reference.
LEMMA TruthHolds ==
  ASSUME ReferencesByKey
  PROVE  CashSpec => []M!PaidInv
<1>1. M!Spec /\ []M!Unmixed => []M!PaidInv
  BY PayoutsFitM, M!PaidInvStays
<1> QED
  BY <1>1, UnmixedHolds, PayoutsInside, PTL

\* Nobody is told CONFIRMED before the provider has paid, but by an operator's
\* hand, however often cash-outs are sent again.
THEOREM ConfirmedIsPaid ==
  ASSUME ReferencesByKey
  PROVE  CashSpec => P!ConfirmedOnlyIfPaid
<1>1. M!Spec /\ []M!Unmixed => M!ConfirmedOnlyIfPaid
  BY PayoutsFitM, M!ConfirmedPaid
<1>2. M!ConfirmedOnlyIfPaid => P!ConfirmedOnlyIfPaid
  <2> DEFINE PTruth == \A p \in Posts :
               row[p].status # "CONFIRMED" /\ row'[p].status = "CONFIRMED" /\ P!Unshared(p) =>
                 P!ConfirmByHand(p) \/ \E n \in 1 .. P!MaxSends : xfer[p][n].state = "paid"
             MTruth == \A p \in Posts :
               row[p].status # "CONFIRMED" /\ row'[p].status = "CONFIRMED" /\ M!Unshared(p) =>
                 M!ConfirmByHand(p) \/ \E n \in 1 .. M!MaxSends : xfer[p][n].state = "paid"
  <2>1. [MTruth]_M!vars => [PTruth]_P!vars
    BY SameOthers, SameSends DEF M!vars, P!vars, M!Unshared, P!Unshared
  <2> QED
    BY <2>1, PTL DEF M!ConfirmedOnlyIfPaid, P!ConfirmedOnlyIfPaid
<1> QED
  BY <1>1, <1>2, UnmixedHolds, PayoutsInside, PTL

\* And whatever references the cash-outs bring, one that is told CONFIRMED goes
\* by a reference under which a provider has paid.
THEOREM ConfirmedIsNamed ==
  ASSUME M!NoneIsNoId
  PROVE  CashSpec => P!ConfirmedNamesAPayment
<1> DEFINE PSays == \A p \in Posts :
             row[p].status # "CONFIRMED" /\ row'[p].status = "CONFIRMED" =>
               P!ConfirmByHand(p) \/ P!PaidUnder({row'[p].ref, ExternalRef[p]} \ {None})
           MSays == \A p \in Posts :
             row[p].status # "CONFIRMED" /\ row'[p].status = "CONFIRMED" =>
               M!ConfirmByHand(p) \/ M!PaidUnder({row'[p].ref, ExternalRef[p]} \ {None})
<1>1. M!Spec => M!ConfirmedNamesAPayment
  BY PayoutsFitM, M!ConfirmedNamesPayment
<1>2. \A refs : M!PaidUnder(refs) => P!PaidUnder(refs)
  BY SameSends DEF M!PaidUnder, P!PaidUnder, M!Transfers, P!Transfers
<1>3. [MSays]_M!vars => [PSays]_P!vars
  BY <1>2, SameOthers DEF M!vars, P!vars
<1>4. M!ConfirmedNamesAPayment => P!ConfirmedNamesAPayment
  BY <1>3, PTL DEF M!ConfirmedNamesAPayment, P!ConfirmedNamesAPayment
<1> QED
  BY <1>1, <1>4, PayoutsInside, PTL

\* A customer is kept the promise of PayoutLifecycle from the request to the
\* provider's last word, however often the cash-out is sent again and whatever
\* the workers and webhooks do beside it: the same operators, for a cash-out
\* whose reference is its own and a provider that recognises it, and none of
\* the endpoints of operators in use.
THEOREM CashOutsKeepPromise ==
  ASSUME ReferencesByKey, M!PromiseAssumption
  PROVE  CashSpec => P!KeepsPromise
<1> DEFINE PSeen == [p \in Posts |-> [told |-> P!Told(p), money |-> P!Money(p)]]
           MSeen == [p \in Posts |-> [told |-> M!Told(p), money |-> M!Money(p)]]
<1>1. M!Spec /\ []M!Unmixed => M!KeepsPromise
  BY PayoutsFitM, M!PromiseStays
<1>2. PSeen = MSeen /\ PSeen' = MSeen'
  BY SameSends DEF P!Told, M!Told, P!Money, M!Money
<1>3. M!Promise!Init => P!Promise!Init
  BY <1>2 DEF M!Promise!Init, P!Promise!Init
<1>4. [M!Promise!Next]_MSeen => [P!Promise!Next]_PSeen
  <2>1. /\ M!Promise!State = P!Promise!State
        /\ \A s, t : M!Promise!Step(s, t) <=> P!Promise!Step(s, t)
    BY DEF M!Promise!State, P!Promise!State, M!Promise!Step, P!Promise!Step, M!Promise!Opens,
           P!Promise!Opens, M!Promise!Leaves, P!Promise!Leaves, M!Promise!Settles,
           P!Promise!Settles, M!Promise!Confirms, P!Promise!Confirms, M!Promise!Fails,
           P!Promise!Fails
  <2>2. M!Promise!Next => /\ MSeen' \in [Posts -> M!Promise!State]
                          /\ \A p \in Posts : \/ MSeen'[p] = MSeen[p]
                                               \/ M!Promise!Step(MSeen[p], MSeen'[p])
    BY DEF M!Promise!Next
  <2>3. /\ PSeen' \in [Posts -> P!Promise!State]
        /\ \A p \in Posts : PSeen'[p] = PSeen[p] \/ P!Promise!Step(PSeen[p], PSeen'[p])
        => P!Promise!Next
    BY DEF P!Promise!Next
  <2> HIDE DEF PSeen, MSeen
  <2> QED
    BY <1>2, <2>1, <2>2, <2>3
<1>5. M!KeepsPromise => P!KeepsPromise
  BY <1>3, <1>4, PTL DEF M!KeepsPromise, P!KeepsPromise, M!Promise!Spec, P!Promise!Spec
<1> QED
  BY <1>1, <1>5, UnmixedHolds, PayoutsInside, PTL

-----------------------------------------------------------------------------
(* The audits.                                                              *)

\* They only read.
LEMMA StepsOfCashOuts == [AuditNext]_<<allVars, auditVars>> => [CashNext]_allVars
BY DEF AuditNext, AuditStep, ReadStale, AskProvider, ReadConfirmed, ReadPresence, ReadLedger,
       StoreReport, LoseReport, SumEntries, CompareBalance

\* The system is the same with the audits beside it (services/reconcile.py and
\* services/ledger_invariants.py write nothing it reads), so what is proved of
\* it holds while they run.
THEOREM AuditsOnlyRead == AuditSpec => CashSpec
<1>1. AuditInit => CashInit
  BY DEF AuditInit
<1> QED
  BY <1>1, StepsOfCashOuts, PTL DEF AuditSpec, CashSpec

\* The invariants of the system hold while the audits run.
LEMMA AuditsSound == AuditSpec => [](IInv /\ CInv /\ SoundPayouts /\ BInv)
<1>1. CashSpec => []BInv
  BY CashOutsArePayments, PaymentsUseLedger, BooksAreKept, PTL
<1> QED
  BY <1>1, AuditsOnlyRead, LedgerHolds, PayoutsFollowPosts, SoundHolds, PTL

\* The wallet check has summed committed entries of a wallet.
CheckInv ==
  /\ check \in [at : {"rest", "sum", "done"}, wallet : Wallets \cup {None},
                seen : SUBSET Calls, late : SUBSET Calls, diff : Int]
  /\ check.at = "sum" => check.wallet \in Wallets /\ check.seen \subseteq txns
  /\ DifferencesAreInFlight

\* The balance of a wallet is what the entries summed before and those posted
\* since make it.
LEMMA SumsDiffer ==
  ASSUME IInv, BInv, NEW w \in Wallets, NEW S \in SUBSET txns
  PROVE  /\ balance[w] - SumOf(S, w) = SumFunctionOnSet(EntriesTo(w), txns \ S)
         /\ balance[w] - SumOf(S, w) \in Int
<1> DEFINE Sum(T) == SumFunctionOnSet(EntriesTo(w), T)
<1>1. \A t \in txns : EntriesTo(w)[t] \in Int
  BY LedgerAssumption, EntriesType DEF EntriesTo, IInv, LedgerTypeOK
<1>2. IsFiniteSet(txns) /\ IsFiniteSet(S) /\ IsFiniteSet(txns \ S)
  BY FS_Subset DEF BInv
<1>3. Sum(txns) = Sum(S) + Sum(txns \ S)
  BY <1>1, <1>2, SumSplit
<1>4. Sum(S) \in Int /\ Sum(txns \ S) \in Int
  BY <1>1, <1>2, SumType
<1>5. balance[w] = Opening[w] + Sum(txns) /\ SumOf(S, w) = Opening[w] + Sum(S)
  BY DEF BInv, BalancesMatchEntries, Accounts, Opened, SumOf
<1>6. Opening[w] \in Int
  BY LedgerAssumption DEF LedgerAssumption
<1> HIDE DEF Sum
<1>7. balance[w] - SumOf(S, w) = Sum(txns \ S)
  BY <1>3, <1>4, <1>5, <1>6
<1> QED
  BY <1>4, <1>7 DEF Sum

\* Every step keeps what the wallet check knows.
LEMMA NextCheckInv == IInv /\ BInv /\ CheckInv /\ [AuditNext]_<<allVars, auditVars>> => CheckInv'
<1> SUFFICES ASSUME IInv, BInv, CheckInv, [AuditNext]_<<allVars, auditVars>> PROVE CheckInv'
  OBVIOUS
<1>1. txns \subseteq txns' /\ txns \subseteq Calls
  <2>1. [Next]_ledgerVars
    BY StepsOfCashOuts, StepsOfPayments, StepsOfLedger DEF vars
  <2> QED
    BY <2>1, PostedStays DEF IInv, LedgerTypeOK
<1>2. CASE UNCHANGED check
  BY <1>1, <1>2 DEF CheckInv, DifferencesAreInFlight, EntriesTo, EntriesOf
<1>3. ASSUME NEW w \in Wallets, SumEntries(w) PROVE CheckInv'
  BY <1>1, <1>3 DEF SumEntries, CheckInv, DifferencesAreInFlight, allVars, vars, ledgerVars
<1>4. CASE CompareBalance
  <2> DEFINE w == check.wallet
             diff == balance[w] - SumOf(check.seen, w)
  <2>1. w \in Wallets /\ check.seen \in SUBSET txns
    BY <1>4 DEF CompareBalance, CheckInv
  <2>2. diff = SumFunctionOnSet(EntriesTo(w), txns \ check.seen) /\ diff \in Int
    BY <2>1, SumsDiffer
  <2> HIDE DEF diff
  <2>3. check' = [check EXCEPT !.at = "done", !.late = txns \ check.seen, !.seen = {}, !.diff = diff]
    BY <1>4 DEF CompareBalance, diff
  <2>4. /\ check'.at = "done" /\ check'.wallet = w /\ check'.diff = diff
        /\ check'.late = txns \ check.seen
        /\ check' \in [at : {"rest", "sum", "done"}, wallet : Wallets \cup {None},
                       seen : SUBSET Calls, late : SUBSET Calls, diff : Int]
    BY <1>1, <2>2, <2>3 DEF CheckInv
  <2> HIDE DEF w
  <2>5. DifferencesAreInFlight'
    BY <2>2, <2>4 DEF DifferencesAreInFlight, EntriesTo, EntriesOf
  <2> QED
    BY <2>4, <2>5 DEF CheckInv
<1> QED
  BY <1>2, <1>3, <1>4
  DEF AuditNext, AuditStep, ReadStale, AskProvider, ReadConfirmed, ReadPresence, ReadLedger,
      StoreReport, LoseReport, auditVars

\* So it knows it always.
LEMMA CheckHolds == AuditSpec => []CheckInv
<1>1. AuditInit => CheckInv
  BY DEF AuditInit, NoCheck, CheckInv, DifferencesAreInFlight
<1> QED
  BY <1>1, NextCheckInv, AuditsSound, PTL DEF AuditSpec

\* What the wallet check reports is what was posted between its two reads
\* (_check_wallet_balance), for any number of postings and wallets: a wallet
\* that rests shows no difference.
THEOREM ChecksAreExact == AuditSpec => []DifferencesAreInFlight
<1>1. CheckInv => DifferencesAreInFlight
  BY DEF CheckInv
<1> QED
  BY <1>1, CheckHolds, PTL

\* Reconcile holds rows as it read them, then confirmed payouts.
AuditTypes ==
  /\ audit \in [at : {"rest", "ask", "presence", "ledger", "store", "report"},
                mode : Modes \cup {None}, rows : SUBSET (Asked \cup Posts), items : SUBSET Items]
  /\ audit.at = "ask" => audit.rows \subseteq Asked
  /\ audit.at # "ask" => audit.rows \subseteq Posts

\* What reconcile found differing is an item of a report.
LEMMA MismatchIsItem ==
  ASSUME NEW s \in Asked, NEW verdict \in Verdicts
  PROVE  Mismatch(s, verdict) \in Items
<1>1. Mismatch(s, verdict) = Mismatch([txn |-> s.txn, status |-> s.status], verdict)
  BY DEF Mismatch
<1>2. s.txn \in Posts /\ s.status \in {"PENDING", "SENT"}
  BY DEF Asked
<1> QED
  BY <1>1, <1>2 DEF Items

\* What each step of reconcile does to its run.
LEMMA AuditSteps ==
  ASSUME AuditTypes, SoundPayouts, [AuditNext]_<<allVars, auditVars>>
  PROVE  \/ audit' = audit
         \/ audit' = Resting
         \/ /\ audit'.at = "ask" /\ audit'.items = {} /\ UNCHANGED <<allVars, check>>
            /\ audit'.rows \subseteq {Snapshot(t) : t \in {t \in Posts : row[t].status \in {"PENDING", "SENT"}}}
            /\ audit' \in [at : {"ask"}, mode : Modes, rows : SUBSET Asked, items : {{}}]
         \/ /\ audit.at = "ask" /\ UNCHANGED <<allVars, check>>
            /\ \E s \in audit.rows, verdict \in Verdicts :
                 /\ verdict \in Says(s)
                 /\ audit' = [audit EXCEPT !.rows = @ \ {s},
                                           !.items = IF Differs(s, verdict)
                                                     THEN @ \cup {Mismatch(s, verdict)} ELSE @]
         \/ /\ audit.at = "ask" /\ audit.rows = {} /\ UNCHANGED <<allVars, check>>
            /\ \E S \in SUBSET {t \in Posts : row[t].status = "CONFIRMED"} :
                 audit' = [audit EXCEPT !.at = "presence", !.rows = S]
         \/ ReadPresence \/ ReadLedger \/ StoreReport
<1>1. CASE ReadStale
  <2>1. PICK S \in SUBSET {t \in Posts : row[t].status \in {"PENDING", "SENT"}}, mode \in Modes :
          audit' = [at |-> "ask", mode |-> mode, rows |-> {Snapshot(t) : t \in S}, items |-> {}]
    BY <1>1 DEF ReadStale
  <2>2. \A t \in S : Snapshot(t) \in Asked
    <3>1. \A t \in Posts : row[t].ref \in P!Refs
      BY SameSends DEF SoundPayouts, M!IInv, M!TypeOK, M!Row
    <3> QED
      BY <3>1 DEF Snapshot, Asked
  <2> QED
    BY <1>1, <2>1, <2>2 DEF ReadStale
<1>2. CASE AskProvider
  BY <1>2 DEF AskProvider
<1>3. CASE ReadConfirmed
  BY <1>3 DEF ReadConfirmed
<1>4. CASE LoseReport
  BY <1>4 DEF LoseReport
<1>5. CASE UNCHANGED audit
  BY <1>5
<1> QED
  BY <1>1, <1>2, <1>3, <1>4, <1>5
  DEF AuditNext, AuditStep, SumEntries, CompareBalance, auditVars

\* Every step keeps the types of a run of reconcile.
LEMMA NextAuditTypes ==
  ASSUME IInv, SoundPayouts, AuditTypes, [AuditNext]_<<allVars, auditVars>>
  PROVE  AuditTypes'
<1>1. CASE audit' = audit
  BY <1>1 DEF AuditTypes, Asked
<1>2. CASE audit' = Resting
  BY <1>2 DEF AuditTypes, Asked, Resting
<1>3. CASE audit' \in [at : {"ask"}, mode : Modes, rows : SUBSET Asked, items : {{}}]
  BY <1>3 DEF AuditTypes
<1>4. ASSUME audit.at = "ask", NEW s \in audit.rows, NEW verdict \in Verdicts,
             audit' = [audit EXCEPT !.rows = @ \ {s},
                                    !.items = IF Differs(s, verdict)
                                              THEN @ \cup {Mismatch(s, verdict)} ELSE @]
      PROVE  AuditTypes'
  <2>1. Mismatch(s, verdict) \in Items
    BY <1>4, MismatchIsItem DEF AuditTypes
  <2> DEFINE item == Mismatch(s, verdict)
             items == IF Differs(s, verdict) THEN audit.items \cup {item} ELSE audit.items
  <2>2. items \in SUBSET Items
    BY <2>1 DEF AuditTypes
  <2>3. audit' = [audit EXCEPT !.rows = audit.rows \ {s}, !.items = items]
    BY <1>4
  <2> HIDE DEF items, item
  <2> QED
    BY <1>4, <2>2, <2>3 DEF AuditTypes
<1>5. ASSUME NEW S \in SUBSET Posts, audit' = [audit EXCEPT !.at = "presence", !.rows = S]
      PROVE  AuditTypes'
  BY <1>5 DEF AuditTypes
<1>6. CASE ReadPresence
  <2> DEFINE missing == {MissingLedger(t) : t \in audit.rows \ txns}
  <2>1. audit.at = "presence" /\ audit' = [audit EXCEPT !.at = "ledger", !.rows = {},
                                                        !.items = @ \cup missing]
    BY <1>6 DEF ReadPresence
  <2>2. missing \subseteq Items
    BY <2>1 DEF AuditTypes, Items
  <2> HIDE DEF missing
  <2> QED
    BY <2>1, <2>2 DEF AuditTypes
<1>7. CASE ReadLedger
  <2> DEFINE missing == {MissingPayout(t) : t \in {t \in txns : CashOutLike(Op(t)) /\ row[t].status = "ABSENT"}}
  <2>1. audit.at = "ledger" /\ audit' = [audit EXCEPT !.at = "store", !.items = @ \cup missing]
    BY <1>7 DEF ReadLedger
  <2>2. missing \subseteq Items
    BY DEF IInv, LedgerTypeOK, Items
  <2> HIDE DEF missing
  <2> QED
    BY <2>1, <2>2 DEF AuditTypes
<1>8. CASE StoreReport
  BY <1>8 DEF StoreReport, AuditTypes
<1> QED
  BY <1>1, <1>2, <1>3, <1>4, <1>5, <1>6, <1>7, <1>8, AuditSteps

\* So it has them always.
LEMMA AuditTypesHold == AuditSpec => []AuditTypes
<1>1. AuditInit => AuditTypes
  BY DEF AuditInit, Resting, AuditTypes
<1>2. IInv /\ SoundPayouts /\ AuditTypes /\ [AuditNext]_<<allVars, auditVars>> => AuditTypes'
  BY NextAuditTypes
<1> QED
  BY <1>1, <1>2, AuditsSound, PTL DEF AuditSpec

\* Every variable of the whole system keeps its type: the endpoints', the
\* payouts' and the audits'.
THEOREM AuditsTypes == AuditSpec => []AuditsTypeOK
<1>1. CashSpec => []PaymentsTypeOK
  BY CashOutsArePayments, PaymentsTypes, PTL
<1>2. CheckInv /\ AuditTypes /\ SoundPayouts /\ PaymentsTypeOK => AuditsTypeOK
  BY SameTypes DEF CheckInv, AuditTypes, SoundPayouts, M!IInv, AuditsTypeOK
<1> QED
  BY <1>1, <1>2, AuditsOnlyRead, CheckHolds, AuditTypesHold, AuditsSound, PTL

-----------------------------------------------------------------------------
(* What a report says.                                                      *)

\* The rows under query are as they were read, of posted cash-outs, and go by
\* references of their payouts; what is looked up in the ledger was posted.
RowsKnown ==
  /\ audit.at = "ask" =>
       \A s \in audit.rows :
         /\ s.txn \in txns /\ row[s.txn].status # "ABSENT" /\ s.ref \in M!Own(s.txn)
  /\ audit.at = "presence" => audit.rows \subseteq txns

ReportInv == RowsKnown /\ ReportsAreTrue

\* What an adapter tells reconcile of a row it has read is true.
LEMMA ToldTruth ==
  ASSUME M!Unmixed, SoundPayouts, M!PaidInv,
         NEW s \in Asked, AsksAdapter(s.txn), row[s.txn].status # "ABSENT", s.ref \in M!Own(s.txn),
         NEW verdict \in Says(s)
  PROVE  /\ verdict = "CONFIRMED" => \E n \in 1 .. P!MaxSends : xfer[s.txn][n].state = "paid"
         /\ verdict = "FAILED" /\ Kind[s.txn] \notin MistakesErrors =>
              \E n \in 1 .. P!MaxSends : xfer[s.txn][n].state = "rejected"
<1>1. s.txn \in Posts /\ Kind[s.txn] # "OTHER"
  BY DEF Asked, AsksAdapter
<1>2. verdict \in M!PollAnswers(s.txn, s.ref) \cup {"SENT"}
  BY <1>1, SamePolls DEF Says
<1>3. /\ "CONFIRMED" \in M!PollAnswers(s.txn, s.ref) => M!Paid(s.txn)
      /\ "FAILED" \in M!PollAnswers(s.txn, s.ref) /\ Kind[s.txn] \notin MistakesErrors =>
           \E n \in 1 .. M!MaxSends : xfer[s.txn][n].state = "rejected"
  BY <1>1, PayoutsFitM, M!PollTruth DEF SoundPayouts, MistakesErrors
<1> QED
  BY <1>2, <1>3, SameSends DEF M!Paid

\* What is posted stays posted, rows stay, and transfers stay as they ended.
LEMMA TruthStays ==
  ASSUME IInv, SoundPayouts, M!PaidInv, [AuditNext]_<<allVars, auditVars>>, NEW p \in Posts
  PROVE  /\ txns \subseteq txns'
         /\ row[p].status # "ABSENT" => row'[p].status # "ABSENT"
         /\ \A n \in 1 .. P!MaxSends : xfer[p][n].state \in {"paid", "rejected"} =>
              xfer'[p][n].state = xfer[p][n].state
<1>1. txns \subseteq txns'
  <2>1. [Next]_ledgerVars
    BY StepsOfCashOuts, StepsOfPayments, StepsOfLedger DEF vars
  <2> QED
    BY <2>1, PostedStays
<1>2. [M!Next]_M!vars
  <2>1. [P!Next]_P!vars
    BY StepsOfCashOuts, StepsOfPayouts
  <2> QED
    BY <2>1, SameNext DEF P!vars, M!vars
<1>3. row[p].status # "ABSENT" => row'[p].status # "ABSENT"
  BY <1>2, PayoutsFitM, M!RowsStay DEF SoundPayouts
<1>4. \A n \in 1 .. M!MaxSends : xfer[p][n].state \in {"paid", "rejected"} =>
        xfer'[p][n].state = xfer[p][n].state
  BY <1>2, PayoutsFitM, M!EndStays DEF SoundPayouts, M!PaidInv
<1> QED
  BY <1>1, <1>3, <1>4, SameSends

\* One item of a report.
TrueItem(i) ==
  /\ i.kind # "confirmed_missing_ledger"
  /\ i.kind = "status_mismatch" =>
       /\ i.txn \in txns
       /\ i.now = "SENT" => i.was = "PENDING"
       /\ AsksAdapter(i.txn) /\ i.now = "CONFIRMED" =>
            \E n \in 1 .. P!MaxSends : xfer[i.txn][n].state = "paid"
       /\ AsksAdapter(i.txn) /\ i.now = "FAILED" /\ Kind[i.txn] \notin MistakesErrors =>
            \E n \in 1 .. P!MaxSends : xfer[i.txn][n].state = "rejected"

\* A true item stays true while the run that found it goes on, and the system.
LEMMA ItemStays ==
  ASSUME audit'.mode = audit.mode, IInv, SoundPayouts, M!PaidInv, [AuditNext]_<<allVars, auditVars>>,
         NEW i \in Items, TrueItem(i)
  PROVE  TrueItem(i)'
<1>1. CASE i.kind = "status_mismatch"
  <2>1. i.txn \in Posts
    BY <1>1 DEF Items, Mismatch, MissingLedger, MissingPayout
  <2> QED
    BY <1>1, <2>1, TruthStays DEF TrueItem, AsksAdapter
<1>2. CASE i.kind # "status_mismatch"
  BY <1>2 DEF TrueItem
<1> QED
  BY <1>1, <1>2

\* Every step keeps what a run of reconcile knows, and its report true.
LEMMA NextReportInv ==
  ASSUME IInv, CInv, SoundPayouts, M!Unmixed, M!PaidInv, AuditTypes,
         ReportInv, [AuditNext]_<<allVars, auditVars>>
  PROVE  ReportInv'
<1>0. audit'.mode = audit.mode => \A i \in audit.items : TrueItem(i)'
  BY ItemStays DEF AuditTypes, ReportInv, ReportsAreTrue, TrueItem
<1>1. \A p \in Posts : /\ txns \subseteq txns'
                       /\ row[p].status # "ABSENT" => row'[p].status # "ABSENT"
  BY TruthStays
<1>2. txns \subseteq txns'
  <2>1. [Next]_ledgerVars
    BY StepsOfCashOuts, StepsOfPayments, StepsOfLedger DEF vars
  <2> QED
    BY <2>1, PostedStays
<1>3. ASSUME \A i \in audit'.items : TrueItem(i)' PROVE ReportsAreTrue'
  BY <1>3 DEF ReportsAreTrue, TrueItem
<1>4. ASSUME audit'.at = audit.at, audit'.rows \subseteq audit.rows PROVE RowsKnown'
  <2>1. audit.at = "ask" => audit.rows \subseteq Asked
    BY DEF AuditTypes
  <2> QED
    BY <1>1, <1>2, <1>4, <2>1 DEF ReportInv, RowsKnown, Asked, M!Own
<1>5. CASE audit' = audit
  BY <1>0, <1>3, <1>4, <1>5 DEF ReportInv
<1>6. CASE audit' = Resting
  BY <1>3, <1>6 DEF Resting, ReportInv, RowsKnown
<1>7. ASSUME audit'.at = "ask", audit'.items = {}, UNCHANGED <<allVars, check>>,
             audit'.rows \subseteq {Snapshot(t) : t \in {t \in Posts : row[t].status \in {"PENDING", "SENT"}}}
      PROVE  ReportInv'
  <2>1. \A t \in Posts : row[t].status \in {"PENDING", "SENT"} =>
          /\ t \in txns /\ Snapshot(t).txn = t /\ row[t].status # "ABSENT"
          /\ Snapshot(t).ref \in M!Own(t)
    BY DEF CInv, PaidIsPosted, Snapshot, M!PaidInv, M!OwnReferences
  <2>2. UNCHANGED <<txns, row>>
    BY <1>7 DEF allVars, vars, ledgerVars, payoutVars
  <2>3. RowsKnown'
    BY <1>7, <2>1, <2>2 DEF RowsKnown, M!Own
  <2> QED
    BY <1>3, <1>7, <2>3 DEF ReportInv
<1>8. ASSUME audit.at = "ask", UNCHANGED <<allVars, check>>,
             NEW s \in audit.rows, NEW verdict \in Verdicts, verdict \in Says(s),
             audit' = [audit EXCEPT !.rows = @ \ {s},
                                    !.items = IF Differs(s, verdict)
                                              THEN @ \cup {Mismatch(s, verdict)} ELSE @]
      PROVE  ReportInv'
  <2> DEFINE item == Mismatch(s, verdict)
  <2>1. /\ s \in Asked /\ s.txn \in txns /\ row[s.txn].status # "ABSENT" /\ s.ref \in M!Own(s.txn)
    BY <1>8 DEF AuditTypes, ReportInv, RowsKnown
  <2>2. /\ item.kind = "status_mismatch" /\ item.txn = s.txn /\ item.now = verdict
        /\ item.was = s.status /\ s.status \in {"PENDING", "SENT"}
    BY <2>1 DEF Mismatch, Asked
  <2>3. Differs(s, verdict) => TrueItem(item)
    <3>1. verdict = "SENT" /\ Differs(s, verdict) => s.status = "PENDING"
      BY <2>2 DEF Differs
    <3> QED
      BY <1>8, <2>1, <2>2, <3>1, ToldTruth DEF TrueItem
  <2> HIDE DEF item
  <2>5. /\ audit'.at = audit.at /\ audit'.mode = audit.mode /\ audit'.rows \subseteq audit.rows
        /\ audit'.items \subseteq audit.items \cup (IF Differs(s, verdict) THEN {item} ELSE {})
    BY <1>8 DEF AuditTypes, item
  <2>4. Differs(s, verdict) => TrueItem(item)'
    BY <1>8, <2>3, <2>5 DEF TrueItem, AsksAdapter, allVars, vars, ledgerVars, payoutVars
  <2> QED
    BY <1>0, <1>3, <1>4, <2>4, <2>5 DEF ReportInv
<1>9. ASSUME UNCHANGED <<allVars, check>>, NEW S \in SUBSET {t \in Posts : row[t].status = "CONFIRMED"},
             audit' = [audit EXCEPT !.at = "presence", !.rows = S]
      PROVE  ReportInv'
  <2>1. S \subseteq txns
    BY DEF CInv, PaidIsPosted
  <2>2. /\ audit'.at = "presence" /\ audit'.mode = audit.mode
        /\ audit'.rows = S /\ audit'.items = audit.items
    BY <1>9 DEF AuditTypes
  <2> QED
    BY <1>0, <1>2, <1>3, <2>1, <2>2 DEF ReportInv, RowsKnown
<1>10. CASE ReadPresence
  <2>1. audit.rows \ txns = {}
    BY <1>10 DEF ReadPresence, ReportInv, RowsKnown
  <2>2. audit'.at = "ledger" /\ audit'.mode = audit.mode /\ audit'.items = audit.items
    BY <1>10, <2>1 DEF ReadPresence, AuditTypes
  <2> QED
    BY <1>0, <1>3, <2>2 DEF ReportInv, RowsKnown
<1>11. CASE ReadLedger
  <2> DEFINE missing == {t \in txns : CashOutLike(Op(t)) /\ row[t].status = "ABSENT"}
  <2>1. /\ audit'.at = "store" /\ audit'.mode = audit.mode
        /\ audit'.items = audit.items \cup {MissingPayout(t) : t \in missing}
    BY <1>11 DEF ReadLedger, AuditTypes
  <2>2. \A t : TrueItem(MissingPayout(t))'
    BY DEF TrueItem, MissingPayout
  <2> HIDE DEF missing
  <2> QED
    BY <1>0, <1>3, <2>1, <2>2 DEF ReportInv, RowsKnown
<1>12. CASE StoreReport
  <2>1. audit'.at = "report" /\ audit'.mode = audit.mode /\ audit'.items = audit.items
    BY <1>12 DEF StoreReport, AuditTypes
  <2> QED
    BY <1>0, <1>3, <2>1 DEF ReportInv, RowsKnown
<1> QED
  BY <1>5, <1>6, <1>7, <1>8, <1>9, <1>10, <1>11, <1>12, AuditSteps

\* A report says what is so (run_reconcile), although the system goes on while
\* it is written: a mismatch is of a posted cash-out, where an adapter was asked
\* the provider really paid it or, unless the adapter mistakes errors, rejected
\* it, and no confirmed payout is said to miss its entries.  It rests on
\* references that belong to one payout each: a status query by a reference that
\* two payouts share could answer of the other.
THEOREM ReportsHold ==
  ASSUME ReferencesByKey
  PROVE  AuditSpec => []ReportsAreTrue
<1>1. AuditInit => ReportInv
  BY DEF AuditInit, Resting, ReportInv, RowsKnown, ReportsAreTrue
<1>2. IInv /\ CInv /\ SoundPayouts /\ M!Unmixed /\ M!PaidInv /\ AuditTypes /\ ReportInv
      /\ [AuditNext]_<<allVars, auditVars>> => ReportInv'
  BY NextReportInv
<1>3. ReportInv => ReportsAreTrue
  BY DEF ReportInv
<1>4. CashSpec => []M!Unmixed /\ []M!PaidInv
  BY UnmixedHolds, TruthHolds, PTL
<1> QED
  BY <1>1, <1>2, <1>3, <1>4, AuditsOnlyRead, AuditsSound, AuditTypesHold, PTL DEF AuditSpec

-----------------------------------------------------------------------------
(* Where a cash-out may go.  A quote is kept while the operator changes the  *)
(* settings, so the invariant says of the client's quote what it said when   *)
(* it was made.                                                              *)

\* The settings by the names the tables use.
Names(settings) == {Canonical(p) : p \in settings}

\* The quote a client holds is that of its country under the settings it names.
QuoteInv ==
  /\ enabled \subseteq Configurable
  /\ quote # NoQuote =>
       /\ quote.country \in CountryCodes
       /\ quote.available = Destination(quote.country).available
       /\ quote.under \subseteq Configurable
       /\ quote.providers = Ordered(quote.country, Names(quote.under))

\* Quotes are copies: no later setting changes one.
LEMMA QuoteInvHolds == RouteSpec => []QuoteInv
<1>1. RouteInit => QuoteInv
  BY DEF RouteInit, QuoteInv
<1>2. ASSUME QuoteInv, [RouteNext]_<<enabled, quote>> PROVE QuoteInv'
  <2>1. CASE AskQuote
    BY <1>2, <2>1 DEF AskQuote, QuoteInv, Quote, ProvidersFor, Names
  <2>2. CASE Restart
    BY <1>2, <2>2 DEF Restart, QuoteInv
  <2>3. CASE UNCHANGED <<enabled, quote>>
    BY <1>2, <2>3 DEF QuoteInv
  <2> QED
    BY <1>2, <2>1, <2>2, <2>3 DEF RouteNext
<1> QED
  BY <1>1, <1>2, PTL DEF RouteSpec

\* Whatever the settings filter from the list of an available destination and
\* put first, a cash-out may name it: the two tables agree where it matters.
LEMMA ListedAreOffered ==
  ASSUME NEW settings \in SUBSET Configurable, NEW country \in AvailableCountries
  PROVE  LET list == Ordered(country, Names(settings))
         IN /\ list \in Seq(Providers)
            /\ Range(list) \subseteq Range(EnabledProviders(country))
<1> DEFINE on == Names(settings)
           base == Kept(country, on)
<1>1. on \in SUBSET Providers
  BY DEF Canonical, Configurable, Providers, Names
<1>2. country \in CountryCodes /\ country \in {"GH", "BJ"}
  BY DEF AvailableCountries, CountryCodes
<1> HIDE DEF on
<1>3. /\ base \in Seq(Providers) /\ Others(base) \in Seq(Providers)
      /\ Range(base) \subseteq Range(ProvidersByCountry(country))
      /\ Range(Others(base)) \subseteq Range(base)
  BY <1>1, <1>2, FiltersKeep
<1>4. Range(ProvidersByCountry(country)) \subseteq Range(EnabledProviders(country))
  BY <1>2 DEF ProvidersByCountry, EnabledProviders, Range
<1>5. {"MOMO", "THUNES"} \subseteq Range(EnabledProviders("GH"))
  BY DEF EnabledProviders, Range
<1>6. ASSUME NEW p \in Providers, NEW rest \in Seq(Providers)
      PROVE  /\ <<p>> \o rest \in Seq(Providers)
             /\ Range(<<p>> \o rest) = {p} \cup Range(rest)
  <2>1. /\ Len(<<p>> \o rest) = 1 + Len(rest)
        /\ \A i \in 1 .. Len(rest) : (<<p>> \o rest)[1 + i] = rest[i]
        /\ (<<p>> \o rest)[1] = p
        /\ <<p>> \o rest \in Seq(Providers)
    OBVIOUS
  <2>2. \A q : q \in Range(<<p>> \o rest) => q \in {p} \cup Range(rest)
    <3> SUFFICES ASSUME NEW i \in 1 .. 1 + Len(rest)
                 PROVE  (<<p>> \o rest)[i] \in {p} \cup Range(rest)
      BY <2>1 DEF Range
    <3> CASE i = 1
      BY <2>1
    <3> CASE i # 1
      <4>1. i - 1 \in 1 .. Len(rest) /\ i = 1 + (i - 1)
        OBVIOUS
      <4> QED
        BY <4>1, <2>1 DEF Range
    <3> QED
      OBVIOUS
  <2>3. \A q \in Range(rest) : q \in Range(<<p>> \o rest)
    <3> SUFFICES ASSUME NEW i \in 1 .. Len(rest) PROVE rest[i] \in Range(<<p>> \o rest)
      BY DEF Range
    <3>1. 1 + i \in DOMAIN (<<p>> \o rest)
      BY <2>1
    <3> QED
      BY <3>1, <2>1 DEF Range
  <2>4. p \in Range(<<p>> \o rest)
    BY <2>1 DEF Range
  <2> QED
    BY <2>1, <2>2, <2>3, <2>4
<1>7. "MOMO" \in Providers /\ "THUNES" \in Providers
  BY DEF Providers
<1>8. Ordered(country, on) \in {base, <<"MOMO">> \o Others(base), <<"THUNES">> \o base}
  BY DEF Ordered
<1>9. Ordered(country, on) # base => country = "GH"
  BY DEF Ordered
<1> QED
  BY <1>3, <1>4, <1>5, <1>6, <1>7, <1>8, <1>9 DEF on

\* A client that follows its quote is accepted, whatever providers the operator
\* has enabled and however often the settings changed before
\* (routes/payments.py, payout_quote and cash_out_mobile_money).
THEOREM QuotesHold == RouteSpec => []QuotesAreAccepted
<1>1. ASSUME QuoteInv PROVE QuotesAreAccepted
  <2> DEFINE country == quote.country
             list == quote.providers
  <2> SUFFICES ASSUME quote.available, Range(list) # {}, quote.under = enabled
               PROVE  /\ \A p \in Range(list) : Accepts(Form(TRUE, country, p))
                      /\ Accepts(Form(TRUE, country, ""))
                      /\ Resolve(Form(TRUE, country, "")) \in Range(list)
    BY DEF QuotesAreAccepted
  <2>1. quote # NoQuote
    <3>1. NoQuote.available = FALSE
      BY DEF NoQuote
    <3> QED
      BY <3>1
  <2>2. country \in AvailableCountries /\ country \in {"GH", "BJ"}
    BY <1>1, <2>1 DEF QuoteInv, Destination, AvailableCountries
  <2>3. list = ProvidersFor(country)
    BY <1>1, <2>1 DEF QuoteInv, ProvidersFor, Names
  <2>4. list \in Seq(Providers) /\ Range(list) \subseteq Range(EnabledProviders(country))
    BY <1>1, <2>1, <2>2, ListedAreOffered DEF QuoteInv
  <2>5. Range(list) \subseteq Providers /\ list # <<>>
    BY <2>4 DEF Range
  <2> HIDE DEF country, list
  <2>6. ASSUME NEW p \in Range(list) PROVE /\ Canonical(p) = p /\ p # ""
                                           /\ HasAdapter(p) /\ ProviderEnabled(country, p)
                                           /\ Corridor(country, p)
    BY <2>2, <2>4, <2>5
      DEF Canonical, Providers, HasAdapter, ProviderEnabled, Corridor, EnabledDestinations
  <2>7. ASSUME NEW f, f.byDestination, f.country = country, f.method = "",
               Resolve(f) \in Range(list), f.provider = "" \/ f.provider \in Range(list)
        PROVE  Accepts(f)
    <3>1. country \in Africa /\ country \in Supported /\ Destination(country).available
          /\ MobileMoney \in Destination(country).methods
      BY <2>2 DEF Africa, Supported, Destination, AvailableCountries
    <3>2. Offers(f) # <<>>
      BY <2>3, <2>5, <2>7 DEF Offers
    <3> QED
      BY <2>3, <2>6, <2>7, <3>1, <3>2 DEF Accepts
  <2>8. Choose(list, country) \in Range(list)
    <3>1. Head(list) \in Range(list)
      BY <2>4, <2>5 DEF Range
    <3> QED
      BY <3>1 DEF Choose
  <2>9. Resolve(Form(TRUE, country, "")) \in Range(list)
    BY <2>3, <2>8 DEF Resolve, Form
  <2>10. \A p \in Range(list) : Resolve(Form(TRUE, country, p)) = p
    BY <2>6 DEF Resolve, Form
  <2> QED
    BY <2>7, <2>9, <2>10 DEF Form
<1> QED
  BY <1>1, QuoteInvHolds, PTL

\* What the catalog shows as available is accepted from the older clients, and
\* the two tables of destinations list the same ones (catalog/destinations.py,
\* catalog/enablement.py).
THEOREM AvailableHolds == RouteSpec => []AvailableIsAccepted
<1>1. ASSUME QuoteInv PROVE AvailableIsAccepted
  <2> DEFINE country == quote.country
  <2> SUFFICES ASSUME quote # NoQuote
               PROVE  /\ \A p \in Providers :
                           ProviderAvailable(country, p) =>
                             /\ Accepts(Form(FALSE, country, p))
                             /\ Resolve(Form(FALSE, country, p)) = p
                      /\ country \in ListDestinations({TRUE}, {MobileMoney}) <=>
                           country \in EnabledDestinations
    BY DEF AvailableIsAccepted
  <2> HIDE DEF country
  <2>1. ASSUME NEW p \in Providers, ProviderAvailable(country, p)
        PROVE  /\ Resolve(Form(FALSE, country, p)) = p
               /\ Accepts(Form(FALSE, country, p))
    <3>1. country \in {"GH", "BJ"} /\ country \in EnabledDestinations
          /\ ProviderEnabled(country, p)
      BY <2>1 DEF ProviderAvailable, EnabledDestinations
    <3>2. p # "" /\ Canonical(p) = p /\ p \in {"MOMO", "TMONEY", "FLOOZ", "THUNES"}
      BY DEF Providers, Canonical
    <3>3. Resolve(Form(FALSE, country, p)) = p
      BY <3>2 DEF Resolve, Form
    <3>4. HasAdapter(p) /\ Corridor(country, p)
      BY <3>1, <3>2 DEF HasAdapter, Corridor
    <3>5. country \in Africa /\ country \in Supported /\ Destination(country).available
          /\ MobileMoney \in Destination(country).methods
      BY <3>1 DEF Africa, Supported, Destination, AvailableCountries
    <3> QED
      BY <3>1, <3>2, <3>3, <3>4, <3>5 DEF Accepts, Form
  <2>2. country \in ListDestinations({TRUE}, {MobileMoney}) <=> country \in EnabledDestinations
    BY DEF ListDestinations, Destination, EnabledDestinations, AvailableCountries, Africa
  <2> QED
    BY <2>1, <2>2
<1> QED
  BY <1>1, QuoteInvHolds, PTL
=============================================================================
