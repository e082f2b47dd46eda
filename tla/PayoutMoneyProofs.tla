-------------------------- MODULE PayoutMoneyProofs --------------------------
(***************************************************************************)
(* Proofs about references and money, on top of the accounting: a payout   *)
(* posted with a reference keeps one, a Thunes payout leaves once,         *)
(* CONFIRMED follows a payment, and a customer is kept the promise of      *)
(* PayoutLifecycle.                                                        *)
(***************************************************************************)
EXTENDS PayoutsProofs

\* What a worker or a notice can say of a payout.
Outcomes == {"SENT", "CONFIRMED", "FAILED"}

\* A retry or a draft is of a payout whose row is there: rows are never deleted.
RowsExist ==
  /\ \A a \in Admins : retry[a] # None => row[retry[a]].status # "ABSENT"
  /\ \A p \in Payouts : draft[p] # None => draft[p].status \in Outcomes

\* A row, committed or about to be, has a reference if it was posted with one.
RefsStay ==
  \A p \in Payouts : ExternalRef[p] # None =>
    /\ row[p].status # "ABSENT" => row[p].ref # None
    /\ draft[p] # None => draft[p].ref # None

RefInv == RowsExist /\ RefsStay

\* What a submission to Thunes carries: it depends on constants only.
ThunesKey(p) == Coalesce(ExternalRef[p], <<p, 0>>)

\* All transfers of a payout carry one key, and there is one at most.
One(p, key) ==
  \A m, n \in 1 .. MaxSends :
    /\ xfer[p][n].state # "none" => xfer[p][n].key = key
    /\ xfer[p][m].state # "none" /\ xfer[p][n].state # "none" => m = n

OneTransfer == \A p \in Payouts : Kind[p] = "THUNES" => One(p, ThunesKey(p))

-----------------------------------------------------------------------------
(* What the steps write.                                                    *)

\* A worker that handles a row adds to its draft a reference, or keeps the old.
LEMMA HandleWrites ==
  ASSUME IInv, NEW w \in Workers, NEW p \in Payouts, Handle(w, p)
  PROVE  /\ UNCHANGED <<row, lock, retry>>
         /\ lock[p] = w /\ row[p].status \in {"PENDING", "SENT"}
         /\ \A q \in Payouts \ {p} : draft'[q] = draft[q]
         /\ draft'[p].status \in Outcomes /\ \E r : draft'[p].ref = Coalesce(r, row[p].ref)
<1>1. PICK s \in Outcomes : \E r, n, b : Write(w, p, s, r, n, b)
  BY DEF Outcomes, Terminal, Handle, GiveUp, RejectIncomplete, RejectUnsupported, Send, Resend, Submission, Poll,
         HandlerError, Record
<1>2. Turn(w, p)
  BY DEF Handle, GiveUp, RejectIncomplete, RejectUnsupported, Send, Resend, Submission, Poll,
         HandlerError
<1>3. lock[p] = w /\ row[p].status \in {"PENDING", "SENT"}
  BY <1>2, PayoutsAssumption DEF Turn, IInv, ClaimsAreExclusive
<1>4. (\E r, n, b : draft'[p] = Updated(p, s, r, n, b)) /\ \A q \in Payouts \ {p} : draft'[q] = draft[q]
  BY <1>1 DEF Write, IInv, TypeOK
<1>5. draft'[p].status = s /\ \E r : draft'[p].ref = Coalesce(r, row[p].ref)
  BY <1>4 DEF Updated
<1> QED
  BY <1>1, <1>3, <1>4, <1>5 DEF Write

\* A notice says SENT, or how its transfer ended.
LEMMA NoticeSays ==
  ASSUME IInv, NEW notice \in Notices
  PROVE  notice.verdict \in Outcomes
<1>1. PICK t \in Transfers : notice \in NoticesOf(t)
  BY DEF Notices
<1>2. notice.verdict \in {"SENT", Verdict(xfer[t[1]][t[2]].state)}
  BY <1>1 DEF NoticesOf
<1>3. xfer[t[1]][t[2]].state \in {"open", "paid", "rejected"}
  <2>1. PICK p \in Payouts, n \in 1 .. MaxSends : t = <<p, n>> /\ xfer[p][n].state # "none"
    BY DEF Transfers
  <2>2. xfer[p][n] \in Transfer
    BY DEF IInv, TypeOK
  <2> QED
    BY <2>1, <2>2 DEF Transfer
<1> QED
  BY <1>2, <1>3 DEF Verdict, Outcomes

\* A notice changes the status of rows that are there, and keeps references.
LEMMA NotifyKeepsRefs ==
  ASSUME IInv, NEW notice \in Notices, NEW override \in BOOLEAN, Notify(notice, override)
  PROVE  \A p \in Payouts : /\ row'[p].ref = row[p].ref
                            /\ row[p].status = "ABSENT" => row'[p] = row[p]
                            /\ row[p].status # "ABSENT" => row'[p].status # "ABSENT"
<1> DEFINE v == notice.verdict
           hits == Hits(notice, override)
           first == [p \in Payouts |-> IF p \in hits THEN Applied(row[p], v) ELSE row[p]]
<1>1. v # "ABSENT"
  BY NoticeSays DEF Outcomes
<1>2. row \in [Payouts -> Row]
  BY DEF IInv, TypeOK
<1>3. \A r \in Row : Applied(r, v).ref = r.ref /\ Applied(r, v).status = v
  BY DEF Applied, Row
<1>4. \A p \in hits : p \in Payouts /\ row[p].status # "ABSENT"
  BY DEF Hits, Open
<1>5. \/ row' = first
      \/ \E p \in Named(notice) : row' = [first EXCEPT ![p] = Applied(first[p], v)]
  BY DEF Notify, Update
<1> HIDE DEF hits, v
<1>6. \A p \in Payouts : /\ first[p].ref = row[p].ref
                         /\ row[p].status = "ABSENT" => first[p] = row[p]
                         /\ row[p].status # "ABSENT" => first[p].status # "ABSENT"
  BY <1>1, <1>2, <1>3, <1>4
<1>7. \A p \in Named(notice) : p \in Payouts /\ row[p].status # "ABSENT"
  BY DEF Named
<1>8. \A p \in Payouts : Applied(first[p], v).ref = first[p].ref /\ Applied(first[p], v).status = v
  <2>1. \A p \in Payouts : first[p] \in {row[p], Applied(row[p], v)}
    OBVIOUS
  <2>2. \A r \in Row : /\ Applied(Applied(r, v), v).ref = r.ref
                       /\ Applied(Applied(r, v), v).status = v
    BY DEF Applied, Row
  <2> QED
    BY <1>2, <1>3, <2>1, <2>2
<1> HIDE DEF first
<1>9. first = [p \in Payouts |-> first[p]]
  BY DEF first
<1>10. CASE row' = first
  BY <1>6, <1>10
<1>11. ASSUME NEW p \in Named(notice), row' = [first EXCEPT ![p] = Applied(first[p], v)]
       PROVE  \A q \in Payouts : /\ row'[q].ref = row[q].ref
                                 /\ row[q].status = "ABSENT" => row'[q] = row[q]
                                 /\ row[q].status # "ABSENT" => row'[q].status # "ABSENT"
  BY <1>1, <1>6, <1>7, <1>8, <1>9, <1>11
<1> QED
  BY <1>5, <1>10, <1>11

\* A step leaves a row as it is, creates it, publishes a draft, or changes it
\* otherwise than by its reference.
RowStep(p) ==
  \/ row'[p] = row[p]
  \/ /\ row[p].status = "ABSENT" /\ draft[p] = None
     /\ row'[p].ref = ExternalRef[p] /\ row'[p].status = "PENDING"
  \/ draft[p] # None /\ row'[p] = draft[p]
  \/ /\ row[p].status # "ABSENT" /\ row'[p].status # "ABSENT"
     /\ row'[p].ref = row[p].ref

\* A step leaves a draft, drops it, or writes one of a row that is there.
DraftStep(p) ==
  \/ draft'[p] \in {draft[p], None}
  \/ /\ row[p].status # "ABSENT" /\ draft'[p].status \in Outcomes
     /\ \E r : draft'[p].ref = Coalesce(r, row[p].ref)

\* Every step does one of these to each row and to each draft.
LEMMA Steps ==
  ASSUME IInv, RowsExist, [Next]_vars, NEW p \in Payouts
  PROVE  RowStep(p) /\ DraftStep(p)
<1>0. row \in [Payouts -> Row] /\ draft \in [Payouts -> Row \cup {None}]
  BY DEF IInv, TypeOK
<1>1. ASSUME NEW q \in Payouts, Create(q) PROVE RowStep(p) /\ DraftStep(p)
  <2>1. draft[q] = None
    BY <1>1 DEF Create, IInv, ClaimsAreExclusive
  <2> QED
    BY <1>0, <1>1, <2>1 DEF Create, Row, RowStep, DraftStep
<1>2. ASSUME NEW w \in Workers, NEW q \in Payouts, Handle(w, q) PROVE RowStep(p) /\ DraftStep(p)
  BY <1>2, HandleWrites DEF RowStep, DraftStep
<1>3. ASSUME NEW w \in Workers, Commit(w) PROVE RowStep(p) /\ DraftStep(p)
  <2>1. lock[p] = w => draft[p] # None
    BY <1>3, PayoutsAssumption DEF Commit, IInv, ClaimsAreExclusive
  <2> QED
    BY <1>0, <1>3, <2>1 DEF Commit, EndTx, RowStep, DraftStep
<1>4. ASSUME NEW w \in Workers, Abort(w) PROVE RowStep(p) /\ DraftStep(p)
  BY <1>4 DEF Abort, EndTx, RowStep, DraftStep
<1>5. ASSUME NEW notice \in Notices, NEW override \in BOOLEAN, Notify(notice, override)
      PROVE  RowStep(p) /\ DraftStep(p)
  BY <1>5, NotifyKeepsRefs, NotifyChanges DEF RowStep, DraftStep
<1>6. ASSUME NEW q \in Payouts, ConfirmByHand(q) PROVE RowStep(p) /\ DraftStep(p)
  BY <1>0, <1>6 DEF ConfirmByHand, Row, RowStep, DraftStep
<1>7. ASSUME NEW a \in Admins, NEW q \in Payouts, RetryWrite(a, q) PROVE RowStep(p) /\ DraftStep(p)
  <2>1. row[q].status # "ABSENT"
    BY <1>7, PayoutsAssumption DEF RetryWrite, RowsExist
  <2> QED
    BY <1>0, <1>7, <2>1 DEF RetryWrite, Row, RowStep, DraftStep
<1>8. ASSUME UNCHANGED <<row, draft>> PROVE RowStep(p) /\ DraftStep(p)
  BY <1>8 DEF RowStep, DraftStep
<1>9. CASE \/ UNCHANGED vars
           \/ \E q \in Payouts, n \in 1 .. MaxSends, o \in {"paid", "rejected"} : Settle(q, n, o)
           \/ \E w \in Workers, S \in SUBSET Claimable : Claim(w, S)
           \/ \E w \in Workers : Start(w)
           \/ \E a \in Admins, q \in Payouts : RetryRead(a, q)
           \/ \E a \in Admins : RetryLost(a)
  BY <1>8, <1>9 DEF vars, Settle, Claim, Start, RetryRead, RetryLost
<1> QED
  BY <1>1, <1>2, <1>3, <1>4, <1>5, <1>6, <1>7, <1>9 DEF Next, Webhook, AdminStep, Replay

\* A retry begins with a FAILED row.
LEMMA RetrySteps ==
  ASSUME IInv, [Next]_vars, NEW a \in Admins
  PROVE  \/ retry'[a] \in {retry[a], None}
         \/ /\ retry'[a] \in Payouts /\ row[retry'[a]].status = "FAILED" /\ row' = row
            /\ "retry" \in AdminOps
<1>1. retry \in [Admins -> Payouts \cup {None}]
  BY DEF IInv, TypeOK
<1>2. CASE \E b \in Admins, p \in Payouts : RetryRead(b, p) \/ RetryWrite(b, p)
  BY <1>1, <1>2 DEF RetryRead, RetryWrite
<1>3. CASE \E b \in Admins : RetryLost(b)
  BY <1>1, <1>3 DEF RetryLost
<1>4. ASSUME NEW w \in Workers, NEW p \in Payouts, Handle(w, p) PROVE retry' = retry
  BY <1>4, HandleWrites
<1>5. ASSUME NEW notice \in Notices, NEW override \in BOOLEAN, Notify(notice, override)
      PROVE  retry' = retry
  BY <1>5, NotifyChanges
<1>6. CASE UNCHANGED retry
  BY <1>6
<1> QED
  BY <1>2, <1>3, <1>4, <1>5, <1>6
  DEF Next, Webhook, AdminStep, Replay, Create, Settle, Claim, Commit, Abort, Start, EndTx, ConfirmByHand, vars

\* Rows stay, and drafts are of rows that are there.
LEMMA RowsStay ==
  ASSUME IInv, RefInv, [Next]_vars, NEW p \in Payouts
  PROVE  /\ row[p].status # "ABSENT" => row'[p].status # "ABSENT"
         /\ draft[p] # None => row[p].status # "ABSENT"
<1>1. RowStep(p) /\ DraftStep(p)
  BY Steps DEF RefInv
<1>2. draft[p] # None => row[p].status # "ABSENT" /\ draft[p].status # "ABSENT"
  BY DEF IInv, ClaimsAreExclusive, RefInv, RowsExist, Outcomes
<1> QED
  BY <1>1, <1>2 DEF RowStep

LEMMA NextRefInv == IInv /\ RefInv /\ [Next]_vars => RefInv'
<1> SUFFICES ASSUME IInv, RefInv, [Next]_vars PROVE RefInv'
  OBVIOUS
<1>1. \A p \in Payouts : RowStep(p) /\ DraftStep(p)
  BY Steps DEF RefInv
<1>2. \A p \in Payouts : /\ row[p].status # "ABSENT" => row'[p].status # "ABSENT"
                         /\ draft[p] # None => row[p].status # "ABSENT"
  BY RowsStay
<1>3. RowsExist'
  BY <1>1, <1>2, RetrySteps DEF RefInv, RowsExist, DraftStep, IInv, TypeOK
<1>4. RefsStay'
  BY <1>1, <1>2 DEF RefInv, RefsStay, RowStep, DraftStep, Coalesce
<1> QED
  BY <1>3, <1>4 DEF RefInv
LEMMA InitRefInv == Init => RefInv
BY DEF Init, RefInv, RowsExist, RefsStay

LEMMA RefInvHolds == Spec => []RefInv
<1>1. IInv /\ RefInv /\ [Next]_vars => RefInv'
  BY NextRefInv
<1> QED
  BY <1>1, InitRefInv, Accounting, PTL DEF Spec

\* A SENT payout that was posted with a reference has one to be polled by
\* (repository.update_status keeps the old one: COALESCE).
THEOREM SentKeepsReference == Spec => []SentHasReference
<1>1. RefInv => SentHasReference
  BY DEF RefInv, RefsStay, SentHasReference
<1> QED
  BY <1>1, RefInvHolds, PTL

-----------------------------------------------------------------------------
(* Transfers.                                                               *)

\* A provider's books change when it settles a transfer or takes a submission.
Submitted(p) ==
  /\ Submits(p) /\ sends[p] + 1 \in 1 .. MaxSends
  /\ \E took \in BOOLEAN : Request(p, SubmissionKey(p), took)

\* No other step changes them.
LEMMA XferSteps ==
  ASSUME IInv, [Next]_vars
  PROVE  \/ UNCHANGED <<sends, xfer>>
         \/ UNCHANGED sends /\ \E p \in Payouts, n \in 1 .. MaxSends, o \in {"paid", "rejected"} : Settle(p, n, o)
         \/ UNCHANGED row /\ \E p \in Payouts : Submitted(p)
<1>1. ASSUME NEW w \in Workers, NEW p \in Payouts, Handle(w, p), ~UNCHANGED <<sends, xfer>>
      PROVE  Submitted(p) /\ UNCHANGED row
  <2>0. UNCHANGED row
    BY <1>1, HandleWrites
  <2>1. Turn(w, p) /\ ~Exhausted(p)
    BY <1>1 DEF Handle, GiveUp, RejectIncomplete, RejectUnsupported, Send, Resend, Poll, HandlerError
  <2>2. sends[p] + 1 \in 1 .. MaxSends /\ Submits(p)
    BY <1>1, <2>1, Headroom
    DEF Handle, GiveUp, RejectIncomplete, RejectUnsupported, Send, Resend, Poll, HandlerError, Submits
  <2>3. CASE HandlerError(w, p)
    BY <1>1, <2>0, <2>2, <2>3 DEF HandlerError, Submitted
  <2>4. CASE Submission(w, p)
    <3> DEFINE key == SubmissionKey(p)
    <3>1. PICK answer \in Answers(p, key, IdsFor(p, key)) : Request(p, key, answer.took)
      BY <2>4 DEF Submission
    <3>2. key \in Refs
      BY <2>2, KeyIsRef
    <3>3. Kind[p] # "OTHER"
      BY <1>1 DEF Handle, GiveUp, RejectIncomplete, RejectUnsupported, Send, Resend, Poll, HandlerError
    <3>4. answer.took \in BOOLEAN
      BY <2>2, <3>1, <3>2, <3>3, AnswerTypes DEF Answer
    <3> QED
      BY <2>0, <2>2, <3>1, <3>4 DEF Submitted
  <2> QED
    BY <1>1, <2>3, <2>4 DEF Handle, GiveUp, RejectIncomplete, RejectUnsupported, Send, Resend, Poll
<1>2. ASSUME NEW notice \in Notices, NEW override \in BOOLEAN, Notify(notice, override)
      PROVE  UNCHANGED <<sends, xfer>>
  BY <1>2, NotifyChanges
<1> QED
  BY <1>1, <1>2
  DEF Next, Webhook, AdminStep, Replay, Create, Settle, Claim, Commit, Abort, Start, EndTx, ConfirmByHand,
      RetryRead, RetryWrite, RetryLost, vars

\* A submission adds a transfer or finds one under its reference.
LEMMA SubmissionAdds ==
  ASSUME IInv, NEW p \in Payouts, Submitted(p)
  PROVE  /\ \A q \in Payouts \ {p} : xfer'[q] = xfer[q]
         /\ sends' = [sends EXCEPT ![p] = @ + 1]
         /\ \/ xfer'[p] = xfer[p]
            \/ /\ Duplicates(p, SubmissionKey(p)) = {}
               /\ xfer'[p] = [xfer[p] EXCEPT ![sends[p] + 1] =
                                [state |-> IF Kind[p] = "LEGACY" THEN "paid" ELSE "open",
                                 key |-> SubmissionKey(p)]]
BY DEF Submitted, Request, IInv, TypeOK

\* A provider settles an open transfer and keeps its reference.
LEMMA SettleKeeps ==
  ASSUME IInv, NEW p \in Payouts, NEW n \in 1 .. MaxSends, NEW o \in {"paid", "rejected"}, Settle(p, n, o)
  PROVE  \A q \in Payouts, m \in 1 .. MaxSends :
           /\ xfer'[q][m].key = xfer[q][m].key
           /\ \/ xfer'[q][m].state = xfer[q][m].state
              \/ xfer[q][m].state = "open" /\ xfer'[q][m].state = o
<1>1. xfer' = [xfer EXCEPT ![p][n].state = o] /\ xfer[p][n].state = "open"
  BY DEF Settle
<1>2. xfer[p][n] \in Transfer /\ xfer \in [Payouts -> [1 .. MaxSends -> Transfer]]
  BY DEF IInv, TypeOK
<1>3. /\ [xfer[p][n] EXCEPT !.state = o].key = xfer[p][n].key
      /\ [xfer[p][n] EXCEPT !.state = o].state = o
  BY <1>2 DEF Transfer
<1>4. /\ \A q \in Payouts \ {p} : xfer'[q] = xfer[q]
      /\ \A m \in (1 .. MaxSends) \ {n} : xfer'[p][m] = xfer[p][m]
      /\ xfer'[p][n] = [xfer[p][n] EXCEPT !.state = o]
  BY <1>1, <1>2
<1> QED
  BY <1>1, <1>3, <1>4

\* Where the provider recognises repeated references, submissions that carry
\* one key make one transfer.
LEMMA OneByKey ==
  ASSUME IInv, [Next]_vars, NEW p \in Payouts, NEW key, Kind[p] \in Dedups,
         Submitted(p) => SubmissionKey(p) = key,
         One(p, key)
  PROVE  One(p, key)'
<1>1. CASE xfer'[p] = xfer[p]
  BY <1>1 DEF One
<1>2. ASSUME NEW q \in Payouts, NEW n \in 1 .. MaxSends, NEW o \in {"paid", "rejected"}, Settle(q, n, o)
      PROVE  One(p, key)'
  BY <1>2, SettleKeeps DEF One
<1>3. ASSUME Submitted(p), xfer'[p] # xfer[p] PROVE One(p, key)'
  <2> DEFINE n == sends[p] + 1
             t == [state |-> IF Kind[p] = "LEGACY" THEN "paid" ELSE "open", key |-> key]
  <2>1. Duplicates(p, key) = {} /\ xfer'[p] = [xfer[p] EXCEPT ![n] = t]
    BY <1>3, SubmissionAdds
  <2>2. \A m \in 1 .. MaxSends : xfer[p][m].state = "none"
    <3> SUFFICES ASSUME NEW m \in 1 .. MaxSends, xfer[p][m].state # "none" PROVE FALSE
      OBVIOUS
    <3>1. <<p, m>> \in Duplicates(p, key)
      BY DEF One, Duplicates, Transfers
    <3> QED
      BY <2>1, <3>1
  <2>3. n \in 1 .. MaxSends /\ t.key = key
    BY <1>3 DEF Submitted
  <2>4. /\ xfer'[p][n] = t
        /\ \A m \in (1 .. MaxSends) \ {n} : xfer'[p][m].state = "none"
    BY <2>1, <2>2, <2>3 DEF IInv, TypeOK
  <2> HIDE DEF t, n
  <2> QED
    BY <2>3, <2>4 DEF One
<1>4. ASSUME NEW q \in Payouts \ {p}, Submitted(q) PROVE xfer'[p] = xfer[p]
  BY <1>4, SubmissionAdds
<1> QED
  BY <1>1, <1>2, <1>3, <1>4, XferSteps

LEMMA NextOneTransfer ==
  ASSUME "THUNES" \in Dedups, IInv, OneTransfer, [Next]_vars
  PROVE  OneTransfer'
<1> SUFFICES ASSUME NEW p \in Payouts, Kind[p] = "THUNES"
             PROVE  One(p, ThunesKey(p))'
  BY DEF OneTransfer, ThunesKey
<1>1. SubmissionKey(p) = ThunesKey(p)
  BY DEF SubmissionKey, ThunesKey
<1>2. One(p, ThunesKey(p))
  BY DEF OneTransfer
<1>3. ThunesKey(p)' = ThunesKey(p)
  BY DEF ThunesKey
<1> DEFINE key == ThunesKey(p)
<1> HIDE DEF key
<1>4. One(p, key)'
  BY <1>1, <1>2, OneByKey DEF key
<1> QED
  BY <1>4 DEF key

LEMMA OneTransferHolds ==
  ASSUME "THUNES" \in Dedups
  PROVE  Spec => []OneTransfer
<1>1. Init => OneTransfer
  BY DEF Init, OneTransfer, One, NoTransfer
<1>2. IInv /\ OneTransfer /\ [Next]_vars => OneTransfer'
  BY NextOneTransfer
<1> QED
  BY <1>1, <1>2, Accounting, PTL DEF Spec

\* If Thunes recognises a repeated external_id, the money of a Thunes payout
\* leaves at most once: every submission carries the reference the cash-out
\* was posted with (providers/mobile_money/thunes.py), which no answer changes.
THEOREM ThunesOnce ==
  ASSUME "THUNES" \in Dedups
  PROVE  Spec => []ThunesPaysOnce
<1>1. OneTransfer => ThunesPaysOnce
  BY DEF OneTransfer, One, ThunesPaysOnce, Moved
<1> QED
  BY <1>1, OneTransferHolds, PTL

-----------------------------------------------------------------------------
(* CONFIRMED follows a payment.  Nothing in the code keeps two cash-outs     *)
(* from bringing one reference, so that they do not is an assumption.        *)
OwnIds ==
  /\ None \notin ProviderIds
  /\ \A p \in Payouts : ExternalRef[p] \notin ProviderIds

DistinctReferences ==
  /\ OwnIds
  /\ \A p, q \in Payouts : ExternalRef[p] # None /\ ExternalRef[p] = ExternalRef[q] => p = q

\* What the proofs need of it: no two rows that are there share a reference.
\* (Where a client sends a cash-out again, it may bring the reference again,
\* and the ledger sees to it that there is no second row: CashOutsProofs.)
Unmixed ==
  /\ OwnIds
  /\ \A p, q \in Payouts :
       /\ row[p].status # "ABSENT" /\ row[q].status # "ABSENT"
       /\ ExternalRef[p] # None /\ ExternalRef[p] = ExternalRef[q]
       => p = q

\* The references a payout may come by.
Own(p) == {None, ExternalRef[p]} \cup {<<p, n>> : n \in 0 .. MaxSends}

Paid(p) == \E n \in 1 .. MaxSends : xfer[p][n].state = "paid"

\* A transfer is of a row that is there, under one of its references.
OwnKeys ==
  \A p \in Payouts, n \in 1 .. MaxSends :
    xfer[p][n].state # "none" => row[p].status # "ABSENT" /\ xfer[p][n].key \in Own(p) \ {None}

OwnReferences ==
  /\ \A p \in Payouts :
       /\ row[p].ref \in Own(p)
       /\ draft[p] # None => draft[p].ref \in Own(p)
  /\ OwnKeys

\* Slots of submissions not made yet are free, so a payment is not forgotten.
FreeSlots ==
  \A p \in Payouts : \A n \in 1 .. MaxSends : n > sends[p] => xfer[p][n].state = "none"

\* Old-style adapters pay at once.
LegacyPays ==
  \A p \in Payouts : Kind[p] = "LEGACY" =>
    \A n \in 1 .. MaxSends : xfer[p][n].state \in {"none", "paid"}

DraftsTellPaid ==
  \A p \in Payouts : draft[p] # None /\ draft[p].status = "CONFIRMED" => Paid(p)

PaidInv == OwnReferences /\ FreeSlots /\ LegacyPays /\ DraftsTellPaid

\* A reference belongs to one payout ...
LEMMA OneOwner ==
  ASSUME DistinctReferences, NEW p \in Payouts, NEW q \in Payouts,
         NEW r \in Own(p) \cap Own(q), r # None
  PROVE  p = q
BY DEF DistinctReferences, OwnIds, Own, ProviderIds

\* ... or, if it may be brought again, to one payout whose row is there.
LEMMA OneOwnerThere ==
  ASSUME Unmixed, NEW p \in Payouts, NEW q \in Payouts,
         row[p].status # "ABSENT", row[q].status # "ABSENT",
         NEW r \in Own(p) \cap Own(q), r # None
  PROVE  p = q
BY DEF Unmixed, OwnIds, Own, ProviderIds

\* A transfer's own id, and the key it carries, belong to its payout.
LEMMA TransferOwner ==
  ASSUME Unmixed, PaidInv, NEW p \in Payouts, row[p].status # "ABSENT", NEW t \in Transfers,
         \/ t \in Own(p)
         \/ xfer[t[1]][t[2]].key \in Own(p)
  PROVE  /\ t \in Own(p) /\ t[1] = p /\ t[2] \in 1 .. MaxSends
         /\ xfer[p][t[2]].state # "none"
<1>1. PICK q \in Payouts, n \in 1 .. MaxSends : t = <<q, n>> /\ xfer[q][n].state # "none"
  BY DEF Transfers
<1>2. /\ t \in Own(q) /\ t # None
      /\ xfer[q][n].key \in Own(q) \ {None} /\ row[q].status # "ABSENT"
  <2>1. n \in 0 .. MaxSends
    BY PayoutsAssumption DEF MaxSends
  <2> QED
    BY <1>1, <2>1 DEF Own, PaidInv, OwnReferences, OwnKeys, Unmixed, OwnIds, ProviderIds
<1>3. q = p
  BY <1>1, <1>2, OneOwnerThere
<1> QED
  BY <1>1, <1>2, <1>3

\* CONFIRMED is said of a paid transfer only.
LEMMA PaidVerdict ==
  ASSUME IInv, NEW p \in Payouts, NEW n \in 1 .. MaxSends,
         xfer[p][n].state # "none", Verdict(xfer[p][n].state) = "CONFIRMED"
  PROVE  Paid(p)
<1>1. xfer[p][n] \in Transfer
  BY DEF IInv, TypeOK
<1>2. xfer[p][n].state \in {"open", "paid", "rejected"}
  BY <1>1 DEF Transfer
<1> QED
  BY <1>2 DEF Verdict, Paid

\* A notice that says CONFIRMED is of the payout that paid.
LEMMA NoticeTruth ==
  ASSUME Unmixed, IInv, PaidInv, NEW notice \in Notices, notice.verdict = "CONFIRMED",
         NEW p \in Payouts, row[p].status # "ABSENT",
         \/ notice.pref # None /\ notice.pref = row[p].ref
         \/ notice.eref # None /\ notice.eref = ExternalRef[p]
  PROVE  Paid(p)
<1>1. PICK t \in Transfers : notice \in NoticesOf(t)
  BY DEF Notices
<1> DEFINE key == xfer[t[1]][t[2]].key
<1>2. /\ notice.pref \in {key, t, None} /\ notice.eref \in {key, None}
      /\ notice.verdict \in {"SENT", Verdict(xfer[t[1]][t[2]].state)}
  BY <1>1 DEF NoticesOf
<1>3. row[p].ref \in Own(p) /\ ExternalRef[p] \in Own(p)
  BY DEF PaidInv, OwnReferences, Own
<1>4. t \in Own(p) \/ (key \in Own(p) /\ key # None)
  BY <1>2, <1>3
<1> HIDE DEF key
<1>5. t[1] = p /\ t[2] \in 1 .. MaxSends /\ xfer[p][t[2]].state # "none"
  BY <1>4, TransferOwner DEF key
<1> QED
  BY <1>2, <1>5, PaidVerdict

\* So is the answer of a status query, by a reference that the payout has or
\* had: it says CONFIRMED of a payment, and, where an error does not count as
\* one, FAILED of a rejection.
LEMMA PollTruth ==
  ASSUME Unmixed, IInv, PaidInv, NEW p \in Payouts, row[p].status # "ABSENT",
         NEW r \in Own(p), Kind[p] # "OTHER"
  PROVE  /\ "CONFIRMED" \in PollAnswers(p, r) => Paid(p)
         /\ "FAILED" \in PollAnswers(p, r) /\ Kind[p] \notin {"THUNES", "LEGACY", "MOMO"} =>
              \E n \in 1 .. MaxSends : xfer[p][n].state = "rejected"
<1>1. Kind[p] \in {"TMONEY", "FLOOZ", "MOMO", "THUNES", "MTN", "LEGACY"}
  BY PayoutsAssumption DEF Kinds
<1>2. \A v \in Terminal : v \in PollAnswers(p, r) =>
        v \in Found(p, r) \/ (v = "FAILED" /\ Kind[p] \in {"THUNES", "LEGACY", "MOMO"})
  BY <1>1 DEF Terminal, PollAnswers, TmoneyPoll, FloozPoll, MomoPoll, ThunesPoll, LegacyPoll, MtnPoll
<1>3. ASSUME NEW v, v \in Found(p, r)
      PROVE  \E n \in 1 .. MaxSends : xfer[p][n].state # "none" /\ Verdict(xfer[p][n].state) = v
  <2>1. PICK t \in Transfers : /\ Verdict(xfer[t[1]][t[2]].state) = v
                               /\ t = r \/ xfer[t[1]][t[2]].key = r
    BY <1>3 DEF Found
  <2>2. t[1] = p /\ t[2] \in 1 .. MaxSends /\ xfer[p][t[2]].state # "none"
    BY <2>1, TransferOwner
  <2> QED
    BY <2>1, <2>2
<1>4. \A n \in 1 .. MaxSends : xfer[p][n].state \in {"none", "open", "paid", "rejected"}
  BY DEF IInv, TypeOK, Transfer
<1>5. "CONFIRMED" \in PollAnswers(p, r) => Paid(p)
  BY <1>2, <1>3, PaidVerdict DEF Terminal
<1>6. ASSUME "FAILED" \in PollAnswers(p, r), Kind[p] \notin {"THUNES", "LEGACY", "MOMO"}
      PROVE  \E n \in 1 .. MaxSends : xfer[p][n].state = "rejected"
  <2>1. PICK n \in 1 .. MaxSends : xfer[p][n].state # "none" /\ Verdict(xfer[p][n].state) = "FAILED"
    BY <1>2, <1>3, <1>6 DEF Terminal
  <2> QED
    BY <1>4, <2>1 DEF Verdict
<1> QED
  BY <1>5, <1>6

\* The reference of a submission, and those its answer may bring.
LEMMA KeyIsOwn ==
  ASSUME Unmixed, IInv, PaidInv, NEW p \in Payouts, row[p].status # "ABSENT",
         sends[p] + 1 \in 1 .. MaxSends
  PROVE  /\ SubmissionKey(p) \in Own(p) /\ SubmissionKey(p) # None
         /\ IdsFor(p, SubmissionKey(p)) \subseteq Own(p)
<1>1. row[p].ref \in Own(p)
  BY DEF PaidInv, OwnReferences
<1>2. 0 \in 0 .. MaxSends /\ sends[p] + 1 \in 0 .. MaxSends
  BY PayoutsAssumption DEF MaxSends
<1>3. /\ <<p, 0>> \in Own(p) /\ <<p, sends[p] + 1>> \in Own(p) /\ ExternalRef[p] \in Own(p)
      /\ <<p, 0>> # None /\ <<p, sends[p] + 1>> # None
  BY <1>2 DEF Own, Unmixed, OwnIds, ProviderIds
<1>4. SubmissionKey(p) \in Own(p) /\ SubmissionKey(p) # None
  BY <1>1, <1>3 DEF SubmissionKey, Coalesce
<1>5. Duplicates(p, SubmissionKey(p)) \subseteq Own(p)
  BY <1>4, TransferOwner DEF Duplicates
<1> QED
  BY <1>3, <1>4, <1>5 DEF IdsFor

\* An old-style adapter that says CONFIRMED has paid, now or before.
LEMMA LegacyTruth ==
  ASSUME Unmixed, IInv, PaidInv, NEW p \in Payouts, row[p].status # "ABSENT",
         Kind[p] = "LEGACY", sends[p] + 1 \in 1 .. MaxSends, Request(p, SubmissionKey(p), TRUE)
  PROVE  Paid(p)'
<1> DEFINE D == Duplicates(p, SubmissionKey(p))
<1>1. CASE D = {}
  <2>1. xfer' = [xfer EXCEPT ![p][sends[p] + 1] = [state |-> "paid", key |-> SubmissionKey(p)]]
    BY <1>1 DEF Request
  <2>2. xfer'[p][sends[p] + 1] = [state |-> "paid", key |-> SubmissionKey(p)]
    BY <2>1 DEF IInv, TypeOK
  <2> QED
    BY <2>2 DEF Paid
<1>2. CASE D # {}
  <2>1. PICK t \in Transfers : xfer[t[1]][t[2]].key = SubmissionKey(p)
    BY <1>2 DEF Duplicates
  <2>2. t[2] \in 1 .. MaxSends /\ xfer[p][t[2]].state # "none"
    BY <2>1, KeyIsOwn, TransferOwner
  <2>3. xfer[p][t[2]].state = "paid" /\ xfer' = xfer
    BY <1>2, <2>2 DEF PaidInv, LegacyPays, Request
  <2> QED
    BY <2>2, <2>3 DEF Paid
<1> QED
  BY <1>1, <1>2

\* A worker's draft keeps to its payout's references, and says CONFIRMED of a
\* payment only.
LEMMA HandleTruth ==
  ASSUME Unmixed, IInv, PaidInv, NEW w \in Workers, NEW p \in Payouts, Handle(w, p)
  PROVE  /\ draft'[p].ref \in Own(p)
         /\ draft'[p].status = "CONFIRMED" => Paid(p)'
<1>1. row[p].ref \in Own(p) /\ row[p].status # "ABSENT"
  BY HandleWrites DEF PaidInv, OwnReferences
<1>2. ASSUME NEW s, NEW r, NEW n, NEW b, Write(w, p, s, r, n, b)
      PROVE  draft'[p].ref = Coalesce(r, row[p].ref) /\ draft'[p].status = s
  BY <1>2 DEF Write, Updated, IInv, TypeOK
<1>3. CASE GiveUp(w, p) \/ RejectIncomplete(w, p) \/ RejectUnsupported(w, p) \/ HandlerError(w, p)
  <2>1. PICK s \in {"SENT", "FAILED"} : \E n, b : Write(w, p, s, None, n, b)
    BY <1>3 DEF GiveUp, RejectIncomplete, RejectUnsupported, HandlerError
  <2> QED
    BY <1>1, <1>2, <2>1 DEF Coalesce
<1>4. CASE \E answer \in Terminal \cup {"SENT"} : Poll(w, p, answer)
  <2>1. PICK answer \in Terminal \cup {"SENT"} : Poll(w, p, answer)
    BY <1>4
  <2>2. /\ answer \in PollAnswers(p, row[p].ref) /\ row[p].ref # None /\ Kind[p] # "OTHER"
        /\ Write(w, p, answer, None, row[p].attempts, answer = "SENT") /\ xfer' = xfer
    BY <2>1 DEF Poll, MissingRef
  <2>3. draft'[p].ref = Coalesce(None, row[p].ref) /\ draft'[p].status = answer
    BY <1>2, <2>2
  <2> QED
    BY <1>1, <2>2, <2>3, PollTruth DEF Coalesce, Paid
<1>5. CASE Send(w, p) \/ Resend(w, p)
  <2> DEFINE key == SubmissionKey(p)
             ids == IdsFor(p, key)
  <2>1. PICK answer \in Answers(p, key, ids) : Request(p, key, answer.took) /\ Record(w, p, answer)
    BY <1>5 DEF Send, Resend, Submission
  <2>2. sends[p] + 1 \in 1 .. MaxSends /\ Kind[p] # "OTHER"
    BY <1>5, Headroom DEF Send, Resend
  <2>3. key \in Own(p) /\ ids \subseteq Own(p)
    BY <1>1, <2>2, KeyIsOwn
  <2> HIDE DEF key, ids
  <2>4. /\ answer.ref \in {key, None} \cup ids
        /\ answer.status = "CONFIRMED" => Kind[p] = "LEGACY" /\ answer.took = TRUE
    <3>1. Kind[p] \in {"TMONEY", "FLOOZ", "MOMO", "THUNES", "MTN", "LEGACY"}
      BY <2>2, PayoutsAssumption DEF Kinds
    <3> QED
      BY <3>1, <2>1 DEF Answers, TmoneyAnswers, FloozAnswers, MomoAnswers, ThunesAnswers, MtnAnswers,
                        LegacyAnswers, Accepted, Refusals, Refusal
  <2> DEFINE Goal == /\ draft'[p].ref \in Own(p)
                     /\ draft'[p].status = "CONFIRMED" => Paid(p)'
  <2>5. ASSUME NEW s, NEW r \in {answer.ref, None}, NEW n, NEW b, Write(w, p, s, r, n, b),
               s = "CONFIRMED" => answer.status = "CONFIRMED"
        PROVE  Goal
    <3>1. draft'[p].ref = Coalesce(r, row[p].ref) /\ draft'[p].status = s
      BY <1>2, <2>5
    <3>2. draft'[p].ref \in Own(p)
      BY <1>1, <2>3, <2>4, <2>5, <3>1 DEF Coalesce
    <3>3. s = "CONFIRMED" => Paid(p)'
      BY <1>1, <2>1, <2>2, <2>4, <2>5, LegacyTruth DEF key
    <3> QED
      BY <3>1, <3>2, <3>3
  <2> HIDE DEF Goal
  <2>6. Goal
    BY <2>1, <2>5 DEF Record
  <2> QED
    BY <2>6 DEF Goal
<1> QED
  BY <1>3, <1>4, <1>5 DEF Handle

\* How a transfer ended stays ...
LEMMA EndStays ==
  ASSUME IInv, FreeSlots, [Next]_vars, NEW p \in Payouts, NEW n \in 1 .. MaxSends,
         xfer[p][n].state \in {"paid", "rejected"}
  PROVE  xfer'[p][n].state = xfer[p][n].state
<1>1. ASSUME NEW q \in Payouts, NEW m \in 1 .. MaxSends, NEW o \in {"paid", "rejected"}, Settle(q, m, o)
      PROVE  xfer'[p][n].state = xfer[p][n].state
  BY <1>1, SettleKeeps
<1>2. ASSUME NEW q \in Payouts, Submitted(q) PROVE xfer'[p][n] = xfer[p][n]
  <2>1. sends[p] \in Nat /\ n \in Nat /\ ~(n > sends[p])
    BY PayoutsAssumption DEF FreeSlots, IInv, TypeOK, MaxSends
  <2>2. n # sends[p] + 1
    BY <2>1
  <2>3. CASE q # p
    BY <1>2, <2>3, SubmissionAdds
  <2>4. ASSUME q = p, NEW t, xfer'[p] = [xfer[p] EXCEPT ![sends[p] + 1] = t]
        PROVE  xfer'[p][n] = xfer[p][n]
    BY <2>2, <2>4 DEF IInv, TypeOK
  <2> QED
    BY <1>2, <2>3, <2>4, SubmissionAdds
<1> QED
  BY <1>1, <1>2, XferSteps

\* ... and so does a payment.
LEMMA PaidStays ==
  ASSUME IInv, FreeSlots, [Next]_vars, NEW p \in Payouts, Paid(p)
  PROVE  Paid(p)'
BY EndStays DEF Paid

\* What a submission does to the slots of its payout.
LEMMA SubmissionSlots ==
  ASSUME IInv, NEW q \in Payouts, Submitted(q)
  PROVE  /\ sends'[q] = sends[q] + 1 /\ sends[q] + 1 \in 1 .. MaxSends
         /\ \A p \in Payouts \ {q} : sends'[p] = sends[p] /\ xfer'[p] = xfer[p]
         /\ \A n \in 1 .. MaxSends :
              \/ xfer'[q][n] = xfer[q][n]
              \/ /\ n = sends[q] + 1 /\ xfer'[q][n].key = SubmissionKey(q)
                 /\ xfer'[q][n].state = IF Kind[q] = "LEGACY" THEN "paid" ELSE "open"
<1>1. sends[q] + 1 \in 1 .. MaxSends
  BY DEF Submitted
<1>2. /\ sends'[q] = sends[q] + 1
      /\ \A p \in Payouts \ {q} : sends'[p] = sends[p] /\ xfer'[p] = xfer[p]
  BY SubmissionAdds DEF IInv, TypeOK
<1>3. CASE xfer'[q] = xfer[q]
  BY <1>1, <1>2, <1>3
<1>4. CASE xfer'[q] = [xfer[q] EXCEPT ![sends[q] + 1] =
                         [state |-> IF Kind[q] = "LEGACY" THEN "paid" ELSE "open",
                          key |-> SubmissionKey(q)]]
  BY <1>1, <1>2, <1>4 DEF IInv, TypeOK
<1> QED
  BY <1>3, <1>4, SubmissionAdds

\* The books of the providers: slots stay free until they are used, and
\* old-style adapters pay at once.
LEMMA SlotsKeep ==
  ASSUME IInv, FreeSlots, LegacyPays, [Next]_vars
  PROVE  FreeSlots' /\ LegacyPays'
<1>1. CASE UNCHANGED <<sends, xfer>>
  BY <1>1 DEF FreeSlots, LegacyPays
<1>2. ASSUME UNCHANGED sends,
             NEW q \in Payouts, NEW m \in 1 .. MaxSends, NEW o \in {"paid", "rejected"}, Settle(q, m, o)
      PROVE  FreeSlots' /\ LegacyPays'
  BY <1>2, SettleKeeps DEF FreeSlots, LegacyPays
<1>3. ASSUME NEW q \in Payouts, Submitted(q) PROVE FreeSlots' /\ LegacyPays'
  <2>1. \A p \in Payouts : sends[p] \in Nat
    BY PayoutsAssumption DEF IInv, TypeOK, MaxSends
  <2>2. FreeSlots'
    BY <1>3, <2>1, SubmissionSlots DEF FreeSlots
  <2>3. LegacyPays'
    BY <1>3, SubmissionSlots DEF LegacyPays
  <2> QED
    BY <2>2, <2>3
<1> QED
  BY <1>1, <1>2, <1>3, XferSteps

\* Transfers stay with the rows they are of.
LEMMA KeysKeep ==
  ASSUME Unmixed, IInv, RefInv, PaidInv, [Next]_vars
  PROVE  OwnKeys'
<1> DEFINE Keys == \A p \in Payouts, n \in 1 .. MaxSends :
             xfer'[p][n].state # "none" => row'[p].status # "ABSENT" /\ xfer'[p][n].key \in Own(p) \ {None}
<1>0. \A p \in Payouts : row[p].status # "ABSENT" => row'[p].status # "ABSENT"
  BY RowsStay
<1>1. CASE UNCHANGED <<sends, xfer>>
  BY <1>0, <1>1 DEF PaidInv, OwnReferences, OwnKeys
<1>2. ASSUME NEW q \in Payouts, NEW m \in 1 .. MaxSends, NEW o \in {"paid", "rejected"}, Settle(q, m, o)
      PROVE  Keys
  BY <1>0, <1>2, SettleKeeps DEF PaidInv, OwnReferences, OwnKeys
<1>3. ASSUME NEW q \in Payouts, Submitted(q) PROVE Keys
  <2>1. row[q].status # "ABSENT"
    BY <1>3 DEF Submitted, Submits
  <2>2. SubmissionKey(q) \in Own(q) \ {None}
    BY <1>3, <2>1, KeyIsOwn DEF Submitted
  <2> QED
    BY <1>0, <1>3, <2>1, <2>2, SubmissionSlots DEF PaidInv, OwnReferences, OwnKeys
<1> QED
  BY <1>1, <1>2, <1>3, XferSteps DEF OwnKeys, Own

\* Who writes a draft: the worker that handles its row.
LEMMA DraftWriter ==
  ASSUME IInv, [Next]_vars, NEW p \in Payouts, draft'[p] \notin {draft[p], None}
  PROVE  \E w \in Workers : Handle(w, p)
<1>1. ASSUME NEW w \in Workers, NEW q \in Payouts, Handle(w, q)
      PROVE  \E v \in Workers : Handle(v, p)
  BY <1>1, HandleWrites
<1>2. ASSUME NEW notice \in Notices, NEW override \in BOOLEAN, Notify(notice, override)
      PROVE  draft' = draft
  BY <1>2, NotifyChanges
<1>3. \A w \in Workers : Commit(w) \/ Abort(w) => draft'[p] \in {draft[p], None}
  BY DEF Commit, Abort, EndTx
<1> QED
  BY <1>1, <1>2, <1>3
  DEF Next, Webhook, AdminStep, Replay, Create, Settle, Claim, Start, ConfirmByHand,
      RetryRead, RetryWrite, RetryLost, vars

\* Every step keeps what is known of payments.
LEMMA NextPaidInv ==
  ASSUME Unmixed, IInv, RefInv, PaidInv, [Next]_vars
  PROVE  PaidInv'
<1>1. FreeSlots' /\ LegacyPays'
  BY SlotsKeep DEF PaidInv
<1>2. ASSUME NEW p \in Payouts, draft'[p] # None
      PROVE  /\ draft'[p].ref \in Own(p)
             /\ draft'[p].status = "CONFIRMED" => Paid(p)'
  <2>1. CASE draft'[p] = draft[p]
    BY <1>2, <2>1, PaidStays DEF PaidInv, OwnReferences, DraftsTellPaid
  <2>2. CASE draft'[p] # draft[p]
    BY <1>2, <2>2, DraftWriter, HandleTruth
  <2> QED
    BY <2>1, <2>2
<1>3. ASSUME NEW p \in Payouts PROVE row'[p].ref \in Own(p)
  BY Steps DEF RefInv, RowStep, PaidInv, OwnReferences, Own
<1>4. OwnReferences'
  BY <1>2, <1>3, KeysKeep DEF OwnReferences, Own
<1>5. DraftsTellPaid'
  BY <1>2 DEF DraftsTellPaid
<1> QED
  BY <1>1, <1>4, <1>5 DEF PaidInv

\* The invariant holds wherever no two rows share a reference.
LEMMA PaidInvStays == Spec /\ []Unmixed => []PaidInv
<1>1. Init => PaidInv
  BY DEF Init, PaidInv, OwnReferences, OwnKeys, FreeSlots, LegacyPays, DraftsTellPaid, Own, NoTransfer
<1>2. Unmixed /\ IInv /\ RefInv /\ PaidInv /\ [Next]_vars => PaidInv'
  BY NextPaidInv
<1> QED
  BY <1>1, <1>2, Accounting, RefInvHolds, PTL DEF Spec

\* If no two cash-outs bring one reference, no two rows do.
LEMMA DistinctUnmixed ==
  ASSUME DistinctReferences
  PROVE  Spec => []Unmixed
<1>1. Unmixed
  BY DEF DistinctReferences, Unmixed
<1> QED
  BY <1>1, PTL

\* So it holds if no two cash-outs bring one.
LEMMA PaidInvHolds ==
  ASSUME DistinctReferences
  PROVE  Spec => []PaidInv
BY DistinctUnmixed, PaidInvStays, PTL

\* Which rows a notice confirms: those it names.
LEMMA NotifyNames ==
  ASSUME IInv, NEW notice \in Notices, NEW override \in BOOLEAN, Notify(notice, override),
         NEW p \in Payouts, row'[p] # row[p]
  PROVE  /\ row'[p].status = notice.verdict /\ row[p].status # "ABSENT"
         /\ \/ notice.pref # None /\ notice.pref = row[p].ref
            \/ notice.eref # None /\ notice.eref = ExternalRef[p]
<1> DEFINE v == notice.verdict
           hits == Hits(notice, override)
           first == [q \in Payouts |-> IF q \in hits THEN Applied(row[q], v) ELSE row[q]]
<1>1. \/ row' = first
      \/ \E q \in Named(notice) : row' = [first EXCEPT ![q] = Applied(first[q], v)]
  BY DEF Notify, Update
<1>2. \A q \in hits : /\ row[q].status # "ABSENT"
                      /\ notice.pref # None /\ notice.pref = row[q].ref
  BY DEF Hits, Open
<1>3. \A q \in Named(notice) : /\ q \in Payouts /\ row[q].status # "ABSENT"
                               /\ notice.eref # None /\ notice.eref = ExternalRef[q]
  BY DEF Named
<1>4. \A r \in Row : Applied(r, v).status = v /\ Applied(Applied(r, v), v).status = v
  BY DEF Applied, Row
<1>5. row[p] \in Row
  BY DEF IInv, TypeOK
<1> HIDE DEF hits, v
<1>6. first[p] \in {row[p], Applied(row[p], v)} /\ (first[p] # row[p] => p \in hits)
  OBVIOUS
<1>7. first = [q \in Payouts |-> first[q]]
  OBVIOUS
<1> HIDE DEF first
<1>8. CASE row' = first
  BY <1>2, <1>4, <1>5, <1>6, <1>8 DEF v
<1>9. ASSUME NEW q \in Named(notice), row' = [first EXCEPT ![q] = Applied(first[q], v)]
      PROVE  /\ row'[p].status = v /\ row[p].status # "ABSENT"
             /\ \/ notice.pref # None /\ notice.pref = row[p].ref
                \/ notice.eref # None /\ notice.eref = ExternalRef[p]
  BY <1>2, <1>3, <1>4, <1>5, <1>6, <1>7, <1>9
<1> QED
  BY <1>1, <1>8, <1>9 DEF v

\* Who may confirm a payout.
LEMMA ConfirmStep ==
  ASSUME Unmixed, IInv, RefInv, PaidInv, [Next]_vars, NEW p \in Payouts,
         row[p].status # "CONFIRMED", row'[p].status = "CONFIRMED", ~ConfirmByHand(p)
  PROVE  Paid(p)
<1>0. row \in [Payouts -> Row]
  BY DEF IInv, TypeOK
<1>1. ASSUME NEW q \in Payouts, Create(q) PROVE FALSE
  BY <1>0, <1>1 DEF Create
<1>2. ASSUME NEW w \in Workers, Commit(w) PROVE Paid(p)
  <2>1. row'[p] = draft[p] /\ draft[p] # None
    BY <1>2, PayoutsAssumption DEF Commit, IInv, ClaimsAreExclusive
  <2> QED
    BY <2>1 DEF PaidInv, DraftsTellPaid
<1>3. ASSUME NEW notice \in Notices, NEW override \in BOOLEAN, Notify(notice, override) PROVE Paid(p)
  BY <1>3, NotifyNames, NoticeTruth
<1>4. ASSUME NEW q \in Payouts, ConfirmByHand(q) PROVE FALSE
  BY <1>0, <1>4 DEF ConfirmByHand
<1>5. ASSUME NEW a \in Admins, NEW q \in Payouts, RetryWrite(a, q) PROVE FALSE
  BY <1>0, <1>5 DEF RetryWrite
<1>6. CASE row' = row
  BY <1>6
<1>7. ASSUME NEW w \in Workers, NEW q \in Payouts, Handle(w, q) PROVE row' = row
  BY <1>7, HandleWrites
<1> QED
  BY <1>1, <1>2, <1>3, <1>4, <1>5, <1>6, <1>7
  DEF Next, Webhook, AdminStep, Replay, Settle, Claim, Abort, Start, RetryRead, RetryLost, vars

\* So CONFIRMED follows a payment wherever no two rows share a reference.
LEMMA ConfirmedPaid == Spec /\ []Unmixed => ConfirmedOnlyIfPaid
<1> DEFINE Truth == \A p \in Payouts :
             row[p].status # "CONFIRMED" /\ row'[p].status = "CONFIRMED" /\ Unshared(p) =>
               ConfirmByHand(p) \/ \E n \in 1 .. MaxSends : xfer[p][n].state = "paid"
<1>1. Unmixed /\ IInv /\ RefInv /\ PaidInv /\ [Next]_vars => [Truth]_vars
  BY ConfirmStep DEF Paid
<1>2. Spec /\ []Unmixed => [][Truth]_vars
  BY <1>1, Accounting, RefInvHolds, PaidInvStays, PTL DEF Spec
<1> QED
  BY <1>2 DEF ConfirmedOnlyIfPaid

\* Nobody is told CONFIRMED before the provider has paid, but by an operator's
\* hand (services/payout_worker.py, routes/webhooks.py), if no two cash-outs
\* bring the same reference.
THEOREM ConfirmedMeansPaid ==
  ASSUME DistinctReferences
  PROVE  Spec => ConfirmedOnlyIfPaid
BY DistinctUnmixed, ConfirmedPaid, PTL

-----------------------------------------------------------------------------
(* What is left of it where cash-outs share a reference: CONFIRMED follows a *)
(* payment under a reference the payout goes by.  Nothing is assumed of the  *)
(* references but that an id of a provider is none of the blank ones.        *)
NoneIsNoId == None \notin ProviderIds

\* PaidUnder, of one state of the providers' books.
PaidIn(books, refs) ==
  \E q \in Payouts, n \in 1 .. MaxSends :
    books[q][n].state = "paid" /\ {<<q, n>>, books[q][n].key} \cap refs # {}

GoesBy(ref, p) == {ref, ExternalRef[p]} \ {None}

DraftsNamePayments ==
  \A p \in Payouts : draft[p] # None /\ draft[p].status = "CONFIRMED" =>
    PaidIn(xfer, GoesBy(draft[p].ref, p))

NameInv == FreeSlots /\ LegacyPays /\ DraftsNamePayments

LEMMA PaidUnderIs ==
  ASSUME NEW refs, PaidIn(xfer, refs)
  PROVE  PaidUnder(refs)
<1>1. PICK q \in Payouts, n \in 1 .. MaxSends :
        xfer[q][n].state = "paid" /\ {<<q, n>>, xfer[q][n].key} \cap refs # {}
  BY DEF PaidIn
<1>2. <<q, n>> \in Transfers
  BY <1>1 DEF Transfers
<1> QED
  BY <1>1, <1>2 DEF PaidUnder

\* A transfer of which CONFIRMED is said has been paid.
LEMMA ConfirmedTransfer ==
  ASSUME IInv, NEW t \in Transfers, Verdict(xfer[t[1]][t[2]].state) = "CONFIRMED"
  PROVE  \E q \in Payouts, n \in 1 .. MaxSends : t = <<q, n>> /\ xfer[q][n].state = "paid"
<1>1. PICK q \in Payouts, n \in 1 .. MaxSends : t = <<q, n>> /\ xfer[q][n].state # "none"
  BY DEF Transfers
<1>2. xfer[q][n] \in Transfer
  BY DEF IInv, TypeOK
<1>3. xfer[q][n].state \in {"open", "paid", "rejected"}
  BY <1>1, <1>2 DEF Transfer
<1> QED
  BY <1>1, <1>3 DEF Verdict

\* A payment stays in the books, under its reference.
LEMMA PaidInStays ==
  ASSUME IInv, FreeSlots, [Next]_vars, NEW refs, PaidIn(xfer, refs)
  PROVE  PaidIn(xfer', refs)
<1>1. PICK q \in Payouts, n \in 1 .. MaxSends :
        xfer[q][n].state = "paid" /\ {<<q, n>>, xfer[q][n].key} \cap refs # {}
  BY DEF PaidIn
<1>2. xfer'[q][n].state = "paid"
  BY <1>1, EndStays
<1>3. xfer'[q][n].key = xfer[q][n].key
  <2>1. ASSUME NEW p \in Payouts, NEW m \in 1 .. MaxSends, NEW o \in {"paid", "rejected"}, Settle(p, m, o)
        PROVE  xfer'[q][n].key = xfer[q][n].key
    BY <2>1, SettleKeeps
  <2>2. ASSUME NEW p \in Payouts, Submitted(p) PROVE xfer'[q][n].key = xfer[q][n].key
    <3>1. sends[q] \in Nat /\ n \in Nat /\ ~(n > sends[q])
      BY <1>1, PayoutsAssumption DEF FreeSlots, IInv, TypeOK, MaxSends
    <3>2. n # sends[q] + 1
      BY <3>1
    <3> QED
      BY <2>2, <3>2, SubmissionSlots
  <2> QED
    BY <2>1, <2>2, XferSteps
<1> QED
  BY <1>1, <1>2, <1>3 DEF PaidIn

\* An old-style adapter that says CONFIRMED names a transfer that is paid.
LEMMA LegacyNames ==
  ASSUME IInv, LegacyPays, NEW p \in Payouts, Kind[p] = "LEGACY", sends[p] + 1 \in 1 .. MaxSends,
         NEW id \in IdsFor(p, SubmissionKey(p)), Request(p, SubmissionKey(p), TRUE)
  PROVE  \E q \in Payouts, n \in 1 .. MaxSends : id = <<q, n>> /\ xfer'[q][n].state = "paid"
<1> DEFINE D == Duplicates(p, SubmissionKey(p))
<1>1. CASE D = {}
  <2>1. xfer' = [xfer EXCEPT ![p][sends[p] + 1] = [state |-> "paid", key |-> SubmissionKey(p)]]
    BY <1>1 DEF Request
  <2>2. xfer'[p][sends[p] + 1] = [state |-> "paid", key |-> SubmissionKey(p)]
    BY <2>1 DEF IInv, TypeOK
  <2>3. id = <<p, sends[p] + 1>>
    BY <1>1 DEF IdsFor
  <2> QED
    BY <2>2, <2>3
<1>2. CASE D # {}
  <2>1. id \in Transfers /\ Kind[id[1]] = "LEGACY" /\ xfer' = xfer
    BY <1>2 DEF IdsFor, Duplicates, Request
  <2>2. PICK q \in Payouts, n \in 1 .. MaxSends : id = <<q, n>> /\ xfer[q][n].state # "none"
    BY <2>1 DEF Transfers
  <2> QED
    BY <2>1, <2>2 DEF LegacyPays
<1> QED
  BY <1>1, <1>2

\* A worker that confirms a payout leaves it a reference that was paid.
LEMMA HandleNames ==
  ASSUME NoneIsNoId, IInv, LegacyPays, NEW w \in Workers, NEW p \in Payouts, Handle(w, p),
         draft'[p].status = "CONFIRMED"
  PROVE  PaidIn(xfer', GoesBy(draft'[p].ref, p))
<1>1. ASSUME NEW s, NEW r, NEW n, NEW b, Write(w, p, s, r, n, b)
      PROVE  draft'[p].ref = Coalesce(r, row[p].ref) /\ draft'[p].status = s
  BY <1>1 DEF Write, Updated, IInv, TypeOK
<1>2. CASE GiveUp(w, p) \/ RejectIncomplete(w, p) \/ RejectUnsupported(w, p) \/ HandlerError(w, p)
  <2>1. PICK s \in {"SENT", "FAILED"} : \E n, b : Write(w, p, s, None, n, b)
    BY <1>2 DEF GiveUp, RejectIncomplete, RejectUnsupported, HandlerError
  <2> QED
    BY <1>1, <2>1
<1>3. CASE \E answer \in Terminal \cup {"SENT"} : Poll(w, p, answer)
  <2>1. PICK answer \in Terminal \cup {"SENT"} : Poll(w, p, answer)
    BY <1>3
  <2>2. /\ answer \in PollAnswers(p, row[p].ref) /\ row[p].ref # None /\ Kind[p] # "OTHER"
        /\ Write(w, p, answer, None, row[p].attempts, answer = "SENT") /\ xfer' = xfer
    BY <2>1 DEF Poll, MissingRef
  <2>3. draft'[p].ref = row[p].ref /\ answer = "CONFIRMED"
    BY <1>1, <2>2 DEF Coalesce
  <2>4. Kind[p] \in {"TMONEY", "FLOOZ", "MOMO", "THUNES", "MTN", "LEGACY"}
    BY <2>2, PayoutsAssumption DEF Kinds
  <2>5. "CONFIRMED" \in Found(p, row[p].ref)
    BY <2>2, <2>3, <2>4
    DEF PollAnswers, TmoneyPoll, FloozPoll, MomoPoll, ThunesPoll, LegacyPoll, MtnPoll
  <2>6. PICK t \in Transfers : /\ Verdict(xfer[t[1]][t[2]].state) = "CONFIRMED"
                               /\ row[p].ref \in {t, xfer[t[1]][t[2]].key}
    BY <2>5 DEF Found
  <2>7. PICK q \in Payouts, n \in 1 .. MaxSends : t = <<q, n>> /\ xfer[q][n].state = "paid"
    BY <2>6, ConfirmedTransfer
  <2> QED
    BY <2>2, <2>3, <2>6, <2>7 DEF PaidIn, GoesBy
<1>4. CASE Send(w, p) \/ Resend(w, p)
  <2> DEFINE key == SubmissionKey(p)
             ids == IdsFor(p, key)
  <2>1. PICK answer \in Answers(p, key, ids) : Request(p, key, answer.took) /\ Record(w, p, answer)
    BY <1>4 DEF Send, Resend, Submission
  <2>2. sends[p] + 1 \in 1 .. MaxSends /\ Kind[p] # "OTHER"
    BY <1>4, Headroom DEF Send, Resend
  <2> HIDE DEF key, ids
  <2>3. answer.status = "CONFIRMED" /\ draft'[p].ref = Coalesce(answer.ref, row[p].ref)
    <3> DEFINE Confirmed == /\ answer.status = "CONFIRMED"
                            /\ draft'[p].ref = Coalesce(answer.ref, row[p].ref)
    <3>1. ASSUME NEW s, NEW r, NEW n, NEW b, Write(w, p, s, r, n, b),
                 s = "CONFIRMED" => answer.status = "CONFIRMED" /\ r = answer.ref
          PROVE  Confirmed
      BY <1>1, <3>1
    <3> HIDE DEF Confirmed
    <3>2. Confirmed
      BY <2>1, <3>1 DEF Record
    <3> QED
      BY <3>2 DEF Confirmed
  <2>4. Kind[p] = "LEGACY" /\ answer.took = TRUE /\ answer.ref \in ids
    <3>1. Kind[p] \in {"TMONEY", "FLOOZ", "MOMO", "THUNES", "MTN", "LEGACY"}
      BY <2>2, PayoutsAssumption DEF Kinds
    <3> QED
      BY <3>1, <2>1, <2>3 DEF Answers, TmoneyAnswers, FloozAnswers, MomoAnswers, ThunesAnswers,
                              MtnAnswers, LegacyAnswers, Accepted, Refusals, Refusal
  <2>5. PICK q \in Payouts, n \in 1 .. MaxSends : answer.ref = <<q, n>> /\ xfer'[q][n].state = "paid"
    BY <2>1, <2>2, <2>4, LegacyNames DEF key, ids
  <2>6. answer.ref # None
    <3>1. n \in 0 .. MaxSends
      BY PayoutsAssumption DEF MaxSends
    <3> QED
      BY <2>5, <3>1 DEF NoneIsNoId, ProviderIds
  <2>7. draft'[p].ref = answer.ref
    BY <2>3, <2>6 DEF Coalesce
  <2> QED
    BY <2>5, <2>6, <2>7 DEF PaidIn, GoesBy
<1> QED
  BY <1>2, <1>3, <1>4 DEF Handle

LEMMA NextNameInv ==
  ASSUME NoneIsNoId, IInv, NameInv, [Next]_vars
  PROVE  NameInv'
<1>1. FreeSlots' /\ LegacyPays'
  BY SlotsKeep DEF NameInv
<1>2. ASSUME NEW p \in Payouts, draft'[p] # None, draft'[p].status = "CONFIRMED"
      PROVE  PaidIn(xfer', GoesBy(draft'[p].ref, p))
  <2>1. CASE draft'[p] = draft[p]
    BY <1>2, <2>1, PaidInStays DEF NameInv, DraftsNamePayments
  <2>2. CASE draft'[p] # draft[p]
    BY <1>2, <2>2, DraftWriter, HandleNames DEF NameInv
  <2> QED
    BY <2>1, <2>2
<1>3. DraftsNamePayments'
  BY <1>2 DEF DraftsNamePayments, GoesBy, PaidIn
<1> QED
  BY <1>1, <1>3 DEF NameInv

\* Who may confirm a payout, and what that names.
LEMMA ConfirmNames ==
  ASSUME IInv, RefInv, NameInv, [Next]_vars, NEW p \in Payouts,
         row[p].status # "CONFIRMED", row'[p].status = "CONFIRMED", ~ConfirmByHand(p)
  PROVE  PaidIn(xfer, GoesBy(row'[p].ref, p))
<1>0. row \in [Payouts -> Row]
  BY DEF IInv, TypeOK
<1>1. ASSUME NEW q \in Payouts, Create(q) PROVE FALSE
  BY <1>0, <1>1 DEF Create
<1>2. ASSUME NEW w \in Workers, Commit(w) PROVE PaidIn(xfer, GoesBy(row'[p].ref, p))
  <2>1. row'[p] = draft[p] /\ draft[p] # None
    BY <1>2, PayoutsAssumption DEF Commit, IInv, ClaimsAreExclusive
  <2> QED
    BY <2>1 DEF NameInv, DraftsNamePayments
<1>3. ASSUME NEW notice \in Notices, NEW override \in BOOLEAN, Notify(notice, override)
      PROVE  PaidIn(xfer, GoesBy(row'[p].ref, p))
  <2>1. row'[p].ref = row[p].ref
    BY <1>3, NotifyKeepsRefs
  <2>2. /\ notice.verdict = "CONFIRMED"
        /\ \/ notice.pref # None /\ notice.pref = row[p].ref
           \/ notice.eref # None /\ notice.eref = ExternalRef[p]
    BY <1>3, NotifyNames
  <2>3. PICK t \in Transfers : notice \in NoticesOf(t)
    BY DEF Notices
  <2>4. /\ notice.pref \in {xfer[t[1]][t[2]].key, t, None}
        /\ notice.eref \in {xfer[t[1]][t[2]].key, None}
        /\ notice.verdict \in {"SENT", Verdict(xfer[t[1]][t[2]].state)}
    BY <2>3 DEF NoticesOf
  <2>5. PICK q \in Payouts, n \in 1 .. MaxSends : t = <<q, n>> /\ xfer[q][n].state = "paid"
    BY <2>2, <2>4, ConfirmedTransfer
  <2> QED
    BY <2>1, <2>2, <2>4, <2>5 DEF PaidIn, GoesBy
<1>4. ASSUME NEW q \in Payouts, ConfirmByHand(q) PROVE FALSE
  BY <1>0, <1>4 DEF ConfirmByHand
<1>5. ASSUME NEW a \in Admins, NEW q \in Payouts, RetryWrite(a, q) PROVE FALSE
  BY <1>0, <1>5 DEF RetryWrite
<1>6. CASE row' = row
  BY <1>6
<1>7. ASSUME NEW w \in Workers, NEW q \in Payouts, Handle(w, q) PROVE row' = row
  BY <1>7, HandleWrites
<1> QED
  BY <1>1, <1>2, <1>3, <1>4, <1>5, <1>6, <1>7
  DEF Next, Webhook, AdminStep, Replay, Settle, Claim, Abort, Start, RetryRead, RetryLost, vars

\* Whatever references cash-outs bring, one that is told CONFIRMED otherwise
\* than by an operator's hand goes by a reference under which a provider has
\* paid (repository.update_status_by_any_ref, payout_worker._poll_sent).
THEOREM ConfirmedNamesPayment ==
  ASSUME NoneIsNoId
  PROVE  Spec => ConfirmedNamesAPayment
<1> DEFINE Says == \A p \in Payouts :
             row[p].status # "CONFIRMED" /\ row'[p].status = "CONFIRMED" =>
               ConfirmByHand(p) \/ PaidUnder({row'[p].ref, ExternalRef[p]} \ {None})
<1>1. Init => NameInv
  BY DEF Init, NameInv, FreeSlots, LegacyPays, DraftsNamePayments, NoTransfer
<1>2. IInv /\ NameInv /\ [Next]_vars => NameInv'
  BY NextNameInv
<1>3. IInv /\ RefInv /\ NameInv /\ [Next]_vars => [Says]_vars
  BY ConfirmNames, PaidUnderIs DEF GoesBy
<1>4. Spec => [][Says]_vars
  BY <1>1, <1>2, <1>3, Accounting, RefInvHolds, PTL DEF Spec
<1> QED
  BY <1>4 DEF ConfirmedNamesAPayment

-----------------------------------------------------------------------------
(* Payouts implements PayoutLifecycle, what a customer is promised, as long  *)
(* as no operator intervenes, every cash-out brings a reference, the rows    *)
(* there are have references of their own, and the providers recognise one   *)
(* that is repeated.                                                         *)
(*                                                                           *)
(* The argument: without operators a row is PENDING only before its first    *)
(* answer is committed, with the reference it was created with, so all       *)
(* submissions of a payout carry that one reference and make one transfer;   *)
(* what the customer is told changes in steps that move no money.            *)
PromiseAssumption ==
  /\ AdminOps = {}
  /\ \A p \in Payouts : ExternalRef[p] # None /\ Kind[p] \in Dedups

NoRetries == \A a \in Admins : retry[a] = None

PendingIsNew == \A p \in Payouts : row[p].status = "PENDING" => row[p].ref = ExternalRef[p]

OneEach == \A p \in Payouts : One(p, ExternalRef[p])

PromiseInv == NoRetries /\ PendingIsNew /\ OneEach

AllInv == Unmixed /\ IInv /\ RefInv /\ PaidInv /\ PromiseInv

-----------------------------------------------------------------------------
(* The invariant.                                                           *)

\* Without operators nothing takes a payout back.
LEMMA NoAdminStep == ASSUME AdminOps = {}, NoRetries PROVE ~AdminStep
BY PayoutsAssumption DEF NoRetries, AdminStep, Replay, ConfirmByHand, RetryWrite

\* A row becomes PENDING when it is created only.
LEMMA PendingSteps ==
  ASSUME AdminOps = {}, IInv, RefInv, NoRetries, [Next]_vars, NEW p \in Payouts, row'[p].status = "PENDING"
  PROVE  row'[p] = row[p] \/ (row[p].status = "ABSENT" /\ row'[p].ref = ExternalRef[p])
<1>0. row \in [Payouts -> Row]
  BY DEF IInv, TypeOK
<1>1. ~AdminStep
  BY NoAdminStep
<1>2. ASSUME NEW w \in Workers, Commit(w) PROVE row'[p] = row[p]
  <2>1. draft[p] # None => draft[p].status # "PENDING"
    BY DEF RefInv, RowsExist, Outcomes
  <2>2. lock[p] = w => draft[p] # None
    BY <1>2, PayoutsAssumption DEF Commit, IInv, ClaimsAreExclusive
  <2> QED
    BY <1>2, <2>1, <2>2 DEF Commit
<1>3. ASSUME Webhook PROVE row'[p] = row[p]
  <2>1. PICK notice \in Notices : Notify(notice, FALSE)
    BY <1>3 DEF Webhook
  <2>2. notice.verdict # "PENDING"
    BY NoticeSays DEF Outcomes
  <2> QED
    BY <2>1, <2>2, NotifyNames
<1>4. ASSUME NEW q \in Payouts, Create(q)
      PROVE  row'[p] = row[p] \/ (row[p].status = "ABSENT" /\ row'[p].ref = ExternalRef[p])
  BY <1>0, <1>4 DEF Create, Row
<1>5. CASE row' = row
  BY <1>5
<1>6. ASSUME NEW w \in Workers, NEW q \in Payouts, Handle(w, q) PROVE row' = row
  BY <1>6, HandleWrites
<1> QED
  BY <1>1, <1>2, <1>3, <1>4, <1>5, <1>6
  DEF Next, Settle, Claim, Abort, Start, RetryRead, RetryLost, vars

LEMMA FreshInvHolds ==
  ASSUME AdminOps = {}
  PROVE  Spec => [](NoRetries /\ PendingIsNew)
<1>1. Init => NoRetries /\ PendingIsNew
  BY DEF Init, NoRetries, PendingIsNew
<1>2. IInv /\ RefInv /\ (NoRetries /\ PendingIsNew) /\ [Next]_vars => (NoRetries /\ PendingIsNew)'
  BY RetrySteps, PendingSteps DEF NoRetries, PendingIsNew
<1> QED
  BY <1>1, <1>2, Accounting, RefInvHolds, PTL DEF Spec

\* A payout is submitted while it is PENDING, under the reference of its cash-out.
LEMMA SubmittedNew ==
  ASSUME PromiseAssumption, AllInv, NEW p \in Payouts, Submitted(p)
  PROVE  row[p].status = "PENDING" /\ SubmissionKey(p) = ExternalRef[p]
<1>1. ExternalRef[p] # None
  BY DEF PromiseAssumption
<1>2. row[p].status = "PENDING"
  BY <1>1 DEF AllInv, RefInv, RefsStay, Submitted, Submits, MissingRef
<1>3. row[p].ref = ExternalRef[p]
  BY <1>2 DEF AllInv, PromiseInv, PendingIsNew
<1> QED
  BY <1>1, <1>2, <1>3 DEF SubmissionKey, Coalesce

LEMMA NextPromiseInv ==
  ASSUME PromiseAssumption, AllInv, [Next]_vars
  PROVE  PromiseInv'
<1>1. AdminOps = {} /\ IInv /\ RefInv /\ NoRetries /\ PendingIsNew
  BY DEF PromiseAssumption, AllInv, PromiseInv
<1>2. NoRetries' /\ PendingIsNew'
  BY <1>1, RetrySteps, PendingSteps DEF NoRetries, PendingIsNew
<1>3. OneEach'
  <2> SUFFICES ASSUME NEW p \in Payouts PROVE One(p, ExternalRef[p])'
    BY DEF OneEach
  <2>1. One(p, ExternalRef[p])
    BY DEF AllInv, PromiseInv, OneEach
  <2>2. Submitted(p) => SubmissionKey(p) = ExternalRef[p]
    BY SubmittedNew
  <2>3. IInv /\ Kind[p] \in Dedups
    BY DEF AllInv, PromiseAssumption
  <2> QED
    BY <2>1, <2>2, <2>3, OneByKey
<1> QED
  BY <1>2, <1>3 DEF PromiseInv

LEMMA PromiseInvHolds ==
  ASSUME PromiseAssumption
  PROVE  Spec /\ []Unmixed => []AllInv
<1>1. Init => PromiseInv
  BY DEF Init, PromiseInv, NoRetries, PendingIsNew, OneEach, One, NoTransfer
<1>2. AllInv /\ [Next]_vars => PromiseInv'
  BY NextPromiseInv
<1>3. AllInv <=> Unmixed /\ IInv /\ RefInv /\ PaidInv /\ PromiseInv
  BY DEF AllInv
<1> QED
  BY <1>1, <1>2, <1>3, PaidInvStays, Accounting, RefInvHolds, PTL DEF Spec

-----------------------------------------------------------------------------
(* What the customer sees.                                                  *)

\* What a customer is told changes from waiting to an outcome, and to CONFIRMED
\* only if the provider paid.
LEMMA ToldSteps ==
  ASSUME PromiseAssumption, AllInv, [Next]_vars, NEW p \in Payouts
  PROVE  \/ Told(p)' = Told(p)
         \/ Told(p) = "ABSENT" /\ Told(p)' = "waiting"
         \/ Told(p) = "waiting" /\ Told(p)' = "FAILED"
         \/ Told(p) = "waiting" /\ Told(p)' = "CONFIRMED" /\ Paid(p)
<1>1. row[p].status \in Status /\ row'[p].status \in Status
  <2>1. IInv'
    BY NextIInv DEF AllInv
  <2> QED
    BY <2>1 DEF AllInv, IInv, TypeOK, Row
<1>2. ~AdminStep
  BY NoAdminStep DEF AllInv, PromiseInv, PromiseAssumption
<1>3. row[p].status \in Terminal => row'[p].status = row[p].status
  BY <1>2, TerminalStays DEF AllInv
<1>4. row[p].status # "CONFIRMED" /\ row'[p].status = "CONFIRMED" => Paid(p)
  BY <1>2, ConfirmStep DEF AllInv, AdminStep
<1>5. RowStep(p)
  BY Steps DEF AllInv, RefInv
<1>6. /\ row[p].status # "ABSENT" => row'[p].status # "ABSENT"
      /\ row[p].status = "ABSENT" => row'[p].status \in {"ABSENT", "PENDING"}
  BY <1>5 DEF RowStep, AllInv, IInv, ClaimsAreExclusive, RefInv, RowsExist, Outcomes
<1> QED
  BY <1>1, <1>3, <1>4, <1>6 DEF Told, Status, Terminal

\* How a transfer shows.
Shows(state) == CASE state = "none" -> "none"
                  [] state = "open" -> "moving"
                  [] state = "paid" -> "paid"
                  [] state = "rejected" -> "bounced"

\* Money, of one payout's transfers.
MoneyBy(transfers) ==
  LET States == {transfers[n].state : n \in 1 .. MaxSends} IN
  CASE "paid" \in States -> "paid"
    [] "paid" \notin States /\ "open" \in States -> "moving"
    [] States \cap {"paid", "open"} = {} /\ "rejected" \in States -> "bounced"
    [] OTHER -> "none"

\* The money of a payout with one transfer is where that transfer is.
LEMMA MoneyShows ==
  ASSUME NEW f, NEW n \in 1 .. MaxSends,
         \A m \in (1 .. MaxSends) \ {n} : f[m].state = "none",
         f[n].state \in {"none", "open", "paid", "rejected"}
  PROVE  MoneyBy(f) = Shows(f[n].state)
BY DEF MoneyBy, Shows

LEMMA MoneyIsBy ==
  ASSUME NEW p \in Payouts
  PROVE  Money(p) = MoneyBy(xfer[p]) /\ Money(p)' = MoneyBy(xfer'[p])
BY DEF Money, MoneyBy

\* Money leaves while the payout waits, and arrives or bounces once.
LEMMA MoneySteps ==
  ASSUME PromiseAssumption, AllInv, [Next]_vars, NEW p \in Payouts
  PROVE  \/ Money(p)' = Money(p)
         \/ /\ UNCHANGED row
            /\ Money(p) = "moving" /\ Money(p)' \in {"paid", "bounced"}
         \/ /\ UNCHANGED row /\ row[p].status = "PENDING"
            /\ Money(p) = "none" /\ Money(p)' \in {"moving", "paid"}
<1>0. xfer \in [Payouts -> [1 .. MaxSends -> Transfer]]
  BY DEF AllInv, IInv, TypeOK
<1>1. CASE xfer'[p] = xfer[p]
  BY <1>1, MoneyIsBy
<1>2. ASSUME NEW q \in Payouts, NEW n \in 1 .. MaxSends, NEW o \in {"paid", "rejected"}, Settle(q, n, o),
             xfer'[p] # xfer[p]
      PROVE  UNCHANGED row /\ Money(p) = "moving" /\ Money(p)' \in {"paid", "bounced"}
  <2>1. q = p /\ UNCHANGED row /\ xfer[p][n].state = "open"
    BY <1>0, <1>2 DEF Settle
  <2>2. xfer' = [xfer EXCEPT ![p][n].state = o]
    BY <1>2, <2>1 DEF Settle
  <2>3. \A m \in (1 .. MaxSends) \ {n} : xfer'[p][m] = xfer[p][m]
    BY <1>0, <2>2
  <2>4. xfer'[p][n].state = o
    <3>1. xfer[p][n] \in Transfer
      BY <1>0
    <3>2. xfer'[p][n] = [xfer[p][n] EXCEPT !.state = o]
      BY <1>0, <2>2
    <3> QED
      BY <3>1, <3>2 DEF Transfer
  <2>5. \A m \in (1 .. MaxSends) \ {n} : xfer[p][m].state = "none"
    BY <2>1 DEF AllInv, PromiseInv, OneEach, One
  <2>6. Money(p) = Shows("open")
    BY <2>1, <2>5, MoneyShows, MoneyIsBy
  <2>7. Money(p)' = Shows(o)
    BY <2>3, <2>4, <2>5, MoneyShows, MoneyIsBy
  <2> QED
    BY <2>1, <2>6, <2>7 DEF Shows
<1>3. ASSUME Submitted(p), UNCHANGED row, xfer'[p] # xfer[p]
      PROVE  row[p].status = "PENDING" /\ Money(p) = "none" /\ Money(p)' \in {"moving", "paid"}
  <2> DEFINE n == sends[p] + 1
             key == SubmissionKey(p)
             t == [state |-> IF Kind[p] = "LEGACY" THEN "paid" ELSE "open", key |-> key]
  <2>1. Duplicates(p, key) = {} /\ xfer'[p] = [xfer[p] EXCEPT ![n] = t]
    BY <1>3, SubmissionAdds DEF AllInv
  <2>2. row[p].status = "PENDING" /\ key = ExternalRef[p]
    BY <1>3, SubmittedNew
  <2> HIDE DEF key
  <2>3. \A m \in 1 .. MaxSends : xfer[p][m].state = "none"
    <3> SUFFICES ASSUME NEW m \in 1 .. MaxSends, xfer[p][m].state # "none" PROVE FALSE
      OBVIOUS
    <3>1. xfer[p][m].key = key /\ Kind[p] \in Dedups
      BY <2>2 DEF AllInv, PromiseInv, OneEach, One, PromiseAssumption
    <3>2. <<p, m>> \in Duplicates(p, key)
      BY <3>1 DEF Duplicates, Transfers
    <3> QED
      BY <2>1, <3>2
  <2>4. n \in 1 .. MaxSends
    BY <1>3 DEF Submitted
  <2>5. t.state \in {"open", "paid"}
    OBVIOUS
  <2> HIDE DEF t, n
  <2>6. xfer'[p][n] = t /\ \A m \in (1 .. MaxSends) \ {n} : xfer'[p][m] = xfer[p][m]
    BY <1>0, <2>1, <2>4
  <2>7. Money(p) = Shows("none")
    BY <2>3, <2>4, MoneyShows, MoneyIsBy
  <2>8. Money(p)' = Shows(t.state)
    BY <2>3, <2>4, <2>5, <2>6, MoneyShows, MoneyIsBy
  <2> QED
    BY <2>2, <2>5, <2>7, <2>8 DEF Shows
<1>4. ASSUME NEW q \in Payouts \ {p}, Submitted(q) PROVE xfer'[p] = xfer[p]
  BY <1>4, SubmissionAdds DEF AllInv
<1>5. \/ UNCHANGED xfer
      \/ \E q \in Payouts, n \in 1 .. MaxSends, o \in {"paid", "rejected"} : Settle(q, n, o)
      \/ UNCHANGED row /\ \E q \in Payouts : Submitted(q)
  BY XferSteps DEF AllInv
<1> QED
  BY <1>1, <1>2, <1>3, <1>4, <1>5

LEMMA PaidShows ==
  ASSUME NEW p \in Payouts, Paid(p)
  PROVE  Money(p) = "paid"
BY DEF Paid, Money

Seen(p) == [told |-> Told(p), money |-> Money(p)]

\* Every step of the rows, workers, providers and webhooks is one of the
\* lifecycle, payout by payout.
LEMMA SeenSteps ==
  ASSUME PromiseAssumption, AllInv, [Next]_vars, NEW p \in Payouts
  PROVE  Seen(p)' = Seen(p) \/ Promise!Step(Seen(p), Seen(p)')
<1> USE DEF Promise!Step, Promise!Opens, Promise!Leaves, Promise!Settles, Promise!Confirms, Promise!Fails
<1>1. CASE Money(p)' = Money(p)
  <2>1. CASE Told(p)' = Told(p)
    BY <1>1, <2>1 DEF Seen
  <2>2. CASE Told(p) = "ABSENT" /\ Told(p)' = "waiting"
    BY <1>1, <2>2 DEF Seen
  <2>3. CASE Told(p) = "waiting" /\ Told(p)' = "FAILED"
    BY <1>1, <2>3 DEF Seen
  <2>4. CASE Told(p) = "waiting" /\ Told(p)' = "CONFIRMED" /\ Paid(p)
    BY <1>1, <2>4, PaidShows DEF Seen
  <2> QED
    BY <2>1, <2>2, <2>3, <2>4, ToldSteps
<1>2. CASE /\ UNCHANGED row
           /\ Money(p) = "moving" /\ Money(p)' \in {"paid", "bounced"}
  <2>1. Told(p)' = Told(p)
    BY <1>2 DEF Told
  <2> QED
    BY <1>2, <2>1 DEF Seen
<1>3. CASE /\ UNCHANGED row /\ row[p].status = "PENDING"
           /\ Money(p) = "none" /\ Money(p)' \in {"moving", "paid"}
  <2>1. Told(p)' = Told(p) /\ Told(p) = "waiting"
    BY <1>3 DEF Told
  <2> QED
    BY <1>3, <2>1 DEF Seen
<1> QED
  BY <1>1, <1>2, <1>3, MoneySteps

LEMMA SeenTypes ==
  ASSUME IInv', NEW p \in Payouts
  PROVE  Seen(p)' \in Promise!State
<1>1. row'[p].status \in Status
  BY DEF IInv, TypeOK, Row
<1>2. Told(p)' \in {"ABSENT", "waiting", "CONFIRMED", "FAILED"}
  BY <1>1 DEF Told, Status, Terminal
<1>3. Money(p)' \in {"none", "moving", "paid", "bounced"}
  BY DEF Money
<1> QED
  BY <1>2, <1>3 DEF Seen, Promise!State

\* So the promise is kept wherever no two rows share a reference.
LEMMA PromiseStays ==
  ASSUME PromiseAssumption
  PROVE  Spec /\ []Unmixed => KeepsPromise
<1>1. Init => Promise!Init
  <2> SUFFICES ASSUME Init, NEW p \in Payouts PROVE Told(p) = "ABSENT" /\ Money(p) = "none"
    BY DEF Promise!Init
  <2>1. \A n \in 1 .. MaxSends : xfer[p][n].state = "none"
    BY DEF Init, NoTransfer
  <2> QED
    BY <2>1 DEF Init, Told, Money
<1>2. AllInv /\ IInv' /\ [Next]_vars => [Promise!Next]_([p \in Payouts |-> [told |-> Told(p), money |-> Money(p)]])
  <2> SUFFICES ASSUME AllInv, IInv', [Next]_vars
               PROVE  Promise!Next
    OBVIOUS
  <2> DEFINE seen == [p \in Payouts |-> [told |-> Told(p), money |-> Money(p)]]
  <2>1. \A p \in Payouts : seen[p] = Seen(p) /\ seen'[p] = Seen(p)'
    BY DEF Seen
  <2>2. seen' \in [Payouts -> Promise!State]
    BY SeenTypes DEF Seen
  <2>3. \A p \in Payouts : seen'[p] = seen[p] \/ Promise!Step(seen[p], seen'[p])
    <3> HIDE DEF seen
    <3> QED
      BY <2>1, SeenSteps
  <2> QED
    BY <2>2, <2>3 DEF Promise!Next
<1>3. Spec => []IInv
  BY Accounting
<1> QED
  BY <1>1, <1>2, <1>3, PromiseInvHolds, PTL DEF Spec, KeepsPromise, Promise!Spec

\* Rows, locks, retries and webhooks together keep the promise of
\* PayoutLifecycle: the money of a payout leaves once and while it waits,
\* CONFIRMED means paid, and what was told stays told.
THEOREM PromiseKept ==
  ASSUME PromiseAssumption, DistinctReferences
  PROVE  Spec => KeepsPromise
BY DistinctUnmixed, PromiseStays, PTL
=============================================================================
