---------------------------- MODULE PayoutsProofs ----------------------------
(* Proofs about Payouts: the inductive invariant behind the accounting of    *)
(* attempts and submissions, and the finality of terminal payouts.           *)
EXTENDS Payouts, TLAPS

\* A worker transaction counts at most one attempt on a row it has claimed.
DraftsCountOnce ==
  \A p \in Payouts :
    draft[p] # None => draft[p].attempts \in {row[p].attempts, row[p].attempts + 1}

IInv ==
  /\ TypeOK
  /\ ClaimsAreExclusive
  /\ AttemptsWithinLimit
  /\ UncountedSendsAreFaults
  /\ DraftsCountOnce

\* The invariant holds before anything happened.
LEMMA InitIInv == Init => IInv
  <1> SUFFICES ASSUME Init PROVE IInv
    OBVIOUS
  <1> USE PayoutsAssumption DEF Init
  <1>1. TypeOK
    <2>1. row \in [Payouts -> Row]
      BY DEF Row, Refs, Status
    <2>2. NoTransfer \in Transfer
      BY DEF NoTransfer, Transfer, Refs
    <2>3. xfer \in [Payouts -> [1 .. MaxSends -> Transfer]]
      BY <2>2
    <2>4. 0 \in 0 .. MaxSends /\ 0 \in 0 .. MaxFaults
      BY DEF MaxSends
    <2> QED
      BY <2>1, <2>3, <2>4 DEF TypeOK
  <1>2. ClaimsAreExclusive
    BY DEF ClaimsAreExclusive
  <1>3. AttemptsWithinLimit /\ UncountedSendsAreFaults /\ DraftsCountOnce
    BY DEF AttemptsWithinLimit, UncountedSendsAreFaults, DraftsCountOnce, Visible
  <1> QED
    BY <1>1, <1>2, <1>3 DEF IInv

\* Rows that nobody holds may change their status, reference and retryable
\* flag: what webhooks, operators and the cash-out itself do.
LEMMA UnlockedRowsChange ==
  ASSUME IInv,
         row' \in [Payouts -> Row],
         retry' \in [Admins -> Payouts \cup {None}],
         \A p \in Payouts : row'[p] # row[p] => lock[p] = None,
         \A p \in Payouts : row'[p].attempts = row[p].attempts,
         stopped' \subseteq Workers,
         UNCHANGED <<lock, todo, draft, sends, xfer, faults>>
  PROVE  IInv'
  <1> USE DEF IInv
  <1>1. TypeOK'
    BY DEF TypeOK
  <1>2. ClaimsAreExclusive'
    BY DEF ClaimsAreExclusive
  <1>3. \A p \in Payouts : Visible(p)'.attempts = Visible(p).attempts
    BY DEF Visible
  <1>4. AttemptsWithinLimit' /\ UncountedSendsAreFaults'
    BY <1>3 DEF AttemptsWithinLimit, UncountedSendsAreFaults
  <1>5. DraftsCountOnce'
    BY DEF DraftsCountOnce
  <1> QED
    BY <1>1, <1>2, <1>4, <1>5

\* A worker writes a row it has claimed and not handled yet, with at most one
\* attempt more than it read; what it submitted is covered by that attempt or
\* by a fault.
LEMMA WriteKeepsIInv ==
  ASSUME IInv, NEW w \in Workers, NEW p \in Payouts, Turn(w, p),
         NEW status \in Status, NEW ref \in Refs, NEW attempts \in Nat,
         NEW retryable \in BOOLEAN,
         Write(w, p, status, ref, attempts, retryable),
         attempts \in {row[p].attempts, row[p].attempts + 1},
         attempts <= MaxAttempts,
         sends' \in [Payouts -> 0 .. MaxSends],
         xfer' \in [Payouts -> [1 .. MaxSends -> Transfer]],
         faults' \in 0 .. MaxFaults, faults <= faults',
         \A q \in Payouts \ {p} : sends'[q] = sends[q],
         sends'[p] <= attempts + faults'
  PROVE  IInv'
  <1> DEFINE d == Updated(p, status, ref, attempts, retryable)
  <1> USE DEF IInv
  <1>1. d \in Row /\ d # None /\ d.attempts = attempts
    BY NoneIsNoRow DEF Updated, Row, Coalesce, TypeOK
  <1>2. /\ draft' = [draft EXCEPT ![p] = d]
        /\ todo' = [todo EXCEPT ![w] = @ \ {p}]
        /\ UNCHANGED <<row, lock, retry, stopped>>
    BY DEF Write
  <1>3. lock[p] = w /\ draft[p] = None
    BY PayoutsAssumption DEF Turn, ClaimsAreExclusive
  <1> HIDE DEF d
  <1>4. TypeOK'
    BY <1>1, <1>2 DEF TypeOK
  <1>5. ClaimsAreExclusive'
    <2> SUFFICES ASSUME NEW q \in Payouts
                 PROVE  /\ lock[q] # None =>
                             /\ row[q].status \in {"PENDING", "SENT"}
                             /\ q \in todo'[lock[q]] <=> draft'[q] = None
                        /\ lock[q] = None => draft'[q] = None
                        /\ \A v \in Workers : q \in todo'[v] => lock[q] = v
      BY <1>2 DEF ClaimsAreExclusive
    <2>1. \A v \in Workers : todo'[v] = IF v = w THEN todo[v] \ {p} ELSE todo[v]
      BY <1>2 DEF TypeOK
    <2>2. draft'[q] = IF q = p THEN d ELSE draft[q]
      BY <1>2 DEF TypeOK
    <2>3. lock[q] # None => lock[q] \in Workers
      BY DEF TypeOK
    <2>4. CASE q = p
      <3>1. row[p].status \in {"PENDING", "SENT"} /\ w # None
        BY <1>3, PayoutsAssumption DEF ClaimsAreExclusive
      <3>2. p \notin todo'[w] /\ draft'[p] # None
        BY <2>1, <2>2, <2>4, <1>1
      <3>3. \A v \in Workers : p \in todo'[v] => lock[p] = v
        BY <2>1 DEF ClaimsAreExclusive
      <3> QED
        BY <2>4, <3>1, <3>2, <3>3, <1>3
    <2>5. CASE q # p
      BY <2>1, <2>2, <2>3, <2>5 DEF ClaimsAreExclusive
    <2> QED
      BY <2>4, <2>5
  <1>6. Visible(p)' = d /\ \A q \in Payouts \ {p} : Visible(q)' = Visible(q)
    BY <1>1, <1>2 DEF Visible, TypeOK
  <1>7. AttemptsWithinLimit'
    BY <1>1, <1>6 DEF AttemptsWithinLimit
  <1>8. UncountedSendsAreFaults'
    <2> SUFFICES ASSUME NEW q \in Payouts
                 PROVE  sends'[q] <= Visible(q)'.attempts + faults'
      BY DEF UncountedSendsAreFaults
    <2>1. CASE q = p
      BY <2>1, <1>1, <1>6
    <2>2. CASE q # p
      <3>1. Visible(q).attempts \in Nat /\ faults \in Nat /\ faults' \in Nat /\ sends[q] \in Nat
        BY PayoutsAssumption DEF TypeOK, Visible, Row, MaxSends
      <3> QED
        BY <2>2, <3>1, <1>6 DEF UncountedSendsAreFaults
    <2> QED
      BY <2>1, <2>2
  <1>9. DraftsCountOnce'
    BY <1>1, <1>2 DEF DraftsCountOnce, TypeOK
  <1> QED
    BY <1>4, <1>5, <1>7, <1>8, <1>9

\* A row that may still be submitted leaves room for one more transfer.
LEMMA Headroom ==
  ASSUME IInv, NEW w \in Workers, NEW p \in Payouts, Turn(w, p), ~Exhausted(p)
  PROVE  /\ sends[p] + 1 \in 1 .. MaxSends
         /\ row[p].attempts + 1 <= MaxAttempts
         /\ sends[p] <= row[p].attempts + faults
  <1>1. draft[p] = None
    BY PayoutsAssumption DEF IInv, Turn, ClaimsAreExclusive
  <1>2. sends[p] <= row[p].attempts + faults
    BY <1>1 DEF IInv, UncountedSendsAreFaults, Visible
  <1>3. row[p].attempts \in Nat /\ sends[p] \in Nat /\ faults \in 0 .. MaxFaults
    BY PayoutsAssumption DEF IInv, TypeOK, Row, MaxSends
  <1>4. row[p].attempts < MaxAttempts
    BY <1>3, PayoutsAssumption DEF Exhausted
  <1> QED
    BY <1>2, <1>3, <1>4, PayoutsAssumption DEF MaxSends

\* A request adds one submission of its payout and at most one transfer.
LEMMA RequestTypes ==
  ASSUME IInv, NEW p \in Payouts, NEW key \in Refs, NEW took \in BOOLEAN,
         sends[p] + 1 \in 1 .. MaxSends, Request(p, key, took)
  PROVE  /\ sends' \in [Payouts -> 0 .. MaxSends]
         /\ xfer' \in [Payouts -> [1 .. MaxSends -> Transfer]]
         /\ sends'[p] = sends[p] + 1
         /\ \A q \in Payouts \ {p} : sends'[q] = sends[q]
  <1> DEFINE n == sends[p] + 1
             t == [state |-> IF Kind[p] = "LEGACY" THEN "paid" ELSE "open", key |-> key]
  <1>1. sends' = [sends EXCEPT ![p] = n] /\ (xfer' = [xfer EXCEPT ![p][n] = t] \/ xfer' = xfer)
    BY DEF Request
  <1>2. t \in Transfer
    BY DEF Transfer
  <1>3. n \in 0 .. MaxSends
    BY PayoutsAssumption DEF MaxSends
  <1> HIDE DEF t, n
  <1>4. sends' \in [Payouts -> 0 .. MaxSends]
    BY <1>1, <1>3 DEF IInv, TypeOK
  <1>5. xfer' \in [Payouts -> [1 .. MaxSends -> Transfer]]
    <2>1. CASE xfer' = xfer
      BY <2>1 DEF IInv, TypeOK
    <2>2. CASE xfer' = [xfer EXCEPT ![p][n] = t]
      <3>1. [xfer[p] EXCEPT ![n] = t] \in [1 .. MaxSends -> Transfer]
        BY <1>2 DEF IInv, TypeOK
      <3> QED
        BY <2>2, <3>1 DEF IInv, TypeOK
    <2> QED
      BY <1>1, <2>1, <2>2
  <1> QED
    BY <1>1, <1>4, <1>5 DEF IInv, TypeOK, n

\* Submissions carry references, and answers bring references.
LEMMA KeyIsRef ==
  ASSUME IInv, NEW p \in Payouts, sends[p] + 1 \in 1 .. MaxSends
  PROVE  SubmissionKey(p) \in Refs
  <1>1. row[p].ref \in Refs
    BY DEF IInv, TypeOK, Row
  <1>2. <<p, 0>> \in Refs /\ <<p, sends[p] + 1>> \in Refs /\ ExternalRef[p] \in Refs
    BY PayoutsAssumption DEF Refs, ProviderIds, MaxSends
  <1> QED
    BY <1>1, <1>2 DEF SubmissionKey, Coalesce

Answer == [status : Status, ref : Refs, retryable : BOOLEAN, took : BOOLEAN]

LEMMA AnswerTypes ==
  ASSUME IInv, NEW p \in Payouts, sends[p] + 1 \in 1 .. MaxSends, Kind[p] # "OTHER",
         NEW key \in Refs
  PROVE  Answers(p, key, IdsFor(p, key)) \subseteq Answer
  <1> DEFINE ids == IdsFor(p, key)
  <1>1. ids \subseteq Refs
    BY PayoutsAssumption
    DEF IdsFor, Duplicates, Transfers, Refs, ProviderIds, MaxSends
  <1> HIDE DEF ids
  <1>2. None \in Refs
    BY DEF Refs
  <1>3. Kind[p] \in {"TMONEY", "FLOOZ", "MOMO", "THUNES", "MTN", "LEGACY"}
    BY PayoutsAssumption DEF Kinds
  <1>4. ASSUME NEW s \in Status, NEW r \in Refs, NEW b \in BOOLEAN, NEW c \in BOOLEAN
        PROVE  [status |-> s, ref |-> r, retryable |-> b, took |-> c] \in Answer
    BY DEF Answer
  <1>5. \A r \in {key, None} : Refusals(r) \cup {Refusal(r, FALSE, FALSE)} \subseteq Answer
    BY <1>2, <1>4 DEF Refusals, Refusal, Status, Terminal
  <1>6. \A refs \in SUBSET Refs : /\ Accepted("SENT", refs, TRUE) \subseteq Answer
                                  /\ Accepted("SENT", refs, FALSE) \subseteq Answer
                                  /\ Accepted("CONFIRMED", refs, TRUE) \subseteq Answer
    BY <1>4 DEF Accepted, Status, Terminal
  <1>7. {key} \in SUBSET Refs /\ {key} \cup ids \in SUBSET Refs /\ ids \in SUBSET Refs
    BY <1>1
  <1>8. Answers(p, key, ids) \subseteq Answer
    BY <1>3, <1>5, <1>6, <1>7
    DEF Answers, TmoneyAnswers, FloozAnswers, MomoAnswers, ThunesAnswers, MtnAnswers, LegacyAnswers
  <1> QED
    BY <1>8 DEF ids

-----------------------------------------------------------------------------
(* One lemma per action that disturbs the invariant.                        *)

LEMMA ClaimKeepsIInv ==
  ASSUME IInv, NEW w \in Workers, NEW S \in SUBSET Payouts, Claim(w, S)
  PROVE  IInv'
  <1> USE DEF IInv, Claim, Claimable, Unlocked
  <1>1. /\ lock' = [p \in Payouts |-> IF p \in S THEN w ELSE lock[p]]
        /\ todo' = [todo EXCEPT ![w] = S]
        /\ UNCHANGED <<row, draft, sends, xfer, retry, stopped, faults>>
    OBVIOUS
  <1>2. TypeOK'
    BY <1>1 DEF TypeOK
  <1>3. \A v \in Workers : todo'[v] = IF v = w THEN S ELSE todo[v]
    BY <1>1 DEF TypeOK
  <1>4. todo[w] = {}
    BY DEF TypeOK, ClaimsAreExclusive
  <1>5. ClaimsAreExclusive'
    BY <1>1, <1>3, <1>4, PayoutsAssumption DEF ClaimsAreExclusive, TypeOK
  <1>6. AttemptsWithinLimit' /\ UncountedSendsAreFaults' /\ DraftsCountOnce'
    BY <1>1 DEF AttemptsWithinLimit, UncountedSendsAreFaults, DraftsCountOnce, Visible
  <1> QED
    BY <1>2, <1>5, <1>6

LEMMA HandleKeepsIInv ==
  ASSUME IInv, NEW w \in Workers, NEW p \in Payouts, Handle(w, p)
  PROVE  IInv'
  <1> DEFINE a == row[p].attempts
  <1>1. Turn(w, p)
    BY DEF Handle, GiveUp, RejectIncomplete, RejectUnsupported, Send, Resend, Submission, Poll, HandlerError
  <1>2. /\ a \in Nat /\ a <= MaxAttempts /\ faults \in Nat /\ sends[p] <= a + faults
        /\ None \in Refs /\ sends \in [Payouts -> 0 .. MaxSends] /\ faults \in 0 .. MaxFaults
        /\ xfer \in [Payouts -> [1 .. MaxSends -> Transfer]]
    <2>1. draft[p] = None
      BY <1>1, PayoutsAssumption DEF IInv, Turn, ClaimsAreExclusive
    <2> QED
      BY <2>1, PayoutsAssumption
      DEF IInv, TypeOK, Row, Refs, AttemptsWithinLimit, UncountedSendsAreFaults, Visible
  <1>3. \A s \in {"PENDING", "SENT", "FAILED", "CONFIRMED"} : s \in Status
    BY DEF Status, Terminal
  <1> HIDE DEF a
  <1>4. ASSUME NEW status \in {"SENT", "FAILED", "CONFIRMED"}, NEW attempts \in {a, a + 1},
               NEW retryable \in BOOLEAN, attempts <= MaxAttempts,
               Write(w, p, status, None, attempts, retryable),
               UNCHANGED <<sends, xfer, faults>>
        PROVE  IInv'
    <2>1. status \in Status /\ None \in Refs /\ attempts \in Nat
      BY <1>2, <1>3, <1>4
    <2>2. sends'[p] <= attempts + faults' /\ faults <= faults'
      BY <1>2, <1>4
    <2> QED
      BY <1>1, <1>2, <1>4, <2>1, <2>2, WriteKeepsIInv DEF a
  <1>5. CASE GiveUp(w, p)
    BY <1>2, <1>4, <1>5 DEF GiveUp, a
  <1>6. CASE RejectIncomplete(w, p)
    BY <1>1, <1>2, <1>4, <1>6, Headroom DEF RejectIncomplete, a
  <1>7. CASE RejectUnsupported(w, p)
    BY <1>2, <1>4, <1>7 DEF RejectUnsupported, a
  <1>8. CASE \E answer \in Terminal \cup {"SENT"} : Poll(w, p, answer)
    <2>1. PICK answer \in {"SENT", "FAILED", "CONFIRMED"} : Poll(w, p, answer)
      BY <1>8 DEF Terminal
    <2>2. Write(w, p, answer, None, a, answer = "SENT") /\ UNCHANGED <<sends, xfer, faults>>
      BY <2>1 DEF Poll, a
    <2>3. (answer = "SENT") \in BOOLEAN /\ a \in {a, a + 1}
      OBVIOUS
    <2> QED
      BY <1>2, <1>4, <2>2, <2>3
  <1>9. CASE Send(w, p) \/ Resend(w, p)
    <2> DEFINE key == SubmissionKey(p)
    <2>1. PICK answer \in Answers(p, key, IdsFor(p, key)) :
            Request(p, key, answer.took) /\ Record(w, p, answer)
      BY <1>9 DEF Send, Resend, Submission
    <2>2. faults' = faults /\ ~Exhausted(p) /\ Kind[p] # "OTHER"
      BY <1>9 DEF Send, Resend, Submission
    <2>3. sends[p] + 1 \in 1 .. MaxSends /\ a + 1 <= MaxAttempts
      BY <1>1, <2>2, Headroom DEF a
    <2>4. key \in Refs
      BY <2>3, KeyIsRef
    <2>5. answer \in Answer
      BY <2>2, <2>3, <2>4, AnswerTypes
    <2> HIDE DEF key
    <2>6. /\ sends' \in [Payouts -> 0 .. MaxSends]
          /\ xfer' \in [Payouts -> [1 .. MaxSends -> Transfer]]
          /\ sends'[p] = sends[p] + 1
          /\ \A q \in Payouts \ {p} : sends'[q] = sends[q]
      <3>1. answer.took \in BOOLEAN
        BY <2>5 DEF Answer
      <3> QED
        BY <2>1, <2>3, <2>4, <3>1, RequestTypes
    <2>7. \E status \in {"SENT", "FAILED", "CONFIRMED"}, ref \in Refs, b \in BOOLEAN :
            Write(w, p, status, ref, a + 1, b)
      BY <2>1, <2>5, <1>2 DEF Record, Answer, a
    <2>8. PICK status \in {"SENT", "FAILED", "CONFIRMED"}, ref \in Refs, b \in BOOLEAN :
            Write(w, p, status, ref, a + 1, b)
      BY <2>7
    <2>9. /\ status \in Status /\ a + 1 \in Nat
          /\ sends'[p] <= (a + 1) + faults' /\ faults <= faults' /\ faults' \in 0 .. MaxFaults
      BY <1>2, <1>3, <2>2, <2>6
    <2> QED
      BY <1>1, <2>3, <2>6, <2>8, <2>9, WriteKeepsIInv DEF a
  <1>10. CASE HandlerError(w, p)
    <2>1. faults' = faults + 1 /\ faults' \in 0 .. MaxFaults
      BY <1>2, <1>10, PayoutsAssumption DEF HandlerError
    <2>2. /\ sends' \in [Payouts -> 0 .. MaxSends]
          /\ xfer' \in [Payouts -> [1 .. MaxSends -> Transfer]]
          /\ sends'[p] \in {sends[p], sends[p] + 1}
          /\ \A q \in Payouts \ {p} : sends'[q] = sends[q]
      <3>1. CASE UNCHANGED <<sends, xfer>>
        BY <1>2, <3>1
      <3>2. CASE ~Exhausted(p) /\ \E took \in BOOLEAN : Request(p, SubmissionKey(p), took)
        <4>1. sends[p] + 1 \in 1 .. MaxSends
          BY <1>1, <3>2, Headroom
        <4>2. SubmissionKey(p) \in Refs
          BY <4>1, KeyIsRef
        <4> QED
          BY <3>2, <4>1, <4>2, RequestTypes
      <3> QED
        BY <1>10, <3>1, <3>2 DEF HandlerError
    <2>3. \E status \in {"SENT", "FAILED"}, b \in BOOLEAN : Write(w, p, status, None, a, b)
      BY <1>10 DEF HandlerError, a
    <2>4. sends'[p] <= a + faults' /\ faults <= faults'
      BY <1>2, <2>1, <2>2
    <2>5. PICK status \in {"SENT", "FAILED"}, b \in BOOLEAN : Write(w, p, status, None, a, b)
      BY <2>3
    <2>6. status \in Status /\ a \in {a, a + 1}
      BY <1>3
    <2> QED
      BY <1>1, <1>2, <2>1, <2>2, <2>4, <2>5, <2>6, WriteKeepsIInv DEF a
  <1> QED
    BY <1>5, <1>6, <1>7, <1>8, <1>9, <1>10 DEF Handle

LEMMA CommitKeepsIInv ==
  ASSUME IInv, NEW w \in Workers, Commit(w)
  PROVE  IInv'
  <1> USE DEF IInv
  <1>1. /\ todo[w] = {}
        /\ row' = [p \in Payouts |-> IF lock[p] = w THEN draft[p] ELSE row[p]]
        /\ lock' = [p \in Payouts |-> IF lock[p] = w THEN None ELSE lock[p]]
        /\ draft' = [p \in Payouts |-> IF lock[p] = w THEN None ELSE draft[p]]
        /\ UNCHANGED <<sends, xfer, retry, todo, stopped, faults>>
    BY DEF Commit, EndTx
  <1>2. \A p \in Payouts : lock[p] = w => draft[p] \in Row /\ draft[p] # None
    <2> SUFFICES ASSUME NEW p \in Payouts, lock[p] = w
                 PROVE  draft[p] \in Row /\ draft[p] # None
      OBVIOUS
    <2>1. p \in todo[w] <=> draft[p] = None
      BY PayoutsAssumption DEF ClaimsAreExclusive
    <2>2. draft[p] # None
      BY <1>1, <2>1
    <2> QED
      BY <2>2 DEF TypeOK
  <1>3. TypeOK'
    BY <1>1, <1>2 DEF TypeOK
  <1>4. \A p \in Payouts : Visible(p)' = Visible(p)
    BY <1>1, <1>2 DEF Visible
  <1>5. AttemptsWithinLimit' /\ UncountedSendsAreFaults'
    BY <1>1, <1>4 DEF AttemptsWithinLimit, UncountedSendsAreFaults
  <1>6. ClaimsAreExclusive'
    <2>1. \A v \in Workers, p \in Payouts : p \in todo[v] => lock[p] = v /\ v # w
      BY <1>1 DEF ClaimsAreExclusive
    <2> QED
      BY <1>1, <2>1 DEF ClaimsAreExclusive
  <1>7. DraftsCountOnce'
    BY <1>1 DEF DraftsCountOnce
  <1> QED
    BY <1>3, <1>5, <1>6, <1>7

\* A lost transaction takes its drafts along; the fault stands for the one
\* attempt each of them may have counted.
LEMMA AbortKeepsIInv ==
  ASSUME IInv, NEW w \in Workers, Abort(w)
  PROVE  IInv'
  <1> USE DEF IInv
  <1>1. /\ faults < MaxFaults /\ faults' = faults + 1
        /\ todo' = [todo EXCEPT ![w] = {}]
        /\ lock' = [p \in Payouts |-> IF lock[p] = w THEN None ELSE lock[p]]
        /\ draft' = [p \in Payouts |-> IF lock[p] = w THEN None ELSE draft[p]]
        /\ stopped' = stopped \cup {w}
        /\ UNCHANGED <<sends, xfer, retry, row>>
    BY DEF Abort, EndTx
  <1>2. TypeOK'
    BY <1>1, PayoutsAssumption DEF TypeOK
  <1>3. ClaimsAreExclusive'
    <2>1. \A v \in Workers : todo'[v] = IF v = w THEN {} ELSE todo[v]
      BY <1>1 DEF TypeOK
    <2> QED
      BY <1>1, <2>1 DEF ClaimsAreExclusive
  <1>4. DraftsCountOnce'
    BY <1>1 DEF DraftsCountOnce
  <1>5. ASSUME NEW p \in Payouts
        PROVE  /\ Visible(p)'.attempts <= MaxAttempts
               /\ sends'[p] <= Visible(p)'.attempts + faults'
    <2>1. /\ row[p].attempts \in Nat /\ sends[p] \in Nat /\ faults \in Nat
          /\ draft[p] # None => draft[p].attempts \in {row[p].attempts, row[p].attempts + 1}
          /\ Visible(p).attempts <= MaxAttempts
          /\ sends[p] <= Visible(p).attempts + faults
      BY PayoutsAssumption
      DEF TypeOK, Row, MaxSends, DraftsCountOnce, AttemptsWithinLimit, UncountedSendsAreFaults
    <2>2. /\ Visible(p) = IF draft[p] = None THEN row[p] ELSE draft[p]
          /\ Visible(p)' \in {row[p], Visible(p)}
      BY <1>1 DEF Visible
    <2> QED
      BY <1>1, <2>1, <2>2, PayoutsAssumption
  <1> QED
    BY <1>2, <1>3, <1>4, <1>5 DEF AttemptsWithinLimit, UncountedSendsAreFaults

\* A notice, from a webhook or replayed, writes rows that nobody holds.
LEMMA NotifyChanges ==
  ASSUME IInv, NEW notice \in Notices, NEW override \in BOOLEAN, Notify(notice, override)
  PROVE  /\ row' \in [Payouts -> Row]
         /\ \A p \in Payouts : row'[p] # row[p] => lock[p] = None /\ Open(row[p], override)
         /\ \A p \in Payouts : row'[p].attempts = row[p].attempts
         /\ UNCHANGED <<lock, todo, draft, sends, xfer, retry, stopped, faults>>
  <1> DEFINE hits == {p \in Payouts : /\ notice.pref # None /\ row[p].ref = notice.pref
                                      /\ Open(row[p], override)}
             first == [p \in Payouts |-> IF p \in hits THEN Applied(row[p], notice.verdict)
                                                        ELSE row[p]]
  <1>1. notice.verdict \in Status
    <2>1. PICK t \in Transfers : notice \in NoticesOf(t)
      BY DEF Notices
    <2>2. notice.verdict \in {"SENT", Verdict(xfer[t[1]][t[2]].state)}
      BY <2>1 DEF NoticesOf
    <2>3. xfer[t[1]][t[2]].state \in {"open", "paid", "rejected"}
      <3>1. PICK p \in Payouts, n \in 1 .. MaxSends : t = <<p, n>> /\ xfer[p][n].state # "none"
        BY DEF Transfers
      <3>2. xfer[p][n] \in Transfer
        BY DEF IInv, TypeOK
      <3> QED
        BY <3>1, <3>2 DEF Transfer
    <2> QED
      BY <2>2, <2>3 DEF Verdict, Status, Terminal
  <1>2. \A r \in Row : Applied(r, notice.verdict) \in Row /\ Applied(r, notice.verdict).attempts = r.attempts
    BY <1>1 DEF Applied, Row
  <1>3. row \in [Payouts -> Row]
    BY DEF IInv, TypeOK
  <1>4. /\ first \in [Payouts -> Row]
        /\ \A p \in Payouts : /\ first[p].attempts = row[p].attempts
                              /\ first[p] # row[p] => p \in hits
    BY <1>2, <1>3
  <1>5. /\ \A p \in hits : lock[p] = None
        /\ UNCHANGED <<lock, todo, draft, sends, xfer, retry, stopped, faults>>
        /\ \/ row' = first
           \/ \E p \in Payouts :
                /\ lock[p] = None /\ Open(first[p], override)
                /\ row' = [first EXCEPT ![p] = Applied(first[p], notice.verdict)]
    BY DEF Notify, Update, Hits, Named, Unlocked
  <1>6. \A p \in hits : p \in Payouts /\ Open(row[p], override)
    OBVIOUS
  <1> HIDE DEF hits, first
  <1>7. CASE row' = first
    BY <1>4, <1>5, <1>6, <1>7
  <1>8. ASSUME NEW p \in Payouts, lock[p] = None, Open(first[p], override),
               row' = [first EXCEPT ![p] = Applied(first[p], notice.verdict)]
        PROVE  /\ row' \in [Payouts -> Row]
               /\ \A q \in Payouts : row'[q] # row[q] => lock[q] = None /\ Open(row[q], override)
               /\ \A q \in Payouts : row'[q].attempts = row[q].attempts
    <2>1. Open(row[p], override)
      BY <1>4, <1>6, <1>8
    <2> QED
      BY <1>2, <1>4, <1>5, <1>6, <1>8, <2>1
  <1> QED
    BY <1>5, <1>7, <1>8

-----------------------------------------------------------------------------
\* Every step keeps the invariant.
LEMMA NextIInv == IInv /\ [Next]_vars => IInv'
  <1> SUFFICES ASSUME IInv, [Next]_vars PROVE IInv'
    OBVIOUS
  <1>0. /\ row \in [Payouts -> Row] /\ retry \in [Admins -> Payouts \cup {None}]
        /\ faults \in 0 .. MaxFaults /\ stopped \subseteq Workers
    BY DEF IInv, TypeOK
  <1>1. ASSUME NEW p \in Payouts, Create(p) PROVE IInv'
    <2>1. /\ row' = [row EXCEPT ![p].status = "PENDING", ![p].ref = ExternalRef[p]]
          /\ UNCHANGED <<lock, todo, draft, sends, xfer, retry, stopped, faults>>
      BY <1>1 DEF Create
    <2>2. lock[p] = None
      BY <1>1 DEF Create, IInv, ClaimsAreExclusive
    <2>3. row' \in [Payouts -> Row] /\ \A q \in Payouts : row'[q].attempts = row[q].attempts
      BY <1>0, <2>1 DEF Row, Refs, Status
    <2>4. \A q \in Payouts : row'[q] # row[q] => q = p
      BY <1>0, <2>1
    <2> QED
      BY <1>0, <2>1, <2>2, <2>3, <2>4, UnlockedRowsChange
  <1>2. ASSUME NEW p \in Payouts, NEW n \in 1 .. MaxSends, NEW o \in {"paid", "rejected"},
               Settle(p, n, o)
        PROVE  IInv'
    <2>1. xfer' = [xfer EXCEPT ![p][n].state = o]
      BY <1>2 DEF Settle
    <2>2. [xfer[p][n] EXCEPT !.state = o] \in Transfer
      <3>1. xfer[p][n] \in Transfer
        BY DEF IInv, TypeOK
      <3> QED
        BY <3>1 DEF Transfer
    <2>3. [xfer[p] EXCEPT ![n] = [xfer[p][n] EXCEPT !.state = o]] \in [1 .. MaxSends -> Transfer]
      BY <2>2 DEF IInv, TypeOK
    <2>4. xfer' \in [Payouts -> [1 .. MaxSends -> Transfer]]
      BY <2>1, <2>3 DEF IInv, TypeOK
    <2> QED
      BY <1>2, <2>4 DEF Settle, IInv, TypeOK, ClaimsAreExclusive, AttemptsWithinLimit,
                        UncountedSendsAreFaults, DraftsCountOnce, Visible
  <1>3. ASSUME NEW notice \in Notices, NEW override \in BOOLEAN, Notify(notice, override)
        PROVE  IInv'
    BY <1>0, <1>3, NotifyChanges, UnlockedRowsChange
  <1>4. ASSUME NEW p \in Payouts, ConfirmByHand(p) PROVE IInv'
    <2>1. /\ row' = [row EXCEPT ![p].status = "CONFIRMED"] /\ lock[p] = None
          /\ UNCHANGED <<lock, todo, draft, sends, xfer, retry, stopped, faults>>
      BY <1>4 DEF ConfirmByHand, Unlocked
    <2>2. row' \in [Payouts -> Row] /\ \A q \in Payouts : row'[q].attempts = row[q].attempts
      BY <1>0, <2>1 DEF Row, Status, Terminal
    <2>3. \A q \in Payouts : row'[q] # row[q] => q = p
      BY <1>0, <2>1
    <2> QED
      BY <1>0, <2>1, <2>2, <2>3, UnlockedRowsChange
  <1>5. ASSUME NEW a \in Admins, NEW p \in Payouts, RetryWrite(a, p) PROVE IInv'
    <2>1. /\ row' = [row EXCEPT ![p].status = "PENDING", ![p].retryable = TRUE] /\ lock[p] = None
          /\ retry' = [retry EXCEPT ![a] = None]
          /\ UNCHANGED <<lock, todo, draft, sends, xfer, stopped, faults>>
      BY <1>5 DEF RetryWrite, Unlocked
    <2>2. row' \in [Payouts -> Row] /\ \A q \in Payouts : row'[q].attempts = row[q].attempts
      BY <1>0, <2>1 DEF Row, Status
    <2>3. \A q \in Payouts : row'[q] # row[q] => q = p
      BY <1>0, <2>1
    <2>4. retry' \in [Admins -> Payouts \cup {None}]
      BY <1>0, <2>1
    <2> QED
      BY <1>0, <2>1, <2>2, <2>3, <2>4, UnlockedRowsChange
  <1>6. ASSUME retry' \in [Admins -> Payouts \cup {None}], stopped' \subseteq Workers,
               UNCHANGED <<row, lock, todo, draft, sends, xfer, faults>>
        PROVE  IInv'
    BY <1>0, <1>6, UnlockedRowsChange
  <1>7. ASSUME NEW a \in Admins, NEW p \in Payouts, RetryRead(a, p) PROVE IInv'
    BY <1>0, <1>6, <1>7 DEF RetryRead
  <1>8. ASSUME NEW a \in Admins, RetryLost(a) PROVE IInv'
    BY <1>0, <1>6, <1>8 DEF RetryLost
  <1>9. CASE UNCHANGED vars
    BY <1>0, <1>6, <1>9 DEF vars
  <1>10. CASE Webhook \/ AdminStep
    BY <1>3, <1>4, <1>5, <1>10 DEF Webhook, AdminStep, Replay
  <1>11. ASSUME NEW w \in Workers, Start(w) PROVE IInv'
    BY <1>0, <1>6, <1>11 DEF Start
  <1>12. ASSUME NEW w \in Workers, NEW S \in SUBSET Claimable, Claim(w, S) PROVE IInv'
    BY <1>12, ClaimKeepsIInv DEF Claimable
  <1> QED
    BY <1>1, <1>2, <1>7, <1>8, <1>9, <1>10, <1>11, <1>12,
       HandleKeepsIInv, CommitKeepsIInv, AbortKeepsIInv DEF Next

\* The invariant holds in every reachable state.
THEOREM Accounting == Spec => []IInv
  BY InitIInv, NextIInv, PTL DEF Spec

\* Rows, drafts, locks, transfers and retries keep their types, and no payout
\* is submitted more than MaxAttempts times plus once for every fault.
THEOREM TypeCorrect == Spec => []TypeOK
  BY Accounting, PTL DEF IInv

\* Two worker transactions never hold the same payout, and a held row stays
\* PENDING or SENT.
THEOREM ExclusiveClaims == Spec => []ClaimsAreExclusive
  BY Accounting, PTL DEF IInv

\* attempt_count never passes MAX_ATTEMPTS.
THEOREM BoundedAttempts == Spec => []AttemptsWithinLimit
  BY Accounting, PTL DEF IInv

\* Every submission is an attempt or a fault.
THEOREM AccountedSubmissions == Spec => []UncountedSendsAreFaults
  BY Accounting, PTL DEF IInv

\* Who may take a payout back.
LEMMA TerminalStays ==
  ASSUME IInv, [Next]_vars, NEW p \in Payouts, row[p].status \in Terminal,
         row'[p].status # row[p].status
  PROVE  AdminStep
  <1>0. row \in [Payouts -> Row]
    BY DEF IInv, TypeOK
  <1>1. lock[p] = None
    BY DEF IInv, ClaimsAreExclusive, Terminal
  <1>2. ASSUME NEW q \in Payouts, Create(q) PROVE FALSE
    BY <1>0, <1>2 DEF Create, Terminal
  <1>3. ASSUME NEW w \in Workers, Commit(w) PROVE FALSE
    BY <1>1, <1>3, PayoutsAssumption DEF Commit
  <1>4. ASSUME Webhook PROVE FALSE
    BY <1>4, NotifyChanges DEF Webhook, Open
  <1>5. CASE row' = row
    BY <1>5
  <1>6. ASSUME NEW w \in Workers, NEW q \in Payouts, Handle(w, q) PROVE row' = row
    BY <1>6 DEF Handle, GiveUp, RejectIncomplete, RejectUnsupported, Send, Resend, Submission, Poll, HandlerError,
                Record, Write
  <1> QED
    BY <1>2, <1>3, <1>4, <1>5, <1>6
    DEF Next, Settle, Claim, Abort, Start, RetryRead, RetryLost, vars

\* A CONFIRMED or FAILED payout changes its status by an operator's step only.
THEOREM TerminalIsFinal == Spec => OnlyAdminsReopen
  <1> DEFINE Keeps == \A p \in Payouts :
               row[p].status \in Terminal /\ row'[p].status # row[p].status => AdminStep
  <1>1. IInv /\ [Next]_vars => [Keeps]_vars
    BY TerminalStays
  <1>2. Spec => [][Keeps]_vars
    BY <1>1, Accounting, PTL DEF Spec
  <1> QED
    BY <1>2 DEF OnlyAdminsReopen
=============================================================================
