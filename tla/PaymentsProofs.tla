---------------------------- MODULE PaymentsProofs ----------------------------
(***************************************************************************)
(* What a client hears is what the ledger keeps, for any calls.            *)
(*                                                                         *)
(* The endpoints take only steps of the ledger, so its invariant holds of  *)
(* them (PaymentsUseLedger); an answer is stored or sent only after the    *)
(* commit, and committed transactions stay.                                *)
(***************************************************************************)
EXTENDS Payments, LedgerProofs

Durable(txn, key) == txn # None => txn \in txns /\ Key(txn) = key

AnswersAreDurable == \A s \in Slots : Durable(answers[s].txn, s[2])
RepliesAreDurable == \A c \in Calls : reply[c].code = "ok" => Durable(reply[c].txn, Key(c))
PayoutsArePosted == \A t \in Calls : payout[t] # None => t \in txns

PInv ==
  /\ PaymentsTypeOK
  /\ AnswersAreDurable
  /\ RepliesAreDurable
  /\ PayoutsArePosted
  /\ CashOutsHavePayouts

-----------------------------------------------------------------------------
\* Every step of an endpoint is a step of the ledger, or leaves it alone.
LEMMA StepsOfLedger == PayNext => [Next]_ledgerVars
<1> SUFFICES ASSUME NEW c \in Calls, Replay(c) \/ Miss(c) \/ Running(c) \/ Fail(c)
             PROVE  [Next]_ledgerVars
  BY DEF PayNext, Finished, vars, ledgerVars
<1>1. Begin(c) \/ Work(c) \/ Commit(c) \/ Rollback(c) \/ UNCHANGED ledgerVars
  BY DEF Replay, Miss, Running, Fail, Velocity, Post, FinishAtOnce, FinishCashOut, StoreCashOut,
         ledgerVars
<1> QED
  BY <1>1 DEF Next

\* Committed transactions stay, and only a commit adds one: its own.
LEMMA PostedStays ==
  ASSUME [Next]_ledgerVars
  PROVE  /\ txns \subseteq txns'
         /\ \A t \in txns' \ txns : Commit(t) /\ result[t] = t
<1>1. CASE UNCHANGED ledgerVars
  BY <1>1 DEF ledgerVars
<1>2. ASSUME NEW c \in Calls, Commit(c)
      PROVE  txns \subseteq txns' /\ \A t \in txns' \ txns : Commit(t) /\ result[t] = t
  BY <1>2 DEF Commit
<1>3. ASSUME NEW c \in Calls, Begin(c) \/ Work(c) \/ Rollback(c)
      PROVE  txns' = txns
  BY <1>3 DEF Begin, Work, Rollback, Find, Funds, Limits, Check, SeekAccount, Insert, UpdateRow,
              UniqueViolation, Return
<1> QED
  BY <1>1, <1>2, <1>3 DEF Next

\* The implementation of the ledger by the endpoints, and its invariant.
THEOREM PaymentsUseLedger == PaySpec => Spec
<1>1. PayInit => Init
  BY DEF PayInit
<1>2. [PayNext]_vars => [Next]_ledgerVars
  BY StepsOfLedger DEF vars
<1> QED
  BY <1>1, <1>2, PTL DEF PaySpec, Spec

\* The answer a call commits with is durable from then on.
LEMMA CommittedAnswer ==
  ASSUME IInv, IInv', NEW c \in Calls, Commit(c) \/ (stage[c] = "committed" /\ UNCHANGED ledgerVars)
  PROVE  /\ Durable(result[c], Key(c))'
         /\ result'[c] = result[c] /\ result[c] \in Calls \cup {None}
<1>1. result'[c] = result[c] /\ stage'[c] = "committed"
  BY DEF Commit, ledgerVars, IInv, LedgerTypeOK
<1>2. result[c] \in Calls \cup {None}
  BY DEF IInv, LedgerTypeOK
<1> QED
  BY <1>1, <1>2 DEF IInv, AnswersFit, Durable, Key

LEMMA InitPInv == LedgerAssumption /\ PayInit => PInv
<1> SUFFICES ASSUME LedgerAssumption, PayInit
             PROVE  PInv
  OBVIOUS
<1>1. LedgerTypeOK
  BY InitIInv DEF PayInit, IInv
<1>2. PaymentsTypeOK
  BY <1>1 DEF PayInit, PaymentsTypeOK
<1>3. txns = {}
  BY DEF PayInit, Init
<1>4. AnswersAreDurable /\ RepliesAreDurable /\ PayoutsArePosted /\ CashOutsHavePayouts
  BY <1>3 DEF PayInit, AnswersAreDurable, RepliesAreDurable, PayoutsArePosted, CashOutsHavePayouts,
              Durable, NoAnswer, NoReply
<1> QED
  BY <1>2, <1>4 DEF PInv

\* What a request is told, if it is durable, keeps the replies durable.
LEMMA ToldKeeps ==
  ASSUME PInv, txns \subseteq txns', NEW c \in Calls,
         \/ UNCHANGED reply
         \/ /\ reply' = [reply EXCEPT ![c] = reply'[c]]
            /\ reply'[c] \in Reply
            /\ reply'[c].code = "ok" => Durable(reply[c].txn, Key(c))'
  PROVE  /\ RepliesAreDurable'
         /\ reply' \in [Calls -> Reply \cup {NoReply}]
<1>1. reply' \in [Calls -> Reply \cup {NoReply}]
  BY DEF PInv, PaymentsTypeOK
<1>2. RepliesAreDurable'
  <2> SUFFICES ASSUME NEW d \in Calls, reply'[d].code = "ok"
               PROVE  Durable(reply[d].txn, Key(d))'
    BY DEF RepliesAreDurable
  <2>1. CASE reply'[d] = reply[d]
    BY <2>1 DEF PInv, RepliesAreDurable, Durable, Key
  <2>2. CASE reply'[d] # reply[d]
    BY <2>2 DEF PInv, PaymentsTypeOK
  <2> QED
    BY <2>1, <2>2
<1> QED
  BY <1>1, <1>2

\* Replies other than a success with a transaction promise nothing.
LEMMA ToldNothing ==
  ASSUME PInv, txns \subseteq txns', NEW c \in Calls,
         NEW code \in {"conflict", "velocity", "error"},
         UNCHANGED reply \/ Told(c, code, None)
  PROVE  /\ RepliesAreDurable'
         /\ reply' \in [Calls -> Reply \cup {NoReply}]
<1>1. CASE Told(c, code, None)
  <2>1. reply' = [reply EXCEPT ![c] = [code |-> code, txn |-> None]]
    BY <1>1 DEF Told
  <2>2. reply'[c] = [code |-> code, txn |-> None]
    BY <2>1 DEF PInv, PaymentsTypeOK
  <2>3. reply'[c] \in Reply /\ reply'[c].code # "ok"
    BY <2>2 DEF Reply
  <2> QED
    BY <2>1, <2>2, <2>3, ToldKeeps
<1> QED
  BY <1>1, ToldKeeps

\* A request that is told of the transaction it committed with.
LEMMA ToldOfCommitted ==
  ASSUME PInv, IInv, IInv', txns \subseteq txns', NEW c \in Calls,
         Told(c, "ok", result[c]), Durable(result[c], Key(c))', result'[c] = result[c]
  PROVE  /\ RepliesAreDurable'
         /\ reply' \in [Calls -> Reply \cup {NoReply}]
<1>1. reply' = [reply EXCEPT ![c] = [code |-> "ok", txn |-> result[c]]]
  BY DEF Told
<1>2. reply'[c] = [code |-> "ok", txn |-> result[c]]
  BY <1>1 DEF PInv, PaymentsTypeOK
<1>3. reply'[c] \in Reply
  BY <1>2 DEF Reply, IInv, LedgerTypeOK
<1>4. Durable(reply[c].txn, Key(c))'
  BY <1>2 DEF Durable, Key
<1> QED
  BY <1>1, <1>2, <1>3, <1>4, ToldKeeps

\* The answer stored with, or after, the commit of its transaction.
LEMMA RememberKeeps ==
  ASSUME PInv, IInv, IInv', txns \subseteq txns', NEW c \in Calls,
         UNCHANGED answers \/ (Remember(c) /\ Durable(result[c], Key(c))' /\ result'[c] = result[c])
  PROVE  /\ AnswersAreDurable'
         /\ answers' \in [Slots -> Stored \cup {NoAnswer}]
<1>1. CASE UNCHANGED answers
  BY <1>1 DEF PInv, PaymentsTypeOK, AnswersAreDurable, Durable, Key
<1>2. CASE Remember(c) /\ ~Cached(c) /\ Durable(result[c], Key(c))' /\ result'[c] = result[c]
  <2> DEFINE stored == [body |-> Body(c), txn |-> result[c]]
  <2>1. answers' = [answers EXCEPT ![Slot(c)] = stored]
    BY <1>2 DEF Remember
  <2>2. stored \in Stored
    BY DEF Stored, IInv, LedgerTypeOK
  <2>3. Slot(c) \in Slots /\ Slot(c)[2] = Key(c)
    BY DEF Slot, Slots
  <2>4. answers' \in [Slots -> Stored \cup {NoAnswer}]
    BY <2>1, <2>2, <2>3 DEF PInv, PaymentsTypeOK
  <2>5. ASSUME NEW s \in Slots PROVE Durable(answers[s].txn, s[2])'
    <3>1. CASE s = Slot(c)
      BY <1>2, <2>1, <2>3, <3>1 DEF PInv, PaymentsTypeOK, Durable, Key
    <3>2. CASE s # Slot(c)
      BY <2>1, <3>2 DEF PInv, PaymentsTypeOK, AnswersAreDurable, Durable, Key
    <3> QED
      BY <3>1, <3>2
  <2> QED
    BY <2>4, <2>5 DEF AnswersAreDurable, Durable, Key
<1> QED
  BY <1>1, <1>2 DEF Remember

-----------------------------------------------------------------------------
(* The steps of a request.                                                  *)

\* A step that leaves the payout rows alone keeps what is said of them, unless
\* it commits a cash-out of its own.
LEMMA SamePayouts ==
  ASSUME PInv, UNCHANGED payout, txns \subseteq txns',
         \A t \in txns' \ txns : Op(t) # "CASHOUT"
  PROVE  /\ PayoutsArePosted' /\ CashOutsHavePayouts'
         /\ payout' \in [Calls -> Calls \cup {None}]
BY DEF PInv, PaymentsTypeOK, PayoutsArePosted, CashOutsHavePayouts, Op, Key

\* Steps that post nothing: the stored answer, the velocity check, the
\* statements of the function, the cut-off.
LEMMA QuietKeepsPInv ==
  ASSUME LedgerAssumption, IInv, IInv', PInv, NEW c \in Calls,
         Replay(c) \/ Miss(c) \/ Velocity(c) \/ Post(c) \/ Fail(c)
  PROVE  PInv'
<1>1. txns' = txns /\ UNCHANGED <<answers, payout>> /\ missed' \subseteq Calls
  BY DEF Replay, Miss, Velocity, Post, Fail, Begin, Work, Rollback, Find, Funds, Limits, Check,
         SeekAccount, Insert, UpdateRow, UniqueViolation, Return, ledgerVars, PInv, PaymentsTypeOK
<1>2. RepliesAreDurable' /\ reply' \in [Calls -> Reply \cup {NoReply}]
  <2>1. CASE \/ UNCHANGED reply
             \/ Told(c, "conflict", None) \/ Told(c, "velocity", None) \/ Told(c, "error", None)
    BY <1>1, <2>1, ToldNothing
  <2>2. CASE Replay(c) /\ Cached(c) /\ Told(c, "ok", answers[Slot(c)].txn)
    <3>1. Slot(c) \in Slots /\ Slot(c)[2] = Key(c)
      BY DEF Slot, Slots
    <3>2. /\ answers[Slot(c)].txn \in Calls \cup {None}
          /\ Durable(answers[Slot(c)].txn, Key(c))
      BY <2>2, <3>1 DEF PInv, PaymentsTypeOK, AnswersAreDurable, Stored, Cached
    <3>3. reply' = [reply EXCEPT ![c] = [code |-> "ok", txn |-> answers[Slot(c)].txn]]
      BY <2>2 DEF Told
    <3>4. reply'[c] = [code |-> "ok", txn |-> answers[Slot(c)].txn]
      BY <3>3 DEF PInv, PaymentsTypeOK
    <3>5. reply'[c] \in Reply
      BY <3>2, <3>4 DEF Reply
    <3>6. Durable(reply[c].txn, Key(c))'
      BY <1>1, <3>2, <3>4 DEF Durable, Key
    <3> QED
      BY <1>1, <3>3, <3>4, <3>5, <3>6, ToldKeeps
  <2> QED
    BY <2>1, <2>2 DEF Replay, Miss, Velocity, Post, Fail
<1>3. AnswersAreDurable' /\ answers' \in [Slots -> Stored \cup {NoAnswer}]
  BY <1>1 DEF PInv, PaymentsTypeOK, AnswersAreDurable, Durable, Key
<1>4. /\ PayoutsArePosted' /\ CashOutsHavePayouts'
      /\ payout' \in [Calls -> Calls \cup {None}]
  BY <1>1, SamePayouts
<1>5. LedgerTypeOK'
  BY DEF IInv
<1> QED
  BY <1>1, <1>2, <1>3, <1>4, <1>5 DEF PInv, PaymentsTypeOK

\* A cash-in or a transfer commits its posting and its answer at once.
LEMMA FinishKeepsPInv ==
  ASSUME LedgerAssumption, IInv, IInv', PInv, NEW c \in Calls, FinishAtOnce(c)
  PROVE  PInv'
<1>1. /\ Op(c) # "CASHOUT" /\ Commit(c) /\ Remember(c) /\ UNCHANGED <<missed, payout>>
      /\ \/ Told(c, "error", None)
         \/ Told(c, "ok", result[c])
  BY DEF FinishAtOnce
<1>2. txns \subseteq txns' /\ \A t \in txns' \ txns : Op(t) # "CASHOUT"
  BY <1>1 DEF Commit
<1>3. Durable(result[c], Key(c))' /\ result'[c] = result[c]
  BY <1>1, CommittedAnswer
<1>4. RepliesAreDurable' /\ reply' \in [Calls -> Reply \cup {NoReply}]
  BY <1>1, <1>2, <1>3, ToldNothing, ToldOfCommitted
<1>5. AnswersAreDurable' /\ answers' \in [Slots -> Stored \cup {NoAnswer}]
  BY <1>1, <1>2, <1>3, RememberKeeps
<1>6. /\ PayoutsArePosted' /\ CashOutsHavePayouts'
      /\ payout' \in [Calls -> Calls \cup {None}]
  BY <1>1, <1>2, SamePayouts
<1>7. LedgerTypeOK' /\ missed' \subseteq Calls
  BY <1>1 DEF IInv, PInv, PaymentsTypeOK
<1> QED
  BY <1>4, <1>5, <1>6, <1>7 DEF PInv, PaymentsTypeOK

\* A cash-out stores its answer after its commit.
LEMMA StoreKeepsPInv ==
  ASSUME LedgerAssumption, IInv, IInv', PInv, NEW c \in Calls, StoreCashOut(c)
  PROVE  PInv'
<1>1. /\ stage[c] = "committed" /\ UNCHANGED ledgerVars /\ Remember(c)
      /\ Told(c, "ok", result[c]) /\ UNCHANGED <<missed, payout>>
  BY DEF StoreCashOut
<1>2. txns' = txns
  BY <1>1 DEF ledgerVars
<1>3. Durable(result[c], Key(c))' /\ result'[c] = result[c]
  BY <1>1, CommittedAnswer
<1>4. RepliesAreDurable' /\ reply' \in [Calls -> Reply \cup {NoReply}]
  BY <1>1, <1>2, <1>3, ToldOfCommitted
<1>5. AnswersAreDurable' /\ answers' \in [Slots -> Stored \cup {NoAnswer}]
  BY <1>1, <1>2, <1>3, RememberKeeps
<1>6. /\ PayoutsArePosted' /\ CashOutsHavePayouts'
      /\ payout' \in [Calls -> Calls \cup {None}]
  BY <1>1, <1>2, SamePayouts
<1>7. LedgerTypeOK' /\ missed' \subseteq Calls
  BY <1>1 DEF IInv, PInv, PaymentsTypeOK
<1> QED
  BY <1>4, <1>5, <1>6, <1>7 DEF PInv, PaymentsTypeOK

\* A cash-out that posted had no payout row before, so the row it inserts is
\* its own; one that found its key posted leaves the row that is there.
LEMMA CashOutKeepsPInv ==
  ASSUME LedgerAssumption, IInv, IInv', PInv, NEW c \in Calls, FinishCashOut(c)
  PROVE  PInv'
<1> DEFINE t == result[c]
<1>1. /\ Op(c) = "CASHOUT" /\ t # None /\ Commit(c) /\ stage[c] = "done"
      /\ payout' = [payout EXCEPT ![t] = PayoutOf(t, c)]
      /\ UNCHANGED <<missed, answers, reply>>
      /\ txns' = IF t = c THEN txns \cup {c} ELSE txns
  BY DEF FinishCashOut, Commit
<1>2. t \in Calls /\ t \in txns' /\ Key(t) = Key(c) /\ txns \subseteq txns'
  BY <1>1 DEF IInv, LedgerTypeOK, AnswersFit
<1>3. /\ payout' \in [Calls -> Calls \cup {None}]
      /\ payout'[t] = PayoutOf(t, c)
      /\ \A u \in Calls \ {t} : payout'[u] = payout[u]
  BY <1>1, <1>2 DEF PInv, PaymentsTypeOK, PayoutOf
<1>4. t = c => payout'[t] = t
  <2> SUFFICES ASSUME t = c PROVE payout[t] = None
    BY <1>3 DEF PayoutOf
  <2>1. c \notin txns
    BY <1>1 DEF IInv, AnswersFit
  <2> QED
    BY <2>1 DEF PInv, PayoutsArePosted
<1>5. t # c => t \in txns
  BY <1>1 DEF IInv, AnswersFit
<1>6. PayoutsArePosted'
  BY <1>2, <1>3 DEF PInv, PayoutsArePosted
<1>7. CashOutsHavePayouts'
  <2> SUFFICES ASSUME NEW u \in Calls
               PROVE  CashOutsHavePayouts!(u)'
    BY DEF CashOutsHavePayouts
  <2>1. CASE u # t
    <3>1. u \in txns' => u \in txns
      BY <1>1, <2>1
    <3> QED
      BY <1>2, <1>3, <2>1, <3>1 DEF PInv, CashOutsHavePayouts, Op, Key
  <2>2. CASE u = t /\ Op(t) = "CASHOUT"
    <3>1. payout'[t] = t
      <4>1. CASE t # c
        <5>1. payout[t] = t
          BY <1>2, <1>5, <2>2, <4>1 DEF PInv, CashOutsHavePayouts
        <5> QED
          BY <1>2, <1>3, <5>1 DEF PayoutOf, LedgerAssumption
      <4> QED
        BY <1>4, <4>1
    <3> QED
      BY <1>2, <2>2, <3>1 DEF Op
  <2>3. CASE u = t /\ Op(t) # "CASHOUT"
    <3>1. c \in Calls /\ Key(c) = Key(u) /\ Op(c) # Op(u)
      BY <1>1, <1>2, <2>3
    <3> QED
      BY <2>3, <3>1 DEF Op, Key
  <2> QED
    BY <2>1, <2>2, <2>3
<1>8. RepliesAreDurable' /\ reply' \in [Calls -> Reply \cup {NoReply}]
  BY <1>1, <1>2, ToldNothing
<1>9. AnswersAreDurable' /\ answers' \in [Slots -> Stored \cup {NoAnswer}]
  BY <1>1, <1>2, RememberKeeps
<1>10. LedgerTypeOK' /\ missed' \subseteq Calls
  BY <1>1 DEF IInv, PInv, PaymentsTypeOK
<1> QED
  BY <1>3, <1>6, <1>7, <1>8, <1>9, <1>10 DEF PInv, PaymentsTypeOK

LEMMA PayNextPInv ==
  ASSUME LedgerAssumption, IInv, IInv', PInv, [PayNext]_vars
  PROVE  PInv'
<1>1. CASE UNCHANGED vars
  <2>1. LedgerTypeOK'
    BY DEF IInv
  <2>2. UNCHANGED <<txns, missed, answers, payout, reply>>
    BY <1>1 DEF vars, ledgerVars
  <2>3. PaymentsTypeOK'
    BY <2>1, <2>2 DEF PInv, PaymentsTypeOK
  <2> QED
    BY <2>2, <2>3 DEF PInv, AnswersAreDurable, RepliesAreDurable, PayoutsArePosted,
                      CashOutsHavePayouts, Durable, Key, Op
<1>2. ASSUME NEW c \in Calls, Replay(c) \/ Miss(c) \/ Running(c) \/ Fail(c)
      PROVE  PInv'
  BY <1>2, QuietKeepsPInv, FinishKeepsPInv, CashOutKeepsPInv, StoreKeepsPInv DEF Running
<1> QED
  BY <1>1, <1>2 DEF PayNext, Finished

-----------------------------------------------------------------------------
(* The theorems.                                                            *)

\* The inductive invariant of the endpoints, on top of the ledger's.
THEOREM AnswersFollowCommits == PaySpec => []PInv
<1>1. PaySpec => []IInv
  BY PaymentsUseLedger, KeysAreGuarded, PTL
<1>2. PayInit => PInv
  BY InitPInv, LedgerAssumption
<1>3. IInv /\ IInv' /\ PInv /\ [PayNext]_vars => PInv'
  BY PayNextPInv, LedgerAssumption
<1> QED
  BY <1>1, <1>2, <1>3, PTL DEF PaySpec

\* Every variable of the endpoints keeps its type.
THEOREM PaymentsTypes == PaySpec => []PaymentsTypeOK
<1>1. PInv => PaymentsTypeOK
  BY DEF PInv
<1> QED
  BY <1>1, AnswersFollowCommits, PTL

\* A success sent to a client, or stored for its retries, names a committed
\* transaction of its key (cash_in and p2p_transfer answer after the commit of
\* get_conn, cash_out after its own).
THEOREM SuccessDurable == PaySpec => []SuccessIsDurable
<1>1. PInv => SuccessIsDurable
  BY DEF PInv, AnswersAreDurable, RepliesAreDurable, Durable, SuccessIsDurable, Slot, Slots
<1> QED
  BY <1>1, AnswersFollowCommits, PTL

\* Successes under one key name one transaction: durable answers, and one
\* transaction per key.
THEOREM Agreement == PaySpec => []SuccessesAgree
<1>1. OneTransactionPerKey /\ SuccessIsDurable => SuccessesAgree
  BY DEF OneTransactionPerKey, SuccessIsDurable, SuccessesAgree
<1> QED
  BY <1>1, SuccessDurable, PaymentsUseLedger, KeyPostsOnce, PTL

\* A committed cash-out has the payout row of its own request, which
\* cash_out inserts in the transaction of the posting.
THEOREM CashOutsPaid == PaySpec => []CashOutsHavePayouts
<1>1. PInv => CashOutsHavePayouts
  BY DEF PInv
<1> QED
  BY <1>1, AnswersFollowCommits, PTL
=============================================================================
