------------------------------- MODULE Payments -------------------------------
(***************************************************************************)
(* The payment endpoints (cash-in, cash-out, P2P transfer) on top of the   *)
(* ledger: the stored answer of an idempotency key, the velocity limits,   *)
(* the posting, the payout row of a cash-out, and the answer to the client.*)
(*                                                                         *)
(* Cash-in and P2P store their answer in the transaction of the posting;   *)
(* cash-out commits first and stores in a second one.  A call is one HTTP  *)
(* request; a client that retries makes another call of the same contents. *)
(***************************************************************************)
EXTENDS Ledger

CONSTANTS
  MaxCount,   \* MAX_CASHOUT_COUNT_PER_DAY, 0 when off
  MaxAmount,  \* MAX_CASHIN_PER_DAY_CENTS, MAX_CASHOUT_PER_DAY_CENTS, 0 when off
  MaxPhones,  \* MAX_DISTINCT_RECEIVERS_PER_DAY, 0 when off
  MaxSent     \* bound: calls made in one behaviour

ASSUME PaymentsAssumption ==
  /\ MaxCount \in Nat /\ MaxPhones \in Nat /\ MaxSent \in Nat
  /\ MaxAmount \in [Ops -> Nat]

VARIABLES
  missed,   \* calls that looked for a stored answer and found none
  answers,  \* app.idempotency_keys, by user, key and route (the operation)
  payout,   \* the call that inserted each transaction's payout row
  reply     \* what each call was answered

vars == <<ledgerVars, missed, answers, payout, reply>>

User(c) == Call[c].user
Body(c) == Call[c].body
Slots == {<<User(c), Key(c), Op(c)>> : c \in Calls}
Slot(c) == <<User(c), Key(c), Op(c)>>

Stored == [body : {Body(c) : c \in Calls}, txn : Calls \cup {None}]
Reply == [code : {"ok", "conflict", "velocity", "error"}, txn : Calls \cup {None}]
NoAnswer == [body |-> None, txn |-> None]
NoReply == [code |-> "none", txn |-> None]

PayInit ==
  /\ Init
  /\ missed = {}
  /\ answers = [s \in Slots |-> NoAnswer]
  /\ payout = [t \in Calls |-> None]
  /\ reply = [c \in Calls |-> NoReply]

Told(c, code, txn) == reply' = [reply EXCEPT ![c] = [code |-> code, txn |-> txn]]

-----------------------------------------------------------------------------
Cached(c) == answers[Slot(c)] # NoAnswer
\* idempotency_conflict: the key of this user on another route.
OtherRoute(c) ==
  \E s \in Slots : /\ s[1] = User(c) /\ s[2] = Key(c) /\ s[3] # Op(c)
                   /\ answers[s] # NoAnswer

SameBody(c) == answers[Slot(c)].body = Body(c)

Sent == missed \cup {c \in Calls : reply[c] # NoReply}
Arrives(c) == c \notin Sent /\ Cardinality(Sent) < MaxSent

\* The stored answer is replayed if the request is the same; the key of
\* another request is refused.
Replay(c) ==
  /\ Arrives(c)
  /\ \/ /\ Cached(c) /\ SameBody(c)
        /\ Told(c, "ok", answers[Slot(c)].txn)
     \/ /\ Cached(c) /\ ~SameBody(c)
        /\ Told(c, "conflict", None)
     \/ /\ ~Cached(c) /\ OtherRoute(c)
        /\ Told(c, "conflict", None)
  /\ UNCHANGED <<ledgerVars, missed, answers, payout>>

Miss(c) ==
  /\ Arrives(c) /\ ~Cached(c) /\ ~OtherRoute(c)
  /\ missed' = missed \cup {c}
  /\ UNCHANGED <<ledgerVars, answers, payout, reply>>

\* The call is in its transaction, or between the two of a cash-out.
Busy(c) == c \in missed /\ reply[c] = NoReply

\* check_cash_in_velocity, check_cash_out_velocity.
Amounts == [t \in Calls |-> Amount(t)]
Earlier(c) == {t \in txns : User(t) = User(c) /\ Op(t) = Op(c)}
Phones(c) == {Body(payout[t]).phone : t \in {t \in Earlier(c) : payout[t] # None}} \ {None}
TooFast(c) ==
  \/ Op(c) = "CASHOUT" /\ MaxCount > 0 /\ Cardinality(Earlier(c)) >= MaxCount
  \/ /\ Op(c) \in {"CASHIN", "CASHOUT"} /\ MaxAmount[Op(c)] > 0
     /\ SumFunctionOnSet(Amounts, Earlier(c)) + Amount(c) > MaxAmount[Op(c)]
  \/ /\ Op(c) = "CASHOUT" /\ MaxPhones > 0 /\ Body(c).phone # None
     /\ Body(c).phone \notin Phones(c) /\ Cardinality(Phones(c)) >= MaxPhones

Velocity(c) ==
  /\ Busy(c)
  /\ IF TooFast(c)
     THEN stage[c] = "idle" /\ Told(c, "velocity", None) /\ UNCHANGED ledgerVars
     ELSE Begin(c) /\ UNCHANGED reply
  /\ UNCHANGED <<missed, answers, payout>>

\* A statement of the ledger function; an exception it raises is answered
\* with an error.
Post(c) ==
  /\ Work(c)
  /\ IF stage'[c] = "failed" THEN Told(c, "error", None) ELSE UNCHANGED reply
  /\ UNCHANGED <<missed, answers, payout>>

\* INSERT ... ON CONFLICT DO NOTHING: the first answer stays.
Remember(c) ==
  answers' = IF Cached(c) THEN answers
             ELSE [answers EXCEPT ![Slot(c)] = [body |-> Body(c), txn |-> result[c]]]

\* A cash-in without a transaction fails the response model after the commit.
FinishAtOnce(c) ==
  /\ Op(c) # "CASHOUT"
  /\ Commit(c)
  /\ Remember(c)
  /\ IF Op(c) = "CASHIN" /\ result[c] = None
     THEN Told(c, "error", None) ELSE Told(c, "ok", result[c])
  /\ UNCHANGED <<missed, payout>>

LastPayout(t, c) == c
\* INSERT of the payout row; ON CONFLICT leaves its owner, and adds a quote.
PayoutOf(t, c) == IF payout[t] = None THEN c ELSE payout[t]

\* Without a transaction the payout row cannot be inserted (Fail).
FinishCashOut(c) ==
  /\ Op(c) = "CASHOUT" /\ result[c] # None
  /\ Commit(c)
  /\ payout' = [payout EXCEPT ![result[c]] = PayoutOf(result[c], c)]
  /\ UNCHANGED <<missed, answers, reply>>

StoreCashOut(c) ==
  /\ Busy(c) /\ stage[c] = "committed"
  /\ Remember(c)
  /\ Told(c, "ok", result[c])
  /\ UNCHANGED <<ledgerVars, missed, payout>>

\* The request is cut off: in a transaction, which is undone, or outside one:
\* a cash-out between the commit and the stored answer.
Fail(c) ==
  /\ Busy(c)
  /\ \/ Rollback(c)
     \/ stage[c] \in {"idle", "committed"} /\ UNCHANGED ledgerVars
  /\ Told(c, "error", None)
  /\ UNCHANGED <<missed, answers, payout>>

Running(c) ==
  \/ Velocity(c)
  \/ Post(c)
  \/ FinishAtOnce(c)
  \/ FinishCashOut(c)
  \/ StoreCashOut(c)

Finished ==
  /\ \A c \in Calls : ~Busy(c) /\ ~Arrives(c)
  /\ UNCHANGED vars

PayNext ==
  \/ \E c \in Calls : Replay(c) \/ Miss(c) \/ Running(c) \/ Fail(c)
  \/ Finished

PaySpec == PayInit /\ [][PayNext]_vars

NeverCutOff(c) == stage[c] = "done" /\ Op(c) = "CASHOUT" /\ result[c] = None
\* The call waits for another transaction, or cannot go on.
Stuck(c) ==
  \/ At(c, {"account", "key", "ref", "row"}) /\ ~FreeFor(c)
  \/ stage[c] = "done" /\ Op(c) = "CASHOUT" /\ result[c] = None

(* A request runs to its end unless it waits for a lock; the 5 s             *)
(* statement_timeout of get_conn ends every wait, even in a deadlock.       *)
Fairness ==
  \A c \in Calls : WF_vars(Running(c)) /\ WF_vars(Stuck(c) /\ Fail(c))

FairPaySpec == PaySpec /\ Fairness

-----------------------------------------------------------------------------
(* Properties.                                                              *)

\* The variables of the endpoints and of the ledger have their types.
PaymentsTypeOK ==
  /\ LedgerTypeOK
  /\ answers \in [Slots -> Stored \cup {NoAnswer}]
  /\ missed \subseteq Calls
  /\ payout \in [Calls -> Calls \cup {None}]
  /\ reply \in [Calls -> Reply \cup {NoReply}]

\* A success that names a transaction, sent or stored for later, names a
\* committed one posted for the same key: nobody is told of money that a
\* crash can still undo.
SuccessIsDurable ==
  /\ \A c \in Calls : reply[c].code = "ok" /\ reply[c].txn # None =>
       reply[c].txn \in txns /\ Key(reply[c].txn) = Key(c)
  /\ \A c \in Calls : answers[Slot(c)].txn # None =>
       answers[Slot(c)].txn \in txns /\ Key(answers[Slot(c)].txn) = Key(c)

\* All successes under one key name the same transaction, whichever of the
\* calls posted it and whichever was cut off and retried
\* (tests/test_idempotency.py).
SuccessesAgree ==
  \A c, d \in Calls :
    /\ Key(c) = Key(d) /\ reply[c].code = "ok" /\ reply[d].code = "ok"
    /\ reply[c].txn # None /\ reply[d].txn # None
    => reply[c].txn = reply[d].txn

\* Every cash-out that debited a wallet has its payout row, inserted by the
\* same request, so the amount and the receiver paid are those debited; no
\* other operation has one, as long as a key is not used for two operations.
CashOutsHavePayouts ==
  \A t \in Calls :
    /\ t \in txns /\ Op(t) = "CASHOUT" => payout[t] = t
    /\ payout[t] # None =>
         \/ t \in txns /\ Op(t) = "CASHOUT"
         \/ \E c \in Calls : Key(c) = Key(t) /\ Op(c) # Op(t)

\* Every request ends, also when transfers in opposite directions wait for
\* each other's wallets, or a posting waits for a duplicate of its own.
CallsEnd == \A c \in Calls : Busy(c) ~> reply[c] # NoReply
=============================================================================
