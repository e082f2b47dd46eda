------------------------------- MODULE CashOuts -------------------------------
(***************************************************************************)
(* A cash-out from end to end: the payment endpoints and the ledger        *)
(* (Payments) together with the payout rows, workers and providers         *)
(* (Payouts).  They meet in one statement: the cash-out request inserts    *)
(* the payout row in the transaction that debits the wallet.  A retry of   *)
(* the request that finds its transaction posted meets the row and adds    *)
(* the quote that is missing, for which it waits until no worker holds the *)
(* row.                                                                    *)
(***************************************************************************)
EXTENDS Payments

CONSTANTS
  Workers, Admins, ExternalRef, Kind, Incomplete, Dedups, AdminOps,
  BatchSize, MaxAttempts, MaxFaults     \* as in Payouts

\* No key is used for a cash-out and for something else.
ASSUME OneUsePerKey == \A c, d \in Calls : Key(c) = Key(d) => Op(c) = Op(d)

VARIABLES row, lock, todo, written, sends, xfer, retry, stopped, faults

payoutVars == <<row, lock, todo, written, sends, xfer, retry, stopped, faults>>
allVars == <<vars, payoutVars>>

\* A payout is named by its transaction.
Posts == {c \in Calls : Op(c) = "CASHOUT"}
P == INSTANCE Payouts WITH Payouts <- Posts, draft <- written

\* What Payouts assumes of its constants.
ASSUME PayoutsFit == P!PayoutsAssumption /\ P!NoneIsNoRow

CashInit == PayInit /\ P!Init

\* INSERT ... ON CONFLICT (transaction_id) DO UPDATE SET quote = COALESCE(...).
StartOver(t) ==
  IF row[t].status = "ABSENT" THEN P!Create(t)
  ELSE /\ P!Unlocked(t)
       /\ row' = [row EXCEPT ![t].status = "PENDING", ![t].ref = ExternalRef[t], ![t].attempts = 0]
       /\ UNCHANGED <<lock, todo, written, sends, xfer, retry, stopped, faults>>
InsertPayout(t) ==
  IF row[t].status = "ABSENT" THEN P!Create(t)
  ELSE P!Unlocked(t) /\ UNCHANGED payoutVars

Debits(c) == FinishCashOut(c) /\ InsertPayout(result[c])

\* Steps of the requests that do not touch payout rows.
Request(c) ==
  /\ \/ Replay(c) \/ Miss(c) \/ Velocity(c) \/ Post(c) \/ FinishAtOnce(c)
     \/ StoreCashOut(c) \/ Fail(c)
  /\ UNCHANGED payoutVars

\* Steps of workers, providers, webhooks and operators.
PayoutStep ==
  /\ \/ \E p \in Posts, n \in 1 .. P!MaxSends, o \in {"paid", "rejected"} : P!Settle(p, n, o)
     \/ \E w \in Workers, S \in SUBSET P!Claimable : P!Claim(w, S)
     \/ \E w \in Workers, p \in Posts : P!Handle(w, p)
     \/ \E w \in Workers : P!Commit(w)
     \/ \E w \in Workers : P!Abort(w) \/ P!Start(w)
     \/ P!Webhook
     \/ P!AdminStep
     \/ \E a \in Admins, p \in Posts : P!RetryRead(a, p)
     \/ \E a \in Admins : P!RetryLost(a)
  /\ UNCHANGED vars

CashNext ==
  \/ \E c \in Calls : Request(c) \/ Debits(c)
  \/ PayoutStep

CashSpec == CashInit /\ [][CashNext]_allVars

-----------------------------------------------------------------------------
(* Properties.                                                              *)

\* No provider holds money, open or paid, but for a cash-out whose debit is
\* committed; however often a client retries one key while workers crash and
\* operators retry, a Thunes payout of that key leaves at most once.
NoMoneyLeavesUndebited ==
  /\ \A p \in Posts, n \in 1 .. P!MaxSends :
       xfer[p][n].state # "none" => p \in txns
  /\ "THUNES" \in Dedups =>
       \A p, q \in Posts, m, n \in 1 .. P!MaxSends :
         /\ Key(p) = Key(q) /\ Kind[p] = "THUNES" /\ Kind[q] = "THUNES"
         /\ P!Moved(p, m) /\ P!Moved(q, n)
         => p = q /\ m = n

\* What was told of a payout stays told, however often the cash-out is sent
\* again: only an operator's request takes a CONFIRMED or FAILED payout back
\* (tests/test_idempotency.py; ON CONFLICT in cash_out_mobile_money).
PayoutsStayDecided == P!OnlyAdminsReopen

\* The composition is one of Payouts: the requests create rows and otherwise
\* leave the payouts alone.
PayoutsUndisturbed == P!Spec
=============================================================================
