-------------------------------- MODULE Audits --------------------------------
(***************************************************************************)
(* The two checks that run beside the live system.                         *)
(*                                                                         *)
(* services/reconcile.py: one transaction reads the payouts under way,     *)
(* asks the provider about each, then looks for confirmed payouts without  *)
(* ledger entries and for debited cash-outs without payout, and stores a   *)
(* report.  services/ledger_invariants.py: for each wallet, the sum of its *)
(* entries and then its cached balance.  Both run at READ COMMITTED and    *)
(* without locks: every statement sees what is committed when it starts,   *)
(* and the system goes on between them.                                    *)
(***************************************************************************)
EXTENDS CashOuts

VARIABLES
  audit,        \* the run of reconcile that is under way, or its report
  check         \* the wallet check that is under way

auditVars == <<audit, check>>

Verdicts == {"SENT", "CONFIRMED", "FAILED"}
Mismatch(s, verdict) == [kind |-> "status_mismatch", txn |-> s.txn, was |-> s.status, now |-> verdict]
MissingLedger(t) == [kind |-> "confirmed_missing_ledger", txn |-> t]
MissingPayout(t) == [kind |-> "ledger_missing_payout", txn |-> t]
Items ==
  {Mismatch([txn |-> t, status |-> s], v) : t \in Posts, s \in {"PENDING", "SENT"}, v \in Verdicts}
  \cup {MissingLedger(t) : t \in Posts} \cup {MissingPayout(t) : t \in Calls}

\* MM_MODE, as the process that runs the audit was started with it.
Modes == {"sandbox", "real"}

Resting == [at |-> "rest", mode |-> None, rows |-> {}, items |-> {}]
NoCheck == [at |-> "rest", wallet |-> None, seen |-> {}, late |-> {}, diff |-> 0]

AuditInit == CashInit /\ audit = Resting /\ check = NoCheck

-----------------------------------------------------------------------------
(* run_reconcile.                                                           *)
Snapshot(t) == [txn |-> t, status |-> row[t].status, ref |-> row[t].ref]

\* The rows that have not changed for stale_minutes are some of those under way.
ReadStale ==
  /\ audit.at \in {"rest", "report"}
  /\ \E S \in SUBSET {t \in Posts : row[t].status \in {"PENDING", "SENT"}}, mode \in Modes :
       audit' = [at |-> "ask", mode |-> mode, rows |-> {Snapshot(t) : t \in S}, items |-> {}]
  /\ UNCHANGED <<allVars, check>>

\* _deterministic_provider_status reads a verdict off the text of the reference.
TextSays(ref) == IF ref = None THEN {"SENT"} ELSE Verdicts

\* Whether the provider is asked at all: in sandbox mode no adapter is.
AsksAdapter(t) == audit.mode = "real" /\ Kind[t] # "OTHER"

\* _get_provider_status: the row as it was read goes to the adapter, which
\* answers of the provider's present state; an adapter that raises counts as
\* SENT.  In sandbox mode, and without an adapter, the text decides.
Says(s) ==
  IF AsksAdapter(s.txn) THEN P!PollAnswers(s.txn, s.ref) \cup {"SENT"} ELSE TextSays(s.ref)

Differs(s, verdict) == verdict # s.status

AskProvider ==
  /\ audit.at = "ask"
  /\ \E s \in audit.rows, verdict \in Verdicts :
       /\ verdict \in Says(s)
       /\ audit' = [audit EXCEPT !.rows = @ \ {s},
                                 !.items = IF Differs(s, verdict)
                                           THEN @ \cup {Mismatch(s, verdict)} ELSE @]
  /\ UNCHANGED <<allVars, check>>

\* The confirmed rows of the lookback window, in one statement ...
ReadConfirmed ==
  /\ audit.at = "ask" /\ audit.rows = {}
  /\ \E S \in SUBSET {t \in Posts : row[t].status = "CONFIRMED"} :
       audit' = [audit EXCEPT !.at = "presence", !.rows = S]
  /\ UNCHANGED <<allVars, check>>

\* ... their ledger entries in the next ...
ReadPresence ==
  /\ audit.at = "presence"
  /\ audit' = [audit EXCEPT !.at = "ledger", !.rows = {},
                            !.items = @ \cup {MissingLedger(t) : t \in audit.rows \ txns}]
  /\ UNCHANGED <<allVars, check>>

\* ... and the debits without payout in a third, by a transaction type that
\* post_cash_out_momo does not use (CASH_OUT%, for CASHOUT).
CashOutLike(type) == type \in {"CASH_OUT", "CASH_OUT_MOMO"}
ReadLedger ==
  /\ audit.at = "ledger"
  /\ LET missing == {t \in txns : CashOutLike(Op(t)) /\ row[t].status = "ABSENT"} IN
     audit' = [audit EXCEPT !.at = "store", !.items = @ \cup {MissingPayout(t) : t \in missing}]
  /\ UNCHANGED <<allVars, check>>

StoreReport ==
  /\ audit.at = "store"
  /\ audit' = [audit EXCEPT !.at = "report"]
  /\ UNCHANGED <<allVars, check>>

\* A statement fails, or the session is ended for being idle in transaction
\* while a provider is slow.  That ends the daemon; the next audit is run by a
\* daemon that somebody starts, or by an admin.
LoseReport ==
  /\ audit.at \notin {"rest", "report"}
  /\ audit' = Resting
  /\ UNCHANGED <<allVars, check>>

-----------------------------------------------------------------------------
(* _check_wallet_balance.                                                   *)
Credits(ts, w) ==
  Opening[w] + SumFunctionOnSet([t \in Calls |-> IF EntriesOf(t, w) > 0 THEN EntriesOf(t, w) ELSE 0], ts)
SumOf(ts, w) == Opening[w] + SumFunctionOnSet(EntriesTo(w), ts)

SumEntries(w) ==
  /\ check.at # "sum"
  /\ check' = [at |-> "sum", wallet |-> w, seen |-> txns, late |-> {}, diff |-> 0]
  /\ UNCHANGED <<allVars, audit>>

\* late, what was committed between the two reads, is for the property only.
CompareBalance ==
  /\ check.at = "sum"
  /\ check' = [check EXCEPT !.at = "done", !.late = txns \ check.seen, !.seen = {},
                            !.diff = balance[check.wallet] - SumOf(check.seen, check.wallet)]
  /\ UNCHANGED <<allVars, audit>>

-----------------------------------------------------------------------------
AuditStep ==
  \/ ReadStale \/ AskProvider \/ ReadConfirmed \/ ReadPresence \/ ReadLedger
  \/ StoreReport \/ LoseReport
  \/ \E w \in Wallets : SumEntries(w)
  \/ CompareBalance

AuditNext == (CashNext /\ UNCHANGED auditVars) \/ AuditStep

AuditSpec == AuditInit /\ [][AuditNext]_<<allVars, auditVars>>

-----------------------------------------------------------------------------
(* Properties.                                                              *)

Asked == [txn : Posts, status : {"PENDING", "SENT"}, ref : P!Refs]

\* Every variable has its type.
AuditsTypeOK ==
  /\ PaymentsTypeOK /\ P!TypeOK
  /\ audit \in [at : {"rest", "ask", "presence", "ledger", "store", "report"},
                mode : Modes \cup {None}, rows : SUBSET (Asked \cup Posts), items : SUBSET Items]
  /\ check \in [at : {"rest", "sum", "done"}, wallet : Wallets \cup {None},
                seen : SUBSET Calls, late : SUBSET Calls, diff : Int]

\* Adapters that may say FAILED of an error of the status query.
MistakesErrors == {"THUNES", "LEGACY", "MOMO"}

\* An operator may act on a report, although the system went on while it was
\* written: a confirmed payout is never said to miss its ledger entries, a
\* mismatch is of a debited cash-out, and SENT is news only of one that had not
\* been sent.  What the report says of a provider that was asked is true: it has
\* paid, or rejected unless the adapter mistakes errors.  (Of a provider that was
\* not asked, in sandbox mode or without an adapter, it says what the text of
\* the reference says.)
ReportsAreTrue ==
  \A i \in audit.items :
    /\ i.kind # "confirmed_missing_ledger"
    /\ i.kind = "status_mismatch" =>
         /\ i.txn \in txns
         /\ i.now = "SENT" => i.was = "PENDING"
         /\ AsksAdapter(i.txn) /\ i.now = "CONFIRMED" =>
              \E n \in 1 .. P!MaxSends : xfer[i.txn][n].state = "paid"
         /\ AsksAdapter(i.txn) /\ i.now = "FAILED" /\ Kind[i.txn] \notin MistakesErrors =>
              \E n \in 1 .. P!MaxSends : xfer[i.txn][n].state = "rejected"

\* A difference that the wallet check shows is exactly what was posted between
\* its two reads: a wallet that rests shows none.
DifferencesAreInFlight ==
  check.at = "done" =>
    check.diff = SumFunctionOnSet(EntriesTo(check.wallet), check.late)
=============================================================================
