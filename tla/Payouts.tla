------------------------------- MODULE Payouts -------------------------------
(***************************************************************************)
(* The life of mobile-money payouts: the rows of app.mobile_money_payouts, *)
(* the worker transactions that claim, submit and poll them, the providers *)
(* that receive the submissions, the provider webhooks and the operator's  *)
(* endpoints.                                                              *)
(*                                                                         *)
(* A worker transaction (payout_worker.process_once) locks the rows it     *)
(* claims (FOR UPDATE SKIP LOCKED), talks to the provider while it holds   *)
(* the locks, and commits every write at the end.  Row locks make every    *)
(* other writer wait, so a writer's guard is lock[p] = None.  Timers       *)
(* (next_retry_at, staleness) are abstracted: any delay may pass between   *)
(* two steps, and a claim may leave out rows that are not due.             *)
(***************************************************************************)
EXTENDS Integers, FiniteSets

CONSTANTS
  Payouts,        \* the payouts (one per cash-out transaction)
  Workers,        \* concurrent runs of process_once (daemon, admin endpoint)
  Admins,         \* concurrent admin retry requests
  None,           \* SQL NULL or a blank reference; a lock nobody holds; ...
  ExternalRef,    \* the reference each cash-out is posted with
  Kind,           \* the adapter each payout is routed to
  Incomplete,     \* payouts that carry no phone number
  Dedups,         \* adapters whose provider recognises a repeated reference
  AdminOps,       \* operator endpoints in use
  BatchSize,      \* LIMIT of each claim
  MaxAttempts,    \* MAX_ATTEMPTS (5 in the code)
  MaxFaults       \* bound: lost transactions and adapter exceptions

Kinds == {"TMONEY", "FLOOZ", "MOMO", "THUNES", "MTN", "LEGACY", "OTHER"}

ASSUME PayoutsAssumption ==
  /\ MaxAttempts \in Nat \ {0} /\ BatchSize \in Nat \ {0}
  /\ MaxFaults \in Nat
  /\ Kind \in [Payouts -> Kinds]
  /\ Incomplete \subseteq Payouts
  /\ Dedups \subseteq Kinds
  /\ AdminOps \subseteq {"retry", "force", "confirm", "replay"}
  /\ None \notin Payouts /\ None \notin Workers
  /\ DOMAIN ExternalRef = Payouts

\* Submissions of one payout: every one is counted as an attempt or is a fault
\* (UncountedSendsAreFaults), so this is no bound of its own.
MaxSends == MaxAttempts + MaxFaults

\* A provider names its n-th transfer for p <<p, n>>; <<p, 0>> is the id of
\* the payout itself, which adapters send when the row has no reference.
ProviderIds == Payouts \X (0 .. MaxSends)
Refs == ProviderIds \cup {ExternalRef[p] : p \in Payouts} \cup {None}

Terminal == {"CONFIRMED", "FAILED"}
Status == {"ABSENT", "PENDING", "SENT"} \cup Terminal
Row == [status : Status, ref : Refs, attempts : Nat, retryable : BOOLEAN]

ASSUME NoneIsNoRow == None \notin Row

Transfer == [state : {"none", "open", "paid", "rejected"}, key : Refs]
NoTransfer == [state |-> "none", key |-> None]

VARIABLES
  row,      \* the committed rows
  lock,     \* the worker transaction that holds each row's lock
  todo,     \* rows each worker has claimed and not handled yet
  draft,    \* uncommitted writes of the lock holders, None where there is none
  sends,    \* submissions made so far, by payout
  xfer,     \* what the provider did with each submission
  retry,    \* retry requests that have read FAILED and not updated yet
  stopped,  \* workers that have ended and were not started again
  faults

vars == <<row, lock, todo, draft, sends, xfer, retry, stopped, faults>>

Init ==
  /\ row = [p \in Payouts |-> [status |-> "ABSENT", ref |-> None,
                               attempts |-> 0, retryable |-> TRUE]]
  /\ lock = [p \in Payouts |-> None]
  /\ todo = [w \in Workers |-> {}]
  /\ draft = [p \in Payouts |-> None]
  /\ sends = [p \in Payouts |-> 0]
  /\ xfer = [p \in Payouts |-> [n \in 1 .. MaxSends |-> NoTransfer]]
  /\ retry = [a \in Admins |-> None]
  /\ stopped = {}
  /\ faults = 0

LastOnly(r, s) == r
Coalesce(r, s) == IF r = None THEN s ELSE r

AnyLock(p) == TRUE
Unlocked(p) == lock[p] = None

-----------------------------------------------------------------------------
(* The cash-out request inserts the row; the reference is never NULL, but a *)
(* client may send a blank one.                                             *)
Create(p) ==
  /\ row[p].status = "ABSENT"
  /\ row' = [row EXCEPT ![p].status = "PENDING", ![p].ref = ExternalRef[p]]
  /\ UNCHANGED <<lock, todo, draft, sends, xfer, retry, stopped, faults>>

-----------------------------------------------------------------------------
(* Providers (external).  A transfer is open until the provider pays or     *)
(* rejects it.                                                              *)
Transfers == {t \in Payouts \X (1 .. MaxSends) : xfer[t[1]][t[2]].state # "none"}

Settle(p, n, outcome) ==
  /\ xfer[p][n].state = "open"
  /\ xfer' = [xfer EXCEPT ![p][n].state = outcome]
  /\ UNCHANGED <<row, lock, todo, draft, sends, retry, stopped, faults>>

\* Transfers a provider that recognises repeated references holds under key.
Duplicates(p, key) ==
  {t \in Transfers : /\ Kind[p] \in Dedups /\ Kind[t[1]] = Kind[p]
                     /\ xfer[t[1]][t[2]].key = key}

\* What an adapter's send can return, and whether the provider then holds a
\* transfer: accepted; lost or refused for now (the request may have been
\* taken); refused for good.  MOMO names the reference of a failed request.
Accepted(status, refs, took) ==
  {[status |-> status, ref |-> r, retryable |-> TRUE, took |-> took] : r \in refs}
Refusal(ref, retryable, took) ==
  [status |-> "FAILED", ref |-> ref, retryable |-> retryable, took |-> took]
Refusals(ref) == {Refusal(ref, TRUE, TRUE), Refusal(ref, TRUE, FALSE), Refusal(ref, FALSE, FALSE)}

TmoneyAnswers(key, ids) == Accepted("SENT", {key} \cup ids, TRUE) \cup Refusals(None)
FloozAnswers(key, ids) == Accepted("SENT", {key} \cup ids, TRUE) \cup Refusals(None)
MomoAnswers(key, ids) == Accepted("SENT", {key} \cup ids, TRUE) \cup Refusals(key)
ThunesAnswers(ids) == Accepted("SENT", ids, TRUE) \cup Refusals(None)
MtnAnswers(key) == Accepted("SENT", {key}, FALSE) \cup {Refusal(None, FALSE, FALSE)}
LegacyAnswers(ids) == Accepted("CONFIRMED", ids, TRUE) \cup Refusals(None)

Answers(p, key, ids) ==
  CASE Kind[p] = "TMONEY" -> TmoneyAnswers(key, ids)
    [] Kind[p] = "FLOOZ" -> FloozAnswers(key, ids)
    [] Kind[p] = "MOMO" -> MomoAnswers(key, ids)
    [] Kind[p] = "THUNES" -> ThunesAnswers(ids)
    [] Kind[p] = "MTN" -> MtnAnswers(key)
    [] Kind[p] = "LEGACY" -> LegacyAnswers(ids)

PaidEarly(state) == IF state = "rejected" THEN "FAILED" ELSE "CONFIRMED"
Verdict(state) == CASE state = "paid" -> "CONFIRMED"
                    [] state = "rejected" -> "FAILED"
                    [] state = "open" -> "SENT"

ByIdOnly(p, ref) ==
  {Verdict(xfer[t[1]][t[2]].state) : t \in {t \in Transfers : t = ref}}

\* The verdicts of the transfers a status query by reference finds.  Thunes is
\* asked by its own transaction id only.
Found(p, ref) ==
  {Verdict(xfer[t[1]][t[2]].state) :
     t \in {t \in Transfers : /\ Kind[t[1]] = Kind[p]
                              /\ \/ t = ref
                                 \/ Kind[p] # "THUNES" /\ xfer[t[1]][t[2]].key = ref}}

\* What a status query can return: an error of the query itself is SENT, except
\* that Thunes and old-style adapters report errors and unknown ids as FAILED,
\* and MOMO an error answer that complains of the currency.
TmoneyPoll(p, ref) == Found(p, ref) \cup {"SENT"}
FloozPoll(p, ref) == Found(p, ref) \cup {"SENT"}
MomoPoll(p, ref) == Found(p, ref) \cup {"SENT", "FAILED"}
ThunesPoll(p, ref) == Found(p, ref) \cup {"FAILED"}
LegacyPoll(p, ref) == Found(p, ref) \cup {"FAILED"}
MtnPoll == {"SENT"}

PollAnswers(p, ref) ==
  CASE Kind[p] = "TMONEY" -> TmoneyPoll(p, ref)
    [] Kind[p] = "FLOOZ" -> FloozPoll(p, ref)
    [] Kind[p] = "MOMO" -> MomoPoll(p, ref)
    [] Kind[p] = "THUNES" -> ThunesPoll(p, ref)
    [] Kind[p] = "LEGACY" -> LegacyPoll(p, ref)
    [] Kind[p] = "MTN" -> MtnPoll

-----------------------------------------------------------------------------
(* The worker.  process_once claims due PENDING rows, then stale SENT rows. *)
Claimable == {p \in Payouts : Unlocked(p) /\ row[p].status \in {"PENDING", "SENT"}}

Claim(w, S) ==
  /\ S # {} /\ S \subseteq Claimable
  /\ w \notin stopped /\ \A p \in Payouts : lock[p] # w
  /\ \A s \in {"PENDING", "SENT"} : Cardinality({p \in S : row[p].status = s}) <= BatchSize
  /\ lock' = [p \in Payouts |-> IF p \in S THEN w ELSE lock[p]]
  /\ todo' = [todo EXCEPT ![w] = S]
  /\ UNCHANGED <<row, draft, sends, xfer, retry, stopped, faults>>

\* Pending rows are handled before stale sent ones.
Turn(w, p) ==
  /\ p \in todo[w]
  /\ row[p].status = "SENT" => \A q \in todo[w] : row[q].status = "SENT"

NotCounted(p, status, ref, attempts, retryable) ==
  [status |-> status, ref |-> Coalesce(ref, row[p].ref),
   attempts |-> row[p].attempts, retryable |-> retryable]
Updated(p, status, ref, attempts, retryable) ==
  [status |-> status, ref |-> Coalesce(ref, row[p].ref),
   attempts |-> attempts, retryable |-> retryable]

\* update_status inside the worker's transaction: the row is locked, so the
\* compare-and-set on the claimed status succeeds.
Write(w, p, status, ref, attempts, retryable) ==
  /\ draft' = [draft EXCEPT ![p] = Updated(p, status, ref, attempts, retryable)]
  /\ todo' = [todo EXCEPT ![w] = @ \ {p}]
  /\ UNCHANGED <<row, lock, retry, stopped>>

OneMore(p) == row[p].attempts > MaxAttempts
Exhausted(p) == row[p].attempts >= MaxAttempts
MissingRef(p) == row[p].ref = None
\* Whether handling the row calls the adapter's send.
Submits(p) ==
  \/ row[p].status = "PENDING" /\ p \notin Incomplete
  \/ row[p].status = "SENT" /\ MissingRef(p)

\* No submissions left: terminal, without counting an attempt.
GiveUp(w, p) ==
  /\ Turn(w, p) /\ Exhausted(p)
  /\ \/ row[p].status = "PENDING"
     \/ row[p].status = "SENT" /\ MissingRef(p) /\ Kind[p] # "OTHER"
  /\ Write(w, p, "FAILED", None, row[p].attempts, FALSE)
  /\ UNCHANGED <<sends, xfer, faults>>

\* No phone number: terminal, counted as an attempt.
RejectIncomplete(w, p) ==
  /\ Turn(w, p) /\ ~Exhausted(p)
  /\ row[p].status = "PENDING" /\ p \in Incomplete
  /\ Write(w, p, "FAILED", None, row[p].attempts + 1, FALSE)
  /\ UNCHANGED <<sends, xfer, faults>>

\* No adapter for the provider: terminal, not counted.
RejectUnsupported(w, p) ==
  /\ Turn(w, p) /\ Kind[p] = "OTHER"
  /\ \/ row[p].status = "SENT"
     \/ row[p].status = "PENDING" /\ ~Exhausted(p) /\ p \notin Incomplete
  /\ Write(w, p, "FAILED", None, row[p].attempts, FALSE)
  /\ UNCHANGED <<sends, xfer, faults>>

FreshKey(p) == <<p, sends[p] + 1>>

\* The reference a submission carries.
SubmissionKey(p) ==
  CASE Kind[p] = "THUNES" -> Coalesce(ExternalRef[p], <<p, 0>>)
    [] Kind[p] = "MOMO" /\ row[p].status = "PENDING" ->
         Coalesce(row[p].ref, <<p, sends[p] + 1>>)
    [] OTHER -> Coalesce(row[p].ref, <<p, 0>>)

\* One request to the provider, which keeps a new transfer if took.
Request(p, key, took) ==
  LET n == sends[p] + 1 IN
  /\ sends' = [sends EXCEPT ![p] = n]
  /\ xfer' = IF took /\ Kind[p] # "MTN" /\ Duplicates(p, key) = {}   \* MTN is a stub
             THEN [xfer EXCEPT ![p][n] =
                     [state |-> IF Kind[p] = "LEGACY" THEN "paid" ELSE "open", key |-> key]]
             ELSE xfer

IdsFor(p, key) == IF Duplicates(p, key) = {} THEN {<<p, sends[p] + 1>>} ELSE Duplicates(p, key)

\* What the worker writes for a submission's answer.  A pending MOMO payout
\* has its own path, which leaves every failure terminal and never gives up
\* on an accepted transfer.
Record(w, p, answer) ==
  LET attempt == row[p].attempts + 1
      ownPath == Kind[p] = "MOMO" /\ row[p].status = "PENDING"
  IN \/ /\ answer.status = "CONFIRMED"
        /\ Write(w, p, "CONFIRMED", answer.ref, attempt, FALSE)
     \/ /\ answer.status = "SENT" /\ (ownPath \/ attempt < MaxAttempts)
        /\ Write(w, p, "SENT", answer.ref, attempt, TRUE)
     \/ /\ answer.status = "SENT" /\ ~ownPath /\ attempt >= MaxAttempts
        /\ Write(w, p, "FAILED", answer.ref, attempt, FALSE)
     \/ /\ answer.status = "FAILED" /\ ownPath
        /\ Write(w, p, "FAILED", answer.ref, attempt, answer.retryable)
     \/ /\ answer.status = "FAILED" /\ ~ownPath
        /\ IF answer.retryable /\ attempt < MaxAttempts
           THEN Write(w, p, "SENT", None, attempt, TRUE)
           ELSE Write(w, p, "FAILED", None, attempt, FALSE)

Submission(w, p) ==
  LET key == SubmissionKey(p) IN
  /\ \E answer \in Answers(p, key, IdsFor(p, key)) :
       /\ Request(p, key, answer.took)
       /\ Record(w, p, answer)
  /\ UNCHANGED faults

Send(w, p) ==
  /\ Turn(w, p) /\ ~Exhausted(p) /\ Kind[p] # "OTHER"
  /\ row[p].status = "PENDING" /\ p \notin Incomplete
  /\ Submission(w, p)

\* A sent row without a reference cannot be polled: it is submitted again.
Resend(w, p) ==
  /\ Turn(w, p) /\ ~Exhausted(p) /\ Kind[p] # "OTHER"
  /\ row[p].status = "SENT" /\ MissingRef(p)
  /\ Submission(w, p)

\* A sent row with a reference is polled, never submitted again.
Poll(w, p, answer) ==
  /\ Turn(w, p) /\ row[p].status = "SENT" /\ ~MissingRef(p) /\ Kind[p] # "OTHER"
  /\ answer \in PollAnswers(p, row[p].ref)
  /\ Write(w, p, answer, None, row[p].attempts, answer = "SENT")
  /\ UNCHANGED <<sends, xfer, faults>>

\* The handler raises, while it prepares or reads a provider call (a setting,
\* a number or a body it cannot convert); old-style adapters may also raise
\* after the provider took the request.  _mark_internal_error parks the row as
\* SENT without counting an attempt.
HandlerError(w, p) ==
  /\ Turn(w, p) /\ Kind[p] # "OTHER"
  /\ faults < MaxFaults /\ faults' = faults + 1
  /\ \/ /\ Submits(p) /\ ~Exhausted(p)
        /\ \/ UNCHANGED <<sends, xfer>>
           \/ Kind[p] = "LEGACY" /\ \E took \in BOOLEAN : Request(p, SubmissionKey(p), took)
     \/ /\ row[p].status = "SENT" /\ ~MissingRef(p)
        /\ UNCHANGED <<sends, xfer>>
  /\ IF Exhausted(p)
     THEN Write(w, p, "FAILED", None, row[p].attempts, FALSE)
     ELSE Write(w, p, "SENT", None, row[p].attempts, TRUE)

EndTx(w) ==
  /\ lock' = [p \in Payouts |-> IF lock[p] = w THEN None ELSE lock[p]]
  /\ draft' = [p \in Payouts |-> IF lock[p] = w THEN None ELSE draft[p]]
  /\ UNCHANGED <<sends, xfer, retry>>

Commit(w) ==
  /\ todo[w] = {} /\ \E p \in Payouts : lock[p] = w
  /\ row' = [p \in Payouts |-> IF lock[p] = w THEN draft[p] ELSE row[p]]
  /\ EndTx(w)
  /\ UNCHANGED <<todo, stopped, faults>>

\* The process dies, the session times out idle in transaction while the
\* provider is slow, or a statement fails, between two batches or within one:
\* every write of the batch is lost, what the providers received is not.  The
\* exception leaves process_once and run_forever, which ends the worker.
Abort(w) ==
  /\ w \notin stopped /\ stopped' = stopped \cup {w}
  /\ faults < MaxFaults /\ faults' = faults + 1
  /\ todo' = [todo EXCEPT ![w] = {}]
  /\ EndTx(w)
  /\ UNCHANGED row

\* Nothing but an operator starts the daemon again, or calls process-once.
Start(w) ==
  /\ w \in stopped /\ stopped' = stopped \ {w}
  /\ UNCHANGED <<row, lock, todo, draft, sends, xfer, retry, faults>>

-----------------------------------------------------------------------------
(* Webhooks.  A provider reports a transfer by its reference, its own id or *)
(* both; a notice may come late, twice, out of order or never.              *)
NoticesOf(t) ==
  LET key == xfer[t[1]][t[2]].key
      refs == {<<key, None>>, <<t, None>>, <<None, key>>, <<t, key>>}
      verdicts == {"SENT", Verdict(xfer[t[1]][t[2]].state)}
  IN {[pref |-> r[1], eref |-> r[2], verdict |-> v] : r \in refs, v \in verdicts}
Notices == UNION {NoticesOf(t) : t \in Transfers}

Applied(r, verdict) == [r EXCEPT !.status = verdict, !.retryable = (verdict = "SENT")]
AnyRow(r, override) == r.status # "ABSENT"
OpenSent(r, override) == r.status = "SENT" \/ (override /\ r.status # "ABSENT")
Open(r, override) == r.status # "ABSENT" /\ (override \/ r.status \notin Terminal)

\* update_status_by_any_ref: every row with the provider reference; unless
\* that was exactly one row, the payout of the external reference.  It returns
\* whether the last update changed one row.
Hits(notice, override) ==
  {p \in Payouts : /\ notice.pref # None /\ row[p].ref = notice.pref
                   /\ Open(row[p], override)}
Named(notice) ==
  {p \in Payouts : /\ notice.eref # None /\ ExternalRef[p] = notice.eref
                   /\ row[p].status # "ABSENT"}

Update(notice, override, ok) ==
  LET hits == Hits(notice, override)
      first == [p \in Payouts |-> IF p \in hits THEN Applied(row[p], notice.verdict) ELSE row[p]]
  IN /\ \A p \in hits : Unlocked(p)
     /\ IF Cardinality(hits) = 1 \/ Named(notice) = {}
        THEN row' = first /\ ok = (Cardinality(hits) = 1)
        ELSE \E p \in Named(notice) :
               /\ Unlocked(p)
               /\ ok = Open(first[p], override)
               /\ row' = IF ok THEN [first EXCEPT ![p] = Applied(first[p], notice.verdict)]
                               ELSE first
     /\ UNCHANGED <<lock, todo, draft, sends, xfer, retry, stopped, faults>>

Notify(notice, override) == \E ok \in BOOLEAN : Update(notice, override, ok)

Webhook == \E notice \in Notices : Notify(notice, FALSE)

-----------------------------------------------------------------------------
(* Operators.                                                               *)
\* Replay of a stored webhook event with allow_terminal_override (without it
\* a replay is a duplicate webhook).
Replay == "replay" \in AdminOps /\ \E notice \in Notices : Notify(notice, TRUE)

ConfirmByHand(p) ==
  /\ "confirm" \in AdminOps
  /\ row[p].status # "ABSENT" /\ Unlocked(p)
  /\ row' = [row EXCEPT ![p].status = "CONFIRMED"]
  /\ UNCHANGED <<lock, todo, draft, sends, xfer, retry, stopped, faults>>

\* The retry endpoint reads the status without a lock ...
RetryRead(a, p) ==
  /\ "retry" \in AdminOps /\ retry[a] = None
  /\ row[p].status = "FAILED"
  /\ row[p].retryable \/ "force" \in AdminOps
  /\ retry' = [retry EXCEPT ![a] = p]
  /\ UNCHANGED <<row, lock, todo, draft, sends, xfer, stopped, faults>>

\* ... and then updates the row whatever its status has become,
RetryWrite(a, p) ==
  /\ retry[a] = p /\ Unlocked(p)
  /\ row' = [row EXCEPT ![p].status = "PENDING", ![p].retryable = TRUE]
  /\ retry' = [retry EXCEPT ![a] = None]
  /\ UNCHANGED <<lock, todo, draft, sends, xfer, stopped, faults>>

\* or ends without it: cancelled while it waits for the worker's lock, or dead.
RetryLost(a) ==
  /\ retry[a] # None
  /\ retry' = [retry EXCEPT ![a] = None]
  /\ UNCHANGED <<row, lock, todo, draft, sends, xfer, stopped, faults>>

-----------------------------------------------------------------------------
Handle(w, p) ==
  \/ GiveUp(w, p)
  \/ RejectIncomplete(w, p)
  \/ RejectUnsupported(w, p)
  \/ Send(w, p)
  \/ Resend(w, p)
  \/ \E answer \in Terminal \cup {"SENT"} : Poll(w, p, answer)
  \/ HandlerError(w, p)

AdminStep ==
  \/ Replay
  \/ \E p \in Payouts : ConfirmByHand(p)
  \/ \E a \in Admins, p \in Payouts : RetryWrite(a, p)

Next ==
  \/ \E p \in Payouts : Create(p)
  \/ \E p \in Payouts, n \in 1 .. MaxSends, o \in {"paid", "rejected"} : Settle(p, n, o)
  \/ \E w \in Workers, S \in SUBSET Claimable : Claim(w, S)
  \/ \E w \in Workers, p \in Payouts : Handle(w, p)
  \/ \E w \in Workers : Commit(w)
  \/ \E w \in Workers : Abort(w) \/ Start(w)
  \/ Webhook
  \/ AdminStep
  \/ \E a \in Admins, p \in Payouts : RetryRead(a, p)
  \/ \E a \in Admins : RetryLost(a)

Spec == Init /\ [][Next]_vars

(* A daemon that has not ended loops and claims oldest rows first, so no    *)
(* due row is passed over for ever; providers settle what they accept and   *)
(* their status endpoint answers sooner or later.  Nobody has to start a    *)
(* daemon that has ended.  The workers of a fair specification are daemons: *)
(* nobody has to call process-once either.                                  *)
Fairness ==
  /\ \A p \in Payouts, n \in 1 .. MaxSends :
       WF_vars(\E o \in {"paid", "rejected"} : Settle(p, n, o))
  /\ \A w \in Workers :
       /\ WF_vars(Commit(w))
       /\ \A p \in Payouts :
            /\ SF_vars(\E S \in SUBSET Payouts : p \in S /\ Claim(w, S))
            /\ WF_vars(Handle(w, p))
            /\ SF_vars(\E answer \in Terminal : Poll(w, p, answer))

FairSpec == Spec /\ Fairness

-----------------------------------------------------------------------------
(* Properties.                                                              *)

\* Every variable has its type; no payout is submitted more than MaxSends times.
TypeOK ==
  /\ row \in [Payouts -> Row]
  /\ lock \in [Payouts -> Workers \cup {None}]
  /\ todo \in [Workers -> SUBSET Payouts]
  /\ draft \in [Payouts -> Row \cup {None}]
  /\ sends \in [Payouts -> 0 .. MaxSends]
  /\ xfer \in [Payouts -> [1 .. MaxSends -> Transfer]]
  /\ retry \in [Admins -> Payouts \cup {None}]
  /\ stopped \subseteq Workers
  /\ faults \in 0 .. MaxFaults

\* A locked row is one its worker has either still to handle or has written;
\* it stays PENDING or SENT until the worker commits, because every other
\* writer waits.  Two workers never hold the same payout (SKIP LOCKED).
ClaimsAreExclusive ==
  \A p \in Payouts :
    /\ lock[p] # None =>
         /\ row[p].status \in {"PENDING", "SENT"}
         /\ p \in todo[lock[p]] <=> draft[p] = None
    /\ lock[p] = None => draft[p] = None
    /\ \A w \in Workers : p \in todo[w] => lock[p] = w

\* The row as its lock holder sees it.
Visible(p) == IF draft[p] = None THEN row[p] ELSE draft[p]

\* attempt_count never passes MAX_ATTEMPTS, whatever mix of submissions,
\* crashes, adapter errors and forced retries a payout goes through.
AttemptsWithinLimit == \A p \in Payouts : Visible(p).attempts <= MaxAttempts

\* attempt_count falls behind the submissions really made only by the
\* transactions that were lost and the adapter errors that were parked.
UncountedSendsAreFaults ==
  \A p \in Payouts : sends[p] <= Visible(p).attempts + faults

\* A SENT payout has a reference to poll by, as long as the cash-out was
\* posted with one (state_machine.assert_sent_invariant).
SentHasReference ==
  \A p \in Payouts :
    ExternalRef[p] # None /\ row[p].status = "SENT" => row[p].ref # None

Unshared(p) ==
  \A q \in Payouts \ {p} :
    row[q].status # "ABSENT" => ExternalRef[p] = None \/ ExternalRef[q] # ExternalRef[p]

\* Nobody is told CONFIRMED unless the provider has paid, however late, often
\* and disorderly webhooks, polls and replays arrive, as long as no other row
\* was posted with the same reference; only an operator who confirms by hand
\* can say so without the provider.
ConfirmedOnlyIfPaid ==
  [][\A p \in Payouts :
       row[p].status # "CONFIRMED" /\ row'[p].status = "CONFIRMED" /\ Unshared(p) =>
         ConfirmByHand(p) \/ \E n \in 1 .. MaxSends : xfer[p][n].state = "paid"]_vars

\* Cash-outs may share a reference, and then one may be told CONFIRMED for the
\* other's money; but even so a payment was made under a reference it goes by,
\* its own or the provider's id that its row has.
PaidUnder(refs) ==
  \E t \in Transfers :
    xfer[t[1]][t[2]].state = "paid" /\ {t, xfer[t[1]][t[2]].key} \cap refs # {}

ConfirmedNamesAPayment ==
  [][\A p \in Payouts :
       row[p].status # "CONFIRMED" /\ row'[p].status = "CONFIRMED" =>
         ConfirmByHand(p) \/ PaidUnder({row'[p].ref, ExternalRef[p]} \ {None})]_vars

\* A CONFIRMED or FAILED payout changes its status only by an operator's
\* request: late webhooks and workers with old claims leave it alone.
OnlyAdminsReopen ==
  [][\A p \in Payouts :
       row[p].status \in Terminal /\ row'[p].status # row[p].status => AdminStep]_vars

Moved(p, n) == xfer[p][n].state \in {"open", "paid"}

\* The money of a Thunes payout leaves at most once, whatever is lost, retried
\* or forced: its submissions carry the external reference, which nothing
\* changes.  (Other adapters submit under the row's reference, which an answer
\* may replace; for them only KeepsPromise holds, without operators.)
ThunesPaysOnce ==
  \A p \in Payouts, m, n \in 1 .. MaxSends :
    Kind[p] = "THUNES" /\ Moved(p, m) /\ Moved(p, n) => m = n

\* The provider holds a transfer of the payout under the reference of its row.
KnownByRef(p) ==
  \E t \in Transfers : t[1] = p /\ row[p].ref \in {t, xfer[t[1]][t[2]].key}

\* A SENT payout whose transfer the provider knows is polled to its end, even
\* if every webhook is lost, unless the daemons end first; one that is started
\* again takes up what was left, also what a lost transaction left.
AcceptedPayoutsConclude ==
  \A p \in Payouts :
    row[p].status = "SENT" /\ KnownByRef(p) ~>
      row[p].status \in Terminal \/ stopped = Workers

-----------------------------------------------------------------------------
(* What the customer sees of a payout, and where the money is.              *)
Told(p) == IF row[p].status \in {"PENDING", "SENT"} THEN "waiting" ELSE row[p].status
Money(p) ==
  LET States == {xfer[p][n].state : n \in 1 .. MaxSends} IN
  CASE "paid" \in States -> "paid"
    [] "paid" \notin States /\ "open" \in States -> "moving"
    [] States \cap {"paid", "open"} = {} /\ "rejected" \in States -> "bounced"
    [] OTHER -> "none"

Promise == INSTANCE PayoutLifecycle
             WITH payout <- [p \in Payouts |-> [told |-> Told(p), money |-> Money(p)]]

\* The rows, locks, retries and webhooks together keep the lifecycle a customer
\* is promised, as long as no operator intervenes.
KeepsPromise == Promise!Spec
=============================================================================
