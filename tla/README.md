# NexaPay API: models, checks and proofs

The API moves money in three ways: into a wallet (cash-in), out of it through a
mobile-money provider (cash-out), and between wallets (P2P). A PostgreSQL
database holds the ledger; a worker sends the payouts of committed cash-outs to
the providers; the providers report back by webhook. Around this stand sign-up,
sign-in and token refresh behind a rate limiter, the tables that say where a
cash-out may go, and two audits of the live system. This directory models the
parts where the order of steps decides where the money is, who is signed in and
what an operator is told, checks the models with TLC and proves the main
theorems with TLAPS.

Paths below are relative to the repository.

## 1. The system

| Part | State | Operations | What is hard |
|---|---|---|---|
| Payment endpoints (`routes/payments.py`, `routes/p2p.py`, `services/idempotency.py`, `services/velocity.py`) | `app.idempotency_keys` | cash_in, cash_out, p2p_transfer | two requests with one key; a cash-out commits before it stores its answer; retries after a cut-off |
| Ledger (`db/schema_v1.sql`) | `ledger_transactions`, `ledger_entries`, `wallet_balances`, `ledger_accounts` | post_cash_in_momo, post_cash_out_momo, post_p2p_transfer | READ COMMITTED: reads without a lock, waits on unique indexes and rows, handlers that undo a block, deadlocks |
| Payout rows (`app/payouts/repository.py`) | `app.mobile_money_payouts` | claim, update by id, by reference, merge | four kinds of writer, one of them holding a lock while it talks to a provider |
| Worker (`app/workers/payout_worker.py`) | none of its own | claim a batch, submit, resend, poll, park, commit | the provider has acted before the transaction commits |
| Providers (`app/providers/mobile_money/`) | transfers (external) | send, status | lost answers, repeated references, own ids |
| Webhooks and replay (`routes/webhooks.py`, `app/webhooks/repository.py`, `routes/admin_webhooks.py`) | the payout row, an event log | screen, read, update, log, replay | late, repeated, out of order, naming one of several references; read without a lock |
| Operators (`routes/admin_mobile_money.py`) | the payout row | retry, confirm, process-once | read without a lock, then an unguarded write |
| Sessions and users (`routes/auth.py`, `security.py`, `routes/auth_google.py`, `register_user_secure` in the schema) | `users.users`, `auth.user_sessions` | login, refresh, register, Google sign-in | a request is two or three transactions |
| Rate limiting (`rate_limit.py`, `middleware.py`) | buckets in memory | allow_token_bucket | boundaries, the clock, restarts |
| Catalog and routing (`app/catalog/`, `services/corridors.py`, `routes/catalog.py`, the front of `routes/payments.py`) | none but the settings | quote, choose a provider, refuse | four tables written down separately |
| Reconciliation (`services/reconcile.py`) | reports | run_reconcile | reads at several moments, asks providers in between |
| Balance check (`services/ledger_invariants.py`) | none | _check_wallet_balance | two reads |
| Listings, exports, metrics, roles, health | none, or one row | | |

How they meet: a cash-out request calls the ledger function and inserts the
payout row in one transaction (`routes/payments.py:428-504`), and stores its
answer in another (514-522). The worker takes over from the committed row;
webhooks and operators write the same row. A cash-out that is sent again inserts
its row again and meets what became of the first one. Nothing goes back from a
payout to the ledger: a payout that fails leaves the wallet debited. The audits
read both sides while they move. Sessions share nothing with payments but the
identity of the caller, so they are modelled apart.

What makes each part correct:

- endpoints: a client that retries under one key learns of one transaction,
  and only of a committed one;
- ledger: one transaction per key, cached balances equal to the entries, no
  overdraft, every request ends;
- payouts: money leaves once, CONFIRMED means paid, attempts are bounded and
  counted, a terminal row stays as it is unless an operator acts, and a
  payout the provider knows is concluded;
- webhooks: what is logged and answered is what happened to the row, and news
  is dropped only when it is none;
- the whole cash-out: no provider holds money that was not debited, and one key
  pays once;
- sessions: one live session per sign-in, one account per address;
- limiter: no more requests than limit and refill allow, whatever the clock does;
- routing: what the catalog and a quote offer is accepted;
- audits: what they report is true although the system went on.

## 2. The modules

| Module | What it is |
|---|---|
| `Payouts` | rows, worker transactions, providers, webhooks, operators |
| `PayoutLifecycle` | the abstract promise to a customer that `Payouts` implements |
| `Webhooks` | deliveries statement by statement: EXTENDS `Payouts`, whose one-step webhooks it replaces |
| `Ledger` | the posting functions as concurrent transactions |
| `LedgerPosting` | the abstract ledger, which posts in one step, that `Ledger` implements |
| `Payments` | the endpoints on top of `Ledger` (EXTENDS it) |
| `CashOuts` | `Payments` and an instance of `Payouts`, joined where a cash-out inserts its payout row |
| `Audits` | reconciliation and balance check, on top of `CashOuts` |
| `Routing` | catalog, quote and the choice of a provider |
| `TokenBucket` | the rate limiter |
| `Sessions` | the authentication routes behind the limiter (EXTENDS it) |
| `MCPayouts`, `MCWebhooks`, `MCPayments`, `MCCashOuts`, `MCSessions` | instances for TLC; `MCCashOuts` puts `Audits` and `Routing` side by side |
| `PaymentLimits`, `MCLimits` | `Payments` with a history of who overlapped, to state the limits; its instance for TLC |
| `PayoutClaims`, `PaymentClaims` | statements of docs, comments and tests that the code does not keep |
| `PayoutsProofs`, `PayoutMoneyProofs` | theorems about `Payouts`: accounts; references, shared ones too, money and the promise |
| `LedgerProofs`, `PaymentsProofs`, `LimitsProofs` | theorems about `Ledger` (with sums over finite sets), `Payments` and `PaymentLimits` |
| `CashOutsProofs` | theorems about `CashOuts`, `Audits` and `Routing` |
| `WebhooksProofs`, `SessionsProofs` | theorems about these modules (`SessionsProofs` also about `TokenBucket`) |

### Payouts

State: `row` is the committed table; `lock`, `todo` and `draft` are a worker
transaction (the rows it holds by FOR UPDATE SKIP LOCKED, those it has not
handled, its uncommitted writes); `sends` and `xfer` are the provider's side;
`retry` is an operator's request between its read and its update; `stopped` are
the workers that have ended.

| Action | Code |
|---|---|
| `Create` | the payout INSERT of cash_out |
| `Claim`, `Commit`, `Abort` | process_once, get_conn |
| `Start` | someone starts the daemon again, or calls process-once again |
| `GiveUp`, `RejectIncomplete`, `RejectUnsupported`, `Send` | `_handle_pending` and the MOMO path |
| `Poll`, `Resend` | `_handle_sent`, `_resend_sent_missing_ref` |
| `HandlerError` | `_mark_internal_error` |
| `Webhook`, `Replay` | the webhook handler; replay_event with override |
| `RetryRead`, `RetryWrite`, `RetryLost`, `ConfirmByHand` | the admin endpoints |
| `Settle` | the provider (external) |

A row's status change and the answer of the provider are one action, because
the worker holds the row's lock from claim to commit; what other actors can
observe changes only in `Commit`. `Abort` loses the writes of a batch and keeps
what the providers received: that is the crash between submission and commit. It
ends the worker (`run_forever` handles no exception), which claims nothing more
until a `Start`; it may come between two batches as well.
Timers (`next_retry_at`, staleness, backoff) are abstracted to any delay.
The snapshot of a claim's SELECT is taken to be current: a row that changes
between the snapshot and its lock is re-checked by PostgreSQL.

### Ledger and Payments

A call goes through `stage`: idle, find (its key), funds, limits, post, done,
committed or failed. In stage post it goes through its `Plan`: the inserts into
unique indexes and the balance updates, in the order of the SQL function.
`held` are the index values and rows it has touched and not committed;
another call that needs one waits (`FreeFor`), or meets a unique violation when
a committed row has it (`UniqueViolation`, whose handler undoes the block and
answers with the transaction of the key, or NULL). `draft` are uncommitted
balances, `txns` the committed transactions, each named by the call that posted
it. `Rollback` may come at any point.

`Payments` adds the stored answers, the velocity check, the payout row and
the reply. `Replay` and `Miss` are the two outcomes of looking for a stored
answer; `Velocity` opens the posting; `Post` is a statement of the function;
`FinishAtOnce` is the end of a cash-in or transfer, which store their answer in
the transaction of the posting; `FinishCashOut` and `StoreCashOut` are the two
transactions at the end of a cash-out; `Fail` is the cut-off, also between
those two. A client that retries is another call with the same contents.

Abstractions: the reads of get_idempotency and idempotency_conflict are one
step; the waits of two commits on the same payout row or stored answer are
folded into the commit (the first to commit is the first to insert); all calls
are made on one day and in one country; the wrapper's UPDATE of provider and
phone is left out; ownership checks, audit rows and transaction_meta are left
out (they refuse a call before it posts, or only follow it). Fees are a
constant of the operation, the KYC tier a constant limit.

### Webhooks

`Payouts` takes a webhook as one step. `Webhooks` takes it as the code does: a
delivery is screened (`SignatureError`, `BodyError`: every reason to refuse a
message is one of `Conditions`), `Read` looks the payout up without a lock,
`Finish` updates the row and logs the event in the same transaction, and `Drop`
is a delivery that dies in between or waits too long for a worker. Between
`Read` and `Finish` everything else goes on. `ReplayEvent` applies a stored
payload again; like the code it does not ask why the event was refused, and it
looks into "event", which the handler does not. A delivery is logged once; a
provider that repeats itself makes another delivery. The branch for
INVALID_JSON_OBJECT cannot be reached and is left out.

### CashOuts, Audits, Routing

`CashOuts` has one action for the statement where the two halves meet:
`Debits` is the commit of the debit (`FinishCashOut`) together with the INSERT
of the payout row (`InsertPayout`), which creates the row or, ON CONFLICT, waits
until no worker holds it and leaves it as it is. All other actions are those of
`Payments` or of the instance `P` of `Payouts`.

`Audits` adds the statements of run_reconcile one by one (`ReadStale`,
`AskProvider` for each row, `ReadConfirmed`, `ReadPresence`, `ReadLedger`,
`StoreReport`) and the two reads of the balance check (`SumEntries`,
`CompareBalance`). `LoseReport` is a failed run: the connection is idle in
transaction while it asks a provider, so one slower than 5 s ends the session
and the daemon with it; the next run is made by a daemon that somebody starts,
or by an admin. Each run has a mode, that of the process that runs it (`Modes`).
Only in the real mode is a provider asked, and only one with an adapter
(`AsksAdapter`); an adapter that raises counts as SENT. In sandbox mode, which is
the default, and for a provider without an adapter, the code reads the verdict
off the text of the reference (`TextSays`): SENT of a blank one, and any verdict
of another, since the text is a client's or a provider's. `late`, what was posted
between the two reads, is a history for the property.

`Routing` writes out the country and provider tables and the checks of
cash_out_mobile_money up to the ledger (`Accepts`), the quote and the choice of
a provider. A client asks for a quote and cashes out later; an operator restarts
the server with any other MM_ENABLED_PROVIDERS in between. The names of the
errors are left out.

### TokenBucket and Sessions

Tokens are counted in parts, so a refill is a whole number. The clock moves
forward and is set back by whole seconds; a restart forgets all buckets.
`OpenWindow` lets any moment be the first of a window: `ran`, `restarts` and
`admitted` count from it and exist for the property only.

A request of `Sessions` goes through `stage`, one transaction each: find and
create for a login; validate, revoke and create for a refresh; find, insert,
commit and create for a Google sign-in that registers. `CutOff` ends a request
between any two, `Crash` all of them; an answer may be lost after its session
was created. Whether a password matches or an ID token verifies is one of two
outcomes; tokens presented are those that were issued. `root` (the sign-in a
session descends from) and `raced` (sign-ins whose token two refreshes used at
once) are histories. Left out: last_used_at, the normalisation of addresses,
the wallet that is inserted with the user.

## 3. What TLC checks

| Run | Question | States |
|---|---|---|
| `PayoutsAlone` | one payout of every adapter, with two workers, forced retries, replays, any webhooks, one fault; and two cash-outs that bring one reference | 84 185 |
| `PayoutsPair` | two payouts in shared batches implement `PayoutLifecycle` | 50 843 |
| `Webhooks` | two deliveries in every condition, statement by statement, against a worker, the provider and replays | 294 233 |
| `Payments` | every three of eight calls, statement by statement | 189 957 |
| `PaymentsLive` | transfers in opposite directions, a cash-out and its retry: every request ends, also in a deadlock | 11 993 |
| `CashOuts` | quote, cash-out, retry, payout, operator's retry and audits in both modes together | 202 133 |
| `Sessions` | every three authentication requests, and the limiter | 269 983 |

Properties of the payout runs (`PayoutsAlone`, `PayoutsPair`):

- `ClaimsAreExclusive`: a locked row is one its worker has still to handle or
  has written, and it stays PENDING or SENT until the commit.
- `AttemptsWithinLimit`: attempt_count never passes MAX_ATTEMPTS, through
  submissions, resends, parked errors and forced retries that keep the count.
- `UncountedSendsAreFaults`: submissions exceed attempts only by lost
  transactions and parked errors.
- `SentHasReference`: a SENT row can be polled, unless the cash-out was posted
  with a blank reference.
- `ConfirmedOnlyIfPaid`: a payout becomes CONFIRMED only if a provider paid, or
  an operator says so; of payouts whose reference no other row has (`Unshared`).
- `ConfirmedNamesAPayment`: where cash-outs share a reference, one webhook may
  confirm two payouts, one of them for the other's money. Even then a payment was
  made under a reference the payout goes by: its own or its provider's id.
- `ThunesPaysOnce`: a Thunes payout moves its money at most once, even when
  operators force retries.
- `OnlyAdminsReopen`: only an operator's step changes a terminal status. A replay
  with override is such a step, so what a plain webhook may do to a terminal
  row is the subject of `PayoutsPair`, where no operator acts.
- `KeepsPromise`: refinement of `PayoutLifecycle`.

Properties of `Webhooks`:

- `EventsTellTheTruth`: an event "ignored" came with no change, one "applied"
  names the only payout that changed and its status. Two payouts that share a
  reference are excepted: one notice updates both and the event says ignored.
- `DroppedOnlyIfStale`: news of a payout that was found is dropped only if the
  payout had concluded, in the status the event names, or goes by another
  reference (a resend replaced it between read and update; the notice is
  answered 200 and never comes again, and polling has to find out).
- `AcceptedPayoutsConclude`: liveness; a payout the provider knows by its
  reference is concluded although every webhook may be lost, or the daemon has
  ended. A daemon that is started again takes up what a lost transaction left: if
  it does not end once more, that is concluded too.

Properties of the payment runs:

- `OneTransactionPerKey`, `SuccessIsDurable`, `SuccessesAgree`,
  `CashOutsHavePayouts`, and `CallsEnd` for liveness.
- `BalancesMatchEntries`: what `services/ledger_invariants.py` audits.
- `MoneyIsConserved`: all balances together are what cash-ins brought and
  cash-outs left; transfers and fees only move money between accounts.
- `PostsAtomically`: refinement of `LedgerPosting`. A posting of many statements,
  with its waits, violations and undone blocks, appears whole, once, under a key
  nobody used before, and adds its entries to the balances that are there then.
- `LimitsHoldInTurn`: balance, daily limits and velocity limits are passed by
  requests of one user that overlap and by nothing else: no cut-off, retry or
  mix of operations gets a user past them. The daily limit counts the fees of
  earlier debits and not the debit's own, so it may be passed by one fee.
  `crowded` remembers overlaps by user, and a wallet is debited by its owner
  only (`OwnWallets`: the ownership checks of the posting functions, which the
  model leaves out).

Properties of `CashOuts`:

- `NoMoneyLeavesUndebited`: a transfer at a provider, open or paid, is that of a
  committed debit, and a Thunes cash-out pays once per idempotency key.
- `PayoutsStayDecided`: a cash-out that is sent again does not take a decided
  payout back.
- `ReportsAreTrue`: a confirmed payout is never said to miss its ledger entries;
  a mismatch is of a debited cash-out. Where an adapter was asked, it names a
  transfer that really was paid or rejected (Thunes, old-style and MOMO adapters
  say FAILED of some errors too); otherwise the report says what the text of the
  reference says, and nothing is claimed of it. SENT is reported of PENDING rows
  only.
- `DifferencesAreInFlight`: a difference the balance check shows is exactly what
  was posted between its two reads.
- `QuotesAreAccepted`, `AvailableIsAccepted`: the tables agree where clients
  rely on it. A quote may be refused after a restart with other settings, and
  the older `country` form of the request does not look at the settings at all.

Properties of `Sessions`:

- `OneSessionPerSignIn`: a sign-in has one live session, however often its token
  is refreshed and whatever is cut off, unless two refreshes used one token at
  once: both validate before either revokes, and both get a session.
- `SignInsAgree`: all who succeed for one address get the same user.
- `TakenIsTaken`: who is told "taken" finds the account, also if the sign-up he
  met was cut off.
- `AdmissionsBounded`: from any moment on a client gets no more requests through
  than limit and refill allow, and the limit once more for each restart.

Bounds. `MaxAttempts` is 3 (5 in the code) in the run with one payout: a first
submission, one in between and the last one, the cases the code tells apart.
`MaxFaults` is 1: one lost transaction or parked error per behaviour, at any
point; the theorems hold for any number. `OneAtATime` explores the adapters one
after another; payouts that do not share a batch or a reference do not meet.
Those that share a batch are the subject of `PayoutsPair`; two that share a
reference are explored `Together`, with one worker, two submissions, no fault
and no forced retry: who is told of whose payment needs a first submission, a
resend and every order of webhooks, polls and replays. `MaxSent` is 3 calls per
behaviour: two that race and a third that retries, reads stale answers or
releases a lock. Eight calls with two keys used twice, one key used by two
operations, one reference used twice, and amounts that make the second debit
exceed balance or limit let every outcome of the code happen; every action fires
in the passing runs.

`Webhooks` has one payout, one worker and two deliveries: one that is overtaken
by the other or by the worker's commit. `CashOuts` has a cash-out, its retry, a
second cash-out through another provider and a cash-in; four constraints keep
apart what shares no state: `OneAudit` (the audits read and write nothing the
system reads, so one a behaviour is enough; one in sandbox mode, whose verdicts
depend on neither worker nor provider, is explored without faults), `OnePayment`
(payments under different keys meet in `Payments`, payouts of different
providers in `PayoutsPair`), `EndsThatLose` (a worker that has ended only claims
nothing, as an idle one may, so those that lose a batch and start again at once
stand for all) and `RouteFirst` (routes are settled before a request reaches the
ledger; settings change before the first request, under all settings, and the
system is explored under one). `Sessions` has three requests: two that race and
one that finds the result; `Apart` explores the limiter with requests that end
at the door and the handlers with a limiter that lets them in, since the two
share no state; the view forgets when something happened and keeps how long
ago, which is all the limiter looks at; requests are symmetric.

But for the two of `PayoutsAlone` the runs assume that payouts have references
of their own. They also assume that no key is used for a cash-out and another
operation (`OneUsePerKey`, in `CashOuts` only), that the providers in `Dedups`
recognise a repeated reference (external), and that the database behaves as
PostgreSQL does under READ COMMITTED.

Fairness. The daemon (`payout_worker.py:655-660`) loops as long as no exception
ends it and takes the oldest due rows first, so no due row is passed over for
ever (SF of a claim that contains it, which a worker that has ended never can
make), handles what it claimed and commits (WF); a provider settles what it
accepted and answers a status query sooner or later. Nothing in the repository
starts a daemon that has ended: `run_forever` handles no exception, the runbook
and `scripts/run_worker.ps1` start it by hand, `fly.toml` and the compose file
run only the application. So there is no fairness of `Start`, and
`AcceptedPayoutsConclude` promises nothing while all workers have ended. Nor
does anybody have to call process-once: the workers of the fair specification
are daemons (one, in `Webhooks`). For
requests, a process that runs goes on (WF of `Running`), and the 5 s
statement_timeout that get_conn sets ends every wait (WF of `Stuck` and
`Fail`), which is also how PostgreSQL's deadlock detection appears. No fairness
is assumed of webhooks, operators, clients, crashes or cut-offs.

## 4. Where code and documents disagree

Each has a run in which TLC finds the statement violated.

- `ClaimRetries`: after a retryable failure the row is SENT with a reference
  the provider does not know; it is polled for ever and cannot be retried,
  while `docs/PRODUCTION_RUNBOOK.md:80-88` says to retry it.
- `ClaimRetryConfirmed`: a retry request that read FAILED takes a payout that
  was CONFIRMED meanwhile back to PENDING.
- `ClaimTemporary`: a temporary error of the Thunes status endpoint ends a
  payout whose transfer is under way.
- `ClaimOverdraft`: two cash-outs pass the balance check together and leave the
  wallet negative.
- `ClaimNullAnswer`: the unique_violation handler answers NULL for a cash-in
  whose reference (not key) is taken; the retry is answered 200 without a
  transaction.

Seen while modelling, without a run:

- One exception ends the worker: a failed statement, a lost connection, or a
  provider that keeps the transaction idle for more than the 5 s of
  `db.py:58` leaves process_once, run_forever and the process, and payouts wait
  until somebody starts it. The runbook (`docs/PRODUCTION_RUNBOOK.md:34-36`) starts
  `app.workers.payout_worker`; `scripts/run_worker.ps1` names
  `app.workers.run_payout_worker`, which is not in the repository.
- A status query to MOMO whose answer is an error that complains of the currency
  ends the payout FAILED (`momo.py:98-105`), though the transfer was taken and
  may be paid.
- In sandbox mode, the default of `settings.py:63`, reconciliation asks no
  provider: it reports a payout as CONFIRMED or FAILED if its reference contains
  "confirm" or "fail" (`services/reconcile.py:60-72`), whatever the
  provider knows of it.
- A webhook confirms a PENDING payout, which `app/payouts/state_machine.py:12`
  and `tests/test_payout_state_machine.py:15-17` call illegal; no update asks
  that table.
- A provider that answers with its own id (MOMO, T-Money) can pay twice under
  forced retries: the id replaces the reference, a late webhook that names the
  first transfer fails the second submission, and the next forced retry submits
  under a third reference. That is why `ThunesPaysOnce` is about Thunes, and
  `KeepsPromise` excludes operators.
- After a lost transaction attempt_count is less than the submissions made
  (`payout_worker.py:445` says "strictly number of send_cashout submissions");
  `UncountedSendsAreFaults` states what does hold.
- provider_ref is the client's choice and not unique among cash-outs; one
  webhook then concludes two payouts.
- A key is unique over all users and operations in the ledger but kept by user
  and route among the stored answers: a cash-out that meets another
  operation's key adopts that transaction and inserts a payout for it.
  `CashOutsHavePayouts` excepts such keys.
- The same key with another payload is answered 200 instead of 409 while the
  first request has posted and not stored its answer.
- "Insufficient funds" of the P2P function carries no DB_ERROR code, so it is
  answered 500; `tests/test_p2p.py:109` expects 409.
- `merchant_pay` calls a function the schema does not define.
- `services/reconcile.py` looks for types like `CASH_OUT%`; the ledger writes
  `CASHOUT`, so `ledger_missing_payout` is never reported.
- A crash between revoke and create signs a client out, and an answer lost
  after create leaves a live session nobody holds.
- The catalog lists THUNES for Ghana; a cash-out with destination_country=GH and
  THUNES is refused unless MOMO is off and THUNES on in the settings.
- `routes/payouts.py` finds the wallet of a transaction by LIMIT 1 without ORDER
  BY among its entries, so an owner may be answered 404.

## 5. What is proved

The theorems hold for any sets of payouts, workers, administrators, deliveries,
calls, wallets, clients and requests, and any values of the bounds, under the
ASSUMEs of the modules (types of the constants; None is not a call, payout or
worker; in `Routing`, that the two filters of the provider lists keep what
passes them (`FiltersKeep`), which has no parameter and is decided by TLC in
the run `CashOuts`, because the provers know nothing of SelectSeq; user wallets
are no system accounts and are used by their owners; the cash-outs of `CashOuts`
fit `Payouts`, and no key is used for a cash-out and another operation). Further assumptions stand in the theorems that need them.

`PayoutsProofs`. `Accounting` is the inductive invariant: the types, the
exclusive claims, and for every payout an account of its attempts and
submissions in both the committed row and the draft. `ClaimsAreExclusive` is
part of it because a commit publishes a draft: without exclusivity it could
publish one computed from an old row. From it follow `TypeCorrect`,
`ExclusiveClaims`, `BoundedAttempts`, `AccountedSubmissions` and the action
property `TerminalIsFinal` (a locked row is not terminal, so a worker's commit
never changes a terminal one).

`PayoutMoneyProofs`. `SentKeepsReference` rests on `RefInv`: a row or a draft of
a payout that was posted with a reference has one. `ThunesOnce` assumes that
Thunes recognises a repeated reference; it holds because what a submission to
Thunes carries depends on constants only, whatever the row says, so all
transfers of a payout carry one key. For the rest, references must tell payouts
apart, which nothing in the code enforces. The invariant `PaidInv` needs that of
rows that are there (`Unmixed`): every reference about a payout, in a row, a
draft or at a provider, is one of its own, and a draft that says CONFIRMED is of
a payout that has been paid. `ConfirmedMeansPaid` follows if no two cash-outs
bring one reference (`DistinctReferences`). `PollTruth` is the lemma the
composition uses: what a status query answers of a payout's own reference is so,
but for FAILED of the adapters that mistake errors (Thunes, old-style, MOMO).

`ConfirmedNamesPayment` is what is left where references are shared, and assumes
nothing of them (only that a provider's id is not the blank reference,
`NoneIsNoId`). Its invariant `NameInv` says that a draft of CONFIRMED has a
payment under its own reference or that of its cash-out. A webhook that
confirms names one of the two; a poll finds the transfer it asked for; what is
paid stays paid, and a confirmed row keeps what it goes by.

`PromiseKept` is the refinement of `PayoutLifecycle`, under `PromiseAssumption`
(no operators, cash-outs with a reference, providers that recognise it; without
it what section 4 says of forced retries is a counterexample) and
`DistinctReferences`. The latter is used only to know that rows which are there
have references of their own: `PromiseStays` is the same from `Unmixed`, which
is what the composition can offer. `PromiseInv` adds that a PENDING payout still
has the reference of its cash-out, so that all submissions of a payout carry it
and the provider holds one transfer. The proof shows payout by payout that each
action is a step of the lifecycle or a stutter.

`WebhooksProofs`. `WebhooksArePayouts`: deliveries do to payouts what `Payouts`
says webhooks do in one step, because what a provider once said of a transfer
it goes on saying; so the theorems above hold with deliveries that read first
and update later. `EventsAreTrue` and `DroppedIsStale` rest, under
`DistinctReferences`, on `OneNamed` (a notice is about one payout, whatever
happens between read and update); the latter also on `ReadsLast`, that what a
delivery read of a decided payout stays true and what named it still does or
was replaced. `WebhooksTypes`.

`LedgerProofs`. `OneTransactionPerKey` is not inductive: nothing in it says
that a posting about to commit has a key of its own. `IInv` adds that held
index entries are exclusive, that none is that of a committed key, and that a
posting that has passed its key insert holds the entry until it commits
(`KeyBeforeCommit`, from the shape of the plans, `PlanShape`). Theorems:
`KeysAreGuarded`, `KeyPostsOnce`, `LedgerTypes`.

The balances need sums. The library folds by a recursive function over the
subsets of a set; the lemmas `SumUnfolds` to `SumSplit` show that this function
exists and that adding or removing an element adds or removes its term, by
induction in the form that every nonempty set of subsets of a finite set has a
least one (`MinimalSet`), which takes no operator as a parameter. `BInv` says
that a draft of a row a posting holds is the committed balance and what the
entries behind it in its plan add (`DraftsFit`), and that only a posting that
may still commit holds entries (`HoldersPost`). A commit then adds what the
whole plan adds, which is what its ledger entries say (a lemma over the three
plans), while the drafts of the others are of other rows, since holds are
exclusive. `MoneyStays` sums once more, over the accounts: the entries of a
transaction cancel but for what it brings (`EntriesCancel`), so a posting
changes both sides of `MoneyIsConserved` alike; it assumes finitely many
wallets. Theorems: `BooksAreKept`, `BalancesMatch`, `MoneyStays`, and
`PostingIsAtomic`: the same argument says that a commit is a step of `LedgerPosting` and every other
step a stutter.

`PaymentsProofs`. `PaymentsUseLedger`: every behaviour of the endpoints is one
of the ledger, so the ledger's invariant is available. `PInv` says that stored
answers and sent successes are durable, that payout rows belong to committed
transactions, and that a cash-out's row is its own; the last needs the one
before, because the row a posting inserts must not be there yet. Theorems:
`SuccessDurable`, `Agreement` (durability and one transaction per key),
`CashOutsPaid`, `PaymentsTypes`.

`LimitsProofs`. `LimitsUsePayments`: the history changes nothing. `TInv` says that
whoever overlaps a rival is in `crowded`, and that what a request outside it has
checked (funds, daily limit, velocity) is still so while it may commit: only a
rival's commit could change it, and that rival would be busy at the same time.
A commit outside `crowded` then leaves balance and sums within what was checked,
by the lemmas on sums; `LimitsKept` follows (`ChecksLast` is the invariant). That
`crowded` forgets requests that ended without posting is part of the theorem.

`CashOutsProofs`. `CashOutsArePayments` and `PayoutsApart`: the composition is a
behaviour of either half, so the theorems of the halves hold of it. Those of the
endpoints are cited as they are. Those of the payouts are theorems of another
module about the instance `P`; `M` instantiates that module, and the lemmas
`Same...` show operator by operator that the two instances mean the same, so
that `PayoutsStaySound` and `ConfirmedIsPaid` follow from the theorems of
`PayoutsProofs` and `PayoutMoneyProofs`. A cash-out and its retry may well bring
one reference; `ReferencesByKey` assumes only that those of different keys do
not, and one key posts one transaction, so no two rows share one (`Unmixed`).
From that also follows `CashOutsKeepPromise`: the composition implements
`PayoutLifecycle`, however often a cash-out is sent again. `ConfirmedIsNamed`
needs no assumption about references, and `BooksStayRight` says that balances
and money of the ledger are those of the posted transactions whatever happens
to the payouts.
`PayoutsFollowPosts` is about both halves: rows, locks, retries and transfers are
of committed cash-outs, held rows are open, and a Thunes payout has one
transfer. With `KeyPostsOnce` it gives `DebitedFirst`; `DecidedStays` follows from
held rows being open.

The audits only read (`AuditsOnlyRead`), so all of this holds beside them.
`ChecksAreExact`: the balance is the sum over what is posted (`BalancesMatch`),
what the check has seen is part of that, and the sum over the rest is the
difference (`SumSplit`). `ReportsHold`: a row that reconcile has read is of a
posted cash-out, by a reference that stays its payout's own whatever replaces
it; what an adapter that was asked says of it (`PollTruth`) stays so, and so does
the mode of the run; a row reported as SENT was PENDING when it was read;
confirmed rows are of posted cash-outs, which stay posted. It assumes only
`ReferencesByKey`: the property itself says which reports come from a provider
(`AsksAdapter`), in whatever mode and with whatever adapters. `AuditsTypes`.

Of `Routing` (`RouteSpec`): `QuotesHold` and `AvailableHolds`. A quote is a copy
made under some settings (`QuoteInv`), and what any settings leave of the list
of a country that is open, in the order Ghana gets, is enabled for that country
(`ListedAreOffered`); the checks of a cash-out follow one by one. TLC has gone
through every setting; the proof says which tables must agree.

`SessionsProofs`. `LimiterBounds`: what is left in a bucket and what was let
through is within what was put in; the clock may do as it likes because a
negative difference counts as zero and what ran is counted as it runs.
`OneSession`: a token that one refresh has revoked cannot be validated again, so
at most one live session or one about to be created descends from a sign-in that
was not raced. `OneAccount` and `TakenAccounts` rest on the unique indexes, also
while an insert has not committed. `SessionsTypes`.

Only model-checked: liveness (`AcceptedPayoutsConclude`, `CallsEnd`), which the
prover does not do. Every other property of the passing runs is stated by a
theorem.

## 6. What is not modelled

- Merchant payments: the route fails before it changes anything, and nothing
  calls `post_merchant_pay`.
- FX: a static table, and functions that are not in the repository.
- Token caches, quotation payloads and header formats of the provider adapters;
  what each can answer, and what the provider then holds, is modelled.
- Ownership checks and audit rows of the ledger (a call is refused before it
  posts, or followed by one row); access tokens (signed, without state).
- Roles, metrics, listings, exports, health, debug and mock routes, redaction,
  settings, migrations, scripts and the mobile mock-ups: no state of their own,
  or one row in one transaction.
- A refund of failed payouts: there is no code for it.
- The text of references: where the sandbox looks for "confirm" or "fail" in it,
  any verdict may come out. The adapters themselves behave alike in both modes,
  with other addresses and keys.
- The older sliding window of the limiter, which no route uses.

What could follow: deliveries statement by statement beside the requests, and a
run of `Webhooks` with two payouts that share a reference.
