-------------------------------- MODULE Ledger --------------------------------
(***************************************************************************)
(* The ledger functions of the database: post_cash_in_momo,                *)
(* post_cash_out_momo and post_p2p_transfer, run by concurrent             *)
(* transactions under READ COMMITTED.                                      *)
(*                                                                         *)
(* A posting looks for its idempotency key, checks the balance and the     *)
(* daily limit (reads of what is committed, without a lock) and then       *)
(* inserts and updates along its Plan.  A unique index value or a balance  *)
(* row that another transaction has touched makes it wait until that one   *)
(* ends; a value that is taken by a committed row is a unique violation,   *)
(* whose handler undoes the posting and answers with the transaction of    *)
(* the key, or NULL.  A posted transaction is named by the call that       *)
(* posted it.                                                              *)
(***************************************************************************)
EXTENDS Integers, Sequences, FiniteSets, FiniteSetsExt

CONSTANTS
  Calls,     \* requests that reach the ledger, each at most once
  Call,      \* what each asks for: op, user, key, body
  Wallets,   \* user wallets
  None,      \* SQL NULL
  Opening,   \* the balance each wallet starts with (postings of earlier days)
  Existing,  \* system accounts that exist at the start
  Fee,       \* the fee of each operation
  Limit      \* limit on the debits of one wallet by each operation

Ops == {"CASHIN", "CASHOUT", "P2P"}
FeeAccounts == {"FEES_CASHOUT", "FEES_P2P"}   \* the routes name different owners
SystemAccounts == FeeAccounts \cup {"SETTLEMENT"}
Accounts == Wallets \cup FeeAccounts          \* those with a cached balance

ASSUME LedgerAssumption ==
  /\ None \notin Calls
  /\ Wallets \cap SystemAccounts = {}
  /\ Existing \subseteq SystemAccounts
  /\ Opening \in [Wallets -> Int]
  /\ Fee \in [Ops -> Nat] /\ Limit \in [Ops -> Nat]
  /\ \A c \in Calls : /\ Call[c].op \in Ops
                      /\ Call[c].body.amount \in Nat \ {0}
                      /\ Call[c].body.wallet \in Wallets /\ Call[c].body.to \in Wallets

Op(c) == Call[c].op
Key(c) == Call[c].key
Amount(c) == Call[c].body.amount
Wallet(c) == Call[c].body.wallet
To(c) == Call[c].body.to                      \* the receiver of a transfer
FeeOf(c) == Fee[Op(c)]
FeeAccount(c) == IF Op(c) = "P2P" THEN "FEES_P2P" ELSE "FEES_CASHOUT"

\* The reference of a cash-in: the client's, or a fresh one.
Ref(c) == IF Call[c].body.ref = None THEN <<"fresh", c>> ELSE <<"client", Call[c].body.ref>>

VARIABLES
  stage,     \* how far each call's transaction is
  step,      \* the next entry of its Plan
  held,      \* unique values and balance rows its transaction has touched
  draft,     \* the balances it has written and not committed
  result,    \* the transaction the function answers with
  txns,      \* the committed transactions
  balance,   \* wallet_balances.available_cents, committed
  accounts   \* system accounts, committed

ledgerVars == <<stage, step, held, draft, result, txns, balance, accounts>>

NoDraft == [a \in Accounts |-> 0]
Opened == [a \in Accounts |-> IF a \in Wallets THEN Opening[a] ELSE 0]

Init ==
  /\ stage = [c \in Calls |-> "idle"]
  /\ step = [c \in Calls |-> 1]
  /\ held = [c \in Calls |-> {}]
  /\ draft = [c \in Calls |-> NoDraft]
  /\ result = [c \in Calls |-> None]
  /\ txns = {}
  /\ balance = Opened
  /\ accounts = Existing

-----------------------------------------------------------------------------
(* What a posting inserts and updates, in order.  get_system_account first  *)
(* seeks the account and inserts it when it finds none; the insert into     *)
(* ledger_transactions meets the unique index on idempotency_key and, for a *)
(* cash-in, the one on external_ref; apply_balance_delta touches a row.     *)
Seek(a) == [what |-> "seek", name |-> a, delta |-> 0]
New(a) == [what |-> "account", name |-> a, delta |-> 0]
InsertKey(c) == [what |-> "key", name |-> Key(c), delta |-> 0]
InsertRef(c) == [what |-> "ref", name |-> Ref(c), delta |-> 0]
Delta(a, d) == [what |-> "row", name |-> a, delta |-> d]

FeeForgotten(c) == Delta(Wallet(c), -Amount(c))
Debit(c) == Delta(Wallet(c), -(Amount(c) + FeeOf(c)))
TakeFee(c) == Delta(FeeAccount(c), FeeOf(c))

CashInPlan(c) ==
  <<Seek("SETTLEMENT"), New("SETTLEMENT"), InsertKey(c), InsertRef(c), Delta(Wallet(c), Amount(c))>>
CashOutPlan(c) ==
  IF FeeOf(c) = 0
  THEN <<Seek("SETTLEMENT"), New("SETTLEMENT"), InsertKey(c), Debit(c)>>
  ELSE <<Seek("SETTLEMENT"), New("SETTLEMENT"), InsertKey(c),
         Seek(FeeAccount(c)), New(FeeAccount(c)), TakeFee(c), Debit(c)>>
P2PPlan(c) ==
  IF FeeOf(c) = 0
  THEN <<InsertKey(c), Debit(c), Delta(To(c), Amount(c))>>
  ELSE <<InsertKey(c), Seek(FeeAccount(c)), New(FeeAccount(c)), TakeFee(c),
         Debit(c), Delta(To(c), Amount(c))>>

Plan(c) == CASE Op(c) = "CASHIN" -> CashInPlan(c)
             [] Op(c) = "CASHOUT" -> CashOutPlan(c)
             [] Op(c) = "P2P" -> P2PPlan(c)

\* The entry a posting is at, and what it touches.
Entry(c) == Plan(c)[step[c]]
At(c, whats) == stage[c] = "post" /\ step[c] \in DOMAIN Plan(c) /\ Entry(c).what \in whats
Resource(e) == <<e.what, e.name>>

RowsUnlocked(c) ==
  Entry(c).what = "row" \/ \A d \in Calls \ {c} : Resource(Entry(c)) \notin held[d]
FreeFor(c) == \A d \in Calls \ {c} : Resource(Entry(c)) \notin held[d]

NoKeyIndex(e) ==
  CASE e.what = "account" -> e.name \in accounts
    [] e.what = "key" -> FALSE
    [] e.what = "ref" -> \E t \in txns : Op(t) = "CASHIN" /\ Ref(t) = e.name

\* The value is in the index already, by a committed row.
Taken(e) ==
  CASE e.what = "account" -> e.name \in accounts
    [] e.what = "key" -> \E t \in txns : Key(t) = e.name
    [] e.what = "ref" -> \E t \in txns : Op(t) = "CASHIN" /\ Ref(t) = e.name

\* SELECT id ... WHERE idempotency_key: of all users and operations.
OfKey(k) == {t \in txns : Key(t) = k}
NoneOrAny(S) == IF S = {} THEN None ELSE CHOOSE t \in S : TRUE
OfRef(c) == NoneOrAny({t \in txns : Op(t) = "CASHIN" /\ Ref(t) = Ref(c)})
ItsKey(c) == Key(c)
Answer(c) == NoneOrAny(OfKey(Key(c)))

-----------------------------------------------------------------------------
Begin(c) ==
  /\ stage[c] = "idle"
  /\ stage' = [stage EXCEPT ![c] = "find"]
  /\ UNCHANGED <<step, held, draft, result, txns, balance, accounts>>

KnownKey(c) == OfKey(Key(c)) # {}

\* The key of a committed transaction is answered with that transaction.
Find(c) ==
  /\ stage[c] = "find"
  /\ \/ /\ KnownKey(c)
        /\ result' = [result EXCEPT ![c] = Answer(c)]
        /\ stage' = [stage EXCEPT ![c] = "done"]
     \/ /\ ~KnownKey(c)
        /\ stage' = [stage EXCEPT ![c] = IF Op(c) = "CASHIN" THEN "post" ELSE "funds"]
        /\ UNCHANGED result
  /\ UNCHANGED <<step, held, draft, txns, balance, accounts>>

\* RAISE EXCEPTION, which nothing in the function catches.
Check(c, ok, next) ==
  /\ stage' = [stage EXCEPT ![c] = IF ok THEN next ELSE "failed"]
  /\ UNCHANGED <<step, held, draft, result, txns, balance, accounts>>

NoFeeFunds(c) ==
  /\ stage[c] = "funds"
  /\ Check(c, balance[Wallet(c)] >= Amount(c), "limits")
Funds(c) ==
  /\ stage[c] = "funds"
  /\ Check(c, balance[Wallet(c)] >= Amount(c) + FeeOf(c), "limits")

\* sum_debits_for_period: the entries debited today, fees included.
Debited == [t \in Calls |-> Amount(t) + FeeOf(t)]
Used(c) ==
  SumFunctionOnSet(Debited, {t \in txns : Op(t) = Op(c) /\ Wallet(t) = Wallet(c)})

Limits(c) ==
  /\ stage[c] = "limits"
  /\ Check(c, Used(c) + Amount(c) <= Limit[Op(c)], "post")

SeekAccount(c) ==
  /\ At(c, {"seek"})
  /\ step' = [step EXCEPT ![c] = @ + (IF Entry(c).name \in accounts THEN 2 ELSE 1)]
  /\ UNCHANGED <<stage, held, draft, result, txns, balance, accounts>>

Insert(c) ==
  /\ At(c, {"account", "key", "ref"})
  /\ FreeFor(c) /\ ~Taken(Entry(c))
  /\ held' = [held EXCEPT ![c] = @ \cup {Resource(Entry(c))}]
  /\ step' = [step EXCEPT ![c] = @ + 1]
  /\ UNCHANGED <<stage, draft, result, txns, balance, accounts>>

\* apply_balance_delta adds to the balance that is there when the row is free.
UpdateRow(c) ==
  /\ At(c, {"row"})
  /\ FreeFor(c)
  /\ LET e == Entry(c)
         seen == IF Resource(e) \in held[c] THEN draft[c][e.name] ELSE balance[e.name]
     IN draft' = [draft EXCEPT ![c][e.name] = seen + e.delta]
  /\ held' = [held EXCEPT ![c] = @ \cup {Resource(Entry(c))}]
  /\ step' = [step EXCEPT ![c] = @ + 1]
  /\ UNCHANGED <<stage, result, txns, balance, accounts>>

\* The transaction ends, or the function's block is undone: its locks, its
\* writes and its place in the plan are gone.
Release(c) ==
  /\ step' = [step EXCEPT ![c] = 1]
  /\ held' = [held EXCEPT ![c] = {}]
  /\ draft' = [draft EXCEPT ![c] = NoDraft]

\* EXCEPTION WHEN unique_violation: everything the function did is undone.
UniqueViolation(c) ==
  /\ At(c, {"account", "key", "ref"})
  /\ Taken(Entry(c))
  /\ Release(c)
  /\ result' = [result EXCEPT ![c] = Answer(c)]
  /\ stage' = [stage EXCEPT ![c] = "done"]
  /\ UNCHANGED <<txns, balance, accounts>>

Return(c) ==
  /\ stage[c] = "post" /\ step[c] \notin DOMAIN Plan(c)
  /\ result' = [result EXCEPT ![c] = c]
  /\ stage' = [stage EXCEPT ![c] = "done"]
  /\ UNCHANGED <<step, held, draft, txns, balance, accounts>>

Commit(c) ==
  /\ stage[c] = "done"
  /\ txns' = IF result[c] = c THEN txns \cup {c} ELSE txns
  /\ balance' = [a \in Accounts |-> IF <<"row", a>> \in held[c] THEN draft[c][a] ELSE balance[a]]
  /\ accounts' = accounts \cup {a \in SystemAccounts : <<"account", a>> \in held[c]}
  /\ Release(c)
  /\ stage' = [stage EXCEPT ![c] = "committed"]
  /\ UNCHANGED result

\* The process dies, the caller raises, a wait is cut off by statement_timeout
\* or by the database's deadlock check, an idle transaction is ended.
Rollback(c) ==
  /\ stage[c] \notin {"idle", "committed", "failed"}
  /\ Release(c)
  /\ result' = [result EXCEPT ![c] = None]
  /\ stage' = [stage EXCEPT ![c] = "failed"]
  /\ UNCHANGED <<txns, balance, accounts>>

\* A statement of the function.
Work(c) ==
  \/ Find(c)
  \/ Funds(c)
  \/ Limits(c)
  \/ SeekAccount(c)
  \/ Insert(c)
  \/ UpdateRow(c)
  \/ UniqueViolation(c)
  \/ Return(c)

Next == \E c \in Calls : Begin(c) \/ Work(c) \/ Commit(c) \/ Rollback(c)

Spec == Init /\ [][Next]_ledgerVars

-----------------------------------------------------------------------------
(* Properties.                                                              *)

Stages == {"idle", "find", "funds", "limits", "post", "done", "committed", "failed"}
Resources == UNION {{Resource(Plan(c)[i]) : i \in DOMAIN Plan(c)} : c \in Calls}

\* Every variable has its type.
LedgerTypeOK ==
  /\ stage \in [Calls -> Stages]
  /\ step \in [Calls -> Nat \ {0}]
  /\ held \in [Calls -> SUBSET Resources]
  /\ draft \in [Calls -> [Accounts -> Int]]
  /\ result \in [Calls -> Calls \cup {None}]
  /\ txns \subseteq Calls
  /\ balance \in [Accounts -> Int]
  /\ accounts \subseteq SystemAccounts

\* However many requests with one idempotency key run at once, are retried or
\* cut off, at most one transaction is posted for the key
\* (tests/test_idempotency.py, test_concurrent_cash_out_same_key_single_txn).
OneTransactionPerKey == \A s, t \in txns : Key(s) = Key(t) => s = t

\* The INSERTs into ledger_entries that touch a cached account: what each
\* transaction adds to it.
EntriesOf(t, a) ==
  LET credit == IF Op(t) = "P2P" THEN To(t) ELSE Wallet(t) IN
  (IF Op(t) # "CASHOUT" /\ a = credit THEN Amount(t) ELSE 0)
  - (IF Op(t) # "CASHIN" /\ a = Wallet(t) THEN Amount(t) + FeeOf(t) ELSE 0)
  + (IF Op(t) # "CASHIN" /\ a = FeeAccount(t) THEN FeeOf(t) ELSE 0)

EntriesTo(a) == [t \in Calls |-> EntriesOf(t, a)]

\* The cached balance of every account is the sum of its ledger entries: no
\* update is lost between concurrent postings, none is applied twice or kept
\* after a violation (services/ledger_invariants.py).
BalancesMatchEntries ==
  \A a \in Accounts : balance[a] = Opened[a] + SumFunctionOnSet(EntriesTo(a), txns)

\* What a transaction brings to the wallets and the fee accounts together: fees
\* and transfers only move it between them.
Brought ==
  [t \in Calls |-> CASE Op(t) = "CASHIN" -> Amount(t)
                     [] Op(t) = "CASHOUT" -> -Amount(t)
                     [] Op(t) = "P2P" -> 0]

\* No money is made or lost: whatever transfers, fees, undone postings and
\* retries go on at once, all cached balances together are what cash-ins have
\* brought and cash-outs have left (the invariant of a ledger whose entries
\* are posted in pairs).
MoneyIsConserved ==
  SumFunctionOnSet(balance, Accounts)
    = SumFunctionOnSet(Opened, Accounts) + SumFunctionOnSet(Brought, txns)

\* The concurrent functions post what one statement would: whatever runs beside
\* it, waits for it, meets its key or is undone, a posting appears whole, once,
\* under a key nobody used before.
Books == INSTANCE LedgerPosting WITH
           KeyOf <- [t \in Calls |-> Key(t)],
           Entries <- [t \in Calls |-> [a \in Accounts |-> EntriesOf(t, a)]]
PostsAtomically == Books!Spec
=============================================================================
