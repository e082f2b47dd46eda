---------------------------- MODULE LedgerPosting ----------------------------
(***************************************************************************)
(* What the ledger promises: a posting is one step.  It takes a key no     *)
(* posting has, and moves every balance by its entries; nothing else moves *)
(* a balance.  Ledger, with its locks, waits, violations and roll-backs,   *)
(* implements this.                                                        *)
(***************************************************************************)
EXTENDS Integers

CONSTANTS
  Calls,      \* the requests
  Accounts,   \* the accounts with a balance
  Opened,     \* the balance each of them starts with
  KeyOf,      \* the idempotency key of each request
  Entries     \* what each request adds to each account

VARIABLES
  txns,       \* the requests that are posted
  balance     \* the balance of each account

Init == txns = {} /\ balance = Opened

Post(c) ==
  /\ \A t \in txns : KeyOf[t] # KeyOf[c]
  /\ txns' = txns \cup {c}
  /\ balance' = [a \in Accounts |-> balance[a] + Entries[c][a]]

Next == \E c \in Calls : Post(c)

Spec == Init /\ [][Next]_<<txns, balance>>
=============================================================================
