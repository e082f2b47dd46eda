------------------------------ MODULE MCCashOuts ------------------------------
(* Instances of CashOuts and its audits for TLC.                             *)
EXTENDS Audits, Routing

CONSTANTS
  alice,               \* the user, and her wallet
  out, again,          \* a cash-out and its retry, under one key
  other,               \* another cash-out
  topUp                \* a cash-in

Ask(op, key) ==
  [op |-> op, user |-> alice, key |-> key,
   body |-> [wallet |-> alice, to |-> alice, amount |-> 1, ref |-> key, phone |-> alice]]

Contents ==
  [c \in Calls |-> CASE c \in {out, again} -> Ask("CASHOUT", 1)
                     [] c = other -> Ask("CASHOUT", 2)
                     [] c = topUp -> Ask("CASHIN", 3)]

\* The adapters the requests are routed to: Thunes in Ghana by the older
\* country, and the first choice of Benin.
Setting == {"TMONEY", "FLOOZ", "THUNES"}
RoutedOf(c) == IF c = other THEN "TMONEY" ELSE "THUNES"
Requested(c) == IF c = other THEN Form(TRUE, "BJ", "") ELSE Form(FALSE, "GH", "THUNES")
Routed == [c \in Posts |-> RoutedOf(c)]

\* Each request brings a reference of its own.
OwnRefs == [c \in Posts |-> c]

Purse == [w \in Wallets |-> 3]
NoFee == [o \in Ops |-> 0]
Plenty == [o \in Ops |-> 10]
Nothing == {}
Known == {"SETTLEMENT"}
Recognise == {"THUNES"}

\* The audits share no state and keep none: explore one audit a behaviour, up
\* to its result; in sandbox mode, where no provider is asked, without faults.
OneAudit ==
  /\ audit.at = "rest" \/ check.at = "rest"
  /\ audit.mode = "sandbox" => faults = 0
  /\ audit.at # "report" /\ check.at # "done"

\* Payouts of different providers meet in the runs of Payouts, and payments of
\* different keys in those of Payments: explore them one at a time.
OnePayment == \A c \in {other, topUp} : c \in Sent => Sent = {c}

\* A worker that has ended only claims nothing, which an idle one need not do
\* either: explore those that lose a batch, and are started again at once.
EndsThatLose ==
  IF stopped # {} THEN stopped' = {} ELSE stopped' = {} \/ lock' # lock

\* A client that chooses its route, the operator's settings, and the system.
\* Routes are settled before a request reaches the ledger and are not looked at
\* after it, so they change before the first request only ...
SystemInit == AuditInit /\ RouteInit
CashOutsSpec ==
  /\ SystemInit
  /\ [][ \/ AuditNext /\ UNCHANGED <<enabled, quote>>
         \/ RouteNext /\ Sent = {} /\ UNCHANGED <<allVars, auditVars>>
       ]_<<allVars, auditVars, enabled, quote>>

\* ... and the system is explored under one of them.
RouteFirst == Sent = {} \/ (enabled = Setting /\ quote = NoQuote)
=============================================================================
