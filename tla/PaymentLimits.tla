---------------------------- MODULE PaymentLimits ----------------------------
(***************************************************************************)
(* The limits of Payments with a history: balance, daily limit and         *)
(* velocity are read in statements of their own and nothing holds what     *)
(* they read, so requests of one user that overlap may pass them together. *)
(* crowded remembers who overlapped, as long as it matters.                *)
(***************************************************************************)
EXTENDS Payments

\* A wallet is used by its owner (the ownership checks of the functions).
ASSUME OwnWallets == \A c, d \in Calls : Wallet(c) = Wallet(d) => User(c) = User(d)

VARIABLE crowded   \* requests, under way or posted, that another of their user overlapped

\* Debits compete with debits, cash-ins with cash-ins.
Rivals(c) ==
  {d \in Calls \ {c} : User(d) = User(c) /\ (Op(c) = "CASHIN" <=> Op(d) = "CASHIN")}

CrowdedInit == PayInit /\ crowded = {}
Matters(c) == Busy(c) \/ c \in txns
Overlaps(c) == Busy(c) /\ \E d \in Rivals(c) : Busy(d)
CrowdedNext ==
  /\ PayNext
  /\ crowded' = {c \in Calls : Matters(c)' /\ (c \in crowded \/ Overlaps(c)')}

CrowdedSpec == CrowdedInit /\ [][CrowdedNext]_<<vars, crowded>>

-----------------------------------------------------------------------------
Drawn(w, ops) == {t \in txns : Wallet(t) = w /\ Op(t) \in ops}
Posted(u, o) == {t \in txns : User(t) = u /\ Op(t) = o}
InTurn(ts) == ts \cap crowded = {}
Receivers(u) == {Body(t).phone : t \in Posted(u, "CASHOUT")} \ {None}

\* A wallet whose debits came one after another.
WalletInBounds(w) ==
  LET debits == Drawn(w, {"CASHOUT", "P2P"}) IN
  debits # {} /\ InTurn(debits) =>
    /\ balance[w] >= 0
    /\ \A o \in {"CASHOUT", "P2P"} : SumFunctionOnSet(Debited, Drawn(w, {o})) <= Limit[o] + Fee[o]

\* A user whose operations of one kind came one after another.
UserInBounds(u) ==
  /\ \A o \in {"CASHIN", "CASHOUT"} :
       InTurn(Posted(u, o)) /\ MaxAmount[o] > 0 =>
         SumFunctionOnSet(Amounts, Posted(u, o)) <= MaxAmount[o]
  /\ InTurn(Posted(u, "CASHOUT")) /\ MaxCount > 0 => Cardinality(Posted(u, "CASHOUT")) <= MaxCount
  /\ InTurn(Posted(u, "CASHOUT")) /\ MaxPhones > 0 => Cardinality(Receivers(u)) <= MaxPhones

\* Requests that come one after another, cut off and retried as they may be, do
\* not debit more than the balance and the limit of the day (the check counts
\* the fees of earlier debits and not the debit's own) and stay within the
\* velocity limits (db/schema_v1.sql:802-835, services/velocity.py).
LimitsHoldInTurn ==
  /\ \A w \in Wallets : WalletInBounds(w)
  /\ \A u \in {User(c) : c \in Calls} : UserInBounds(u)
=============================================================================
