----------------------------- MODULE LimitsProofs -----------------------------
(***************************************************************************)
(* Requests of a user that do not overlap stay within the balance and the  *)
(* limits, for any calls.                                                  *)
(*                                                                         *)
(* The argument: what a request has checked stays true until it commits    *)
(* (ChecksHold), for only a rival's commit could break it; a rival that    *)
(* commits is busy, so both are crowded from then on (OverlapsNoticed) and *)
(* the property says nothing of them.                                      *)
(***************************************************************************)
EXTENDS PaymentLimits, PaymentsProofs

\* The call may still post.
UnderWay(c) ==
  \/ stage[c] \in {"find", "funds", "limits", "post"}
  \/ stage[c] = "done" /\ result[c] = c

WorkIsBusy == \A c \in Calls : stage[c] \notin {"idle", "committed", "failed"} => Busy(c)

OverlapsNoticed == \A c \in Calls : Overlaps(c) => c \in crowded

HasFunds(c) == Op(c) # "CASHIN" => balance[Wallet(c)] >= Amount(c) + FeeOf(c)
UnderLimit(c) == Op(c) # "CASHIN" => Used(c) + Amount(c) <= Limit[Op(c)]

\* What a call has checked is still so when it commits.
ChecksHold ==
  \A c \in Calls \ crowded : UnderWay(c) =>
    /\ ~TooFast(c)
    /\ stage[c] \in {"limits", "post", "done"} => HasFunds(c)
    /\ stage[c] \in {"post", "done"} => UnderLimit(c)

TInv ==
  /\ WorkIsBusy
  /\ OverlapsNoticed
  /\ ChecksHold
  /\ LimitsHoldInTurn
-----------------------------------------------------------------------------
\* A step of the system with its history is a step of the endpoints.
THEOREM LimitsUsePayments == CrowdedSpec => PaySpec
<1>1. CrowdedInit => PayInit
  BY DEF CrowdedInit
<1>2. [CrowdedNext]_<<vars, crowded>> => [PayNext]_vars
  BY DEF CrowdedNext
<1> QED
  BY <1>1, <1>2, PTL DEF CrowdedSpec, PaySpec

\* What is known of a state from the invariants of the ledger and the endpoints.
Known == LedgerAssumption /\ PaymentsAssumption /\ IInv /\ BInv /\ PInv

-----------------------------------------------------------------------------
(* Steps.                                                                   *)

\* A step belongs to one call and leaves the others as they are.
LEMMA StepOfOne ==
  ASSUME Known, NEW c \in Calls, Replay(c) \/ Miss(c) \/ Running(c) \/ Fail(c),
         NEW d \in Calls \ {c}
  PROVE  /\ stage'[d] = stage[d] /\ result'[d] = result[d] /\ reply'[d] = reply[d]
         /\ d \in missed' <=> d \in missed
<1> USE DEF Known, IInv, LedgerTypeOK, PInv, PaymentsTypeOK
<1>1. stage'[d] = stage[d] /\ result'[d] = result[d]
  <2>1. CASE UNCHANGED ledgerVars
    BY <2>1 DEF ledgerVars
  <2>2. CASE Begin(c) \/ Work(c) \/ Commit(c) \/ Rollback(c)
    BY <2>2 DEF Begin, Work, Commit, Rollback, Find, Funds, Limits, Check, SeekAccount, Insert,
                UpdateRow, UniqueViolation, Return
  <2> QED
    BY <2>1, <2>2 DEF Replay, Miss, Running, Fail, Velocity, Post, FinishAtOnce, FinishCashOut,
                      StoreCashOut
<1>2. reply'[d] = reply[d] /\ (d \in missed' <=> d \in missed)
  BY DEF Replay, Miss, Running, Fail, Velocity, Post, FinishAtOnce, FinishCashOut, StoreCashOut, Told
<1> QED
  BY <1>1, <1>2

\* Money moves only when a call commits its own posting.
LEMMA StepPosts ==
  ASSUME Known, NEW c \in Calls, Replay(c) \/ Miss(c) \/ Running(c) \/ Fail(c)
  PROVE  \/ UNCHANGED <<txns, balance>>
         \/ Commit(c) /\ result[c] = c /\ stage[c] = "done"
<1>1. CASE UNCHANGED ledgerVars
  BY <1>1 DEF ledgerVars
<1>2. CASE Begin(c) \/ Work(c) \/ Rollback(c)
  BY <1>2 DEF Begin, Work, Rollback, Find, Funds, Limits, Check, SeekAccount, Insert, UpdateRow,
              UniqueViolation, Return
<1>3. CASE Commit(c)
  BY <1>3, CommitPosts DEF Known, Commit
<1> QED
  BY <1>1, <1>2, <1>3 DEF Replay, Miss, Running, Fail, Velocity, Post, FinishAtOnce, FinishCashOut,
                          StoreCashOut

\* What a posting adds: its account is debited at most by the amount and the
\* fee, no other wallet loses anything.
LEMMA PostingAdds ==
  ASSUME Known, NEW c \in Calls, Commit(c), result[c] = c
  PROVE  /\ txns' = txns \cup {c} /\ c \notin txns
         /\ \A w \in Wallets :
              /\ balance[w] \in Int /\ balance'[w] \in Int
              /\ balance'[w] >= balance[w] - (Amount(c) + FeeOf(c))
              /\ w # Wallet(c) \/ Op(c) = "CASHIN" => balance'[w] >= balance[w]
<1>1. txns' = txns \cup {c} /\ c \notin txns
  BY CommitPosts DEF Known, Books!Post
<1>2. ASSUME NEW w \in Wallets
      PROVE  /\ balance[w] \in Int /\ balance'[w] \in Int
             /\ balance'[w] >= balance[w] - (Amount(c) + FeeOf(c))
             /\ w # Wallet(c) \/ Op(c) = "CASHIN" => balance'[w] >= balance[w]
  <2>1. w \in Accounts /\ w # FeeAccount(c)
    BY DEF Known, LedgerAssumption, Accounts, FeeAccount, FeeAccounts, SystemAccounts
  <2>2. balance'[w] = balance[w] + EntriesOf(c, w)
    BY <2>1, CommitPosts DEF Known, Books!Post
  <2>3. balance[w] \in Int
    BY <2>1 DEF Known, IInv, LedgerTypeOK
  <2>4. Amount(c) \in Nat /\ FeeOf(c) \in Nat
    BY DEF Known, LedgerAssumption, Amount, FeeOf, Op
  <2>5. /\ EntriesOf(c, w) \in Int /\ EntriesOf(c, w) >= -(Amount(c) + FeeOf(c))
        /\ w # Wallet(c) \/ Op(c) = "CASHIN" => EntriesOf(c, w) >= 0
    BY <2>1, <2>4 DEF EntriesOf
  <2> HIDE DEF EntriesOf
  <2> QED
    BY <2>2, <2>3, <2>4, <2>5
<1> QED
  BY <1>1, <1>2

\* What a call under way has done in a step of its own.
LEMMA StepChecks ==
  ASSUME Known, NEW c \in Calls, Replay(c) \/ Miss(c) \/ Running(c) \/ Fail(c), UnderWay(c)'
  PROVE  /\ UNCHANGED <<txns, balance>>
         /\ UnderWay(c) \/ (stage'[c] = "find" /\ ~TooFast(c))
         /\ stage'[c] \in {"limits", "post", "done"} =>
              stage[c] \in {"limits", "post", "done"} \/ HasFunds(c)
         /\ stage'[c] \in {"post", "done"} => stage[c] \in {"post", "done"} \/ UnderLimit(c)
<1> USE DEF Known, IInv, LedgerTypeOK, UnderWay
<1>1. CASE UNCHANGED ledgerVars
  BY <1>1 DEF ledgerVars
<1>2. CASE Velocity(c) /\ ~TooFast(c) /\ Begin(c)
  BY <1>2 DEF Begin
<1>3. CASE Find(c)
  <2>1. CASE KnownKey(c)
    <3>1. stage'[c] = "done" /\ result'[c] = Answer(c)
      BY <1>3, <2>1 DEF Find
    <3>2. c \notin txns
      BY <1>3 DEF Find, AnswersFit
    <3> QED
      BY <3>1, <3>2, AnswerOfKey DEF LedgerAssumption
  <2>2. CASE ~KnownKey(c)
    BY <1>3, <2>2 DEF Find, HasFunds, UnderLimit
  <2> QED
    BY <2>1, <2>2
<1>4. CASE Funds(c)
  BY <1>4 DEF Funds, Check, HasFunds
<1>5. CASE Limits(c)
  BY <1>5 DEF Limits, Check, UnderLimit
<1>6. CASE SeekAccount(c) \/ Insert(c) \/ UpdateRow(c) \/ Return(c)
  BY <1>6 DEF SeekAccount, Insert, UpdateRow, Return, At
<1>7. CASE UniqueViolation(c)
  <2>1. stage'[c] = "done" /\ result'[c] = Answer(c)
    BY <1>7 DEF UniqueViolation
  <2>2. c \notin txns
    BY <1>7 DEF UniqueViolation, At, AnswersFit
  <2> QED
    BY <2>1, <2>2, AnswerOfKey DEF LedgerAssumption
<1>8. CASE Commit(c) \/ Rollback(c)
  BY <1>8 DEF Commit, Rollback
<1> QED
  BY <1>1, <1>2, <1>3, <1>4, <1>5, <1>6, <1>7, <1>8
     DEF Replay, Miss, Running, Fail, Velocity, Post, Work, FinishAtOnce, FinishCashOut, StoreCashOut
-----------------------------------------------------------------------------
(* What the checks read.                                                    *)

\* The receivers of a user are finitely many.
LEMMA ReceiversFinite ==
  ASSUME Known, NEW u
  PROVE  IsFiniteSet(Receivers(u)) /\ IsFiniteSet(Posted(u, "CASHOUT"))
<1> DEFINE P == Posted(u, "CASHOUT")
           T == {Body(t).phone : t \in P}
           f == [t \in P |-> Body(t).phone]
<1>1. IsFiniteSet(P)
  BY FS_Subset DEF Known, BInv, Posted
<1>2. f \in Surjection(P, T)
  BY DEF Surjection
<1>3. IsFiniteSet(T)
  BY <1>1, <1>2, FS_Surjection
<1> QED
  BY <1>1, <1>3, FS_Subset DEF Receivers

\* The velocity check of a cash-out finds the receivers of its user.
LEMMA PhonesOfPosted ==
  ASSUME Known, NEW c \in Calls, Op(c) = "CASHOUT"
  PROVE  Phones(c) = Receivers(User(c))
<1>1. Earlier(c) = Posted(User(c), "CASHOUT") /\ Earlier(c) \subseteq Calls
  BY DEF Earlier, Posted, Known, IInv, LedgerTypeOK
<1>2. \A t \in Earlier(c) : payout[t] = t /\ payout[t] # None
  BY <1>1 DEF Known, LedgerAssumption, PInv, CashOutsHavePayouts, Posted
<1> QED
  BY <1>1, <1>2 DEF Phones, Receivers

\* The velocity check depends on what its user has posted only.
LEMMA VelocityReads ==
  ASSUME Known, Known', NEW c \in Calls, Earlier(c)' = Earlier(c)
  PROVE  TooFast(c)' <=> TooFast(c)
<1>1. CASE Op(c) = "CASHOUT"
  <2>1. /\ \A t \in Earlier(c) : payout[t] = t /\ payout[t] # None
        /\ \A t \in Earlier(c)' : payout'[t] = t /\ payout'[t] # None
    BY <1>1 DEF Known, LedgerAssumption, IInv, LedgerTypeOK, PInv, CashOutsHavePayouts, Earlier, Op
  <2>2. Phones(c)' = Phones(c)
    BY <2>1 DEF Phones, Body
  <2> QED
    BY <1>1, <2>2 DEF TooFast, Op, Amounts, Amount, Body
<1>2. CASE Op(c) # "CASHOUT"
  BY <1>2 DEF TooFast, Op, Amounts, Amount, Body
<1> QED
  BY <1>1, <1>2

\* What a call has checked stays so when no rival of it posts.
LEMMA ChecksStay ==
  ASSUME Known, Known', NEW c \in Calls,
         \/ UNCHANGED <<txns, balance>>
         \/ \E d \in Calls \ {c} : d \notin Rivals(c) /\ Commit(d) /\ result[d] = d
  PROVE  /\ TooFast(c)' <=> TooFast(c)
         /\ HasFunds(c) => HasFunds(c)'
         /\ UnderLimit(c) => UnderLimit(c)'
<1>1. CASE UNCHANGED <<txns, balance>>
  BY <1>1, VelocityReads DEF Earlier, User, Op, HasFunds, UnderLimit, Used, Wallet, Amount, FeeOf, Debited
<1>2. ASSUME NEW d \in Calls \ {c}, d \notin Rivals(c), Commit(d), result[d] = d
      PROVE  /\ TooFast(c)' <=> TooFast(c)
             /\ HasFunds(c) => HasFunds(c)'
             /\ UnderLimit(c) => UnderLimit(c)'
  <2>1. txns' = txns \cup {d} /\ (User(d) # User(c) \/ ~(Op(c) = "CASHIN" <=> Op(d) = "CASHIN"))
    BY <1>2, PostingAdds DEF Rivals
  <2>2. Earlier(c)' = Earlier(c)
    BY <2>1 DEF Earlier, User, Op
  <2>3. {t \in txns' : Op(t) = Op(c) /\ Wallet(t) = Wallet(c)}
          = {t \in txns : Op(t) = Op(c) /\ Wallet(t) = Wallet(c)}
    BY <2>1, OwnWallets
  <2>4. UnderLimit(c) => UnderLimit(c)'
    BY <2>3 DEF UnderLimit, Used, Op, Wallet, Amount, Debited, FeeOf
  <2>5. HasFunds(c) => HasFunds(c)'
    <3> SUFFICES ASSUME Op(c) # "CASHIN", HasFunds(c)
                 PROVE  HasFunds(c)'
      BY DEF HasFunds, Op
    <3>1. Wallet(c) # Wallet(d) \/ Op(d) = "CASHIN"
      BY <2>1, OwnWallets
    <3>2. Wallet(c) \in Wallets /\ Amount(c) \in Int /\ FeeOf(c) \in Int
      BY DEF Known, LedgerAssumption, Wallet, Amount, FeeOf, Op
    <3>3. /\ balance'[Wallet(c)] >= balance[Wallet(c)]
          /\ balance[Wallet(c)] \in Int /\ balance'[Wallet(c)] \in Int
      BY <1>2, <3>1, <3>2, PostingAdds
    <3> QED
      BY <3>2, <3>3 DEF HasFunds, Wallet, Amount, FeeOf, Op
  <2> QED
    BY <2>2, <2>4, <2>5, VelocityReads
<1> QED
  BY <1>1, <1>2
-----------------------------------------------------------------------------
(* The limits.                                                              *)

\* What transactions debit or pay in adds up to an integer.
LEMMA SumsOfCalls ==
  ASSUME Known, NEW T \in SUBSET txns
  PROVE  /\ IsFiniteSet(T)
         /\ SumFunctionOnSet(Debited, T) \in Int /\ SumFunctionOnSet(Amounts, T) \in Int
         /\ \A c \in Calls : c \notin T =>
              /\ SumFunctionOnSet(Debited, T \cup {c}) = SumFunctionOnSet(Debited, T) + Debited[c]
              /\ SumFunctionOnSet(Amounts, T \cup {c}) = SumFunctionOnSet(Amounts, T) + Amounts[c]
<1>1. IsFiniteSet(T) /\ T \subseteq Calls
  BY FS_Subset DEF Known, BInv, IInv, LedgerTypeOK
<1>2. \A t \in Calls : Debited[t] \in Int /\ Amounts[t] \in Int
  BY DEF Known, LedgerAssumption, Debited, Amounts, Amount, FeeOf, Op
<1>3. SumFunctionOnSet(Debited, T) \in Int
  BY <1>1, <1>2, SumType
<1>4. SumFunctionOnSet(Amounts, T) \in Int
  BY <1>1, <1>2, SumType
<1>5. ASSUME NEW c \in Calls, c \notin T
      PROVE  SumFunctionOnSet(Debited, T \cup {c}) = Debited[c] + SumFunctionOnSet(Debited, T)
  BY <1>1, <1>2, <1>5, SumAdd
<1>6. ASSUME NEW c \in Calls, c \notin T
      PROVE  SumFunctionOnSet(Amounts, T \cup {c}) = Amounts[c] + SumFunctionOnSet(Amounts, T)
  BY <1>1, <1>2, <1>6, SumAdd
<1> QED
  BY <1>1, <1>2, <1>3, <1>4, <1>5, <1>6

\* As long as nothing is posted the limits hold, for the history only grows.
LEMMA LimitsStay ==
  ASSUME LimitsHoldInTurn, UNCHANGED <<txns, balance>>, txns \cap crowded \subseteq crowded'
  PROVE  LimitsHoldInTurn'
<1>1. ASSUME NEW w \in Wallets PROVE WalletInBounds(w)'
  <2>1. WalletInBounds(w)
    BY DEF LimitsHoldInTurn
  <2>2. \A ops : Drawn(w, ops)' = Drawn(w, ops)
    BY DEF Drawn, Wallet, Op
  <2>3. InTurn(Drawn(w, {"CASHOUT", "P2P"}))' => InTurn(Drawn(w, {"CASHOUT", "P2P"}))
    BY DEF InTurn, Drawn, Wallet, Op
  <2> QED
    BY <2>1, <2>2, <2>3 DEF WalletInBounds, Debited, Amount, FeeOf, Op
<1>2. ASSUME NEW u \in {User(c) : c \in Calls} PROVE UserInBounds(u)'
  <2>1. UserInBounds(u)
    BY DEF LimitsHoldInTurn
  <2>2. \A o : Posted(u, o)' = Posted(u, o) /\ (InTurn(Posted(u, o))' => InTurn(Posted(u, o)))
    BY DEF Posted, InTurn, User, Op
  <2>3. Receivers(u)' = Receivers(u)
    BY <2>2 DEF Receivers, Body
  <2> QED
    BY <2>1, <2>2, <2>3 DEF UserInBounds, Amounts, Amount
<1> QED
  BY <1>1, <1>2 DEF LimitsHoldInTurn, User

\* A wallet when a transaction of it, or of another, is posted.
LEMMA WalletAtCommit ==
  ASSUME Known, LimitsHoldInTurn, ChecksHold, NEW c \in Calls, NEW w \in Wallets,
         Commit(c), result[c] = c, stage[c] = "done", (txns \cup {c}) \cap crowded \subseteq crowded'
  PROVE  WalletInBounds(w)'
<1> DEFINE D == {"CASHOUT", "P2P"}
<1> SUFFICES ASSUME Drawn(w, D)' # {}, InTurn(Drawn(w, D))'
             PROVE  /\ balance'[w] >= 0
                    /\ \A o \in D : SumFunctionOnSet(Debited, Drawn(w, {o})') <= Limit[o] + Fee[o]
  BY DEF WalletInBounds, Debited, Amount, FeeOf, Op
<1>1. /\ txns' = txns \cup {c} /\ c \notin txns
      /\ balance[w] \in Int /\ balance'[w] \in Int
      /\ balance'[w] >= balance[w] - (Amount(c) + FeeOf(c))
      /\ w # Wallet(c) \/ Op(c) = "CASHIN" => balance'[w] >= balance[w]
  BY PostingAdds
<1>2. Op(c) \in Ops /\ Amount(c) \in Nat /\ FeeOf(c) \in Nat /\ FeeOf(c) = Fee[Op(c)]
  BY DEF Known, LedgerAssumption, Op, Amount, FeeOf
<1>3. \A o \in D : Limit[o] \in Nat /\ Fee[o] \in Nat
  BY DEF Known, LedgerAssumption, Ops
<1>4. WalletInBounds(w)
  BY DEF LimitsHoldInTurn
<1>5. InTurn(Drawn(w, D))
  BY <1>1 DEF InTurn, Drawn, Wallet, Op
<1>6. CASE w = Wallet(c) /\ Op(c) # "CASHIN"
  <2>1. c \notin crowded /\ UnderWay(c) /\ Op(c) \in D
    BY <1>1, <1>2, <1>6 DEF InTurn, Drawn, Wallet, Op, UnderWay, Ops
  <2>2. balance[w] >= Amount(c) + FeeOf(c) /\ Used(c) + Amount(c) <= Limit[Op(c)]
    BY <1>6, <2>1 DEF ChecksHold, HasFunds, UnderLimit
  <2>3. balance'[w] >= 0
    BY <1>1, <1>2, <2>2
  <2>4. ASSUME NEW o \in D
        PROVE  SumFunctionOnSet(Debited, Drawn(w, {o})') <= Limit[o] + Fee[o]
    <3>1. CASE o = Op(c)
      <4>1. Drawn(w, {o})' = Drawn(w, {o}) \cup {c} /\ Drawn(w, {o}) \in SUBSET txns /\ c \notin Drawn(w, {o})
        BY <1>1, <1>6, <3>1 DEF Drawn, Wallet, Op
      <4>2. Used(c) = SumFunctionOnSet(Debited, Drawn(w, {o}))
        <5>1. Drawn(w, {o}) = {t \in txns : Op(t) = Op(c) /\ Wallet(t) = Wallet(c)}
          BY <1>6, <3>1 DEF Drawn
        <5> QED
          BY <5>1 DEF Used
      <4>3. SumFunctionOnSet(Debited, Drawn(w, {o})') = Used(c) + Debited[c] /\ Used(c) \in Int
        BY <4>1, <4>2, SumsOfCalls
      <4>4. Debited[c] = Amount(c) + FeeOf(c)
        BY DEF Debited
      <4> QED
        BY <1>2, <1>3, <2>2, <3>1, <4>3, <4>4
    <3>2. CASE o # Op(c)
      <4>1. Drawn(w, {o})' = Drawn(w, {o})
        BY <1>1, <3>2 DEF Drawn, Wallet, Op
      <4>2. CASE Drawn(w, D) = {}
        <5>1. Drawn(w, {o}) = {}
          BY <4>2 DEF Drawn
        <5>2. SumFunctionOnSet(Debited, Drawn(w, {o})') = 0
          BY <4>1, <5>1, SumEmpty
        <5> QED
          BY <1>3, <5>2
      <4>3. CASE Drawn(w, D) # {}
        BY <1>4, <1>5, <4>1, <4>3 DEF WalletInBounds
      <4> QED
        BY <4>2, <4>3
    <3> QED
      BY <3>1, <3>2
  <2> QED
    BY <2>3, <2>4
<1>7. CASE w # Wallet(c) \/ Op(c) = "CASHIN"
  <2>1. \A o \in D : Drawn(w, {o})' = Drawn(w, {o})
    BY <1>1, <1>7 DEF Drawn, Wallet, Op
  <2>2. Drawn(w, D)' = Drawn(w, D)
    BY <1>1, <1>7 DEF Drawn, Wallet, Op
  <2>3. balance[w] >= 0 /\ \A o \in D : SumFunctionOnSet(Debited, Drawn(w, {o})) <= Limit[o] + Fee[o]
    BY <1>4, <1>5, <2>2 DEF WalletInBounds
  <2> QED
    BY <1>1, <1>7, <2>1, <2>3
<1> QED
  BY <1>6, <1>7

\* A user when a transaction of it, or of another, is posted.
LEMMA UserAtCommit ==
  ASSUME Known, LimitsHoldInTurn, ChecksHold, NEW c \in Calls, NEW u \in {User(d) : d \in Calls},
         Commit(c), result[c] = c, stage[c] = "done", (txns \cup {c}) \cap crowded \subseteq crowded'
  PROVE  UserInBounds(u)'
<1>1. txns' = txns \cup {c} /\ c \notin txns
  BY PostingAdds
<1>2. UserInBounds(u)
  BY DEF LimitsHoldInTurn
<1>3. \A o : InTurn(Posted(u, o))' => InTurn(Posted(u, o))
  BY <1>1 DEF InTurn, Posted, User, Op
<1>4. \A o : u # User(c) \/ o # Op(c) => Posted(u, o)' = Posted(u, o)
  BY <1>1 DEF Posted, User, Op
<1>5. ASSUME u = User(c), InTurn(Posted(u, Op(c)))'
      PROVE  /\ Posted(u, Op(c))' = Earlier(c) \cup {c} /\ Posted(u, Op(c)) = Earlier(c)
             /\ Earlier(c) \in SUBSET txns /\ c \notin Earlier(c) /\ IsFiniteSet(Earlier(c))
             /\ ~TooFast(c)
  <2>1. Posted(u, Op(c))' = Earlier(c) \cup {c} /\ Posted(u, Op(c)) = Earlier(c)
    BY <1>1, <1>5 DEF Posted, Earlier, User, Op
  <2>2. Earlier(c) \in SUBSET txns /\ c \notin Earlier(c) /\ IsFiniteSet(Earlier(c))
    BY <1>1, SumsOfCalls DEF Earlier
  <2>3. c \notin crowded /\ UnderWay(c)
    BY <1>5, <2>1 DEF InTurn, UnderWay
  <2> QED
    BY <2>1, <2>2, <2>3 DEF ChecksHold
<1>6. ASSUME NEW o \in {"CASHIN", "CASHOUT"}, InTurn(Posted(u, o))', MaxAmount[o] > 0
      PROVE  SumFunctionOnSet(Amounts, Posted(u, o)') <= MaxAmount[o]
  <2>1. CASE u = User(c) /\ o = Op(c)
    <3>1. SumFunctionOnSet(Amounts, Earlier(c)) + Amount(c) <= MaxAmount[o]
      <4>1. ~(SumFunctionOnSet(Amounts, Earlier(c)) + Amount(c) > MaxAmount[o])
        BY <1>5, <1>6, <2>1 DEF TooFast
      <4>2. SumFunctionOnSet(Amounts, Earlier(c)) \in Int
        BY <1>5, <1>6, <2>1, SumsOfCalls
      <4>3. Amount(c) \in Int /\ MaxAmount[o] \in Int
        BY DEF Known, LedgerAssumption, PaymentsAssumption, Ops, Amount
      <4> QED
        BY <4>1, <4>2, <4>3
    <3>2. SumFunctionOnSet(Amounts, Posted(u, o)') = SumFunctionOnSet(Amounts, Earlier(c)) + Amounts[c]
      BY <1>5, <1>6, <2>1, SumsOfCalls
    <3> QED
      BY <3>1, <3>2 DEF Amounts
  <2>2. CASE ~(u = User(c) /\ o = Op(c))
    BY <1>2, <1>3, <1>4, <1>6, <2>2 DEF UserInBounds
  <2> QED
    BY <2>1, <2>2
<1>7. ASSUME InTurn(Posted(u, "CASHOUT"))', MaxCount > 0
      PROVE  Cardinality(Posted(u, "CASHOUT")') <= MaxCount
  <2>1. CASE u = User(c) /\ "CASHOUT" = Op(c)
    <3>1. Cardinality(Posted(u, "CASHOUT")') = Cardinality(Earlier(c)) + 1
      BY <1>5, <1>7, <2>1, FS_AddElement
    <3>2. ~(Cardinality(Earlier(c)) >= MaxCount)
      BY <1>5, <1>7, <2>1 DEF TooFast
    <3>3. Cardinality(Earlier(c)) \in Nat /\ MaxCount \in Nat
      BY <1>5, <1>7, <2>1, FS_CardinalityType DEF Known, PaymentsAssumption
    <3> QED
      BY <3>1, <3>2, <3>3
  <2>2. CASE ~(u = User(c) /\ "CASHOUT" = Op(c))
    BY <1>2, <1>3, <1>4, <1>7, <2>2 DEF UserInBounds
  <2> QED
    BY <2>1, <2>2
<1>8. ASSUME InTurn(Posted(u, "CASHOUT"))', MaxPhones > 0
      PROVE  Cardinality(Receivers(u)') <= MaxPhones
  <2>1. Cardinality(Receivers(u)) <= MaxPhones
    BY <1>2, <1>3, <1>8 DEF UserInBounds
  <2>2. CASE u = User(c) /\ "CASHOUT" = Op(c)
    <3>1. Receivers(u)' = Receivers(u) \cup ({Body(c).phone} \ {None})
      BY <1>5, <1>8, <2>2 DEF Receivers, Body
    <3>2. CASE Body(c).phone \in Receivers(u) \cup {None}
      <4>1. Receivers(u)' = Receivers(u)
        BY <3>1, <3>2
      <4> QED
        BY <2>1, <4>1
    <3>3. CASE Body(c).phone \notin Receivers(u) \cup {None}
      <4>1. Receivers(u)' = Receivers(u) \cup {Body(c).phone}
        BY <3>1, <3>3
      <4>2. Cardinality(Receivers(u)') = Cardinality(Receivers(u)) + 1
        BY <3>3, <4>1, ReceiversFinite, FS_AddElement
      <4>3. Phones(c) = Receivers(u)
        BY <2>2, PhonesOfPosted
      <4>4. ~(Cardinality(Receivers(u)) >= MaxPhones)
        BY <1>5, <1>8, <2>2, <3>3, <4>3 DEF TooFast
      <4>5. Cardinality(Receivers(u)) \in Nat /\ MaxPhones \in Nat
        BY ReceiversFinite, FS_CardinalityType DEF Known, PaymentsAssumption
      <4> QED
        BY <4>2, <4>4, <4>5
    <3> QED
      BY <3>2, <3>3
  <2>3. CASE ~(u = User(c) /\ "CASHOUT" = Op(c))
    <3>1. Receivers(u)' = Receivers(u)
      BY <1>4, <2>3 DEF Receivers, Body
    <3> QED
      BY <2>1, <3>1
  <2> QED
    BY <2>2, <2>3
<1> QED
  BY <1>6, <1>7, <1>8 DEF UserInBounds, Amounts, Amount
-----------------------------------------------------------------------------
(* The invariant.                                                           *)

\* At first no call is under way and nothing is posted.
LEMMA InitTInv == LedgerAssumption /\ PaymentsAssumption /\ CrowdedInit => TInv
<1> SUFFICES ASSUME LedgerAssumption, PaymentsAssumption, CrowdedInit
             PROVE  TInv
  OBVIOUS
<1>1. txns = {} /\ missed = {} /\ \A c \in Calls : stage[c] = "idle"
  BY DEF CrowdedInit, PayInit, Init
<1>2. WorkIsBusy /\ OverlapsNoticed /\ ChecksHold
  BY <1>1 DEF WorkIsBusy, OverlapsNoticed, ChecksHold, Overlaps, Busy, UnderWay
<1>3. ASSUME NEW w \in Wallets PROVE WalletInBounds(w)
  BY <1>1 DEF WalletInBounds, Drawn
<1>4. ASSUME NEW u \in {User(c) : c \in Calls} PROVE UserInBounds(u)
  <2>1. \A o : Posted(u, o) = {}
    BY <1>1 DEF Posted
  <2>2. Receivers(u) = {}
    BY <2>1 DEF Receivers
  <2>3. /\ Cardinality(Posted(u, "CASHOUT")) = 0 /\ Cardinality(Receivers(u)) = 0
        /\ \A o : SumFunctionOnSet(Amounts, Posted(u, o)) = 0
    BY <2>1, <2>2, SumEmpty, FS_EmptySet
  <2>4. MaxCount \in Nat /\ MaxPhones \in Nat /\ MaxAmount["CASHIN"] \in Nat /\ MaxAmount["CASHOUT"] \in Nat
    BY DEF PaymentsAssumption, Ops
  <2> QED
    BY <2>1, <2>3, <2>4 DEF UserInBounds
<1> QED
  BY <1>2, <1>3, <1>4 DEF TInv, LimitsHoldInTurn

\* A call is at work only while it is busy.
LEMMA WorkStaysBusy ==
  ASSUME Known, WorkIsBusy, NEW c \in Calls, Replay(c) \/ Miss(c) \/ Running(c) \/ Fail(c)
  PROVE  WorkIsBusy'
<1> DEFINE atWork(s) == s \notin {"idle", "committed", "failed"}
<1>1. ASSUME NEW d \in Calls \ {c}, atWork(stage'[d])
      PROVE  Busy(d)'
  <2>1. stage'[d] = stage[d] /\ reply'[d] = reply[d] /\ (d \in missed' <=> d \in missed)
    BY StepOfOne
  <2> QED
    BY <1>1, <2>1 DEF WorkIsBusy, Busy
<1>2. ASSUME atWork(stage'[c])
      PROVE  Busy(c)'
  <2> USE DEF Known, IInv, LedgerTypeOK, PInv, PaymentsTypeOK, Busy
  <2>1. CASE Replay(c) \/ Miss(c)
    <3>1. c \notin missed /\ stage' = stage
      BY <2>1 DEF Replay, Miss, Arrives, Sent, ledgerVars
    <3> QED
      BY <1>2, <3>1 DEF WorkIsBusy
  <2>2. CASE Velocity(c)
    BY <1>2, <2>2 DEF Velocity, ledgerVars
  <2>3. CASE Post(c)
    <3>1. Busy(c)
      BY <2>3 DEF Post, Work, Find, Funds, Limits, SeekAccount, Insert, UpdateRow, UniqueViolation,
                  Return, At, WorkIsBusy
    <3> QED
      BY <1>2, <2>3, <3>1 DEF Post
  <2>4. CASE FinishAtOnce(c) \/ FinishCashOut(c)
    BY <1>2, <2>4 DEF FinishAtOnce, FinishCashOut, Commit
  <2>5. CASE StoreCashOut(c)
    BY <1>2, <2>5 DEF StoreCashOut, ledgerVars
  <2>6. CASE Fail(c)
    BY <1>2, <2>6 DEF Fail, Rollback, ledgerVars
  <2> QED
    BY <2>1, <2>2, <2>3, <2>4, <2>5, <2>6 DEF Running
<1> QED
  BY <1>1, <1>2 DEF WorkIsBusy

\* A step of one call keeps what the calls under way have checked.
LEMMA StepKeepsTInv ==
  ASSUME Known, Known', TInv, NEW c \in Calls, Replay(c) \/ Miss(c) \/ Running(c) \/ Fail(c),
         crowded' = {d \in Calls : Matters(d)' /\ (d \in crowded \/ Overlaps(d)')}
  PROVE  TInv'
<1>1. WorkIsBusy'
  BY WorkStaysBusy DEF TInv
<1>2. OverlapsNoticed'
  BY DEF OverlapsNoticed, Overlaps, Matters
<1>3. ASSUME NEW d \in Calls \ crowded', UnderWay(d)'
      PROVE  d \notin crowded
  <2>1. Busy(d)'
    BY <1>1, <1>3 DEF WorkIsBusy, UnderWay
  <2> QED
    BY <2>1 DEF Matters
<1>4. ASSUME NEW d \in Calls \ crowded', UnderWay(d)'
      PROVE  /\ ~TooFast(d)'
             /\ stage'[d] \in {"limits", "post", "done"} => HasFunds(d)'
             /\ stage'[d] \in {"post", "done"} => UnderLimit(d)'
  <2>1. d \notin crowded
    BY <1>3, <1>4
  <2>2. CASE d = c
    <3>1. /\ UNCHANGED <<txns, balance>>
          /\ UnderWay(c) \/ (stage'[c] = "find" /\ ~TooFast(c))
          /\ stage'[c] \in {"limits", "post", "done"} =>
               stage[c] \in {"limits", "post", "done"} \/ HasFunds(c)
          /\ stage'[c] \in {"post", "done"} => stage[c] \in {"post", "done"} \/ UnderLimit(c)
      BY <1>4, <2>2, StepChecks
    <3>2. /\ TooFast(c)' <=> TooFast(c)
          /\ HasFunds(c) => HasFunds(c)'
          /\ UnderLimit(c) => UnderLimit(c)'
      BY <3>1, ChecksStay
    <3>3. UnderWay(c) =>
            /\ ~TooFast(c)
            /\ stage[c] \in {"limits", "post", "done"} => HasFunds(c)
            /\ stage[c] \in {"post", "done"} => UnderLimit(c)
      BY <2>1, <2>2 DEF TInv, ChecksHold
    <3> QED
      BY <2>2, <3>1, <3>2, <3>3
  <2>3. CASE d # c
    <3>1. UnderWay(d) /\ stage'[d] = stage[d]
      BY <1>4, <2>3, StepOfOne DEF UnderWay
    <3>2. \/ UNCHANGED <<txns, balance>>
          \/ Commit(c) /\ result[c] = c /\ c \notin Rivals(d)
      <4> SUFFICES ASSUME Commit(c), result[c] = c, stage[c] = "done", c \in Rivals(d)
                   PROVE  FALSE
        BY StepPosts
      <4>1. Busy(c) /\ Busy(d)
        BY <3>1 DEF TInv, WorkIsBusy, UnderWay
      <4> QED
        BY <2>1, <4>1 DEF TInv, OverlapsNoticed, Overlaps
    <3>3. /\ TooFast(d)' <=> TooFast(d)
          /\ HasFunds(d) => HasFunds(d)'
          /\ UnderLimit(d) => UnderLimit(d)'
      BY <2>3, <3>2, ChecksStay
    <3> QED
      BY <2>1, <3>1, <3>3 DEF TInv, ChecksHold
  <2> QED
    BY <2>2, <2>3
<1>5. ChecksHold'
  BY <1>4 DEF ChecksHold
<1>6. LimitsHoldInTurn'
  <2>1. CASE UNCHANGED <<txns, balance>>
    <3>1. txns \cap crowded \subseteq crowded'
      BY <2>1 DEF Matters, Known, IInv, LedgerTypeOK
    <3> QED
      BY <2>1, <3>1, LimitsStay DEF TInv
  <2>2. CASE Commit(c) /\ result[c] = c /\ stage[c] = "done"
    <3>1. txns' = txns \cup {c}
      BY <2>2, PostingAdds
    <3>2. (txns \cup {c}) \cap crowded \subseteq crowded'
      BY <3>1 DEF Matters, Known, IInv, LedgerTypeOK
    <3>3. ASSUME NEW w \in Wallets PROVE WalletInBounds(w)'
      BY <2>2, <3>2, WalletAtCommit DEF TInv
    <3>4. ASSUME NEW u \in {User(d) : d \in Calls} PROVE UserInBounds(u)'
      BY <2>2, <3>2, UserAtCommit DEF TInv
    <3> QED
      BY <3>3, <3>4 DEF LimitsHoldInTurn, User
  <2> QED
    BY <2>1, <2>2, StepPosts
<1> QED
  BY <1>1, <1>2, <1>5, <1>6 DEF TInv

\* Every step of the endpoints keeps it, one call at a time or many.
LEMMA NextTInv ==
  ASSUME Known, Known', TInv, [CrowdedNext]_<<vars, crowded>>
  PROVE  TInv'
<1>1. CASE UNCHANGED vars
  <2>1. UNCHANGED <<stage, result, txns, balance, missed, reply>>
    BY <1>1 DEF vars, ledgerVars
  <2>2. /\ \A c \in Calls : Matters(c) /\ c \in crowded => c \in crowded'
        /\ \A c \in Calls : Overlaps(c)' => c \in crowded'
    <3>1. CASE UNCHANGED crowded
      BY <2>1, <3>1 DEF TInv, OverlapsNoticed, Overlaps, Rivals, Busy, User, Op
    <3>2. CASE CrowdedNext
      BY <2>1, <3>2 DEF CrowdedNext, Matters, Overlaps, Busy
    <3> QED
      BY <3>1, <3>2
  <2>3. WorkIsBusy' /\ OverlapsNoticed'
    BY <2>1, <2>2 DEF TInv, WorkIsBusy, OverlapsNoticed, Busy
  <2>4. ChecksHold'
    <3> SUFFICES ASSUME NEW c \in Calls \ crowded', UnderWay(c)'
                 PROVE  /\ ~TooFast(c)'
                        /\ stage'[c] \in {"limits", "post", "done"} => HasFunds(c)'
                        /\ stage'[c] \in {"post", "done"} => UnderLimit(c)'
      BY DEF ChecksHold
    <3>1. UnderWay(c) /\ c \notin crowded
      BY <2>1, <2>2 DEF TInv, WorkIsBusy, UnderWay, Matters
    <3>2. /\ TooFast(c)' <=> TooFast(c)
          /\ HasFunds(c) => HasFunds(c)'
          /\ UnderLimit(c) => UnderLimit(c)'
      BY <2>1, ChecksStay
    <3> QED
      BY <2>1, <3>1, <3>2 DEF TInv, ChecksHold
  <2>5. LimitsHoldInTurn'
    <3>1. txns \cap crowded \subseteq crowded'
      BY <2>2 DEF Matters, Known, IInv, LedgerTypeOK
    <3> QED
      BY <2>1, <3>1, LimitsStay DEF TInv
  <2> QED
    BY <2>3, <2>4, <2>5 DEF TInv
<1>2. ASSUME NEW c \in Calls, Replay(c) \/ Miss(c) \/ Running(c) \/ Fail(c), CrowdedNext
      PROVE  TInv'
  BY <1>2, StepKeepsTInv DEF CrowdedNext
<1> QED
  BY <1>1, <1>2 DEF CrowdedNext, PayNext, Finished

-----------------------------------------------------------------------------
(* The theorems.                                                            *)

\* The inductive invariant: overlaps are noticed, checks hold until the commit.
THEOREM ChecksLast == CrowdedSpec => []TInv
<1>1. CrowdedInit => TInv
  BY InitTInv, LedgerAssumption, PaymentsAssumption
<1>2. CrowdedSpec => []Known
  <2>1. IInv /\ BInv /\ PInv => Known
    BY LedgerAssumption, PaymentsAssumption DEF Known
  <2> QED
    BY <2>1, LimitsUsePayments, PaymentsUseLedger, KeysAreGuarded, BooksAreKept,
       AnswersFollowCommits, PTL
<1>3. Known /\ Known' /\ TInv /\ [CrowdedNext]_<<vars, crowded>> => TInv'
  BY NextTInv
<1> QED
  BY <1>1, <1>2, <1>3, PTL DEF CrowdedSpec

\* Requests of a user that come one after another keep to the balance, the
\* limit of the day and the velocity limits (db/schema_v1.sql:802-835,
\* services/velocity.py), for any calls, limits and fees.
THEOREM LimitsKept == CrowdedSpec => []LimitsHoldInTurn
<1>1. TInv => LimitsHoldInTurn
  BY DEF TInv
<1> QED
  BY <1>1, ChecksLast, PTL
=============================================================================
