----------------------------- MODULE LedgerProofs -----------------------------
(***************************************************************************)
(* At most one transaction per idempotency key, for any calls.             *)
(*                                                                         *)
(* The argument: a posting that can still commit holds the index entry of  *)
(* its key (KeyBeforeCommit); an entry is held by one transaction only     *)
(* (HoldsAreExclusive) and never while a committed transaction has the     *)
(* same key (HeldKeysAreNew).                                              *)
(***************************************************************************)
EXTENDS Ledger, FiniteSetTheorems, TLAPS

-----------------------------------------------------------------------------
(* Sums over finite sets: SumFunctionOnSet by its recursion equation, which  *)
(* has a solution, and by induction over the subsets of a finite set.       *)

Some(S) == CHOOSE x \in S : TRUE

\* The equation of a sum over the subsets of S.
Sums(f, S, g) ==
  g = [T \in SUBSET S |-> IF T = {} THEN 0 ELSE f[Some(T)] + g[T \ {Some(T)}]]

Summation(f, S) == CHOOSE g : Sums(f, S, g)

\* The library folds by a recursive function over the subsets of S.
LEMMA SumUnfolds ==
  ASSUME NEW f, NEW S
  PROVE  SumFunctionOnSet(f, S) = Summation(f, S)[S]
BY DEF SumFunctionOnSet, FoldFunctionOnSet, MapThenFoldSet, Summation, Sums, Some

\* A nonempty set of subsets of a finite set has a least one: what induction over
\* finite sets comes to.
LEMMA MinimalSet ==
  ASSUME NEW S, IsFiniteSet(S), NEW B \in SUBSET (SUBSET S), B # {}
  PROVE  \E T \in B : \A U \in B : U \subseteq T => U = T
<1>1. FiniteSubsetsOf(S) = SUBSET S
  BY FS_FiniteSubsetsOfFinite
<1>2. IsWellFoundedOn(StrictSubsetOrdering(S), SUBSET S)
  BY <1>1, FS_StrictSubsetOrderingWellFounded
<1>3. PICK T \in B : \A U \in B : <<U, T>> \notin StrictSubsetOrdering(S)
  BY <1>2, WFMin
<1> QED
  BY <1>3 DEF StrictSubsetOrdering

\* The recursive function exists, by induction on the size of the subsets.
LEMMA SumsExist ==
  ASSUME NEW f, NEW S, IsFiniteSet(S)
  PROVE  Sums(f, S, Summation(f, S))
<1> DEFINE Small(n) == {T \in SUBSET S : Cardinality(T) <= n}
           F(g, T) == IF T = {} THEN 0 ELSE f[Some(T)] + g[T \ {Some(T)}]
           Bad == {n \in Nat : ~ \E g : g = [T \in Small(n) |-> F(g, T)]}
<1>1. \A T \in SUBSET S : IsFiniteSet(T) /\ Cardinality(T) \in Nat /\ Cardinality(T) <= Cardinality(S)
  BY FS_Subset, FS_CardinalityType
<1>2. 0 \notin Bad
  <2>1. \A T \in Small(0) : T = {}
    BY <1>1, FS_EmptySet
  <2>2. [T \in Small(0) |-> 0] = [T \in Small(0) |-> F([U \in Small(0) |-> 0], T)]
    BY <2>1
  <2> QED
    BY <2>2
<1>3. ASSUME NEW n \in Nat, n \notin Bad
      PROVE  n + 1 \notin Bad
  <2>1. PICK g : g = [T \in Small(n) |-> F(g, T)]
    BY <1>3
  <2> DEFINE h == [T \in Small(n + 1) |-> F(g, T)]
  <2>2. ASSUME NEW T \in Small(n + 1), T # {}
        PROVE  T \ {Some(T)} \in Small(n)
    <3>1. Some(T) \in T
      BY <2>2 DEF Some
    <3>2. Cardinality(T \ {Some(T)}) = Cardinality(T) - 1
      BY <1>1, <3>1, FS_RemoveElement
    <3> QED
      BY <1>1, <3>2
  <2>3. \A T \in Small(n) : T \in Small(n + 1) /\ h[T] = g[T]
    <3>1. \A T \in Small(n) : T \in Small(n + 1)
      BY <1>1
    <3>2. \A T \in Small(n) : g[T] = F(g, T)
      BY <2>1
    <3> QED
      BY <3>1, <3>2
  <2>4. \A T \in Small(n + 1) : F(h, T) = F(g, T)
    BY <2>2, <2>3
  <2>5. h = [T \in Small(n + 1) |-> F(h, T)]
    BY <2>4
  <2> HIDE DEF h
  <2> QED
    BY <2>5
<1>4. Bad = {}
  <2> SUFFICES ASSUME Bad # {} PROVE FALSE
    OBVIOUS
  <2> HIDE DEF Bad
  <2>0. Bad \subseteq Nat
    BY DEF Bad
  <2>1. PICK n \in Bad : \A m \in Bad : <<m, n>> \notin OpToRel(<, Nat)
    BY <2>0, NatLessThanWellFounded, WFMin
  <2>2. \A m \in Bad : ~(m < n)
    BY <2>0, <2>1 DEF OpToRel
  <2>3. n # 0 /\ n \in Nat
    BY <1>2, <2>0
  <2>4. n - 1 \in Nat /\ n - 1 < n
    BY <2>3
  <2>5. n - 1 \notin Bad
    BY <2>2, <2>4
  <2> QED
    BY <1>3, <2>3, <2>4, <2>5
<1>5. Small(Cardinality(S)) = SUBSET S
  BY <1>1
<1>6. Cardinality(S) \in Nat
  BY FS_CardinalityType
<1>7. \E g : Sums(f, S, g)
  <2>1. PICK g : g = [T \in Small(Cardinality(S)) |-> F(g, T)]
    BY <1>4, <1>6
  <2>2. g = [T \in SUBSET S |-> F(g, T)]
    BY <1>5, <2>1
  <2> QED
    BY <2>2 DEF Sums
<1> QED
  BY <1>7 DEF Summation

\* What it gives a subset is the sum of that subset.
LEMMA SumOfSubset ==
  ASSUME NEW f, NEW S, IsFiniteSet(S), NEW T \in SUBSET S
  PROVE  Summation(f, S)[T] = SumFunctionOnSet(f, T)
<1> DEFINE G(U) == Summation(f, U)
           Bad == {U \in SUBSET S : \E V \in SUBSET S : U \subseteq V /\ G(V)[U] # G(U)[U]}
<1>1. ASSUME NEW U \in SUBSET S, NEW V \in SUBSET S, U \subseteq V
      PROVE  G(V)[U] = IF U = {} THEN 0 ELSE f[Some(U)] + G(V)[U \ {Some(U)}]
  <2>1. IsFiniteSet(V)
    BY FS_Subset
  <2>2. Sums(f, V, G(V))
    BY <2>1, SumsExist
  <2> QED
    BY <1>1, <2>2 DEF Sums
<1>2. ASSUME NEW U \in Bad, \A W \in Bad : W \subseteq U => W = U
      PROVE  FALSE
  <2>1. PICK V \in SUBSET S : U \subseteq V /\ G(V)[U] # G(U)[U]
    OBVIOUS
  <2> DEFINE W == U \ {Some(U)}
  <2>2. U # {} /\ G(V)[U] = f[Some(U)] + G(V)[W] /\ G(U)[U] = f[Some(U)] + G(U)[W]
    BY <1>1, <2>1
  <2>3. Some(U) \in U
    BY <2>2 DEF Some
  <2>4. W \notin Bad /\ W \in SUBSET S /\ W \subseteq U /\ W \subseteq V
    BY <1>2, <2>1, <2>3
  <2>5. G(V)[W] = G(W)[W] /\ G(U)[W] = G(W)[W]
    BY <2>4
  <2> QED
    BY <2>1, <2>2, <2>5
<1>3. Bad \in SUBSET (SUBSET S)
  OBVIOUS
<1>4. Bad = {}
  <2> HIDE DEF Bad
  <2> QED
    BY <1>2, <1>3, MinimalSet
<1> QED
  BY <1>4, SumUnfolds

\* Nothing sums to nothing.
LEMMA SumEmpty ==
  ASSUME NEW f
  PROVE  SumFunctionOnSet(f, {}) = 0
<1>1. Sums(f, {}, Summation(f, {}))
  BY SumsExist, FS_EmptySet
<1> QED
  BY <1>1, SumUnfolds DEF Sums

\* A sum is what one of the elements adds to the sum of the others.
LEMMA SumStep ==
  ASSUME NEW f, NEW S, IsFiniteSet(S), S # {}
  PROVE  /\ Some(S) \in S
         /\ SumFunctionOnSet(f, S) = f[Some(S)] + SumFunctionOnSet(f, S \ {Some(S)})
<1>1. Sums(f, S, Summation(f, S))
  BY SumsExist
<1>2. Summation(f, S)[S] = f[Some(S)] + Summation(f, S)[S \ {Some(S)}]
  BY <1>1 DEF Sums
<1>3. Some(S) \in S
  BY DEF Some
<1> QED
  BY <1>2, <1>3, SumUnfolds, SumOfSubset

\* A sum of integers is one.
LEMMA SumType ==
  ASSUME NEW f, NEW S, IsFiniteSet(S), \A x \in S : f[x] \in Int
  PROVE  SumFunctionOnSet(f, S) \in Int
<1> DEFINE Bad == {T \in SUBSET S : SumFunctionOnSet(f, T) \notin Int}
<1>1. ASSUME NEW T \in Bad, \A U \in Bad : U \subseteq T => U = T
      PROVE  FALSE
  <2>1. T # {} /\ IsFiniteSet(T)
    <3>1. T \in SUBSET S /\ SumFunctionOnSet(f, T) \notin Int
      OBVIOUS
    <3>2. SumFunctionOnSet(f, {}) \in Int
      BY SumEmpty
    <3> QED
      BY <3>1, <3>2, FS_Subset
  <2>2. /\ Some(T) \in T
        /\ SumFunctionOnSet(f, T) = f[Some(T)] + SumFunctionOnSet(f, T \ {Some(T)})
    BY <2>1, SumStep
  <2>3. T \ {Some(T)} \notin Bad /\ T \ {Some(T)} \in SUBSET S
    BY <1>1, <2>2
  <2> QED
    BY <2>2, <2>3
<1>2. Bad \in SUBSET (SUBSET S)
  OBVIOUS
<1>3. Bad = {}
  <2> HIDE DEF Bad
  <2> QED
    BY <1>1, <1>2, MinimalSet
<1> QED
  BY <1>3

\* Any element may be counted first.
LEMMA SumRemove ==
  ASSUME NEW f, NEW S, IsFiniteSet(S), \A x \in S : f[x] \in Int, NEW x \in S
  PROVE  SumFunctionOnSet(f, S) = f[x] + SumFunctionOnSet(f, S \ {x})
<1> DEFINE Sum(T) == SumFunctionOnSet(f, T)
           Bad == {T \in SUBSET S : \E y \in T : Sum(T) # f[y] + Sum(T \ {y})}
<1>1. ASSUME NEW T \in Bad, \A U \in Bad : U \subseteq T => U = T
      PROVE  FALSE
  <2>1. PICK y \in T : Sum(T) # f[y] + Sum(T \ {y})
    OBVIOUS
  <2>2. IsFiniteSet(T) /\ T # {}
    BY <2>1, FS_Subset
  <2> DEFINE z == Some(T)
  <2>3. z \in T /\ Sum(T) = f[z] + Sum(T \ {z}) /\ z # y
    BY <2>1, <2>2, SumStep
  <2> HIDE DEF z
  <2>4. /\ T \ {z} \in SUBSET S /\ T \ {z} \notin Bad /\ y \in T \ {z}
        /\ T \ {y} \in SUBSET S /\ T \ {y} \notin Bad /\ z \in T \ {y}
    BY <1>1, <2>1, <2>3
  <2>5. /\ Sum(T \ {z}) = f[y] + Sum((T \ {z}) \ {y})
        /\ Sum(T \ {y}) = f[z] + Sum((T \ {y}) \ {z})
    BY <2>4
  <2>6. (T \ {z}) \ {y} = (T \ {y}) \ {z}
    OBVIOUS
  <2> DEFINE R == (T \ {y}) \ {z}
  <2>7. Sum(R) \in Int
    <3>1. IsFiniteSet(R)
      BY <2>2, FS_Subset
    <3> QED
      BY <3>1, SumType
  <2>8. f[y] \in Int /\ f[z] \in Int
    BY <2>1, <2>3
  <2> HIDE DEF R, Sum
  <2>9. Sum(T) = f[z] + (f[y] + Sum(R)) /\ Sum(T \ {y}) = f[z] + Sum(R)
    BY <2>3, <2>5, <2>6 DEF R
  <2> QED
    BY <2>1, <2>7, <2>8, <2>9
<1>2. Bad \in SUBSET (SUBSET S)
  OBVIOUS
<1>3. Bad = {}
  <2> HIDE DEF Bad
  <2> QED
    BY <1>1, <1>2, MinimalSet
<1> QED
  BY <1>3

\* A sum grows by what a new element adds.
LEMMA SumAdd ==
  ASSUME NEW f, NEW S, IsFiniteSet(S), NEW x, x \notin S, \A y \in S \cup {x} : f[y] \in Int
  PROVE  SumFunctionOnSet(f, S \cup {x}) = f[x] + SumFunctionOnSet(f, S)
<1>1. IsFiniteSet(S \cup {x})
  BY FS_AddElement
<1>2. (S \cup {x}) \ {x} = S
  OBVIOUS
<1> QED
  BY <1>1, <1>2, SumRemove

\* A sum over a set is the sum over a part of it and over the rest.
LEMMA SumSplit ==
  ASSUME NEW f, NEW S, IsFiniteSet(S), \A x \in S : f[x] \in Int, NEW T \in SUBSET S
  PROVE  SumFunctionOnSet(f, S) = SumFunctionOnSet(f, T) + SumFunctionOnSet(f, S \ T)
<1> DEFINE Sum(U) == SumFunctionOnSet(f, U)
           Bad == {R \in SUBSET (S \ T) : Sum(T \cup R) # Sum(T) + Sum(R)}
<1>1. ASSUME NEW R \in Bad, \A U \in Bad : U \subseteq R => U = R
      PROVE  FALSE
  <2>0. /\ R \in SUBSET (S \ T) /\ Sum(T \cup R) # Sum(T) + Sum(R)
        /\ IsFiniteSet(R) /\ IsFiniteSet(T) /\ IsFiniteSet(T \cup R)
    <3>1. R \subseteq S /\ T \cup R \subseteq S
      OBVIOUS
    <3> QED
      BY <3>1, FS_Subset
  <2>1. Sum(T) \in Int
    <3>1. \A x \in T : f[x] \in Int
      OBVIOUS
    <3> QED
      BY <2>0, <3>1, SumType
  <2>2. PICK z \in R : TRUE
    <3> SUFFICES ASSUME R = {} PROVE FALSE
      OBVIOUS
    <3>1. Sum({}) = 0 /\ T \cup R = T
      BY SumEmpty
    <3> HIDE DEF Sum, Bad
    <3> QED
      BY <2>0, <2>1, <3>1
  <2>3. Sum(R) = f[z] + Sum(R \ {z}) /\ Sum(T \cup R) = f[z] + Sum((T \cup R) \ {z})
    BY <2>0, <2>2, SumRemove
  <2>4. (T \cup R) \ {z} = T \cup (R \ {z})
    BY <2>0, <2>2
  <2>5. Sum(T \cup (R \ {z})) = Sum(T) + Sum(R \ {z})
    <3>1. R \ {z} \in SUBSET (S \ T) /\ R \ {z} \notin Bad
      BY <1>1, <2>0, <2>2
    <3> QED
      BY <3>1
  <2>6. f[z] \in Int /\ Sum(R \ {z}) \in Int
    <3>1. /\ IsFiniteSet(R \ {z})
          /\ \A x \in R : f[x] \in Int
      BY <2>0, FS_Subset
    <3> QED
      BY <2>2, <3>1, SumType
  <2>7. Sum(T \cup R) = f[z] + (Sum(T) + Sum(R \ {z}))
    BY <2>3, <2>4, <2>5
  <2> DEFINE whole == Sum(T \cup R)
             part == Sum(T)
             rest == Sum(R)
             less == Sum(R \ {z})
  <2>8. whole = f[z] + (part + less) /\ rest = f[z] + less /\ whole # part + rest
    BY <2>0, <2>3, <2>7
  <2>9. f[z] \in Int /\ part \in Int /\ less \in Int
    BY <2>1, <2>6
  <2> HIDE DEF whole, part, rest, less, Sum, Bad
  <2> QED
    BY <2>8, <2>9
<1>2. IsFiniteSet(S \ T) /\ Bad \in SUBSET (SUBSET (S \ T))
  BY FS_Subset
<1>3. Bad = {}
  <2> HIDE DEF Bad
  <2> QED
    BY <1>1, <1>2, MinimalSet
<1>4. S \ T \notin Bad /\ T \cup (S \ T) = S
  BY <1>3
<1> QED
  BY <1>4

-----------------------------------------------------------------------------
(* Keys.                                                                    *)

KeyOf(c) == <<"key", Key(c)>>

HoldsAreExclusive == \A c, d \in Calls : c # d => held[c] \cap held[d] = {}

HeldKeysAreNew == \A c \in Calls, t \in txns : KeyOf(t) \notin held[c]

\* The key's place in the plan is behind: it was inserted.
KeyPassed(c) == \E i \in DOMAIN Plan(c) : i < step[c] /\ Plan(c)[i].what = "key"

KeyBeforeCommit ==
  \A c \in Calls :
    /\ stage[c] \in {"idle", "find", "funds", "limits"} => step[c] = 1
    /\ stage[c] = "post" /\ KeyPassed(c) => KeyOf(c) \in held[c]
    /\ stage[c] = "done" /\ result[c] = c => KeyOf(c) \in held[c]

\* What a call answers with: its own posting, or a committed one of its key.
AnswersFit ==
  \A c \in Calls :
    /\ stage[c] \notin {"done", "committed"} => result[c] = None
    /\ result[c] \notin {None, c} => result[c] \in txns /\ Key(result[c]) = Key(c)
    /\ stage[c] = "committed" /\ result[c] = c => c \in txns
    /\ c \in txns => stage[c] = "committed"

IInv ==
  /\ LedgerTypeOK
  /\ OneTransactionPerKey
  /\ HoldsAreExclusive
  /\ HeldKeysAreNew
  /\ KeyBeforeCommit
  /\ AnswersFit

-----------------------------------------------------------------------------
(* Facts about the plans.                                                   *)

\* The entries of a plan: what they are and what they name.
LEMMA PlanEntries ==
  ASSUME LedgerAssumption, NEW c \in Calls, NEW i \in DOMAIN Plan(c)
  PROVE  /\ i \in Nat \ {0}
         /\ Plan(c)[i].what \in {"seek", "account", "key", "ref", "row"}
         /\ Plan(c)[i].delta \in Int
         /\ Plan(c)[i].what = "row" => Plan(c)[i].name \in Accounts
         /\ Plan(c)[i].what = "account" => Plan(c)[i].name \in SystemAccounts
         /\ Plan(c)[i].what = "key" => Plan(c)[i].name = Key(c)
<1> USE DEF LedgerAssumption, Ops, Op, Amount, Wallet, To, FeeOf, FeeAccount, FeeAccounts,
            SystemAccounts, Accounts, Seek, New, InsertKey, InsertRef, Delta, Debit, TakeFee
<1>1. Op(c) \in Ops /\ Amount(c) \in Int /\ FeeOf(c) \in Int
  OBVIOUS
<1>2. Wallet(c) \in Accounts /\ To(c) \in Accounts /\ FeeAccount(c) \in FeeAccounts
  OBVIOUS
<1>3. CASE Op(c) = "CASHIN"
  BY <1>1, <1>2, <1>3 DEF Plan, CashInPlan
<1>4. CASE Op(c) = "CASHOUT"
  BY <1>1, <1>2, <1>4 DEF Plan, CashOutPlan
<1>5. CASE Op(c) = "P2P"
  BY <1>1, <1>2, <1>5 DEF Plan, P2PPlan
<1> QED
  BY <1>1, <1>3, <1>4, <1>5

\* Every plan inserts the key, and finding an account skips only its insert.
LEMMA PlanShape ==
  ASSUME LedgerAssumption, NEW c \in Calls
  PROVE  /\ \E k \in Nat \ {0} : /\ DOMAIN Plan(c) = 1 .. k
                                 /\ \E i \in 1 .. k : Plan(c)[i].what = "key"
         /\ \A i \in DOMAIN Plan(c) : Plan(c)[i].what = "seek" =>
              i + 1 \in DOMAIN Plan(c) /\ Plan(c)[i + 1].what = "account"
<1> USE DEF LedgerAssumption, Ops, Op, Seek, New, InsertKey, InsertRef, Delta, Debit, TakeFee
<1>1. Op(c) \in Ops
  OBVIOUS
<1>2. CASE Op(c) = "CASHIN"
  <2>1. Plan(c) = CashInPlan(c)
    BY <1>2 DEF Plan
  <2>2. DOMAIN Plan(c) = 1 .. 5 /\ Plan(c)[3].what = "key"
    BY <2>1 DEF CashInPlan
  <2> QED
    BY <2>1, <2>2 DEF CashInPlan
<1>3. CASE Op(c) = "CASHOUT"
  <2>1. Plan(c) = CashOutPlan(c)
    BY <1>3 DEF Plan
  <2>2. CASE FeeOf(c) = 0
    <3>1. DOMAIN Plan(c) = 1 .. 4 /\ Plan(c)[3].what = "key"
      BY <2>1, <2>2 DEF CashOutPlan
    <3> QED
      BY <2>1, <2>2, <3>1 DEF CashOutPlan
  <2>3. CASE FeeOf(c) # 0
    <3>1. DOMAIN Plan(c) = 1 .. 7 /\ Plan(c)[3].what = "key"
      BY <2>1, <2>3 DEF CashOutPlan
    <3> QED
      BY <2>1, <2>3, <3>1 DEF CashOutPlan
  <2> QED
    BY <2>2, <2>3
<1>4. CASE Op(c) = "P2P"
  <2>1. Plan(c) = P2PPlan(c)
    BY <1>4 DEF Plan
  <2>2. CASE FeeOf(c) = 0
    <3>1. DOMAIN Plan(c) = 1 .. 3 /\ Plan(c)[1].what = "key"
      BY <2>1, <2>2 DEF P2PPlan
    <3> QED
      BY <2>1, <2>2, <3>1 DEF P2PPlan
  <2>3. CASE FeeOf(c) # 0
    <3>1. DOMAIN Plan(c) = 1 .. 6 /\ Plan(c)[1].what = "key"
      BY <2>1, <2>3 DEF P2PPlan
    <3> QED
      BY <2>1, <2>3, <3>1 DEF P2PPlan
  <2> QED
    BY <2>2, <2>3
<1> QED
  BY <1>1, <1>2, <1>3, <1>4

\* The handler of a violation, and the search for the key, answer with a
\* committed transaction of the key, or NULL.
LEMMA AnswerOfKey ==
  ASSUME NEW c \in Calls
  PROVE  Answer(c) # None => Answer(c) \in txns /\ Key(Answer(c)) = Key(c)
BY DEF Answer, NoneOrAny, OfKey

-----------------------------------------------------------------------------
(* The invariant.                                                           *)

LEMMA InitIInv == LedgerAssumption /\ Init => IInv
<1> SUFFICES ASSUME LedgerAssumption, Init
             PROVE  IInv
  OBVIOUS
<1> USE DEF Init
<1>1. LedgerTypeOK
  BY DEF LedgerAssumption, LedgerTypeOK, Stages, NoDraft, Accounts, Opened
<1>2. OneTransactionPerKey /\ HoldsAreExclusive /\ HeldKeysAreNew /\ AnswersFit
  BY DEF OneTransactionPerKey, HoldsAreExclusive, HeldKeysAreNew, AnswersFit
<1>3. KeyBeforeCommit
  BY DEF KeyBeforeCommit
<1> QED
  BY <1>1, <1>2, <1>3 DEF IInv

\* Statements that read keep the invariant: they take no lock, and the search
\* for the key answers with a committed transaction.
LEMMA ReadKeepsIInv ==
  ASSUME LedgerAssumption, IInv, NEW c \in Calls,
         Begin(c) \/ Find(c) \/ Funds(c) \/ Limits(c)
  PROVE  IInv'
<1> USE DEF IInv
<1>1. /\ UNCHANGED <<step, held, draft, txns, balance, accounts>>
      /\ stage[c] \in {"idle", "find", "funds", "limits"} /\ step[c] = 1
      /\ stage' = [stage EXCEPT ![c] = stage'[c]]
      /\ stage'[c] \in {"find", "funds", "limits", "post", "failed", "done"}
      /\ result' = [result EXCEPT ![c] = result'[c]]
  BY DEF Begin, Find, Funds, Limits, Check, LedgerTypeOK, KeyBeforeCommit
<1>2. c \notin txns /\ result[c] = None
  BY <1>1 DEF AnswersFit
<1>3. /\ result'[c] # None => result'[c] \in txns /\ Key(result'[c]) = Key(c)
      /\ stage'[c] # "done" => result'[c] = None
  <2>1. CASE Find(c)
    <3>1. CASE KnownKey(c) /\ result' = [result EXCEPT ![c] = Answer(c)] /\ stage'[c] = "done"
      BY <1>1, <3>1, AnswerOfKey DEF LedgerTypeOK
    <3>2. CASE ~KnownKey(c) /\ UNCHANGED result
      BY <1>1, <1>2, <3>2
    <3> QED
      BY <1>1, <2>1, <3>1, <3>2 DEF Find, LedgerTypeOK
  <2>2. CASE Begin(c) \/ Funds(c) \/ Limits(c)
    BY <1>2, <2>2 DEF Begin, Funds, Limits, Check
  <2> QED
    BY <2>1, <2>2
<1>4. ~KeyPassed(c)
  BY <1>1, PlanEntries DEF KeyPassed
<1>5. LedgerTypeOK'
  <2>1. result'[c] \in Calls \cup {None}
    BY <1>1, <1>3 DEF LedgerTypeOK
  <2>2. stage' \in [Calls -> Stages]
    BY <1>1 DEF LedgerTypeOK, Stages
  <2>3. result' \in [Calls -> Calls \cup {None}]
    BY <1>1, <2>1 DEF LedgerTypeOK
  <2> QED
    BY <1>1, <2>2, <2>3 DEF LedgerTypeOK
<1>6. OneTransactionPerKey' /\ HoldsAreExclusive' /\ HeldKeysAreNew'
  BY <1>1 DEF OneTransactionPerKey, HoldsAreExclusive, HeldKeysAreNew
<1>7. KeyBeforeCommit'
  <2> SUFFICES ASSUME NEW d \in Calls
               PROVE  KeyBeforeCommit!(d)'
    BY DEF KeyBeforeCommit
  <2>1. KeyPassed(d)' = KeyPassed(d)
    BY <1>1 DEF KeyPassed
  <2>2. CASE d = c
    BY <1>1, <1>2, <1>3, <1>4, <2>1, <2>2 DEF LedgerTypeOK
  <2>3. CASE d # c
    BY <1>1, <2>1, <2>3 DEF KeyBeforeCommit, LedgerTypeOK
  <2> QED
    BY <2>2, <2>3
<1>8. AnswersFit'
  BY <1>1, <1>2, <1>3 DEF AnswersFit, LedgerTypeOK
<1> QED
  BY <1>5, <1>6, <1>7, <1>8

\* Statements that write keep the invariant: the entry a call inserts was free
\* and new, and its key is inserted before its plan ends.
LEMMA WriteKeepsIInv ==
  ASSUME LedgerAssumption, IInv, NEW c \in Calls,
         SeekAccount(c) \/ Insert(c) \/ UpdateRow(c)
  PROVE  IInv'
<1> USE DEF IInv
<1> DEFINE e == Entry(c)
<1>1. /\ UNCHANGED <<stage, result, txns, balance, accounts>>
      /\ stage[c] = "post" /\ step[c] \in DOMAIN Plan(c)
  BY DEF SeekAccount, Insert, UpdateRow, At
<1>2. step[c] \in Nat \ {0} /\ step' \in [Calls -> Nat \ {0}]
  <2>1. step[c] \in Nat \ {0}
    BY DEF LedgerTypeOK
  <2>2. step' = [step EXCEPT ![c] = @ + 1] \/ step' = [step EXCEPT ![c] = @ + 2]
    BY DEF SeekAccount, Insert, UpdateRow
  <2> QED
    BY <2>1, <2>2 DEF LedgerTypeOK
<1>3. /\ e.delta \in Int
      /\ e.what = "row" => e.name \in Accounts
      /\ e.what = "key" => e.name = Key(c)
      /\ Resource(e) \in Resources
  BY <1>1, PlanEntries DEF Entry, Resources
<1>4. /\ held' = held \/ held' = [held EXCEPT ![c] = @ \cup {Resource(e)}]
      /\ held' # held => FreeFor(c)
      /\ e.what = "key" => Insert(c)
  BY DEF SeekAccount, Insert, UpdateRow, At
<1>5. LedgerTypeOK'
  <2>1. held' \in [Calls -> SUBSET Resources]
    BY <1>3, <1>4 DEF LedgerTypeOK
  <2>2. draft' \in [Calls -> [Accounts -> Int]]
    <3>1. CASE UNCHANGED draft
      BY <3>1 DEF LedgerTypeOK
    <3>2. CASE UpdateRow(c)
      <4>1. e.name \in Accounts
        BY <3>2, <1>3 DEF UpdateRow, At
      <4> DEFINE seen == IF Resource(e) \in held[c] THEN draft[c][e.name] ELSE balance[e.name]
      <4>2. draft' = [draft EXCEPT ![c][e.name] = seen + e.delta]
        BY <3>2 DEF UpdateRow
      <4>3. seen + e.delta \in Int
        BY <4>1, <1>3 DEF LedgerTypeOK
      <4> HIDE DEF seen
      <4> QED
        BY <4>1, <4>2, <4>3 DEF LedgerTypeOK
    <3> QED
      BY <3>1, <3>2 DEF SeekAccount, Insert
  <2> QED
    BY <1>1, <1>2, <2>1, <2>2 DEF LedgerTypeOK
<1>6. HoldsAreExclusive'
  BY <1>4 DEF HoldsAreExclusive, FreeFor, LedgerTypeOK
<1>7. HeldKeysAreNew'
  <2> SUFFICES ASSUME NEW d \in Calls, NEW t \in txns
               PROVE  KeyOf(t) \notin held'[d]
    BY <1>1 DEF HeldKeysAreNew, KeyOf
  <2>1. KeyOf(t) \notin held[d]
    BY DEF HeldKeysAreNew
  <2>2. Resource(e) = KeyOf(t) => e.what = "key" /\ e.name = Key(t)
    BY DEF Resource, KeyOf
  <2>3. e.what = "key" => ~(\E u \in txns : Key(u) = e.name)
    BY <1>4 DEF Insert, Taken
  <2> QED
    BY <1>4, <2>1, <2>2, <2>3 DEF LedgerTypeOK
<1>8. KeyBeforeCommit'
  <2> SUFFICES ASSUME NEW d \in Calls
               PROVE  KeyBeforeCommit!(d)'
    BY DEF KeyBeforeCommit
  <2>1. CASE d # c
    <3>1. step'[d] = step[d] /\ held'[d] = held[d]
      BY <2>1, <1>4 DEF SeekAccount, Insert, UpdateRow, LedgerTypeOK
    <3>2. KeyPassed(d)' = KeyPassed(d)
      BY <3>1 DEF KeyPassed
    <3> QED
      BY <1>1, <3>1, <3>2 DEF KeyBeforeCommit, KeyOf
  <2>2. CASE d = c
    <3> SUFFICES ASSUME KeyPassed(c)'
                 PROVE  KeyOf(c) \in held'[c]
      BY <1>1, <2>2 DEF KeyOf
    <3>1. PICK i \in DOMAIN Plan(c) : i < step'[c] /\ Plan(c)[i].what = "key"
      BY DEF KeyPassed
    <3>2. i \in Nat
      BY PlanEntries
    <3>3. held[c] \subseteq held'[c]
      BY <1>4 DEF LedgerTypeOK
    <3>4. CASE i < step[c]
      BY <1>1, <3>1, <3>3, <3>4 DEF KeyBeforeCommit, KeyPassed
    <3>5. CASE i = step[c]
      <4>1. e.what = "key" /\ Insert(c)
        BY <3>1, <3>5, <1>4 DEF Entry
      <4>2. Resource(e) = KeyOf(c)
        BY <4>1, <1>3 DEF Resource, KeyOf
      <4> QED
        BY <4>1, <4>2 DEF Insert, LedgerTypeOK
    <3>6. CASE i > step[c]
      <4>1. SeekAccount(c) /\ i = step[c] + 1
        BY <1>2, <3>1, <3>2, <3>6 DEF SeekAccount, Insert, UpdateRow, LedgerTypeOK
      <4>2. Plan(c)[step[c] + 1].what = "account"
        BY <1>1, <4>1, PlanShape DEF SeekAccount, At, Entry
      <4> QED
        BY <3>1, <4>1, <4>2
    <3> QED
      BY <1>2, <3>2, <3>4, <3>5, <3>6
  <2> QED
    BY <2>1, <2>2
<1>9. OneTransactionPerKey' /\ AnswersFit'
  BY <1>1 DEF OneTransactionPerKey, AnswersFit
<1> QED
  BY <1>5, <1>6, <1>7, <1>8, <1>9

\* What ends a function or its transaction keeps the invariant.
LEMMA EndKeepsIInv ==
  ASSUME LedgerAssumption, IInv, NEW c \in Calls,
         UniqueViolation(c) \/ Rollback(c)
  PROVE  IInv'
<1> USE DEF IInv
<1>1. /\ UNCHANGED <<txns, balance, accounts>>
      /\ Release(c)
      /\ stage[c] \notin {"idle", "committed", "failed"}
      /\ \/ stage' = [stage EXCEPT ![c] = "done"] /\ result' = [result EXCEPT ![c] = Answer(c)]
         \/ stage' = [stage EXCEPT ![c] = "failed"] /\ result' = [result EXCEPT ![c] = None]
  BY DEF UniqueViolation, Rollback, At
<1>2. c \notin txns
  BY <1>1 DEF AnswersFit
<1>3. Answer(c) \in txns \cup {None} /\ Answer(c) # c
  BY <1>2, AnswerOfKey DEF LedgerAssumption
<1>4. /\ step' = [step EXCEPT ![c] = 1]
      /\ held' = [held EXCEPT ![c] = {}]
      /\ draft' = [draft EXCEPT ![c] = NoDraft]
  BY <1>1 DEF Release
<1>5. LedgerTypeOK'
  <2>1. NoDraft \in [Accounts -> Int]
    BY DEF NoDraft
  <2>2. stage' \in [Calls -> Stages] /\ result' \in [Calls -> Calls \cup {None}]
    BY <1>1, <1>3 DEF LedgerTypeOK, Stages
  <2> QED
    BY <1>1, <1>4, <2>1, <2>2 DEF LedgerTypeOK
<1>6. OneTransactionPerKey' /\ HoldsAreExclusive' /\ HeldKeysAreNew'
  BY <1>1, <1>4 DEF OneTransactionPerKey, HoldsAreExclusive, HeldKeysAreNew, LedgerTypeOK
<1>7. KeyBeforeCommit'
  <2> SUFFICES ASSUME NEW d \in Calls
               PROVE  KeyBeforeCommit!(d)'
    BY DEF KeyBeforeCommit
  <2>1. CASE d = c
    BY <1>1, <1>3, <2>1 DEF LedgerTypeOK, LedgerAssumption
  <2>2. CASE d # c
    <3>1. step'[d] = step[d] /\ held'[d] = held[d] /\ stage'[d] = stage[d] /\ result'[d] = result[d]
      BY <1>1, <1>4, <2>2 DEF LedgerTypeOK
    <3>2. KeyPassed(d)' = KeyPassed(d)
      BY <3>1 DEF KeyPassed
    <3> QED
      BY <3>1, <3>2 DEF KeyBeforeCommit
  <2> QED
    BY <2>1, <2>2
<1>8. AnswersFit'
  BY <1>1, <1>2, <1>3, AnswerOfKey DEF AnswersFit, LedgerTypeOK
<1> QED
  BY <1>5, <1>6, <1>7, <1>8

LEMMA ReturnKeepsIInv ==
  ASSUME LedgerAssumption, IInv, NEW c \in Calls, Return(c)
  PROVE  IInv'
<1> USE DEF IInv
<1>1. /\ UNCHANGED <<step, held, draft, txns, balance, accounts>>
      /\ stage[c] = "post" /\ step[c] \notin DOMAIN Plan(c)
      /\ result' = [result EXCEPT ![c] = c]
      /\ stage' = [stage EXCEPT ![c] = "done"]
  BY DEF Return
<1>2. KeyPassed(c)
  <2>1. PICK k \in Nat \ {0} : /\ DOMAIN Plan(c) = 1 .. k
                                /\ \E i \in 1 .. k : Plan(c)[i].what = "key"
    BY PlanShape
  <2>2. step[c] \in Nat /\ step[c] > k
    BY <1>1, <2>1 DEF LedgerTypeOK
  <2>3. PICK i \in 1 .. k : Plan(c)[i].what = "key"
    BY <2>1
  <2>4. i \in DOMAIN Plan(c) /\ i < step[c]
    BY <2>1, <2>2
  <2> QED
    BY <2>3, <2>4 DEF KeyPassed
<1>3. LedgerTypeOK'
  BY <1>1 DEF LedgerTypeOK, Stages
<1>4. OneTransactionPerKey' /\ HoldsAreExclusive' /\ HeldKeysAreNew'
  BY <1>1 DEF OneTransactionPerKey, HoldsAreExclusive, HeldKeysAreNew
<1>5. KeyBeforeCommit'
  <2>1. \A d \in Calls : KeyPassed(d)' = KeyPassed(d)
    BY <1>1 DEF KeyPassed
  <2>2. KeyOf(c) \in held[c]
    BY <1>1, <1>2 DEF KeyBeforeCommit
  <2> QED
    BY <1>1, <2>1, <2>2 DEF KeyBeforeCommit, LedgerTypeOK, KeyOf
<1>6. AnswersFit'
  BY <1>1 DEF AnswersFit, LedgerTypeOK
<1> QED
  BY <1>3, <1>4, <1>5, <1>6

\* A commit publishes a key only its own transaction holds.
LEMMA CommitKeepsIInv ==
  ASSUME LedgerAssumption, IInv, NEW c \in Calls, Commit(c)
  PROVE  IInv'
<1> USE DEF IInv
<1>1. /\ stage[c] = "done"
      /\ txns' = IF result[c] = c THEN txns \cup {c} ELSE txns
      /\ step' = [step EXCEPT ![c] = 1]
      /\ held' = [held EXCEPT ![c] = {}]
      /\ draft' = [draft EXCEPT ![c] = NoDraft]
      /\ stage' = [stage EXCEPT ![c] = "committed"]
      /\ UNCHANGED result
  BY DEF Commit, Release
<1>2. result[c] = c => KeyOf(c) \in held[c]
  BY <1>1 DEF KeyBeforeCommit
<1>3. LedgerTypeOK'
  <2>1. NoDraft \in [Accounts -> Int]
    BY DEF NoDraft
  <2>2. balance' \in [Accounts -> Int] /\ accounts' \subseteq SystemAccounts
    BY DEF Commit, LedgerTypeOK
  <2>3. step' \in [Calls -> Nat \ {0}] /\ stage' \in [Calls -> Stages] /\ txns' \subseteq Calls
    BY <1>1 DEF LedgerTypeOK, Stages
  <2> QED
    BY <1>1, <2>1, <2>2, <2>3 DEF LedgerTypeOK
<1>4. OneTransactionPerKey'
  BY <1>1, <1>2 DEF OneTransactionPerKey, HeldKeysAreNew, KeyOf
<1>5. HoldsAreExclusive'
  BY <1>1 DEF HoldsAreExclusive, LedgerTypeOK
<1>6. HeldKeysAreNew'
  <2> SUFFICES ASSUME NEW d \in Calls, NEW t \in txns'
               PROVE  KeyOf(t) \notin held'[d]
    BY DEF HeldKeysAreNew, KeyOf
  <2>1. CASE d = c
    BY <1>1, <2>1 DEF LedgerTypeOK
  <2>2. CASE d # c /\ t \in txns
    BY <1>1, <2>2 DEF HeldKeysAreNew, LedgerTypeOK
  <2>3. CASE d # c /\ t = c /\ result[c] = c
    BY <1>1, <1>2, <2>3 DEF HoldsAreExclusive, LedgerTypeOK
  <2> QED
    BY <1>1, <2>1, <2>2, <2>3
<1>7. KeyBeforeCommit'
  <2> SUFFICES ASSUME NEW d \in Calls
               PROVE  KeyBeforeCommit!(d)'
    BY DEF KeyBeforeCommit
  <2>1. CASE d = c
    BY <1>1, <2>1 DEF LedgerTypeOK
  <2>2. CASE d # c
    <3>1. step'[d] = step[d] /\ held'[d] = held[d] /\ stage'[d] = stage[d] /\ result'[d] = result[d]
      BY <1>1, <2>2 DEF LedgerTypeOK
    <3>2. KeyPassed(d)' = KeyPassed(d)
      BY <3>1 DEF KeyPassed
    <3> QED
      BY <3>1, <3>2 DEF KeyBeforeCommit
  <2> QED
    BY <2>1, <2>2
<1>8. AnswersFit'
  BY <1>1 DEF AnswersFit, LedgerTypeOK
<1> QED
  BY <1>3, <1>4, <1>5, <1>6, <1>7, <1>8

LEMMA NextIInv ==
  ASSUME LedgerAssumption, IInv, [Next]_ledgerVars
  PROVE  IInv'
<1>1. CASE UNCHANGED ledgerVars
  <2>1. \A c \in Calls : KeyPassed(c)' = KeyPassed(c)
    BY <1>1 DEF ledgerVars, KeyPassed
  <2> QED
    BY <1>1, <2>1 DEF ledgerVars, IInv, LedgerTypeOK, OneTransactionPerKey, HoldsAreExclusive,
                      HeldKeysAreNew, KeyBeforeCommit, KeyOf, AnswersFit
<1>2. ASSUME NEW c \in Calls, Begin(c) \/ Work(c) \/ Commit(c) \/ Rollback(c)
      PROVE  IInv'
  BY <1>2, ReadKeepsIInv, WriteKeepsIInv, EndKeepsIInv, ReturnKeepsIInv, CommitKeepsIInv DEF Work
<1> QED
  BY <1>1, <1>2 DEF Next

-----------------------------------------------------------------------------
(* The theorems.                                                            *)

\* The inductive invariant holds of every behaviour.
THEOREM KeysAreGuarded == Spec => []IInv
<1>1. Init => IInv
  BY InitIInv, LedgerAssumption
<1>2. IInv /\ [Next]_ledgerVars => IInv'
  BY NextIInv, LedgerAssumption
<1> QED
  BY <1>1, <1>2, PTL DEF Spec

\* However many requests run at once, one idempotency key posts one
\* transaction (ledger_transactions_idempotency_key_key, and the handlers of
\* unique_violation).
THEOREM KeyPostsOnce == Spec => []OneTransactionPerKey
<1>1. IInv => OneTransactionPerKey
  BY DEF IInv
<1> QED
  BY <1>1, KeysAreGuarded, PTL

\* Every variable keeps its type.
THEOREM LedgerTypes == Spec => []LedgerTypeOK
<1>1. IInv => LedgerTypeOK
  BY DEF IInv
<1> QED
  BY <1>1, KeysAreGuarded, PTL

-----------------------------------------------------------------------------
(* The books: a posting that commits has moved every balance by its         *)
(* entries.                                                                 *)

\* What the entries of a plan before k add to an account.
Deltas(c, a) ==
  [i \in DOMAIN Plan(c) |->
     IF Plan(c)[i].what = "row" /\ Plan(c)[i].name = a THEN Plan(c)[i].delta ELSE 0]
MovedBefore(c, a, k) == SumFunctionOnSet(Deltas(c, a), {i \in DOMAIN Plan(c) : i < k})

\* A transaction has written the balances it holds, starting from the committed
\* ones, which nobody else changes meanwhile.
DraftsFit ==
  \A c \in Calls, a \in Accounts :
    IF <<"row", a>> \in held[c]
    THEN draft[c][a] = balance[a] + MovedBefore(c, a, step[c])
    ELSE MovedBefore(c, a, step[c]) = 0

\* Only a posting holds entries; what answers with itself has done its plan.
HoldersPost ==
  \A c \in Calls :
    /\ stage[c] \in {"idle", "find", "funds", "limits"} => held[c] = {}
    /\ stage[c] = "done" /\ result[c] # c => held[c] = {}
    /\ stage[c] = "done" /\ result[c] = c => step[c] \notin DOMAIN Plan(c)

BInv ==
  /\ DraftsFit
  /\ HoldersPost
  /\ IsFiniteSet(txns)
  /\ BalancesMatchEntries

-----------------------------------------------------------------------------
\* Every plan is 1 .. k, so what is before a step is finite.
LEMMA PlanDomain ==
  ASSUME LedgerAssumption, NEW c \in Calls
  PROVE  /\ DOMAIN Plan(c) \subseteq Nat \ {0}
         /\ \A i \in DOMAIN Plan(c), j \in Nat \ {0} : j < i => j \in DOMAIN Plan(c)
         /\ \A k \in Nat : k \notin DOMAIN Plan(c) /\ k > 0 =>
              {i \in DOMAIN Plan(c) : i < k} = DOMAIN Plan(c)
         /\ IsFiniteSet(DOMAIN Plan(c))
<1>1. PICK k \in Nat \ {0} : DOMAIN Plan(c) = 1 .. k
  BY PlanShape
<1>2. IsFiniteSet(1 .. k)
  BY FS_Interval
<1> QED
  BY <1>1, <1>2

\* What a step of a plan moves is an integer.
LEMMA DeltaType ==
  ASSUME LedgerAssumption, NEW c \in Calls, NEW a, NEW i \in DOMAIN Plan(c)
  PROVE  Deltas(c, a)[i] \in Int
BY PlanEntries DEF Deltas

\* The first entry has nothing before it, the next one the entry as well.
LEMMA MovedByEntry ==
  ASSUME LedgerAssumption, NEW c \in Calls, NEW a
  PROVE  /\ MovedBefore(c, a, 1) = 0
         /\ \A k \in DOMAIN Plan(c) :
              /\ MovedBefore(c, a, k) \in Int
              /\ MovedBefore(c, a, k + 1) = MovedBefore(c, a, k) + Deltas(c, a)[k]
<1> DEFINE D(k) == {i \in DOMAIN Plan(c) : i < k}
<1>1. MovedBefore(c, a, 1) = 0
  <2>1. D(1) = {}
    BY PlanDomain
  <2> QED
    BY <2>1, SumEmpty DEF MovedBefore
<1>2. ASSUME NEW k \in DOMAIN Plan(c)
      PROVE  /\ MovedBefore(c, a, k) \in Int
             /\ MovedBefore(c, a, k + 1) = MovedBefore(c, a, k) + Deltas(c, a)[k]
  <2>1. D(k + 1) = D(k) \cup {k} /\ k \notin D(k)
    BY PlanDomain
  <2>2. IsFiniteSet(D(k))
    BY PlanDomain, FS_Subset
  <2>3. \A i \in D(k) \cup {k} : Deltas(c, a)[i] \in Int
    BY DeltaType
  <2> HIDE DEF D
  <2>4. SumFunctionOnSet(Deltas(c, a), D(k)) \in Int
    BY <2>2, <2>3, SumType
  <2>5. SumFunctionOnSet(Deltas(c, a), D(k) \cup {k})
          = Deltas(c, a)[k] + SumFunctionOnSet(Deltas(c, a), D(k))
    BY <2>1, <2>2, <2>3, SumAdd
  <2>6. Deltas(c, a)[k] \in Int
    BY DeltaType
  <2>7. MovedBefore(c, a, k) = SumFunctionOnSet(Deltas(c, a), D(k))
    BY DEF MovedBefore, D
  <2>8. MovedBefore(c, a, k + 1) = SumFunctionOnSet(Deltas(c, a), D(k + 1))
    BY DEF MovedBefore, D
  <2>9. MovedBefore(c, a, k + 1) = Deltas(c, a)[k] + MovedBefore(c, a, k)
    BY <2>1, <2>5, <2>7, <2>8
  <2>10. MovedBefore(c, a, k) \in Int
    BY <2>4, <2>7
  <2> QED
    BY <2>6, <2>9, <2>10
<1> QED
  BY <1>1, <1>2

\* A whole plan adds the entries of the posting.
LEMMA PlanMovesEntries ==
  ASSUME LedgerAssumption, NEW c \in Calls, NEW a \in Accounts, NEW k \in Nat \ {0},
         k \notin DOMAIN Plan(c)
  PROVE  MovedBefore(c, a, k) = EntriesOf(c, a)
<1> DEFINE M(i) == MovedBefore(c, a, i)
           d == Deltas(c, a)
<1>1. ASSUME NEW i \in Nat, i > 0, i \notin DOMAIN Plan(c)
      PROVE  M(i) = M(k)
  <2>1. {j \in DOMAIN Plan(c) : j < i} = {j \in DOMAIN Plan(c) : j < k}
    BY <1>1, PlanDomain
  <2> QED
    BY <2>1 DEF MovedBefore
<1>2. M(1) = 0 /\ \A i \in DOMAIN Plan(c) : M(i) \in Int /\ M(i + 1) = M(i) + d[i]
  BY MovedByEntry
<1>3. /\ Op(c) \in {"CASHIN", "CASHOUT", "P2P"} /\ Amount(c) \in Int /\ FeeOf(c) \in Int
      /\ Wallet(c) \notin FeeAccounts /\ To(c) \notin FeeAccounts
      /\ FeeAccount(c) \in FeeAccounts
  BY DEF LedgerAssumption, Ops, Op, Amount, FeeOf, Wallet, To, FeeAccount, FeeAccounts, SystemAccounts
<1> DEFINE X(e) == IF e.what = "row" /\ e.name = a THEN e.delta ELSE 0
<1>4. \A i \in DOMAIN Plan(c) : d[i] = X(Plan(c)[i])
  BY DEF Deltas
<1> HIDE DEF M, d
<1> USE DEF Seek, New, InsertKey, InsertRef, Delta, Debit, TakeFee
<1>5. CASE Op(c) = "CASHIN"
  <2>1. Plan(c) = CashInPlan(c)
    BY <1>5 DEF Plan
  <2>2. DOMAIN Plan(c) = 1 .. 5
    BY <2>1 DEF CashInPlan
  <2>3. /\ d[1] = 0 /\ d[2] = 0 /\ d[3] = 0 /\ d[4] = 0
        /\ d[5] = IF a = Wallet(c) THEN Amount(c) ELSE 0
    BY <1>4, <2>1, <2>2 DEF CashInPlan
  <2>4. M(6) = 0 + d[1] + d[2] + d[3] + d[4] + d[5]
    BY <1>2, <2>2
  <2>5. M(k) = M(6)
    BY <1>1, <2>2
  <2> QED
    BY <1>3, <1>5, <2>3, <2>4, <2>5 DEF EntriesOf, M
<1>6. CASE Op(c) = "CASHOUT" /\ FeeOf(c) = 0
  <2>1. Plan(c) = CashOutPlan(c)
    BY <1>6 DEF Plan
  <2>2. DOMAIN Plan(c) = 1 .. 4
    BY <1>6, <2>1 DEF CashOutPlan
  <2>3. /\ d[1] = 0 /\ d[2] = 0 /\ d[3] = 0
        /\ d[4] = IF a = Wallet(c) THEN -(Amount(c) + FeeOf(c)) ELSE 0
    BY <1>4, <1>6, <2>1, <2>2 DEF CashOutPlan
  <2>4. M(5) = 0 + d[1] + d[2] + d[3] + d[4]
    BY <1>2, <2>2
  <2>5. M(k) = M(5)
    BY <1>1, <2>2
  <2> QED
    BY <1>3, <1>6, <2>3, <2>4, <2>5 DEF EntriesOf, M
<1>7. CASE Op(c) = "CASHOUT" /\ FeeOf(c) # 0
  <2>1. Plan(c) = CashOutPlan(c)
    BY <1>7 DEF Plan
  <2>2. DOMAIN Plan(c) = 1 .. 7
    BY <1>7, <2>1 DEF CashOutPlan
  <2>3. /\ d[1] = 0 /\ d[2] = 0 /\ d[3] = 0 /\ d[4] = 0 /\ d[5] = 0
        /\ d[6] = IF a = FeeAccount(c) THEN FeeOf(c) ELSE 0
        /\ d[7] = IF a = Wallet(c) THEN -(Amount(c) + FeeOf(c)) ELSE 0
    BY <1>4, <1>7, <2>1, <2>2 DEF CashOutPlan
  <2>4. M(8) = 0 + d[1] + d[2] + d[3] + d[4] + d[5] + d[6] + d[7]
    BY <1>2, <2>2
  <2>5. M(k) = M(8)
    BY <1>1, <2>2
  <2> QED
    BY <1>3, <1>7, <2>3, <2>4, <2>5 DEF EntriesOf, M
<1>8. CASE Op(c) = "P2P" /\ FeeOf(c) = 0
  <2>1. Plan(c) = P2PPlan(c)
    BY <1>8 DEF Plan
  <2>2. DOMAIN Plan(c) = 1 .. 3
    BY <1>8, <2>1 DEF P2PPlan
  <2>3. /\ d[1] = 0
        /\ d[2] = IF a = Wallet(c) THEN -(Amount(c) + FeeOf(c)) ELSE 0
        /\ d[3] = IF a = To(c) THEN Amount(c) ELSE 0
    BY <1>4, <1>8, <2>1, <2>2 DEF P2PPlan
  <2>4. M(4) = 0 + d[1] + d[2] + d[3]
    BY <1>2, <2>2
  <2>5. M(k) = M(4)
    BY <1>1, <2>2
  <2> QED
    BY <1>3, <1>8, <2>3, <2>4, <2>5 DEF EntriesOf, M
<1>9. CASE Op(c) = "P2P" /\ FeeOf(c) # 0
  <2>1. Plan(c) = P2PPlan(c)
    BY <1>9 DEF Plan
  <2>2. DOMAIN Plan(c) = 1 .. 6
    BY <1>9, <2>1 DEF P2PPlan
  <2>3. /\ d[1] = 0 /\ d[2] = 0 /\ d[3] = 0
        /\ d[4] = IF a = FeeAccount(c) THEN FeeOf(c) ELSE 0
        /\ d[5] = IF a = Wallet(c) THEN -(Amount(c) + FeeOf(c)) ELSE 0
        /\ d[6] = IF a = To(c) THEN Amount(c) ELSE 0
    BY <1>4, <1>9, <2>1, <2>2 DEF P2PPlan
  <2>4. M(7) = 0 + d[1] + d[2] + d[3] + d[4] + d[5] + d[6]
    BY <1>2, <2>2
  <2>5. M(k) = M(7)
    BY <1>1, <2>2
  <2> QED
    BY <1>3, <1>9, <2>3, <2>4, <2>5 DEF EntriesOf, M
<1> QED
  BY <1>3, <1>5, <1>6, <1>7, <1>8, <1>9

-----------------------------------------------------------------------------
(* The invariant.                                                           *)

\* At first nothing is posted and nothing moved.
LEMMA InitBInv == LedgerAssumption /\ Init => BInv
<1> SUFFICES ASSUME LedgerAssumption, Init PROVE BInv
  OBVIOUS
<1> USE DEF Init
<1>1. DraftsFit
  BY MovedByEntry DEF DraftsFit
<1>2. HoldersPost
  BY DEF HoldersPost
<1>3. IsFiniteSet(txns)
  BY FS_EmptySet
<1>4. BalancesMatchEntries
  <2> SUFFICES ASSUME NEW a \in Accounts
               PROVE  balance[a] = Opened[a] + SumFunctionOnSet(EntriesTo(a), txns)
    BY DEF BalancesMatchEntries
  <2>1. SumFunctionOnSet(EntriesTo(a), txns) = 0
    BY SumEmpty
  <2>2. Opened[a] \in Int
    BY DEF Opened, LedgerAssumption
  <2> QED
    BY <2>1, <2>2
<1> QED
  BY <1>1, <1>2, <1>3, <1>4 DEF BInv

\* The entries of a posting are integers.
LEMMA EntriesType ==
  ASSUME LedgerAssumption, NEW c \in Calls, NEW a
  PROVE  EntriesOf(c, a) \in Int
<1>1. Amount(c) \in Int /\ FeeOf(c) \in Int
  BY DEF LedgerAssumption, Amount, FeeOf, Op
<1> QED
  BY <1>1 DEF EntriesOf

\* A step that is no commit leaves the books alone; what it does to its own
\* draft has to fit.
LEMMA DraftStepKeepsBInv ==
  ASSUME BInv, NEW c \in Calls, UNCHANGED <<txns, balance>>,
         \A d \in Calls \ {c} : /\ stage'[d] = stage[d] /\ step'[d] = step[d] /\ held'[d] = held[d]
                               /\ draft'[d] = draft[d] /\ result'[d] = result[d],
         \A a \in Accounts : DraftsFit!(c, a)',
         HoldersPost!(c)'
  PROVE  BInv'
<1>1. DraftsFit'
  <2> SUFFICES ASSUME NEW d \in Calls, NEW a \in Accounts
               PROVE  DraftsFit!(d, a)'
    BY DEF DraftsFit
  <2>1. CASE d = c
    BY <2>1
  <2>2. CASE d # c
    BY <2>2 DEF BInv, DraftsFit, MovedBefore
  <2> QED
    BY <2>1, <2>2
<1>2. HoldersPost'
  BY DEF BInv, HoldersPost
<1>3. IsFiniteSet(txns)' /\ BalancesMatchEntries'
  BY DEF BInv, BalancesMatchEntries
<1> QED
  BY <1>1, <1>2, <1>3 DEF BInv

\* A step of a transaction that is open moves its own draft only.
LEMMA WorkKeepsBInv ==
  ASSUME LedgerAssumption, IInv, BInv, NEW c \in Calls,
         Begin(c) \/ Work(c) \/ Rollback(c)
  PROVE  BInv'
<1> USE DEF IInv, LedgerTypeOK
<1>0. \A a : MovedBefore(c, a, 1) = 0
  BY MovedByEntry
<1>1. CASE Begin(c) \/ Find(c) \/ Funds(c) \/ Limits(c)
  <2>1. /\ UNCHANGED <<step, held, draft, txns, balance>>
        /\ stage[c] \in {"idle", "find", "funds", "limits"}
        /\ stage' = [stage EXCEPT ![c] = stage'[c]]
        /\ result' = [result EXCEPT ![c] = result'[c]]
        /\ stage'[c] = "done" => result'[c] = Answer(c)
    BY <1>1 DEF Begin, Find, Funds, Limits, Check
  <2>2. held[c] = {} /\ step[c] = 1
    BY <2>1 DEF BInv, HoldersPost, KeyBeforeCommit
  <2>3. c \notin txns /\ Answer(c) # c
    BY <2>1, AnswerOfKey DEF AnswersFit, LedgerAssumption
  <2>4. \A a \in Accounts : DraftsFit!(c, a)'
    BY <1>0, <2>1, <2>2 DEF MovedBefore
  <2>5. HoldersPost!(c)'
    BY <2>1, <2>2, <2>3
  <2> QED
    BY <2>1, <2>4, <2>5, DraftStepKeepsBInv
<1>2. CASE UniqueViolation(c) \/ Rollback(c)
  <2>1. /\ UNCHANGED <<txns, balance>>
        /\ step' = [step EXCEPT ![c] = 1]
        /\ held' = [held EXCEPT ![c] = {}]
        /\ draft' = [draft EXCEPT ![c] = NoDraft]
        /\ stage' = [stage EXCEPT ![c] = stage'[c]]
        /\ result' = [result EXCEPT ![c] = result'[c]]
        /\ stage'[c] = "done" => result'[c] = Answer(c)
        /\ stage[c] \notin {"idle", "committed", "failed"}
    BY <1>2 DEF UniqueViolation, Rollback, Release, At
  <2>2. c \notin txns /\ Answer(c) # c
    BY <2>1, AnswerOfKey DEF AnswersFit, LedgerAssumption
  <2>3. \A a \in Accounts : DraftsFit!(c, a)'
    BY <1>0, <2>1 DEF MovedBefore
  <2>4. HoldersPost!(c)'
    BY <2>1, <2>2
  <2> QED
    BY <2>1, <2>3, <2>4, DraftStepKeepsBInv
<1>3. CASE Return(c)
  <2>1. /\ UNCHANGED <<step, held, draft, txns, balance>>
        /\ stage' = [stage EXCEPT ![c] = "done"]
        /\ result' = [result EXCEPT ![c] = c]
        /\ step[c] \notin DOMAIN Plan(c)
    BY <1>3 DEF Return
  <2>2. ASSUME NEW a \in Accounts PROVE DraftsFit!(c, a)'
    <3>1. DraftsFit!(c, a)
      BY DEF BInv, DraftsFit
    <3> QED
      BY <2>1, <3>1 DEF MovedBefore
  <2>3. HoldersPost!(c)'
    BY <2>1
  <2> QED
    BY <2>1, <2>2, <2>3, DraftStepKeepsBInv
<1>4. CASE SeekAccount(c) \/ Insert(c)
  <2> DEFINE k == step[c]
  <2>1. /\ UNCHANGED <<stage, draft, result, txns, balance>>
        /\ stage[c] = "post" /\ k \in DOMAIN Plan(c) /\ k \in Nat
        /\ Plan(c)[k].what \in {"seek", "account", "key", "ref"}
        /\ held' = held \/ held' = [held EXCEPT ![c] = @ \cup {Resource(Entry(c))}]
        /\ \/ step' = [step EXCEPT ![c] = @ + 1]
           \/ Plan(c)[k].what = "seek" /\ step' = [step EXCEPT ![c] = @ + 2]
    BY <1>4 DEF SeekAccount, Insert, At, Entry
  <2>2. \A a \in Accounts : <<"row", a>> \in held'[c] <=> <<"row", a>> \in held[c]
    BY <2>1 DEF Resource, Entry
  <2>3. ASSUME NEW a \in Accounts
        PROVE  MovedBefore(c, a, step'[c]) = MovedBefore(c, a, k)
    <3>1. MovedBefore(c, a, k) \in Int /\ MovedBefore(c, a, k + 1) = MovedBefore(c, a, k)
      <4>1. Deltas(c, a)[k] = 0
        BY <2>1 DEF Deltas
      <4>2. /\ MovedBefore(c, a, k) \in Int
            /\ MovedBefore(c, a, k + 1) = MovedBefore(c, a, k) + Deltas(c, a)[k]
        BY <2>1, MovedByEntry
      <4> QED
        BY <4>1, <4>2
    <3>2. CASE step'[c] = k + 1
      BY <3>1, <3>2
    <3>3. CASE Plan(c)[k].what = "seek" /\ step'[c] = k + 2
      <4>1. k + 1 \in DOMAIN Plan(c) /\ Plan(c)[k + 1].what = "account"
        BY <2>1, <3>3, PlanShape
      <4>2. Deltas(c, a)[k + 1] = 0
        BY <4>1 DEF Deltas
      <4>3. MovedBefore(c, a, (k + 1) + 1) = MovedBefore(c, a, k + 1) + Deltas(c, a)[k + 1]
        BY <4>1, MovedByEntry
      <4>4. (k + 1) + 1 = step'[c]
        BY <2>1, <3>3
      <4> QED
        BY <3>1, <4>2, <4>3, <4>4
    <3> QED
      BY <2>1, <3>2, <3>3
  <2>4. \A a \in Accounts : DraftsFit!(c, a)'
    BY <2>1, <2>2, <2>3 DEF BInv, DraftsFit, MovedBefore
  <2>5. HoldersPost!(c)'
    BY <2>1
  <2> QED
    BY <2>1, <2>4, <2>5, DraftStepKeepsBInv
<1>5. CASE UpdateRow(c)
  <2> DEFINE k == step[c]
             e == Entry(c)
             seen == IF Resource(e) \in held[c] THEN draft[c][e.name] ELSE balance[e.name]
  <2>1. /\ UNCHANGED <<stage, result, txns, balance>>
        /\ stage[c] = "post" /\ k \in DOMAIN Plan(c) /\ k \in Nat
        /\ e.what = "row" /\ e = Plan(c)[k]
        /\ held' = [held EXCEPT ![c] = @ \cup {Resource(e)}]
        /\ draft' = [draft EXCEPT ![c][e.name] = seen + e.delta]
        /\ step' = [step EXCEPT ![c] = @ + 1]
    BY <1>5 DEF UpdateRow, At, Entry
  <2>2. e.name \in Accounts /\ e.delta \in Int /\ Resource(e) = <<"row", e.name>>
    BY <2>1, PlanEntries DEF Resource
  <2> HIDE DEF e, seen
  <2>3. ASSUME NEW a \in Accounts
        PROVE  DraftsFit!(c, a)'
    <3>1. /\ MovedBefore(c, a, k) \in Int
          /\ MovedBefore(c, a, k + 1)
               = MovedBefore(c, a, k) + (IF a = e.name THEN e.delta ELSE 0)
      <4>1. Deltas(c, a)[k] = IF a = e.name THEN e.delta ELSE 0
        BY <2>1 DEF Deltas
      <4>2. /\ MovedBefore(c, a, k) \in Int
            /\ MovedBefore(c, a, k + 1) = MovedBefore(c, a, k) + Deltas(c, a)[k]
        BY <2>1, MovedByEntry
      <4> QED
        BY <4>1, <4>2
    <3>2. (MovedBefore(c, a, step[c]))' = MovedBefore(c, a, k + 1)
      BY <2>1 DEF MovedBefore, Deltas
    <3>3. DraftsFit!(c, a)
      BY DEF BInv, DraftsFit
    <3>4. balance[a] \in Int /\ balance'[a] = balance[a]
      BY <2>1
    <3>5. CASE a = e.name
      <4>1. <<"row", a>> \in held'[c] /\ draft'[c][a] = seen + e.delta
        BY <2>1, <2>2, <3>5
      <4>2. seen = balance[a] + MovedBefore(c, a, k)
        BY <2>2, <3>1, <3>3, <3>4, <3>5 DEF seen
      <4> QED
        BY <2>2, <3>1, <3>2, <3>4, <3>5, <4>1, <4>2
    <3>6. CASE a # e.name
      <4>1. /\ <<"row", a>> \in held'[c] <=> <<"row", a>> \in held[c]
            /\ draft'[c][a] = draft[c][a]
        BY <2>1, <2>2, <3>6
      <4> QED
        BY <3>1, <3>2, <3>3, <3>4, <3>6, <4>1
    <3> QED
      BY <3>5, <3>6
  <2>4. HoldersPost!(c)'
    BY <2>1
  <2> QED
    BY <2>1, <2>3, <2>4, DraftStepKeepsBInv
<1> QED
  BY <1>1, <1>2, <1>3, <1>4, <1>5 DEF Work

\* A commit is a posting in one step, or leaves the books alone.
LEMMA CommitPosts ==
  ASSUME LedgerAssumption, IInv, BInv, NEW c \in Calls, Commit(c)
  PROVE  IF result[c] = c
         THEN c \notin txns /\ Books!Post(c)
         ELSE UNCHANGED <<txns, balance>>
<1> USE DEF IInv, LedgerTypeOK
<1>1. /\ stage[c] = "done"
      /\ txns' = IF result[c] = c THEN txns \cup {c} ELSE txns
      /\ balance' = [a \in Accounts |-> IF <<"row", a>> \in held[c] THEN draft[c][a] ELSE balance[a]]
  BY DEF Commit
<1>2. CASE result[c] = c
  <2>1. c \notin txns
    BY <1>1 DEF AnswersFit
  <2>2. \A t \in txns : Key(t) # Key(c)
    BY <1>1, <1>2 DEF KeyBeforeCommit, HeldKeysAreNew, KeyOf
  <2>3. ASSUME NEW a \in Accounts
        PROVE  balance'[a] = balance[a] + EntriesOf(c, a)
    <3>1. MovedBefore(c, a, step[c]) = EntriesOf(c, a)
      BY <1>1, <1>2, PlanMovesEntries DEF BInv, HoldersPost
    <3> QED
      BY <1>1, <3>1 DEF BInv, DraftsFit
  <2> DEFINE Entries == [t \in Calls |-> [a \in Accounts |-> EntriesOf(t, a)]]
             KeysOf == [t \in Calls |-> Key(t)]
  <2>4. balance' = [a \in Accounts |-> balance[a] + Entries[c][a]]
    BY <1>1, <2>3
  <2>5. \A t \in txns : KeysOf[t] # KeysOf[c]
    BY <2>2
  <2> QED
    BY <1>1, <1>2, <2>1, <2>4, <2>5 DEF Books!Post
<1>3. CASE result[c] # c
  <2>1. held[c] = {}
    BY <1>1, <1>3 DEF BInv, HoldersPost
  <2> QED
    BY <1>1, <1>3, <2>1
<1> QED
  BY <1>2, <1>3

\* A commit posts its entries and the balances that go with them.
LEMMA CommitKeepsBInv ==
  ASSUME LedgerAssumption, IInv, BInv, NEW c \in Calls, Commit(c)
  PROVE  BInv'
<1> USE DEF IInv, LedgerTypeOK
<1>1. /\ stage[c] = "done"
      /\ step' = [step EXCEPT ![c] = 1]
      /\ held' = [held EXCEPT ![c] = {}]
      /\ draft' = [draft EXCEPT ![c] = NoDraft]
      /\ stage' = [stage EXCEPT ![c] = "committed"]
      /\ UNCHANGED result
      /\ balance' = [a \in Accounts |-> IF <<"row", a>> \in held[c] THEN draft[c][a] ELSE balance[a]]
  BY DEF Commit, Release
<1>2. DraftsFit'
  <2> SUFFICES ASSUME NEW d \in Calls, NEW a \in Accounts
               PROVE  DraftsFit!(d, a)'
    BY DEF DraftsFit
  <2>1. CASE d = c
    BY <1>1, <2>1, MovedByEntry DEF MovedBefore
  <2>2. CASE d # c
    <3>1. <<"row", a>> \in held[d] => balance'[a] = balance[a]
      BY <1>1, <2>2 DEF HoldsAreExclusive
    <3>2. held'[d] = held[d] /\ draft'[d] = draft[d] /\ step'[d] = step[d]
      BY <1>1, <2>2
    <3> QED
      BY <3>1, <3>2 DEF BInv, DraftsFit, MovedBefore
  <2> QED
    BY <2>1, <2>2
<1>3. HoldersPost'
  BY <1>1 DEF BInv, HoldersPost
<1>4. CASE result[c] = c
  <2>1. c \notin txns /\ txns' = txns \cup {c}
    BY <1>4, CommitPosts DEF Commit
  <2>2. IsFiniteSet(txns')
    BY <2>1, FS_AddElement DEF BInv
  <2>3. ASSUME NEW a \in Accounts
        PROVE  balance'[a] = Opened[a] + SumFunctionOnSet(EntriesTo(a), txns')
    <3>1. balance'[a] = balance[a] + EntriesOf(c, a)
      BY <1>4, CommitPosts DEF Books!Post
    <3>2. EntriesTo(a)[c] = EntriesOf(c, a) /\ \A t \in txns' : EntriesTo(a)[t] \in Int
      BY <2>1, EntriesType DEF EntriesTo
    <3>3. SumFunctionOnSet(EntriesTo(a), txns')
            = EntriesTo(a)[c] + SumFunctionOnSet(EntriesTo(a), txns)
      BY <2>1, <3>2, SumAdd DEF BInv
    <3>4. SumFunctionOnSet(EntriesTo(a), txns) \in Int
      BY <2>1, <3>2, SumType DEF BInv
    <3>5. Opened[a] \in Int /\ EntriesOf(c, a) \in Int
      BY EntriesType DEF Opened, LedgerAssumption
    <3> QED
      BY <3>1, <3>2, <3>3, <3>4, <3>5 DEF BInv, BalancesMatchEntries
  <2>4. BalancesMatchEntries'
    BY <2>3 DEF BalancesMatchEntries, EntriesTo, EntriesOf, Opened
  <2> QED
    BY <1>2, <1>3, <2>2, <2>4 DEF BInv
<1>5. CASE result[c] # c
  <2>1. UNCHANGED <<txns, balance>>
    BY <1>5, CommitPosts
  <2> QED
    BY <1>2, <1>3, <2>1 DEF BInv, BalancesMatchEntries
<1> QED
  BY <1>4, <1>5

\* Every step keeps the books.
LEMMA NextBInv ==
  ASSUME LedgerAssumption, IInv, BInv, [Next]_ledgerVars
  PROVE  BInv'
<1>1. CASE UNCHANGED ledgerVars
  BY <1>1 DEF ledgerVars, BInv, DraftsFit, HoldersPost, BalancesMatchEntries, MovedBefore
<1>2. CASE Next
  BY <1>2, WorkKeepsBInv, CommitKeepsBInv DEF Next
<1> QED
  BY <1>1, <1>2

\* Drafts fit the committed balances, and these the entries.
THEOREM BooksAreKept == Spec => []BInv
<1>1. Init => BInv
  BY InitBInv, LedgerAssumption
<1>2. IInv /\ BInv /\ [Next]_ledgerVars => BInv'
  BY NextBInv, LedgerAssumption
<1> QED
  BY <1>1, <1>2, KeysAreGuarded, PTL DEF Spec

\* The cached balance of every account is the sum of its entries
\* (services/ledger_invariants.py), whatever runs at once.
THEOREM BalancesMatch == Spec => []BalancesMatchEntries
<1>1. BInv => BalancesMatchEntries
  BY DEF BInv
<1> QED
  BY <1>1, BooksAreKept, PTL

\* The ledger implements a ledger that posts in one step.
THEOREM PostingIsAtomic == Spec => PostsAtomically
<1>1. Init => Books!Init
  BY DEF Init, Books!Init
<1>2. IInv /\ BInv /\ [Next]_ledgerVars => [Books!Next]_<<txns, balance>>
  <2> SUFFICES ASSUME IInv, BInv, Next, ~UNCHANGED <<txns, balance>>
               PROVE  Books!Next
    BY DEF ledgerVars
  <2>1. PICK c \in Calls : Begin(c) \/ Work(c) \/ Commit(c) \/ Rollback(c)
    BY DEF Next
  <2>2. Commit(c)
    BY <2>1 DEF Begin, Work, Rollback, Find, Funds, Limits, Check, SeekAccount, Insert, UpdateRow,
                UniqueViolation, Return
  <2> QED
    BY <2>2, CommitPosts, LedgerAssumption DEF Books!Next
<1> QED
  BY <1>1, <1>2, KeysAreGuarded, BooksAreKept, PTL DEF Spec, PostsAtomically, Books!Spec

-----------------------------------------------------------------------------
(* Money.  Balances are summed over the accounts, entries over the           *)
(* transactions; a posting changes both sums by what it brings, because its  *)
(* entries cancel but for that.                                              *)

\* The sum of two functions sums to the two sums.
LEMMA SumPlus ==
  ASSUME NEW f, NEW g, NEW h, NEW S, IsFiniteSet(S),
         \A x \in S : f[x] \in Int /\ g[x] \in Int /\ h[x] = f[x] + g[x]
  PROVE  SumFunctionOnSet(h, S) = SumFunctionOnSet(f, S) + SumFunctionOnSet(g, S)
<1> DEFINE Sum(k, T) == SumFunctionOnSet(k, T)
           Bad == {T \in SUBSET S : Sum(h, T) # Sum(f, T) + Sum(g, T)}
<1>1. ASSUME NEW T \in Bad, \A U \in Bad : U \subseteq T => U = T
      PROVE  FALSE
  <2>1. T \in SUBSET S /\ Sum(h, T) # Sum(f, T) + Sum(g, T)
    OBVIOUS
  <2>2. IsFiniteSet(T)
    BY <2>1, FS_Subset
  <2>3. T # {}
    <3>1. Sum(f, {}) = 0 /\ Sum(g, {}) = 0 /\ Sum(h, {}) = 0
      BY SumEmpty
    <3> HIDE DEF Sum, Bad
    <3> QED
      BY <2>1, <3>1
  <2> DEFINE z == Some(T)
             R == T \ {z}
  <2>4. /\ z \in T /\ Sum(f, T) = f[z] + Sum(f, R)
        /\ Sum(g, T) = g[z] + Sum(g, R) /\ Sum(h, T) = h[z] + Sum(h, R)
    BY <2>2, <2>3, SumStep
  <2> HIDE DEF z
  <2>5. R \in SUBSET S /\ R \notin Bad /\ IsFiniteSet(R)
    BY <1>1, <2>1, <2>2, <2>4, FS_Subset
  <2>6. Sum(f, R) \in Int /\ Sum(g, R) \in Int
    <3>1. \A x \in R : f[x] \in Int /\ g[x] \in Int
      BY <2>5
    <3> QED
      BY <2>5, <3>1, SumType
  <2>7. Sum(h, R) = Sum(f, R) + Sum(g, R)
    BY <2>5
  <2>8. f[z] \in Int /\ g[z] \in Int /\ h[z] = f[z] + g[z]
    BY <2>1, <2>4
  <2> HIDE DEF Sum, Bad, R
  <2> QED
    BY <2>1, <2>4, <2>6, <2>7, <2>8
<1>2. Bad \in SUBSET (SUBSET S)
  OBVIOUS
<1>3. Bad = {}
  <2> HIDE DEF Bad
  <2> QED
    BY <1>1, <1>2, MinimalSet
<1> QED
  BY <1>3

\* A function that is zero but at one element sums to what it is there.
LEMMA SumPoint ==
  ASSUME NEW f, NEW S, IsFiniteSet(S), NEW x \in S, f[x] \in Int,
         \A y \in S \ {x} : f[y] = 0
  PROVE  SumFunctionOnSet(f, S) = f[x]
<1> DEFINE R == S \ {x}
           rest == SumFunctionOnSet(f, R)
<1>1. IsFiniteSet(R)
  BY FS_Subset
<1>2. \A y \in R : f[y] \in Int /\ f[y] = f[y] + f[y]
  OBVIOUS
<1>3. rest \in Int
  BY <1>1, <1>2, SumType
<1>4. rest = rest + rest
  BY <1>1, <1>2, SumPlus
<1>5. SumFunctionOnSet(f, S) = f[x] + rest
  BY SumRemove
<1> HIDE DEF rest
<1> QED
  BY <1>3, <1>4, <1>5

\* There are finitely many accounts.
LEMMA AccountsFinite ==
  ASSUME IsFiniteSet(Wallets)
  PROVE  IsFiniteSet(Accounts)
<1>1. IsFiniteSet({"FEES_CASHOUT"}) /\ IsFiniteSet({"FEES_P2P"})
  BY FS_Singleton
<1>2. IsFiniteSet({"FEES_CASHOUT"} \cup {"FEES_P2P"})
  BY <1>1, FS_Union
<1>3. FeeAccounts = {"FEES_CASHOUT"} \cup {"FEES_P2P"}
  BY DEF FeeAccounts
<1> QED
  BY <1>2, <1>3, FS_Union DEF Accounts

\* The entries of a transaction cancel but for what it brings.
LEMMA EntriesCancel ==
  ASSUME LedgerAssumption, IsFiniteSet(Wallets), NEW c \in Calls
  PROVE  SumFunctionOnSet([a \in Accounts |-> EntriesOf(c, a)], Accounts) = Brought[c]
<1> DEFINE credit == IF Op(c) = "P2P" THEN To(c) ELSE Wallet(c)
           In == [a \in Accounts |-> IF Op(c) # "CASHOUT" /\ a = credit THEN Amount(c) ELSE 0]
           Out == [a \in Accounts |->
                     IF Op(c) # "CASHIN" /\ a = Wallet(c) THEN -(Amount(c) + FeeOf(c)) ELSE 0]
           Fees == [a \in Accounts |->
                      IF Op(c) # "CASHIN" /\ a = FeeAccount(c) THEN FeeOf(c) ELSE 0]
           Net == [a \in Accounts |-> In[a] + Out[a]]
           All == [a \in Accounts |-> EntriesOf(c, a)]
           Sum(f) == SumFunctionOnSet(f, Accounts)
<1>0. IsFiniteSet(Accounts)
  BY AccountsFinite
<1>1. /\ Op(c) \in {"CASHIN", "CASHOUT", "P2P"}
      /\ Amount(c) \in Int /\ FeeOf(c) \in Int
      /\ credit \in Accounts /\ Wallet(c) \in Accounts /\ FeeAccount(c) \in Accounts
  BY DEF LedgerAssumption, Op, Ops, Amount, FeeOf, Wallet, To, FeeAccount, FeeAccounts, Accounts
<1> HIDE DEF credit
<1>2. Sum(In) = IF Op(c) # "CASHOUT" THEN Amount(c) ELSE 0
  <2>1. In[credit] \in Int /\ \A y \in Accounts \ {credit} : In[y] = 0
    BY <1>1
  <2> HIDE DEF In
  <2>2. Sum(In) = In[credit]
    BY <1>0, <1>1, <2>1, SumPoint
  <2> QED
    BY <1>1, <2>2 DEF In
<1>3. Sum(Out) = IF Op(c) # "CASHIN" THEN -(Amount(c) + FeeOf(c)) ELSE 0
  <2>1. Out[Wallet(c)] \in Int /\ \A y \in Accounts \ {Wallet(c)} : Out[y] = 0
    BY <1>1
  <2> HIDE DEF Out
  <2>2. Sum(Out) = Out[Wallet(c)]
    BY <1>0, <1>1, <2>1, SumPoint
  <2> QED
    BY <1>1, <2>2 DEF Out
<1>4. Sum(Fees) = IF Op(c) # "CASHIN" THEN FeeOf(c) ELSE 0
  <2>1. Fees[FeeAccount(c)] \in Int /\ \A y \in Accounts \ {FeeAccount(c)} : Fees[y] = 0
    BY <1>1
  <2> HIDE DEF Fees
  <2>2. Sum(Fees) = Fees[FeeAccount(c)]
    BY <1>0, <1>1, <2>1, SumPoint
  <2> QED
    BY <1>1, <2>2 DEF Fees
<1>5. \A a \in Accounts : In[a] \in Int /\ Out[a] \in Int /\ Net[a] = In[a] + Out[a]
  BY <1>1
<1>6. \A a \in Accounts : Net[a] \in Int /\ Fees[a] \in Int /\ All[a] = Net[a] + Fees[a]
  BY <1>1 DEF EntriesOf, credit
<1> HIDE DEF In, Out, Fees, Net, All
<1>7. Sum(Net) = Sum(In) + Sum(Out) /\ Sum(All) = Sum(Net) + Sum(Fees)
  BY <1>0, <1>5, <1>6, SumPlus
<1>8. Brought[c] = IF Op(c) = "CASHIN" THEN Amount(c)
                   ELSE IF Op(c) = "CASHOUT" THEN -Amount(c) ELSE 0
  BY <1>1 DEF Brought
<1>9. Sum(All) = Brought[c]
  BY <1>1, <1>2, <1>3, <1>4, <1>7, <1>8
<1> QED
  BY <1>9 DEF All

\* A posting adds to the balances what it brings.
LEMMA PostKeepsMoney ==
  ASSUME LedgerAssumption, IsFiniteSet(Wallets), IInv, BInv, MoneyIsConserved,
         NEW c \in Calls, c \notin txns, Books!Post(c)
  PROVE  MoneyIsConserved'
<1> DEFINE Sum(f) == SumFunctionOnSet(f, Accounts)
           mine == [a \in Accounts |-> EntriesOf(c, a)]
<1>0. IsFiniteSet(Accounts) /\ IsFiniteSet(txns)
  BY AccountsFinite DEF BInv
<1>1. /\ txns' = txns \cup {c}
      /\ \A a \in Accounts : balance'[a] = balance[a] + mine[a]
  BY DEF Books!Post
<1>2. \A a \in Accounts : balance[a] \in Int /\ mine[a] \in Int /\ Opened[a] \in Int
  BY EntriesType DEF IInv, LedgerTypeOK, Opened, LedgerAssumption
<1>3. Sum(mine) = Brought[c]
  BY EntriesCancel
<1> HIDE DEF mine
<1>4. Sum(balance') = Sum(balance) + Sum(mine)
  BY <1>0, <1>1, <1>2, SumPlus
<1>5. \A t \in Calls : Brought[t] \in Int
  BY DEF Brought, LedgerAssumption, Op, Ops, Amount
<1>6. SumFunctionOnSet(Brought, txns') = Brought[c] + SumFunctionOnSet(Brought, txns)
  <2>1. \A t \in txns \cup {c} : Brought[t] \in Int
    BY <1>5 DEF IInv, LedgerTypeOK
  <2> QED
    BY <1>0, <1>1, <2>1, SumAdd
<1>7. Sum(Opened) \in Int /\ SumFunctionOnSet(Brought, txns) \in Int /\ Brought[c] \in Int
  <2>1. \A t \in txns : Brought[t] \in Int
    BY <1>5 DEF IInv, LedgerTypeOK
  <2> QED
    BY <1>0, <1>2, <1>5, <2>1, SumType
<1>8. Sum(balance) = Sum(Opened) + SumFunctionOnSet(Brought, txns)
  BY DEF MoneyIsConserved
<1>9. Sum(balance') = Sum(Opened) + SumFunctionOnSet(Brought, txns')
  BY <1>3, <1>4, <1>6, <1>7, <1>8
<1> QED
  BY <1>9 DEF MoneyIsConserved, Opened, Brought

\* No money is made or lost, for any wallets, fees and calls: all balances
\* together are what the posted cash-ins brought and the cash-outs left
\* (post_cash_in_momo, post_cash_out_momo, post_p2p_transfer).
THEOREM MoneyStays ==
  ASSUME IsFiniteSet(Wallets)
  PROVE  Spec => []MoneyIsConserved
<1>1. Init => MoneyIsConserved
  <2> SUFFICES ASSUME Init PROVE MoneyIsConserved
    OBVIOUS
  <2>1. \A a \in Accounts : Opened[a] \in Int
    BY LedgerAssumption DEF LedgerAssumption, Opened
  <2>2. SumFunctionOnSet(Opened, Accounts) \in Int
    BY <2>1, AccountsFinite, SumType
  <2>3. SumFunctionOnSet(Brought, {}) = 0
    BY SumEmpty
  <2> QED
    BY <2>2, <2>3 DEF Init, MoneyIsConserved
<1>2. IInv /\ BInv /\ MoneyIsConserved /\ [Next]_ledgerVars => MoneyIsConserved'
  <2> SUFFICES ASSUME IInv, BInv, MoneyIsConserved, [Next]_ledgerVars
               PROVE  MoneyIsConserved'
    OBVIOUS
  <2>1. CASE UNCHANGED <<txns, balance>>
    BY <2>1 DEF MoneyIsConserved, Opened, Brought
  <2>2. CASE ~UNCHANGED <<txns, balance>>
    <3>1. PICK c \in Calls : Commit(c)
      BY <2>2 DEF ledgerVars, Next, Begin, Work, Rollback, Find, Funds, Limits, Check,
                  SeekAccount, Insert, UpdateRow, UniqueViolation, Return
    <3>2. c \notin txns /\ Books!Post(c)
      BY <2>2, <3>1, CommitPosts, LedgerAssumption
    <3> QED
      BY <3>2, PostKeepsMoney, LedgerAssumption
  <2> QED
    BY <2>1, <2>2
<1> QED
  BY <1>1, <1>2, KeysAreGuarded, BooksAreKept, PTL DEF Spec
=============================================================================
