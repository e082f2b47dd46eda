----------------------------- MODULE MCPayouts -----------------------------
(* Instances of Payouts for TLC: payouts named after the adapter they use.   *)
EXTENDS Payouts, TLC

CONSTANTS
  tmoney, flooz, momo, thunes, legacy, mtn,   \* payouts of each adapter
  twin,                                \* T-Money, beside tmoney
  blank,                               \* T-Money, posted with a blank reference
  nophone,                             \* T-Money, without a phone number
  unsupported                          \* a provider without an adapter

AllKinds == Kinds

KindByName ==
  [p \in Payouts |-> CASE p \in {tmoney, twin, blank, nophone} -> "TMONEY"
                       [] p = flooz -> "FLOOZ"
                       [] p = momo -> "MOMO"
                       [] p = thunes -> "THUNES"
                       [] p = legacy -> "LEGACY"
                       [] p = mtn -> "MTN"
                       [] p = unsupported -> "OTHER"]

NoPhone == Payouts \cap {nophone}

\* Every payout is posted with a reference of its own, blank with none.
OwnRefs == [p \in Payouts |-> IF p = blank THEN None ELSE p]

\* A client that brings one reference with two cash-outs.
Sharers == Payouts \cap {tmoney, twin}
SharedRefs == [p \in Payouts |-> IF p \in Sharers THEN tmoney ELSE OwnRefs[p]]

Interchangeable == Permutations(Workers)

\* Payouts that do not share a batch or a reference do not meet: explore the
\* lives of all of them, one at a time.
Present == {p \in Payouts : row[p].status # "ABSENT"}
OneAtATime == Cardinality(Present) <= 1

\* Those that share a reference are explored together, with one worker, two
\* submissions, no fault and no forced retry.
MaxShared == 2
Together ==
  /\ Present \subseteq Sharers
  /\ Cardinality({w \in Workers : \E p \in Payouts : lock[p] = w}) <= 1
  /\ \A p \in Present : sends[p] <= MaxShared /\ row[p].attempts <= MaxShared
  /\ faults = 0 /\ \A a \in Admins : retry[a] = None

Explored == OneAtATime \/ Together
=============================================================================
