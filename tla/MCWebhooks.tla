----------------------------- MODULE MCWebhooks -----------------------------
(* Instances of Webhooks for TLC.                                            *)
EXTENDS Webhooks

CONSTANTS tmoney, thunes   \* a payout of each adapter

KindByName == [p \in Payouts |-> IF p = thunes THEN "THUNES" ELSE "TMONEY"]
OwnRefs == [p \in Payouts |-> p]
AllKinds == Kinds


\* A message in order, and one for each reason to refuse it; those that are
\* kept whole can be replayed.
Sound == [route |-> "TMONEY", secret |-> TRUE, signature |-> "valid", shape |-> "plain"]
Empty == [Sound EXCEPT !.shape = "no object"]
EveryReason ==
  {Sound, Empty, [Sound EXCEPT !.signature = "wrong"], [Empty EXCEPT !.signature = "none"],
   [Empty EXCEPT !.secret = FALSE]}
    \cup {[Sound EXCEPT !.shape = s] : s \in {"event", "no status", "no refs"}}
    \cup {[Sound EXCEPT !.route = "THUNES", !.signature = "none"]}
=============================================================================
