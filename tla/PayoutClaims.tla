---------------------------- MODULE PayoutClaims ----------------------------
(* What comments, tests and the runbook say of payouts, and the code does    *)
(* not keep: each of these is the property of a run that must find it broken. *)
EXTENDS MCPayouts

\* A provider that keeps failing in a retryable way is tried again until the
\* attempts run out: no payout stays SENT for ever.
RetryableFailuresConclude ==
  \A p \in Payouts : (row[p].status = "SENT") ~> (row[p].status \in Terminal)

\* The retry endpoint refuses a payout that is CONFIRMED.
ConfirmedIsNotRetried ==
  [][\A a \in Admins, p \in Payouts :
       RetryWrite(a, p) => row[p].status # "CONFIRMED"]_vars

\* A failure the Thunes adapter calls temporary does not end a payout whose
\* transfer is under way or paid.
FailedMeansNoMoneyMoves ==
  \A p \in Payouts : row[p].status = "FAILED" => Money(p) \in {"none", "bounced"}
=============================================================================
