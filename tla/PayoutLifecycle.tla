--------------------------- MODULE PayoutLifecycle ---------------------------
(***************************************************************************)
(* What a cash-out promises a customer, without rows, workers, retries or  *)
(* webhooks: the payout waits until it is told CONFIRMED or FAILED, its    *)
(* money leaves once and only while it waits, CONFIRMED means paid, and    *)
(* what was told stays told.                                               *)
(***************************************************************************)
CONSTANT Payouts

VARIABLE payout   \* what each payout was told, and where its money is

State == [told : {"ABSENT", "waiting", "CONFIRMED", "FAILED"},
          money : {"none", "moving", "paid", "bounced"}]

Init == payout = [p \in Payouts |-> [told |-> "ABSENT", money |-> "none"]]

Opens(s, t) == s.told = "ABSENT" /\ t = [s EXCEPT !.told = "waiting"]

\* A provider takes the money along, or pays at once.
Leaves(s, t) ==
  /\ s.told = "waiting" /\ s.money = "none"
  /\ \E m \in {"moving", "paid"} : t = [s EXCEPT !.money = m]

\* The provider settles, whatever the customer was told meanwhile.
Settles(s, t) ==
  /\ s.money = "moving"
  /\ \E m \in {"paid", "bounced"} : t = [s EXCEPT !.money = m]

Confirms(s, t) ==
  /\ s.told = "waiting" /\ s.money = "paid"
  /\ t = [s EXCEPT !.told = "CONFIRMED"]

Fails(s, t) == s.told = "waiting" /\ t = [s EXCEPT !.told = "FAILED"]

Step(s, t) == Opens(s, t) \/ Leaves(s, t) \/ Settles(s, t) \/ Confirms(s, t) \/ Fails(s, t)

\* One worker transaction may conclude several payouts.
Next ==
  /\ payout' \in [Payouts -> State]
  /\ \A p \in Payouts : payout'[p] = payout[p] \/ Step(payout[p], payout'[p])

Spec == Init /\ [][Next]_payout
=============================================================================
