------------------------------ MODULE MCSessions ------------------------------
(* Instances of Sessions for TLC.                                            *)
EXTENDS Sessions, TLC

CONSTANTS old, new, stranger,   \* addresses: registered, invited, not invited
          phone1, phone2, phone3

EmailOfOld == [u \in Old |-> old]
PhoneOfOld == [u \in Old |-> phone1]

AuthLimit == [g \in Groups |-> IF g = "auth" THEN 3 ELSE 2]
AuthWindow == [g \in Groups |-> IF g = "auth" THEN 0 ELSE 3]

Interchangeable == Permutations(Requests)

\* The limiter sees how far apart two moments are, not when they are.
Since(k) == IF bucket[k] = None THEN None ELSE [bucket[k] EXCEPT !.last = now - @]
Elapses == <<[k \in Keys |-> Since(k)], ran, restarts, admitted, authVars>>

\* Handlers and limiter share no state, so time goes by and the process
\* restarts only where requests end at the door.  (CutOff ends the others.)
AtTheDoor == \A r \in Requests : ask[r].kind \in {"none", "login"} /\ Email(r) \in {None, stranger}
InNoTime ==
  /\ now = 0 /\ ran = 0 /\ restarts = 0
  /\ \A k \in Keys : k[1] = "auth" \/ bucket[k] = None
  /\ \A r \in Requests : ask[r].email # stranger
  /\ \A h \in Hosts : admitted[<<"auth", h>>] = Cardinality({r \in Requests : ask[r] # NoAsk})
Apart == InNoTime \/ AtTheDoor

Bounded ==
  /\ Apart
  /\ now \in -1 .. 3 /\ ran <= 3 /\ restarts <= 1
  /\ \A k \in Keys : admitted[k] <= 5
=============================================================================
