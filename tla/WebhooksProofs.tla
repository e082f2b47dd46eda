--------------------------- MODULE WebhooksProofs ---------------------------
(***************************************************************************)
(* Deliveries, for any number of them, of workers and of payouts.          *)
(*                                                                         *)
(* A delivery is to the payouts one step, its update, with a notice the    *)
(* provider still stands by: what a provider once said of a transfer it    *)
(* goes on saying (NoticesStay).  So Webhooks implements Payouts.  What    *)
(* the event log says then rests on one fact: if no two cash-outs bring    *)
(* one reference, a notice is about one payout, whatever happens between   *)
(* the handler's read and its update (OneNamed).                           *)
(***************************************************************************)
EXTENDS Webhooks, PayoutMoneyProofs, FiniteSetTheorems

\* Notices read or stored were sent by a provider.
NoticesKnown ==
  /\ DOMAIN reading = Deliveries /\ DOMAIN events = Deliveries
  /\ \A d \in Deliveries :
       /\ reading[d] # None => reading[d].notice \in Notices
       /\ events[d] # None /\ events[d].notice # None => events[d].notice \in Notices

WInv == IInv /\ FreeSlots /\ NoticesKnown

-----------------------------------------------------------------------------
\* A submission changes the slot of its number only.
LEMMA OtherSlots ==
  ASSUME IInv, NEW q \in Payouts, Submitted(q), NEW p \in Payouts, NEW n \in 1 .. MaxSends,
         p # q \/ n # sends[q] + 1
  PROVE  xfer'[p][n] = xfer[p][n]
<1>1. CASE p # q
  BY <1>1, SubmissionAdds
<1>2. CASE p = q /\ xfer'[q] = xfer[q]
  BY <1>2
<1>3. ASSUME p = q, NEW t, xfer'[q] = [xfer[q] EXCEPT ![sends[q] + 1] = t]
      PROVE  xfer'[p][n] = xfer[p][n]
  BY <1>3 DEF IInv, TypeOK
<1> QED
  BY <1>1, <1>2, <1>3, SubmissionAdds

\* A submission takes a free slot of the provider's books.
LEMMA FreeSlotsStay ==
  ASSUME IInv, FreeSlots, [Next]_vars
  PROVE  FreeSlots'
<1>1. CASE UNCHANGED <<sends, xfer>>
  BY <1>1 DEF FreeSlots
<1>2. ASSUME UNCHANGED sends,
             NEW q \in Payouts, NEW m \in 1 .. MaxSends, NEW o \in {"paid", "rejected"}, Settle(q, m, o)
      PROVE  FreeSlots'
  BY <1>2, SettleKeeps DEF FreeSlots
<1>3. ASSUME NEW q \in Payouts, Submitted(q) PROVE FreeSlots'
  <2>1. /\ sends'[q] = sends[q] + 1
        /\ \A p \in Payouts \ {q} : sends'[p] = sends[p] /\ xfer'[p] = xfer[p]
    BY <1>3, SubmissionAdds DEF IInv, TypeOK
  <2>2. \A n \in 1 .. MaxSends : n # sends[q] + 1 => xfer'[q][n] = xfer[q][n]
    BY <1>3, OtherSlots
  <2>3. \A p \in Payouts : sends[p] \in Nat
    BY PayoutsAssumption DEF IInv, TypeOK, MaxSends
  <2> QED
    BY <2>1, <2>2, <2>3 DEF FreeSlots
<1> QED
  BY <1>1, <1>2, <1>3, XferSteps

\* A transfer keeps its key, and its state unless the provider settles it.
LEMMA TransfersStay ==
  ASSUME IInv, FreeSlots, [Next]_vars, NEW p \in Payouts, NEW n \in 1 .. MaxSends,
         xfer[p][n].state # "none"
  PROVE  /\ xfer'[p][n].key = xfer[p][n].key
         /\ \/ xfer'[p][n].state = xfer[p][n].state
            \/ xfer[p][n].state = "open" /\ xfer'[p][n].state \in {"paid", "rejected"}
<1>1. ASSUME NEW q \in Payouts, Submitted(q) PROVE xfer'[p][n] = xfer[p][n]
  <2>1. sends[p] \in Nat /\ n \in Nat /\ ~(n > sends[p])
    BY PayoutsAssumption DEF FreeSlots, IInv, TypeOK, MaxSends
  <2>2. n # sends[p] + 1
    BY <2>1
  <2> QED
    BY <1>1, <2>2, OtherSlots
<1>2. ASSUME NEW q \in Payouts, NEW m \in 1 .. MaxSends, NEW o \in {"paid", "rejected"}, Settle(q, m, o)
      PROVE  /\ xfer'[p][n].key = xfer[p][n].key
             /\ \/ xfer'[p][n].state = xfer[p][n].state
                \/ xfer[p][n].state = "open" /\ xfer'[p][n].state \in {"paid", "rejected"}
  BY <1>2, SettleKeeps
<1> QED
  BY <1>1, <1>2, XferSteps

\* What a provider once said of a transfer it goes on saying.
LEMMA NoticesStay ==
  ASSUME IInv, FreeSlots, [Next]_vars
  PROVE  Notices \subseteq Notices'
<1> SUFFICES ASSUME NEW p \in Payouts, NEW n \in 1 .. MaxSends, xfer[p][n].state # "none"
             PROVE  /\ <<p, n>> \in Transfers' /\ NoticesOf(<<p, n>>) \subseteq NoticesOf(<<p, n>>)'
  BY DEF Notices, Transfers
<1> DEFINE t == <<p, n>>
<1>1. /\ xfer'[p][n].key = xfer[p][n].key
      /\ \/ xfer'[p][n].state = xfer[p][n].state
         \/ xfer[p][n].state = "open" /\ xfer'[p][n].state \in {"paid", "rejected"}
  BY TransfersStay
<1>2. t \in Transfers'
  BY <1>1 DEF Transfers
<1>3. {"SENT", Verdict(xfer[p][n].state)} \subseteq {"SENT", Verdict(xfer'[p][n].state)}
  BY <1>1 DEF Verdict
<1>4. NoticesOf(t) \subseteq NoticesOf(t)'
  BY <1>1, <1>3 DEF NoticesOf
<1> QED
  BY <1>2, <1>4

-----------------------------------------------------------------------------
(* Webhooks implements Payouts.                                             *)

LEMMA StepsOfDeliveries ==
  ASSUME NoticesKnown, [WebhooksNext]_webhookVars
  PROVE  [Next]_vars
<1>1. ASSUME NEW notice \in Notices, NEW override \in BOOLEAN, Notify(notice, override),
             override => "replay" \in AdminOps
      PROVE  Next
  BY <1>1 DEF Next, Webhook, AdminStep, Replay
<1>2. CASE Elsewhere
  BY <1>2 DEF Elsewhere, Next, AdminStep
<1>3. ASSUME NEW d \in Deliveries, NEW notice, NEW c, Arrive(d, notice, c)
      PROVE  UNCHANGED vars
  BY <1>3 DEF Arrive, Refuse, Miss, Read
<1>4. ASSUME NEW d \in Deliveries, Finish(d)
      PROVE  Next
  <2>1. reading[d].notice \in Notices /\ Notify(reading[d].notice, FALSE)
    BY <1>4 DEF Finish, Notify, NoticesKnown
  <2> QED
    BY <1>1, <2>1
<1>5. ASSUME NEW d \in Deliveries, Drop(d)
      PROVE  UNCHANGED vars
  BY <1>5 DEF Drop
<1>6. ASSUME NEW d \in Deliveries, NEW override \in BOOLEAN, ReplayEvent(d, override)
      PROVE  Next
  BY <1>1, <1>6 DEF ReplayEvent, NoticesKnown
<1> QED
  BY <1>2, <1>3, <1>4, <1>5, <1>6 DEF WebhooksNext, webhookVars

\* What a delivery remembers: the payout it read in this step.
ReadStep(d) ==
  \/ reading'[d] \in {reading[d], None}
  \/ \E notice \in Notices : \E p \in Existing(row, notice) :
       /\ UNCHANGED vars
       /\ reading'[d] = [notice |-> notice, payout |-> p, before |-> row[p].status]

\* What a delivery logs: a refusal that names no payout, or its update.
LogStep(d) ==
  \/ events'[d] = events[d]
  \/ /\ UNCHANGED vars
     /\ \E notice \in Notices \cup {None} : \E reason :
          events'[d] = Event(notice, None, None, None, reason) /\ reason # None
  \/ Finish(d)

LEMMA DeliverySteps ==
  ASSUME NoticesKnown, [WebhooksNext]_webhookVars, NEW d \in Deliveries
  PROVE  ReadStep(d) /\ LogStep(d)
<1> DEFINE Goal == ReadStep(d) /\ LogStep(d)
<1> USE DEF NoticesKnown
<1>1. CASE UNCHANGED webVars
  BY <1>1 DEF webVars, ReadStep, LogStep
<1>2. ASSUME NEW e \in Deliveries, NEW notice \in Notices, NEW c, Refuse(e, notice, c)
      PROVE  Goal
  <2>1. Stored(notice, c) \in Notices \cup {None}
    BY DEF Stored
  <2>2. /\ UNCHANGED <<vars, reading>> /\ Refused(c) # None
        /\ events' = [events EXCEPT ![e] = Event(Stored(notice, c), None, None, None, Refused(c))]
    BY <1>2 DEF Refuse, Log
  <2> QED
    BY <2>1, <2>2 DEF ReadStep, LogStep
<1>3. ASSUME NEW e \in Deliveries, NEW notice \in Notices, Miss(e, notice)
      PROVE  Goal
  <2>1. "PAYOUT_NOT_FOUND" # None
    BY WebhooksAssumption DEF Reasons
  <2>2. /\ UNCHANGED <<vars, reading>>
        /\ events' = [events EXCEPT ![e] = Event(notice, None, None, None, "PAYOUT_NOT_FOUND")]
    BY <1>3 DEF Miss, Log
  <2> QED
    BY <2>1, <2>2 DEF ReadStep, LogStep
<1>4. ASSUME NEW e \in Deliveries, NEW notice \in Notices, Read(e, notice)
      PROVE  Goal
  <2>1. PICK p \in Existing(row, notice) :
          reading' = [reading EXCEPT ![e] = [notice |-> notice, payout |-> p, before |-> row[p].status]]
    BY <1>4 DEF Read
  <2>2. UNCHANGED <<vars, events>>
    BY <1>4 DEF Read
  <2> QED
    BY <2>1, <2>2 DEF ReadStep, LogStep
<1>5. ASSUME NEW e \in Deliveries, Finish(e)
      PROVE  Goal
  <2>1. reading' = [reading EXCEPT ![e] = None] /\ \E event : Log(e, event)
    BY <1>5 DEF Finish
  <2> QED
    BY <1>5, <2>1 DEF Log, ReadStep, LogStep
<1>6. ASSUME NEW e \in Deliveries, Drop(e)
      PROVE  Goal
  BY <1>6 DEF Drop, ReadStep, LogStep
<1>7. ASSUME NEW e \in Deliveries, NEW override \in BOOLEAN, ReplayEvent(e, override)
      PROVE  UNCHANGED webVars
  BY <1>7 DEF ReplayEvent
<1> HIDE DEF Goal
<1>8. Goal
  BY <1>1, <1>2, <1>3, <1>4, <1>5, <1>6, <1>7 DEF WebhooksNext, webhookVars, Arrive, Goal
<1> QED
  BY <1>8 DEF Goal

LEMMA DomainsStay ==
  ASSUME NoticesKnown, [WebhooksNext]_webhookVars
  PROVE  DOMAIN reading' = Deliveries /\ DOMAIN events' = Deliveries
BY DEF NoticesKnown, WebhooksNext, webhookVars, webVars, Arrive, Refuse, Miss, Read, Finish, Drop, ReplayEvent, Log

\* An update logs the notice it was made with.
LEMMA FinishLogs ==
  ASSUME NoticesKnown, NEW d \in Deliveries, Finish(d)
  PROVE  /\ reading[d] # None
         /\ \/ /\ Update(reading[d].notice, FALSE, TRUE)
               /\ \E after \in StatusAfter(reading[d].notice, reading[d].before) :
                    events'[d] = Event(reading[d].notice, reading[d].payout, reading[d].before, after, None)
            \/ /\ Update(reading[d].notice, FALSE, FALSE)
               /\ events'[d] = Event(reading[d].notice, reading[d].payout, reading[d].before,
                                     reading[d].before, WhyIgnored(reading[d].before))
BY DEF Finish, Log, NoticesKnown

LEMMA NextWInv == WInv /\ [WebhooksNext]_webhookVars => WInv' /\ [Next]_vars
<1> SUFFICES ASSUME WInv, [WebhooksNext]_webhookVars PROVE WInv' /\ [Next]_vars
  OBVIOUS
<1> USE DEF WInv
<1>1. [Next]_vars
  BY StepsOfDeliveries
<1>2. IInv' /\ FreeSlots'
  BY <1>1, NextIInv, FreeSlotsStay
<1>3. Notices \subseteq Notices'
  BY <1>1, NoticesStay
<1>4. ASSUME NEW d \in Deliveries, reading'[d] # None
      PROVE  reading'[d].notice \in Notices
  <2>1. CASE reading'[d] \in {reading[d], None}
    BY <1>4, <2>1 DEF NoticesKnown
  <2>2. ASSUME NEW notice \in Notices, NEW p,
               reading'[d] = [notice |-> notice, payout |-> p, before |-> row[p].status]
        PROVE  reading'[d].notice \in Notices
    BY <2>2
  <2>3. ReadStep(d)
    BY DeliverySteps
  <2> QED
    BY <2>1, <2>2, <2>3 DEF ReadStep
<1>5. ASSUME NEW d \in Deliveries, events'[d] # None, events'[d].notice # None
      PROVE  events'[d].notice \in Notices
  <2>1. CASE events'[d] = events[d]
    BY <1>5, <2>1 DEF NoticesKnown
  <2>2. ASSUME NEW notice \in Notices \cup {None}, NEW payout, NEW before, NEW after, NEW reason,
               events'[d] = Event(notice, payout, before, after, reason)
        PROVE  events'[d].notice \in Notices
    <3>1. events'[d].notice = notice
      BY <2>2 DEF Event
    <3> QED
      BY <1>5, <3>1
  <2>3. CASE Finish(d)
    <3>1. reading[d].notice \in Notices
      BY <2>3, FinishLogs DEF NoticesKnown
    <3> QED
      BY <2>2, <2>3, <3>1, FinishLogs
  <2>4. LogStep(d)
    BY DeliverySteps
  <2> QED
    BY <2>1, <2>2, <2>3, <2>4 DEF LogStep
<1>6. NoticesKnown'
  BY <1>3, <1>4, <1>5, DomainsStay DEF NoticesKnown
<1> QED
  BY <1>1, <1>2, <1>6

LEMMA WInvHolds == WebhooksSpec => []WInv
<1>1. WebhooksInit => WInv
  BY InitIInv DEF WebhooksInit, Init, WInv, FreeSlots, NoticesKnown, NoTransfer
<1> QED
  BY <1>1, NextWInv, PTL DEF WebhooksSpec

\* Deliveries do to payouts what Payouts says webhooks do, so its theorems
\* hold with deliveries that read first and update later.
THEOREM WebhooksArePayouts == WebhooksSpec => Spec
<1>1. WebhooksInit => Init
  BY DEF WebhooksInit
<1>2. WInv /\ [WebhooksNext]_webhookVars => [Next]_vars
  BY NextWInv
<1> QED
  BY <1>1, <1>2, WInvHolds, PTL DEF WebhooksSpec, Spec

-----------------------------------------------------------------------------
(* What is read and logged.                                                 *)
Readings == [notice : Notice, payout : Payouts, before : Status]
Logged == [notice : Notice \cup {None}, payout : Payouts \cup {None},
           before : Status \cup {None}, after : Status \cup {None},
           reason : Reasons \cup {None}]

\* A notice has its type.
LEMMA NoticeTyped ==
  ASSUME IInv, NEW notice \in Notices
  PROVE  notice \in Notice
<1>1. PICK t \in Transfers : notice \in NoticesOf(t)
  BY DEF Notices
<1>2. PICK p \in Payouts, n \in 1 .. MaxSends : t = <<p, n>> /\ xfer[p][n].state # "none"
  BY DEF Transfers
<1>3. xfer[p][n].key \in Refs /\ t \in Refs /\ None \in Refs
  <2>1. MaxSends \in Nat /\ n \in 0 .. MaxSends
    BY PayoutsAssumption DEF MaxSends
  <2>2. t \in Payouts \X (0 .. MaxSends)
    BY <1>2, <2>1
  <2>3. xfer \in [Payouts -> [1 .. MaxSends -> Transfer]]
    BY DEF IInv, TypeOK
  <2>4. xfer[p][n] \in Transfer
    BY <2>3
  <2>5. xfer[p][n].key \in Refs
    BY <2>4 DEF Transfer
  <2> QED
    BY <2>2, <2>5 DEF Refs, ProviderIds
<1>4. notice.verdict \in {"SENT"} \cup Terminal
  BY NoticeSays DEF Outcomes, Terminal
<1> DEFINE key == xfer[p][n].key
<1>5. PICK r \in {<<key, None>>, <<t, None>>, <<None, key>>, <<t, key>>} :
        notice = [pref |-> r[1], eref |-> r[2], verdict |-> notice.verdict]
  BY <1>1, <1>2 DEF NoticesOf
<1>6. r[1] \in Refs /\ r[2] \in Refs
  BY <1>3
<1> QED
  BY <1>4, <1>5, <1>6 DEF Notice

\* A refusal has one of the reasons.
LEMMA RefusedTyped ==
  ASSUME NEW c \in Conditions
  PROVE  Refused(c) \in Reasons \cup {None}
<1>1. /\ c.secret \in BOOLEAN /\ c.signature \in {"valid", "wrong", "none"} /\ c.shape \in Shapes
      /\ AllowUnsigned \in BOOLEAN
  BY WebhooksAssumption DEF Condition
<1>2. SignatureError(c) \in Reasons \cup {None}
  <2>1. CASE Unsigned(c)
    BY <1>1, <2>1 DEF SignatureError, Unsigned
  <2>2. CASE ~Unsigned(c)
    BY <1>1, <2>2 DEF SignatureError, Reasons
  <2> QED
    BY <2>1, <2>2
<1>3. BodyError(c) \in Reasons \cup {None}
  BY <1>1 DEF BodyError, Shapes, Reasons
<1> QED
  BY <1>2, <1>3 DEF Refused, Coalesce

\* Every step keeps the types of what is read and logged.
LEMMA NextReadsTyped ==
  ASSUME WInv, TypeOK', WebhooksTypeOK, [WebhooksNext]_webhookVars
  PROVE  WebhooksTypeOK'
<1> DEFINE Typed == reading' \in [Deliveries -> Readings \cup {None}]
                    /\ events' \in [Deliveries -> Logged \cup {None}]
<1>0. reading \in [Deliveries -> Readings \cup {None}] /\ events \in [Deliveries -> Logged \cup {None}]
  BY DEF WebhooksTypeOK, Readings, Logged
<1>1. ASSUME UNCHANGED webVars
      PROVE  Typed
  BY <1>0, <1>1 DEF webVars
<1>2. ASSUME NEW d \in Deliveries, NEW notice \in Notices, NEW c \in Conditions, Arrive(d, notice, c)
      PROVE  Typed
  <2>1. notice \in Notice
    BY NoticeTyped DEF WInv
  <2>2. CASE Refuse(d, notice, c)
    <3>1. Refused(c) \in Reasons \cup {None} /\ Stored(notice, c) \in Notice \cup {None}
      BY <2>1, RefusedTyped DEF Stored
    <3>2. Event(Stored(notice, c), None, None, None, Refused(c)) \in Logged
      BY <3>1 DEF Event, Logged
    <3> QED
      BY <1>0, <2>2, <3>2 DEF Refuse, Log
  <2>3. CASE Miss(d, notice)
    <3>1. Event(notice, None, None, None, "PAYOUT_NOT_FOUND") \in Logged
      BY <2>1 DEF Event, Logged, Reasons
    <3> QED
      BY <1>0, <2>3, <3>1 DEF Miss, Log
  <2>4. CASE Read(d, notice)
    <3>1. PICK p \in Existing(row, notice) :
            /\ reading' = [reading EXCEPT ![d] = [notice |-> notice, payout |-> p, before |-> row[p].status]]
            /\ events' = events
      BY <2>4 DEF Read, webVars
    <3>2. p \in Payouts
      BY DEF Existing, ByRef, Named
    <3>3. row[p].status \in Status
      BY <3>2 DEF WInv, IInv, TypeOK, Row
    <3>4. [notice |-> notice, payout |-> p, before |-> row[p].status] \in Readings
      BY <2>1, <3>2, <3>3 DEF Readings
    <3> QED
      BY <1>0, <3>1, <3>4
  <2> QED
    BY <1>2, <2>2, <2>3, <2>4 DEF Arrive
<1>3. ASSUME NEW d \in Deliveries, Finish(d)
      PROVE  Typed
  <2> DEFINE notice == reading[d].notice
             payout == reading[d].payout
             before == reading[d].before
  <2>1. notice \in Notice /\ payout \in Payouts /\ before \in Status
    BY <1>0, <1>3 DEF Finish, Readings
  <2>2. reading' = [reading EXCEPT ![d] = None]
    BY <1>3 DEF Finish
  <2>3. \E after \in Status, reason \in Reasons \cup {None} :
          events' = [events EXCEPT ![d] = Event(notice, payout, before, after, reason)]
    <3>1. ASSUME NEW after \in StatusAfter(notice, before),
                 Log(d, Event(notice, payout, before, after, None))
          PROVE  <2>3!:
      <4>1. PICK p \in Existing(row', notice) : after = row'[p].status
        BY <3>1 DEF StatusAfter
      <4>2. p \in Payouts
        BY DEF Existing, ByRef, Named
      <4>3. after \in Status
        BY <4>1, <4>2 DEF TypeOK, Row
      <4> QED
        BY <3>1, <4>3 DEF Log
    <3>2. WhyIgnored(before) \in Reasons
      BY <2>1 DEF WhyIgnored, Reasons, Status, Terminal
    <3>3. CASE Log(d, Event(notice, payout, before, before, WhyIgnored(before)))
      BY <2>1, <3>2, <3>3 DEF Log
    <3> QED
      BY <1>3, <3>1, <3>3 DEF Finish
  <2>4. PICK after \in Status, reason \in Reasons \cup {None} :
          events' = [events EXCEPT ![d] = Event(notice, payout, before, after, reason)]
    BY <2>3
  <2>5. Event(notice, payout, before, after, reason) \in Logged
    BY <2>1 DEF Event, Logged
  <2> QED
    BY <1>0, <2>2, <2>4, <2>5
<1>4. ASSUME NEW d \in Deliveries, Drop(d)
      PROVE  Typed
  BY <1>0, <1>4 DEF Drop
<1>5. Typed
  BY <1>1, <1>2, <1>3, <1>4 DEF WebhooksNext, ReplayEvent, webhookVars
<1> QED
  BY <1>5 DEF WebhooksTypeOK, Readings, Logged

\* Every variable has its type: what deliveries have read, and what is logged.
THEOREM WebhooksTypes == WebhooksSpec => []WebhooksTypeOK
<1>1. WebhooksInit => WebhooksTypeOK
  BY InitIInv DEF WebhooksInit, IInv, WebhooksTypeOK
<1>2. WInv => TypeOK
  BY DEF WInv, IInv
<1>3. WInv /\ TypeOK' /\ WebhooksTypeOK /\ [WebhooksNext]_webhookVars => WebhooksTypeOK'
  BY NextReadsTyped
<1> QED
  BY <1>1, <1>2, <1>3, WInvHolds, PTL DEF WebhooksSpec

-----------------------------------------------------------------------------
(* One notice, one payout.                                                  *)

\* The payout is one the notice can be about: this does not change.
Names(notice, p) == \E r \in {notice.pref, notice.eref} \ {None} : r \in Own(p)

LEMMA OneNamed ==
  ASSUME DistinctReferences, IInv, PaidInv, NEW notice \in Notices,
         NEW p \in Payouts, NEW q \in Payouts, Names(notice, p), Names(notice, q)
  PROVE  p = q
<1>1. PICK t \in Transfers : notice \in NoticesOf(t)
  BY DEF Notices
<1>2. PICK o \in Payouts, n \in 1 .. MaxSends : t = <<o, n>> /\ xfer[o][n].state # "none"
  BY DEF Transfers
<1>3. xfer[o][n].key \in Own(o) /\ t \in Own(o)
  <2>1. n \in 0 .. MaxSends
    BY PayoutsAssumption DEF MaxSends
  <2> QED
    BY <1>2, <2>1 DEF PaidInv, OwnReferences, OwnKeys, Own
<1>4. notice.pref \in Own(o) /\ notice.eref \in Own(o)
  <2>1. notice.pref \in {xfer[o][n].key, t, None} /\ notice.eref \in {xfer[o][n].key, None}
    BY <1>1, <1>2 DEF NoticesOf
  <2>2. None \in Own(o)
    BY DEF Own
  <2> QED
    BY <1>3, <2>1, <2>2
<1>5. ASSUME NEW u \in Payouts, Names(notice, u) PROVE u = o
  BY <1>4, <1>5, OneOwner DEF Names
<1> QED
  BY <1>5

\* Who is found by a reference of the notice.
LEMMA FoundIsNamed ==
  ASSUME PaidInv, NEW notice,
         NEW p \in Payouts, \/ notice.pref # None /\ row[p].ref = notice.pref
                            \/ p \in Named(notice)
  PROVE  Names(notice, p)
BY DEF PaidInv, OwnReferences, Own, Names, Named

LEMMA ExistingIsNamed ==
  ASSUME PaidInv, NEW notice, NEW p \in Existing(row, notice)
  PROVE  p \in Payouts /\ row[p].status # "ABSENT" /\ Names(notice, p)
<1>1. /\ p \in Payouts /\ row[p].status # "ABSENT"
      /\ (notice.pref # None /\ row[p].ref = notice.pref) \/ p \in Named(notice)
  BY DEF Existing, ByRef, Named
<1> QED
  BY <1>1, FoundIsNamed

\* The update changes the payout the notice is about, or nothing, and knows
\* which; it finds nothing to change only if the payout is not open, or does
\* not go by a reference of the notice any more.
LEMMA UpdateTells ==
  ASSUME DistinctReferences, IInv, PaidInv, NEW notice \in Notices,
         NEW p \in Payouts, Names(notice, p), NEW ok \in BOOLEAN, Update(notice, FALSE, ok)
  PROVE  /\ ok = TRUE => row' = [row EXCEPT ![p] = Applied(@, notice.verdict)]
         /\ ok = FALSE => /\ row' = row
                          /\ p \in Named(notice) \/ (notice.pref # None /\ row[p].ref = notice.pref)
                             => ~Open(row[p], FALSE)
<1> DEFINE v == notice.verdict
           hits == Hits(notice, FALSE)
           first == [q \in Payouts |-> IF q \in hits THEN Applied(row[q], v) ELSE row[q]]
<1>0. row = [q \in Payouts |-> row[q]]
  BY DEF IInv, TypeOK
<1>1. hits \subseteq {p} /\ Named(notice) \subseteq {p}
  <2>1. ASSUME NEW q \in hits \cup Named(notice) PROVE q = p
    <3>1. q \in Payouts /\ Names(notice, q)
      BY <2>1, FoundIsNamed DEF Hits, Named
    <3> QED
      BY <3>1, OneNamed
  <2> QED
    BY <2>1
<1>2. /\ IF Cardinality(hits) = 1 \/ Named(notice) = {}
         THEN row' = first /\ ok = (Cardinality(hits) = 1)
         ELSE \E q \in Named(notice) :
                /\ ok = Open(first[q], FALSE)
                /\ row' = IF ok THEN [first EXCEPT ![q] = Applied(first[q], v)] ELSE first
  BY DEF Update
<1>3. /\ p \in hits => Open(row[p], FALSE)
      /\ notice.pref # None /\ row[p].ref = notice.pref /\ Open(row[p], FALSE) => p \in hits
  BY DEF Hits
<1> HIDE DEF hits
<1>4. CASE hits = {p}
  <2>1. Cardinality(hits) = 1
    BY <1>4, FS_Singleton
  <2>2. row' = first /\ ok = TRUE
    BY <1>2, <2>1
  <2>3. first = [row EXCEPT ![p] = Applied(@, v)]
    BY <1>0, <1>4
  <2> QED
    BY <2>2, <2>3
<1>5. CASE hits = {}
  <2>1. Cardinality(hits) # 1
    <3>1. Cardinality(hits) = 0
      BY <1>5, FS_EmptySet
    <3> QED
      BY <3>1
  <2>2. first = row
    BY <1>0, <1>5
  <2> HIDE DEF first
  <2>3. CASE Named(notice) = {}
    BY <1>2, <1>3, <1>5, <2>1, <2>2, <2>3
  <2>4. CASE Named(notice) = {p}
    <3>1. /\ ok = Open(row[p], FALSE)
          /\ row' = IF ok THEN [row EXCEPT ![p] = Applied(row[p], v)] ELSE row
      BY <1>2, <2>1, <2>2, <2>4
    <3>2. Open(row[p], FALSE) \in BOOLEAN
      BY DEF Open
    <3> QED
      BY <3>1, <3>2
  <2> QED
    BY <1>1, <2>3, <2>4
<1> QED
  BY <1>1, <1>4, <1>5

-----------------------------------------------------------------------------
(* The event log.                                                           *)

\* A delivery in its transaction holds the payout its notice is about.
ReadsNamed ==
  \A d \in Deliveries : reading[d] # None =>
    /\ reading[d].payout \in Payouts /\ row[reading[d].payout].status # "ABSENT"
    /\ Names(reading[d].notice, reading[d].payout)

\* What a delivery knows and logs, given that it knows its payout.
AllWInv == WInv /\ RefInv /\ PaidInv /\ ReadsNamed

\* A row that is there stays there.
LEMMA RowStays ==
  ASSUME IInv, RefInv, [Next]_vars, NEW p \in Payouts, row[p].status # "ABSENT"
  PROVE  row'[p].status # "ABSENT"
<1>1. RowStep(p)
  BY Steps DEF RefInv
<1>2. draft[p] # None => draft[p].status # "ABSENT"
  BY DEF RefInv, RowsExist, Outcomes
<1> QED
  BY <1>1, <1>2 DEF RowStep

LEMMA NextReadsNamed ==
  ASSUME AllWInv, [WebhooksNext]_webhookVars
  PROVE  ReadsNamed'
<1> USE DEF AllWInv, WInv
<1>1. [Next]_vars
  BY NextWInv
<1> SUFFICES ASSUME NEW d \in Deliveries, reading'[d] # None
             PROVE  /\ reading'[d].payout \in Payouts
                    /\ row'[reading'[d].payout].status # "ABSENT"
                    /\ Names(reading'[d].notice, reading'[d].payout)
  BY DEF ReadsNamed, Names, Own
<1>2. CASE reading'[d] = reading[d]
  BY <1>1, <1>2, RowStays DEF ReadsNamed
<1>3. ASSUME NEW notice \in Notices, NEW p \in Existing(row, notice), UNCHANGED vars,
             reading'[d] = [notice |-> notice, payout |-> p, before |-> row[p].status]
      PROVE  /\ reading'[d].payout \in Payouts
             /\ row'[reading'[d].payout].status # "ABSENT"
             /\ Names(reading'[d].notice, reading'[d].payout)
  BY <1>3, ExistingIsNamed DEF vars
<1>4. ReadStep(d)
  BY DeliverySteps
<1> QED
  BY <1>2, <1>3, <1>4 DEF ReadStep

LEMMA AllWInvHolds ==
  ASSUME DistinctReferences
  PROVE  WebhooksSpec => []AllWInv
<1>1. WebhooksInit => ReadsNamed
  BY DEF WebhooksInit, ReadsNamed
<1>2. WInv /\ RefInv /\ PaidInv /\ ReadsNamed /\ [WebhooksNext]_webhookVars => ReadsNamed'
  BY NextReadsNamed DEF AllWInv
<1>3. Spec => []PaidInv
  BY PaidInvHolds
<1>4. AllWInv <=> WInv /\ RefInv /\ PaidInv /\ ReadsNamed
  BY DEF AllWInv
<1> QED
  BY <1>1, <1>2, <1>3, <1>4, WInvHolds, RefInvHolds, WebhooksArePayouts, PTL DEF WebhooksSpec

\* What the event of a step says of it.
EventIsTrue(d) ==
  LET event == events'[d] IN
  /\ event.reason # None /\ (event.notice # None => Distinct(event.notice)) => row' = row
  /\ event.reason = None /\ Distinct(event.notice) =>
       /\ row' = [row EXCEPT ![event.payout] = Applied(@, event.notice.verdict)]
       /\ row'[event.payout].status = event.after

LEMMA LoggedIsTrue ==
  ASSUME DistinctReferences, AllWInv, PaidInv', IInv', [WebhooksNext]_webhookVars,
         NEW d \in Deliveries, events[d] = None, events'[d] # None
  PROVE  EventIsTrue(d)
<1> USE DEF AllWInv, WInv
<1>1. ASSUME NEW notice, NEW reason, UNCHANGED vars, reason # None,
             events'[d] = Event(notice, None, None, None, reason)
      PROVE  EventIsTrue(d)
  BY <1>1 DEF Event, EventIsTrue, vars
<1>2. CASE Finish(d)
  <2> DEFINE notice == reading[d].notice
             p == reading[d].payout
             before == reading[d].before
  <2>1. /\ notice \in Notices /\ p \in Payouts /\ Names(notice, p)
    BY <1>2, FinishLogs DEF NoticesKnown, ReadsNamed
  <2>2. WhyIgnored(before) # None
    BY WebhooksAssumption DEF WhyIgnored, Reasons, Terminal
  <2>3. ASSUME NEW after \in StatusAfter(notice, before), Update(notice, FALSE, TRUE),
               events'[d] = Event(notice, p, before, after, None)
        PROVE  EventIsTrue(d)
    <3>1. row' = [row EXCEPT ![p] = Applied(@, notice.verdict)]
      BY <2>1, <2>3, UpdateTells
    <3>2. PICK q \in Existing(row', notice) : after = row'[q].status
      BY <2>3 DEF StatusAfter
    <3>3. q \in Payouts /\ Names(notice, q)
      <4>1. /\ q \in Payouts
            /\ (notice.pref # None /\ row'[q].ref = notice.pref) \/ q \in Named(notice)
        BY <3>2 DEF Existing, ByRef, Named
      <4>2. row'[q].ref \in Own(q)
        BY <4>1 DEF PaidInv, OwnReferences, Own
      <4> QED
        BY <4>1, <4>2 DEF Names, Named, Own
    <3>4. q = p
      BY <2>1, <3>3, OneNamed
    <3>5. events'[d].reason = None /\ events'[d].payout = p /\ events'[d].notice = notice
          /\ events'[d].after = after
      BY <2>3 DEF Event
    <3> HIDE DEF notice, p
    <3> QED
      BY <3>1, <3>2, <3>4, <3>5 DEF EventIsTrue
  <2>4. ASSUME Update(notice, FALSE, FALSE),
               events'[d] = Event(notice, p, before, before, WhyIgnored(before))
        PROVE  EventIsTrue(d)
    <3>1. row' = row
      BY <2>1, <2>4, UpdateTells
    <3>2. events'[d].reason # None
      BY <2>2, <2>4 DEF Event
    <3> QED
      BY <3>1, <3>2 DEF EventIsTrue
  <2> QED
    BY <1>2, <2>3, <2>4, FinishLogs
<1>3. LogStep(d)
  BY DeliverySteps
<1> QED
  BY <1>1, <1>2, <1>3 DEF LogStep

\* The event log tells the truth of every update, however the payout changes
\* between the handler's read and its update, if no two cash-outs bring the
\* same reference.
THEOREM EventsAreTrue ==
  ASSUME DistinctReferences
  PROVE  WebhooksSpec => EventsTellTheTruth
<1> DEFINE Truth == \A d \in Deliveries :
             events[d] = None /\ events'[d] # None =>
               LET event == events'[d] IN
               /\ event.reason # None /\ (event.notice # None => Distinct(event.notice)) => row' = row
               /\ event.reason = None /\ Distinct(event.notice) =>
                    /\ row' = [row EXCEPT ![event.payout] = Applied(@, event.notice.verdict)]
                    /\ row'[event.payout].status = event.after
<1>1. AllWInv /\ AllWInv' /\ [WebhooksNext]_webhookVars => [Truth]_webhookVars
  BY LoggedIsTrue DEF AllWInv, WInv, EventIsTrue
<1>2. WebhooksSpec => [][Truth]_webhookVars
  BY <1>1, AllWInvHolds, PTL DEF WebhooksSpec
<1> QED
  BY <1>2 DEF EventsTellTheTruth

-----------------------------------------------------------------------------
(* News that is dropped, as long as no operator intervenes.                 *)

\* A worker that holds a sent payout with a reference keeps the reference.
DraftsKeep ==
  \A p \in Payouts : draft[p] # None /\ row[p].status = "SENT" /\ row[p].ref # None =>
    draft[p].ref = row[p].ref

LEMMA HandleKeepsRef ==
  ASSUME IInv, NEW w \in Workers, NEW p \in Payouts, Handle(w, p),
         row[p].status = "SENT", row[p].ref # None
  PROVE  draft'[p].ref = row[p].ref
<1>1. PICK s, n, b : Write(w, p, s, None, n, b)
  BY DEF Handle, GiveUp, RejectIncomplete, RejectUnsupported, Send, Resend, MissingRef, Poll, HandlerError
<1>2. draft'[p] = Updated(p, s, None, n, b)
  BY <1>1 DEF Write, IInv, TypeOK
<1> QED
  BY <1>2 DEF Updated, Coalesce

\* A row with a draft is changed by the commit of the draft only.
LEMMA DraftedRowStays ==
  ASSUME IInv, RefInv, [Next]_vars, NEW p \in Payouts, draft[p] # None, draft'[p] # None
  PROVE  row'[p] = row[p]
<1>0. lock[p] # None /\ row[p].status \in {"PENDING", "SENT"} /\ row \in [Payouts -> Row]
  BY DEF IInv, ClaimsAreExclusive, TypeOK
<1>1. ASSUME NEW w \in Workers, Commit(w) PROVE row'[p] = row[p]
  BY <1>1 DEF Commit, EndTx
<1>2. ASSUME NEW notice \in Notices, NEW override \in BOOLEAN, Notify(notice, override)
      PROVE  row'[p] = row[p]
  BY <1>0, <1>2, NotifyChanges
<1>3. ASSUME NEW q \in Payouts, Create(q) \/ ConfirmByHand(q) \/ \E a \in Admins : RetryWrite(a, q)
      PROVE  row'[p] = row[p]
  BY <1>0, <1>3 DEF Create, ConfirmByHand, RetryWrite, Unlocked
<1>4. CASE row' = row
  BY <1>4
<1>5. ASSUME NEW w \in Workers, NEW q \in Payouts, Handle(w, q) PROVE row' = row
  BY <1>5, HandleWrites
<1> QED
  BY <1>1, <1>2, <1>3, <1>4, <1>5
  DEF Next, Webhook, AdminStep, Replay, Settle, Claim, Abort, Start, RetryRead, RetryLost, vars

LEMMA NextDraftsKeep ==
  ASSUME IInv, RefInv, DraftsKeep, [Next]_vars
  PROVE  DraftsKeep'
<1> SUFFICES ASSUME NEW p \in Payouts, draft'[p] # None, row'[p].status = "SENT", row'[p].ref # None
             PROVE  draft'[p].ref = row'[p].ref
  BY DEF DraftsKeep
<1>1. CASE draft'[p] = draft[p]
  BY <1>1, DraftedRowStays DEF DraftsKeep
<1>2. CASE draft'[p] # draft[p]
  <2>1. PICK w \in Workers : Handle(w, p)
    BY <1>2, DraftWriter
  <2>2. row' = row
    BY <2>1, HandleWrites
  <2> QED
    BY <2>1, <2>2, HandleKeepsRef
<1> QED
  BY <1>1, <1>2

Quiet == IInv /\ RefInv /\ NoRetries /\ PendingIsNew /\ DraftsKeep

\* Without operators a payout that was answered never waits to be sent again,
\* and keeps its reference and its conclusion.
LEMMA AnsweredStays ==
  ASSUME AdminOps = {}, Quiet, [Next]_vars, NEW p \in Payouts, row[p].status \in Outcomes
  PROVE  /\ row'[p].status \in Outcomes
         /\ row[p].ref # None => row'[p].ref = row[p].ref
         /\ row[p].status \in Terminal => row'[p].status = row[p].status
<1> USE DEF Quiet
<1>1. row'[p].status \in Outcomes
  <2>1. row'[p].status \in Status
    BY NextIInv DEF IInv, TypeOK, Row
  <2>2. row'[p].status # "PENDING"
    BY PendingSteps DEF Outcomes
  <2>3. row'[p].status # "ABSENT"
    BY RowStays DEF Outcomes
  <2> QED
    BY <2>1, <2>2, <2>3 DEF Status, Terminal, Outcomes
<1>2. ASSUME row[p].ref # None PROVE row'[p].ref = row[p].ref
  <2>1. draft[p] # None => row[p].status = "SENT"
    BY DEF IInv, ClaimsAreExclusive, Outcomes
  <2>2. RowStep(p)
    BY Steps DEF RefInv
  <2> QED
    BY <1>2, <2>1, <2>2 DEF RowStep, DraftsKeep, Outcomes
<1>3. row[p].status \in Terminal => row'[p].status = row[p].status
  BY TerminalStays, NoAdminStep
<1> QED
  BY <1>1, <1>2, <1>3

\* A payout that waits to be sent keeps its reference until it is answered.
LEMMA PendingKeeps ==
  ASSUME IInv, RefInv, [Next]_vars, NEW p \in Payouts, row[p].status = "PENDING"
  PROVE  row'[p].ref = row[p].ref \/ row'[p].status \in Outcomes
<1>1. RowStep(p)
  BY Steps DEF RefInv
<1> QED
  BY <1>1 DEF RowStep, RefInv, RowsExist

\* The payout was answered with a reference the notice does not use.
Gone(rows, notice, p) ==
  rows[p].status \in Outcomes /\ rows[p].ref \notin {None, notice.pref} /\ ExternalRef[p] # None

Hears(rows, notice, p) ==
  \/ notice.pref # None /\ rows[p].ref = notice.pref
  \/ notice.eref # None /\ ExternalRef[p] = notice.eref
  \/ Gone(rows, notice, p)

\* A delivery that found a decided payout is right about it, and one that
\* found any payout reaches it unless its reference was replaced.
ReadsLast ==
  \A d \in Deliveries : reading[d] # None =>
    /\ reading[d].before \in Terminal => row[reading[d].payout].status = reading[d].before
    /\ Hears(row, reading[d].notice, reading[d].payout)

Concluded(rows, notice, p, reason) ==
  \/ reason = "ALREADY_CONFIRMED" /\ rows[p].status = "CONFIRMED"
  \/ reason = "ALREADY_FAILED" /\ rows[p].status = "FAILED"
  \/ reason = "NOT_UPDATED" /\ \/ rows[p].status \in Terminal
                               \/ Gone(rows, notice, p) /\ ExternalRef[p] # notice.eref

DropsLast ==
  \A d \in Deliveries : events[d] # None /\ events[d].payout # None /\ events[d].reason # None =>
    events[d].payout \in Payouts /\ Concluded(row, events[d].notice, events[d].payout, events[d].reason)

FateInv == AllWInv /\ Quiet /\ ReadsLast /\ DropsLast

LEMMA HearsStays ==
  ASSUME AdminOps = {}, Quiet, RefInv', [Next]_vars, NEW notice, NEW p \in Payouts,
         row[p].status # "ABSENT", Hears(row, notice, p)
  PROVE  Hears(row', notice, p)
<1> USE DEF Quiet
<1>0. row[p].status \in Outcomes \cup {"PENDING"}
  BY DEF IInv, TypeOK, Row, Status, Terminal, Outcomes
<1>1. CASE notice.eref # None /\ ExternalRef[p] = notice.eref
  BY <1>1 DEF Hears
<1>2. CASE Gone(row, notice, p)
  BY <1>2, AnsweredStays DEF Gone, Hears
<1>3. CASE notice.pref # None /\ row[p].ref = notice.pref
  <2>1. CASE row[p].status \in Outcomes
    BY <1>3, <2>1, AnsweredStays DEF Hears
  <2>2. CASE row[p].status = "PENDING"
    <3>1. ExternalRef[p] # None
      BY <1>3, <2>2 DEF PendingIsNew
    <3>2. row'[p].ref # None
      BY <3>1, RowStays DEF RefInv, RefsStay
    <3> QED
      BY <1>3, <2>2, <3>1, <3>2, PendingKeeps DEF Hears, Gone
  <2> QED
    BY <1>0, <2>1, <2>2
<1> QED
  BY <1>1, <1>2, <1>3 DEF Hears

LEMMA NextReadsLast ==
  ASSUME AdminOps = {}, FateInv, RefInv', [Next]_vars, [WebhooksNext]_webhookVars
  PROVE  ReadsLast'
<1> USE DEF FateInv, AllWInv, WInv
<1> SUFFICES ASSUME NEW d \in Deliveries, reading'[d] # None
             PROVE  /\ reading'[d].before \in Terminal =>
                         row'[reading'[d].payout].status = reading'[d].before
                    /\ Hears(row', reading'[d].notice, reading'[d].payout)
  BY DEF ReadsLast
<1>1. CASE reading'[d] = reading[d]
  <2> DEFINE p == reading[d].payout
             n == reading[d].notice
  <2>1. p \in Payouts /\ row[p].status # "ABSENT" /\ Hears(row, n, p)
    BY <1>1 DEF ReadsNamed, ReadsLast
  <2>2. reading[d].before \in Terminal => row[p].status = reading[d].before
    BY <1>1 DEF ReadsLast
  <2>3. row[p].status \in Terminal => row'[p].status = row[p].status
    BY <2>1, TerminalStays, NoAdminStep DEF Quiet
  <2>4. Hears(row', n, p)
    <3> HIDE DEF n, p
    <3>1. ASSUME NEW m, NEW q \in Payouts, row[q].status # "ABSENT", Hears(row, m, q)
          PROVE  Hears(row', m, q)
      BY <3>1, HearsStays
    <3> QED
      BY <2>1, <3>1
  <2> QED
    BY <1>1, <2>1, <2>2, <2>3, <2>4 DEF Hears, Gone
<1>2. ASSUME NEW notice \in Notices, NEW p \in Existing(row, notice), UNCHANGED vars,
             reading'[d] = [notice |-> notice, payout |-> p, before |-> row[p].status]
      PROVE  /\ reading'[d].before \in Terminal =>
                  row'[reading'[d].payout].status = reading'[d].before
             /\ Hears(row', reading'[d].notice, reading'[d].payout)
  <2>1. /\ reading'[d].notice = notice /\ reading'[d].payout = p
        /\ reading'[d].before = row[p].status /\ row' = row
    BY <1>2 DEF vars
  <2>2. (notice.pref # None /\ row[p].ref = notice.pref) \/ (notice.eref # None /\ ExternalRef[p] = notice.eref)
    BY DEF Existing, ByRef, Named
  <2> QED
    BY <2>1, <2>2 DEF Hears
<1>3. ReadStep(d)
  BY DeliverySteps
<1> QED
  BY <1>1, <1>2, <1>3 DEF ReadStep

LEMMA NextDropsLast ==
  ASSUME DistinctReferences, AdminOps = {}, FateInv, [Next]_vars, [WebhooksNext]_webhookVars
  PROVE  DropsLast'
<1> USE DEF FateInv, AllWInv, WInv
<1> SUFFICES ASSUME NEW d \in Deliveries, events'[d] # None, events'[d].payout # None,
                    events'[d].reason # None
             PROVE  /\ events'[d].payout \in Payouts
                    /\ Concluded(row', events'[d].notice, events'[d].payout, events'[d].reason)
  BY DEF DropsLast
<1>1. CASE events'[d] = events[d]
  <2> DEFINE p == events[d].payout
  <2>1. p \in Payouts /\ Concluded(row, events[d].notice, p, events[d].reason)
    BY <1>1 DEF DropsLast
  <2>2. row[p].status \in Outcomes
    BY <2>1 DEF Concluded, Gone, Outcomes, Terminal
  <2>3. /\ row'[p].status \in Outcomes
        /\ row[p].ref # None => row'[p].ref = row[p].ref
        /\ row[p].status \in Terminal => row'[p].status = row[p].status
    BY <2>1, <2>2, AnsweredStays
  <2> QED
    BY <1>1, <2>1, <2>3 DEF Concluded, Gone, Terminal
<1>2. CASE Finish(d)
  <2> DEFINE n == reading[d].notice
             p == reading[d].payout
             b == reading[d].before
  <2>0. events'[d].reason # None
    OBVIOUS
  <2>1. /\ Update(n, FALSE, FALSE)
        /\ events'[d] = Event(n, p, b, b, WhyIgnored(b))
    <3>1. ASSUME NEW after PROVE events'[d] # Event(n, p, b, after, None)
      BY <2>0 DEF Event
    <3> QED
      BY <1>2, <3>1, FinishLogs
  <2>2. /\ n \in Notices /\ p \in Payouts /\ row[p].status # "ABSENT" /\ Names(n, p)
        /\ Hears(row, n, p) /\ (b \in Terminal => row[p].status = b)
    BY <1>2, FinishLogs DEF NoticesKnown, ReadsNamed, ReadsLast
  <2>3. /\ row' = row
        /\ p \in Named(n) \/ (n.pref # None /\ row[p].ref = n.pref) => ~Open(row[p], FALSE)
    BY <2>1, <2>2, UpdateTells
  <2>4. /\ events'[d].notice = n /\ events'[d].payout = p /\ events'[d].reason = WhyIgnored(b)
    BY <2>1 DEF Event
  <2>5. row[p].status \notin Terminal => Gone(row, n, p) /\ ExternalRef[p] # n.eref
    <3>1. row[p].status \notin Terminal => ~(p \in Named(n)) /\ ~(n.pref # None /\ row[p].ref = n.pref)
      BY <2>2, <2>3 DEF Open
    <3> QED
      BY <2>2, <3>1 DEF Hears, Gone, Named
  <2>6. \/ b = "CONFIRMED" /\ WhyIgnored(b) = "ALREADY_CONFIRMED"
        \/ b = "FAILED" /\ WhyIgnored(b) = "ALREADY_FAILED"
        \/ WhyIgnored(b) = "NOT_UPDATED"
    BY DEF WhyIgnored, Terminal
  <2>7. Concluded(row, n, p, WhyIgnored(b))
    BY <2>2, <2>5, <2>6 DEF Concluded, Terminal
  <2> HIDE DEF n, p, b
  <2> QED
    BY <2>2, <2>3, <2>4, <2>7 DEF Concluded, Gone
<1>3. ASSUME NEW notice, NEW reason, events'[d] = Event(notice, None, None, None, reason)
      PROVE  FALSE
  BY <1>3 DEF Event
<1>4. LogStep(d)
  BY DeliverySteps
<1> QED
  BY <1>1, <1>2, <1>3, <1>4 DEF LogStep

\* News of a payout is dropped only if it is no news or the payout goes by
\* another reference, as long as no operator intervenes and no two cash-outs
\* bring the same reference.
THEOREM DroppedIsStale ==
  ASSUME DistinctReferences
  PROVE  WebhooksSpec => []DroppedOnlyIfStale
<1>1. CASE AdminOps # {}
  <2>1. DroppedOnlyIfStale
    BY <1>1 DEF DroppedOnlyIfStale
  <2> QED
    BY <2>1, PTL
<1>2. CASE AdminOps = {}
  <2>1. WebhooksInit => DraftsKeep /\ ReadsLast /\ DropsLast
    BY DEF WebhooksInit, Init, DraftsKeep, ReadsLast, DropsLast
  <2>2. Spec => [](NoRetries /\ PendingIsNew)
    BY <1>2, FreshInvHolds
  <2>3. AllWInv /\ AllWInv' /\ NoRetries /\ PendingIsNew /\ DraftsKeep /\ ReadsLast /\ DropsLast
        /\ [WebhooksNext]_webhookVars => (DraftsKeep /\ ReadsLast /\ DropsLast)'
    <3> SUFFICES ASSUME AllWInv, AllWInv', NoRetries, PendingIsNew, DraftsKeep, ReadsLast, DropsLast,
                        [WebhooksNext]_webhookVars
                 PROVE  (DraftsKeep /\ ReadsLast /\ DropsLast)'
      OBVIOUS
    <3>1. FateInv /\ RefInv' /\ [Next]_vars
      BY NextWInv DEF FateInv, Quiet, AllWInv, WInv
    <3>2. DraftsKeep'
      BY <3>1, NextDraftsKeep DEF FateInv, Quiet
    <3> QED
      BY <1>2, <3>1, <3>2, NextReadsLast, NextDropsLast
  <2>4. AllWInv /\ DropsLast => DroppedOnlyIfStale
    BY DEF DropsLast, DroppedOnlyIfStale, Concluded, Gone
  <2>5. WebhooksSpec => []AllWInv
    BY AllWInvHolds
  <2> QED
    BY <2>1, <2>2, <2>3, <2>4, <2>5, WebhooksArePayouts, PTL DEF WebhooksSpec
<1> QED
  BY <1>1, <1>2
=============================================================================
