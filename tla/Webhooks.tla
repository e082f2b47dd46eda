------------------------------ MODULE Webhooks ------------------------------
(***************************************************************************)
(* Provider webhooks as their handler treats them: screen the message,     *)
(* read the payout it names, update it, log the event.  The payout is read *)
(* without a lock in one statement and updated in another, in the same     *)
(* transaction, which also writes the event; in between the row may change *)
(* hands.  Stored events can be replayed by an operator.                   *)
(*                                                                         *)
(* Payouts has the same updates as single steps (Webhook, Replay); here    *)
(* they are steps of deliveries, each of which is logged at most once.     *)
(***************************************************************************)
EXTENDS Payouts

CONSTANTS
  Deliveries,     \* messages that arrive at the webhook routes
  Conditions,     \* the conditions messages arrive in
  AllowUnsigned   \* THUNES_ALLOW_UNSIGNED_WEBHOOKS

\* A body is a plain object (or wrapped in "data"); one that wraps its content
\* in "event"; one without a status or a reference; or no JSON object.
Shapes == {"plain", "event", "no status", "no refs", "no object"}
Condition == [route : Kinds, secret : BOOLEAN, signature : {"valid", "wrong", "none"}, shape : Shapes]

\* Why a message or its update changes nothing.
Reasons ==
  {"WEBHOOK_SECRET_NOT_CONFIGURED", "MISSING_SIGNATURE", "INVALID_SIGNATURE", "INVALID_JSON",
   "MISSING_STATUS", "MISSING_PROVIDER_REF_OR_EXTERNAL_REF", "PAYOUT_NOT_FOUND",
   "ALREADY_CONFIRMED", "ALREADY_FAILED", "NOT_UPDATED"}

ASSUME WebhooksAssumption ==
  /\ Conditions \subseteq Condition
  /\ AllowUnsigned \in BOOLEAN
  /\ None \notin Reasons
  /\ None \notin [pref : Refs, eref : Refs, verdict : STRING]

VARIABLES
  reading,   \* deliveries that have read a payout and not updated it yet
  events     \* the events logged, by delivery

webVars == <<reading, events>>
webhookVars == <<vars, webVars>>

WebhooksInit ==
  /\ Init
  /\ reading = [d \in Deliveries |-> None]
  /\ events = [d \in Deliveries |-> None]

-----------------------------------------------------------------------------
(* Screening.                                                               *)
Unsigned(c) ==
  c.route = "THUNES" /\ AllowUnsigned /\ (~c.secret \/ c.signature = "none")

\* _verify_signature; a configured secret is checked for first.
SignatureError(c) ==
  CASE Unsigned(c) \/ (c.secret /\ c.signature = "valid") -> None
    [] ~Unsigned(c) /\ ~c.secret -> "WEBHOOK_SECRET_NOT_CONFIGURED"
    [] ~Unsigned(c) /\ c.secret /\ c.signature = "none" -> "MISSING_SIGNATURE"
    [] c.secret /\ c.signature = "wrong" -> "INVALID_SIGNATURE"

\* Only "data" is unwrapped, so what is inside an "event" is not seen.
BodyError(c) ==
  CASE c.shape = "plain" -> None
    [] c.shape = "no object" -> "INVALID_JSON"
    [] c.shape \in {"no status", "event"} -> "MISSING_STATUS"
    [] c.shape = "no refs" -> "MISSING_PROVIDER_REF_OR_EXTERNAL_REF"

Refused(c) == Coalesce(SignatureError(c), BodyError(c))

Event(notice, payout, before, after, reason) ==
  [notice |-> notice, payout |-> payout, before |-> before, after |-> after, reason |-> reason]

\* _log_both_tables, in the handler's transaction.
Log(d, event) == events' = [events EXCEPT ![d] = event]

\* What a replay can make of a stored payload: it looks into "event" too.
Stored(notice, c) == IF c.shape \in {"plain", "event"} THEN notice ELSE None

Refuse(d, notice, c) ==
  /\ Refused(c) # None
  /\ Log(d, Event(Stored(notice, c), None, None, None, Refused(c)))
  /\ UNCHANGED <<vars, reading>>

-----------------------------------------------------------------------------
(* The handler.                                                             *)
\* get_payout_by_any_ref: the row of the provider reference, else the payout
\* of the external one.
ByRef(rows, notice) ==
  {p \in Payouts : notice.pref # None /\ rows[p].ref = notice.pref /\ rows[p].status # "ABSENT"}
Existing(rows, notice) ==
  IF ByRef(rows, notice) # {} THEN ByRef(rows, notice) ELSE Named(notice)

Miss(d, notice) ==
  /\ Existing(row, notice) = {}
  /\ Log(d, Event(notice, None, None, None, "PAYOUT_NOT_FOUND"))
  /\ UNCHANGED <<vars, reading>>

Read(d, notice) ==
  /\ \E p \in Existing(row, notice) :
       reading' = [reading EXCEPT ![d] = [notice |-> notice, payout |-> p, before |-> row[p].status]]
  /\ UNCHANGED <<vars, events>>

Arrive(d, notice, c) ==
  /\ events[d] = None /\ reading[d] = None
  /\ \/ Refuse(d, notice, c)
     \/ Refused(c) = None /\ (Miss(d, notice) \/ Read(d, notice))

AlwaysAlready(before) ==
  CASE before = "CONFIRMED" -> "ALREADY_CONFIRMED"
    [] before = "FAILED" -> "ALREADY_FAILED"
    [] before = "SENT" -> "ALREADY_SENT"
    [] before = "PENDING" -> "ALREADY_PENDING"
\* Why an update that changed nothing did so, judged by the earlier read.
WhyIgnored(before) ==
  CASE before = "CONFIRMED" -> "ALREADY_CONFIRMED"
    [] before = "FAILED" -> "ALREADY_FAILED"
    [] before \notin Terminal -> "NOT_UPDATED"

\* The status read again after an update that took.
StatusRead(notice, before) == {before}
StatusAfter(notice, before) == {row'[p].status : p \in Existing(row', notice)}

Finish(d) ==
  /\ reading[d] # None
  /\ LET notice == reading[d].notice
         payout == reading[d].payout
         before == reading[d].before
     IN \/ /\ Update(notice, FALSE, TRUE)
           /\ \E after \in StatusAfter(notice, before) :
                Log(d, Event(notice, payout, before, after, None))
        \/ /\ Update(notice, FALSE, FALSE)
           /\ Log(d, Event(notice, payout, before, before, WhyIgnored(before)))
  /\ reading' = [reading EXCEPT ![d] = None]

\* The update waits for a worker longer than the statement timeout, or the
\* process dies: nothing is changed and nothing logged.
Drop(d) ==
  /\ reading[d] # None
  /\ reading' = [reading EXCEPT ![d] = None]
  /\ UNCHANGED <<vars, events>>

\* replay_event, with allow_terminal_override or without.
ReplayEvent(d, override) ==
  /\ events[d] # None /\ events[d].notice # None
  /\ override => "replay" \in AdminOps
  /\ Notify(events[d].notice, override)
  /\ UNCHANGED webVars

\* Everything else that befalls payouts.
Elsewhere ==
  \/ \E p \in Payouts : Create(p) \/ ConfirmByHand(p)
  \/ \E p \in Payouts, n \in 1 .. MaxSends, o \in {"paid", "rejected"} : Settle(p, n, o)
  \/ \E w \in Workers, S \in SUBSET Claimable : Claim(w, S)
  \/ \E w \in Workers, p \in Payouts : Handle(w, p)
  \/ \E w \in Workers : Commit(w) \/ Abort(w) \/ Start(w)
  \/ \E a \in Admins, p \in Payouts : RetryRead(a, p) \/ RetryWrite(a, p)
  \/ \E a \in Admins : RetryLost(a)

WebhooksNext ==
  \/ Elsewhere /\ UNCHANGED webVars
  \/ \E d \in Deliveries, notice \in Notices, c \in Conditions : Arrive(d, notice, c)
  \/ \E d \in Deliveries : Finish(d) \/ Drop(d)
  \/ \E d \in Deliveries, override \in BOOLEAN : ReplayEvent(d, override)

WebhooksSpec == WebhooksInit /\ [][WebhooksNext]_webhookVars

\* Webhooks may all be lost: only the workers and the providers are fair.
WebhooksFairSpec == WebhooksSpec /\ Fairness

-----------------------------------------------------------------------------
(* Properties.                                                              *)
Notice == [pref : Refs, eref : Refs, verdict : {"SENT"} \cup Terminal]

\* Every variable has its type.
WebhooksTypeOK ==
  /\ TypeOK
  /\ reading \in [Deliveries -> [notice : Notice, payout : Payouts, before : Status] \cup {None}]
  /\ events \in [Deliveries -> [notice : Notice \cup {None}, payout : Payouts \cup {None},
                                before : Status \cup {None}, after : Status \cup {None},
                                reason : Reasons \cup {None}] \cup {None}]

\* Two payouts that share a reference are not told apart.
Distinct(notice) == Cardinality(Hits(notice, TRUE) \cup Named(notice)) <= 1

\* The log tells the truth although the payout is read before it is updated: an
\* event that says "ignored" came with no change, one that says "applied" names
\* the payout that changed, the only one, and the status it has then
\* (routes/webhooks.py:470-556).
EventsTellTheTruth ==
  [][\A d \in Deliveries :
       events[d] = None /\ events'[d] # None =>
         LET event == events'[d] IN
         /\ event.reason # None /\ (event.notice # None => Distinct(event.notice)) => row' = row
         /\ event.reason = None /\ Distinct(event.notice) =>
              /\ row' = [row EXCEPT ![event.payout] = Applied(@, event.notice.verdict)]
              /\ row'[event.payout].status = event.after]_webhookVars

\* News of a payout that was found is dropped only if the payout had concluded,
\* in the status the event names, or went by another reference when it came to
\* the update; operators apart.
DroppedOnlyIfStale ==
  \A d \in Deliveries :
    events[d] # None /\ events[d].payout # None /\ events[d].reason # None /\ AdminOps = {} =>
      LET event == events[d]
          payout == row[event.payout]
      IN \/ event.reason = "ALREADY_CONFIRMED" /\ payout.status = "CONFIRMED"
         \/ event.reason = "ALREADY_FAILED" /\ payout.status = "FAILED"
         \/ event.reason = "NOT_UPDATED" /\
              \/ payout.status \in Terminal
              \/ payout.ref # event.notice.pref /\ ExternalRef[event.payout] # event.notice.eref
=============================================================================
