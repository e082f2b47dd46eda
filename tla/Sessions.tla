------------------------------- MODULE Sessions -------------------------------
(***************************************************************************)
(* Sign-up, sign-in and refresh: the /v1/auth routes behind the rate       *)
(* limiter, the users they register and the refresh sessions they keep.    *)
(*                                                                         *)
(* Every handler is a series of short transactions: login reads the user   *)
(* in one and creates the session in another, refresh validates, revokes   *)
(* and creates in three, a Google sign-in looks for the user, registers    *)
(* one if there is none, and creates the session.  A request is named once *)
(* and makes at most one user and one session, which carry its name.       *)
(***************************************************************************)
EXTENDS TokenBucket, FiniteSets

CONSTANTS
  Requests,   \* requests to the authentication routes
  Old,        \* users registered earlier
  OldEmail,   \* their addresses
  OldPhone,   \* their phone numbers
  Emails,
  Phones,
  Invited     \* addresses invite-only mode lets in (all of them when it is off)

ASSUME SessionsAssumption ==
  /\ "auth" \in Groups
  /\ None \notin Requests \cup Old \cup Emails \cup Phones
  /\ Requests \cap Old = {}
  /\ OldEmail \in [Old -> Emails] /\ OldPhone \in [Old -> Phones]
  /\ Invited \subseteq Emails
  /\ \A u, v \in Old : OldEmail[u] = OldEmail[v] \/ OldPhone[u] = OldPhone[v] => u = v

Ids == Requests \cup Old
User == [id : Ids, email : Emails, phone : Phones]
Session == [user : Ids, root : Requests, revoked : BOOLEAN, expired : BOOLEAN]

ASSUME NoneIsNoSession == None \notin Session

\* What a request asks for; a Google sign-in may come without a phone number.
Asks ==
  [kind : {"login"}, email : Emails, phone : {None}, token : {None}]
    \cup [kind : {"register"}, email : Emails, phone : Phones, token : {None}]
    \cup [kind : {"google"}, email : Emails, phone : Phones \cup {None}, token : {None}]
    \cup [kind : {"refresh"}, email : {None}, phone : {None}, token : Requests]
NoAsk == [kind |-> "none", email |-> None, phone |-> None, token |-> None]

Stages == {"idle", "find", "insert", "commit", "validate", "revoke", "create", "done"}
Codes == {"none", "ok", "UNAUTHORIZED", "NOT_INVITED", "ONBOARDING", "EMAIL_TAKEN",
          "PHONE_TAKEN", "lost"}

VARIABLES
  stage,     \* the next transaction of each request
  ask,       \* what it asks for
  found,     \* the user its handler has found or registered
  users,     \* users.users, committed
  session,   \* auth.user_sessions, by the request that created them
  reply,     \* what each request was answered
  raced      \* sign-ins with a token that two refreshes used at once

authVars == <<stage, ask, found, users, session, reply, raced>>
vars == <<bucketVars, authVars>>

NoReply == [code |-> "none", user |-> None]

AuthInit ==
  /\ stage = [r \in Requests |-> "idle"]
  /\ ask = [r \in Requests |-> NoAsk]
  /\ found = [r \in Requests |-> None]
  /\ users = {[id |-> u, email |-> OldEmail[u], phone |-> OldPhone[u]] : u \in Old}
  /\ session = [r \in Requests |-> None]
  /\ reply = [r \in Requests |-> NoReply]
  /\ raced = {}

Email(r) == ask[r].email
Phone(r) == ask[r].phone
Presented(r) == ask[r].token
OfEmail(e) == {u \in users : u.email = e}
OfPhone(p) == {u \in users : u.phone = p}

Go(r, s) == stage' = [stage EXCEPT ![r] = s]
Told(r, code, user) == reply' = [reply EXCEPT ![r] = [code |-> code, user |-> user]]
End(r, code) == Go(r, "done") /\ Told(r, code, None)

-----------------------------------------------------------------------------
\* The routes ahead of their first transaction; clients present the tokens
\* they were given, more than once if they like.
FirstStage(a) ==
  CASE a.kind \in {"login", "google"} -> "find"
    [] a.kind = "register" -> "insert"
    [] a.kind = "refresh" -> "validate"

\* _enforce_invite_only; a refresh is not asked.
Welcome(a) == a.kind = "refresh" \/ a.email \in Invited
Issued(a) == a.kind = "refresh" => reply[a.token].code = "ok" /\ session[a.token] # None

Begin(r, a) ==
  /\ stage[r] = "idle" /\ Issued(a)
  /\ ask' = [ask EXCEPT ![r] = a]
  /\ \/ Welcome(a) /\ Go(r, FirstStage(a)) /\ UNCHANGED reply
     \/ ~Welcome(a) /\ End(r, "NOT_INVITED")
     \/ a.kind = "google" /\ End(r, "UNAUTHORIZED")   \* the ID token is not verified
  /\ UNCHANGED <<found, users, session, raced>>

\* A request of a client that has tokens left reaches its route.
Arrive(r, h) == Allow(<<"auth", h>>) /\ \E a \in Asks : Begin(r, a)

-----------------------------------------------------------------------------
(* Users.                                                                   *)
\* login: the password may not match.
FindForLogin(r) ==
  /\ stage[r] = "find" /\ ask[r].kind = "login"
  /\ \/ End(r, "UNAUTHORIZED") /\ UNCHANGED found
     \/ \E u \in OfEmail(Email(r)) :
          found' = [found EXCEPT ![r] = u.id] /\ Go(r, "create") /\ UNCHANGED reply
  /\ UNCHANGED <<ask, users, session, raced>>

FindForGoogle(r) ==
  /\ stage[r] = "find" /\ ask[r].kind = "google"
  /\ \/ \E u \in OfEmail(Email(r)) :
          found' = [found EXCEPT ![r] = u.id] /\ Go(r, "create") /\ UNCHANGED reply
     \/ /\ OfEmail(Email(r)) = {} /\ UNCHANGED found
        /\ IF Phone(r) = None THEN End(r, "ONBOARDING") ELSE Go(r, "insert") /\ UNCHANGED reply
  /\ UNCHANGED <<ask, users, session, raced>>

\* register_user_secure: the unique indexes on address and phone number make
\* an insert wait for another one that has not committed; a committed one is a
\* unique violation, whose handler says which.  (The user's wallet is inserted
\* in the same transaction.)
Inserting == {r \in Requests : stage[r] = "commit"}
AnyEmail(r) == TRUE
FreeEmail(r) == \A q \in Inserting : Email(q) # Email(r)
FreePhone(r) == \A q \in Inserting : Phone(q) # Phone(r)

ViolationAtOnce(r) == OfEmail(Email(r)) # {} \/ ~FreeEmail(r) \/ ~FreePhone(r)
Violation(r) ==
  \/ OfEmail(Email(r)) # {}
  \/ FreeEmail(r) /\ OfPhone(Phone(r)) # {}
Taken(r) == IF OfEmail(Email(r)) # {} THEN "EMAIL_TAKEN" ELSE "PHONE_TAKEN"

Insert(r) ==
  /\ stage[r] = "insert"
  /\ \/ Violation(r) /\ End(r, Taken(r))
     \/ /\ ~Violation(r) /\ FreeEmail(r) /\ FreePhone(r)
        /\ Go(r, "commit") /\ UNCHANGED reply
  /\ UNCHANGED <<ask, found, users, session, raced>>

CommitUser(r) ==
  /\ stage[r] = "commit"
  /\ users' = users \cup {[id |-> r, email |-> Email(r), phone |-> Phone(r)]}
  /\ found' = [found EXCEPT ![r] = r]
  /\ IF ask[r].kind = "google" THEN Go(r, "create") /\ UNCHANGED reply
                               ELSE Go(r, "done") /\ Told(r, "ok", r)
  /\ UNCHANGED <<ask, session, raced>>

-----------------------------------------------------------------------------
(* Sessions.                                                                *)
Live(t) == session[t] # None /\ ~session[t].revoked
Refreshing(t) == {r \in Requests : stage[r] = "revoke" /\ Presented(r) = t}

UsableUntilExpiry(t) == session[t] # None /\ ~session[t].expired
Usable(t) == Live(t) /\ ~session[t].expired

\* validate_refresh_token (which also notes last_used_at).
Validate(r) ==
  /\ stage[r] = "validate"
  /\ IF Usable(Presented(r))
     THEN /\ found' = [found EXCEPT ![r] = session[Presented(r)].user]
          /\ Go(r, "revoke") /\ UNCHANGED reply
          /\ raced' = IF Refreshing(Presented(r)) = {} THEN raced
                      ELSE raced \cup {session[Presented(r)].root}
     ELSE End(r, "UNAUTHORIZED") /\ UNCHANGED <<found, raced>>
  /\ UNCHANGED <<ask, users, session>>

\* revoke_refresh_token, whether or not it was revoked before.
Revoked(r) == session' = [session EXCEPT ![Presented(r)].revoked = TRUE]

Revoke(r) ==
  /\ stage[r] = "revoke"
  /\ Revoked(r)
  /\ Go(r, "create")
  /\ UNCHANGED <<ask, found, users, reply, raced>>

\* The sign-in a session descends from.
Root(r) == IF ask[r].kind = "refresh" THEN session[Presented(r)].root ELSE r

\* create_session_refresh_token; the answer may be lost on its way.
Create(r) ==
  /\ stage[r] = "create"
  /\ session' = [session EXCEPT ![r] = [user |-> found[r], root |-> Root(r),
                                        revoked |-> FALSE, expired |-> FALSE]]
  /\ Go(r, "done")
  /\ \/ Told(r, "ok", found[r])
     \/ Told(r, "lost", None)
  /\ UNCHANGED <<ask, found, users, raced>>

Expire(t) ==
  /\ Live(t) /\ ~session[t].expired
  /\ session' = [session EXCEPT ![t].expired = TRUE]
  /\ UNCHANGED <<stage, ask, found, users, reply, raced>>

-----------------------------------------------------------------------------
\* A request is cut off between two transactions, or in one that is undone:
\* the process dies, the database cannot be reached.
InFlight(r) == stage[r] \notin {"idle", "done"}

CutOff(r) ==
  /\ InFlight(r)
  /\ End(r, "lost")
  /\ UNCHANGED <<ask, found, users, session, raced>>

Handle(r) ==
  \/ FindForLogin(r)
  \/ FindForGoogle(r)
  \/ Insert(r)
  \/ CommitUser(r)
  \/ Validate(r)
  \/ Revoke(r)
  \/ Create(r)
  \/ CutOff(r)

\* A restart cuts off every request.
Crash ==
  /\ Restart
  /\ stage' = [r \in Requests |-> IF InFlight(r) THEN "done" ELSE stage[r]]
  /\ reply' = [r \in Requests |-> IF InFlight(r) THEN [code |-> "lost", user |-> None] ELSE reply[r]]
  /\ UNCHANGED <<ask, found, users, session, raced>>

\* What the limiter does besides: refuse, serve the other routes, see time go by.
Limiter ==
  \/ \E k \in Keys : Refuse(k) \/ (k[1] # "auth" /\ Allow(k))
  \/ \E d \in Moves : Tick(d) \/ SetBack(d)
  \/ OpenWindow

SessionsInit == BucketInit /\ AuthInit

SessionsNext ==
  \/ \E r \in Requests, h \in Hosts : Arrive(r, h)
  \/ (\E r \in Requests : Handle(r) \/ Expire(r)) /\ UNCHANGED bucketVars
  \/ Limiter /\ UNCHANGED authVars
  \/ Crash

SessionsSpec == SessionsInit /\ [][SessionsNext]_vars

-----------------------------------------------------------------------------
(* Properties.                                                              *)

\* Every variable has its type, tokens are never negative.
SessionsTypeOK ==
  /\ BucketTypeOK
  /\ stage \in [Requests -> Stages]
  /\ ask \in [Requests -> Asks \cup {NoAsk}]
  /\ found \in [Requests -> Ids \cup {None}]
  /\ users \subseteq User
  /\ session \in [Requests -> Session \cup {None}]
  /\ reply \in [Requests -> [code : Codes, user : Ids \cup {None}]]
  /\ raced \subseteq Requests

\* A sign-in has at most one session that is not revoked, however often its
\* token is refreshed, and whatever is cut off or lost in between, unless two
\* refreshes used one token at the same time (routes/auth.py:85-91).
OneSessionPerSignIn ==
  \A s, t \in Requests :
    Live(s) /\ Live(t) /\ session[s].root = session[t].root =>
      s = t \/ session[s].root \in raced

\* The address a request signed in with, or its sign-in did.
Address(r) == IF ask[r].kind = "refresh" THEN Email(session[Presented(r)].root) ELSE Email(r)

\* However sign-ups, Google sign-ins, logins and refreshes interleave, all that
\* succeed for one address name the same user, who has that address.
SignInsAgree ==
  \A r, s \in Requests :
    reply[r].code = "ok" /\ reply[s].code = "ok" /\ Address(r) = Address(s) =>
      /\ reply[r].user = reply[s].user
      /\ \E u \in OfEmail(Address(r)) : u.id = reply[r].user

\* "Taken" is the truth: who is told so finds the account when he signs in,
\* even if the sign-up he met was cut off (db/schema_v1.sql:1419-1427).
TakenIsTaken ==
  \A r \in Requests :
    /\ reply[r].code = "EMAIL_TAKEN" => OfEmail(Email(r)) # {}
    /\ reply[r].code = "PHONE_TAKEN" => OfPhone(Phone(r)) # {}
=============================================================================
