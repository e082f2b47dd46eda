---------------------------- MODULE SessionsProofs ----------------------------
(* Theorems about the rate limiter and the sessions behind it.               *)
EXTENDS Sessions, TLAPS

-----------------------------------------------------------------------------
(* The limiter.                                                             *)

LEMMA Distributes == ASSUME NEW a \in Int, NEW b \in Int, NEW c \in Int
                     PROVE  a * (b + c) = a * b + a * c
OBVIOUS

LEMMA Grows == ASSUME NEW a \in Int, NEW b \in Int, NEW c \in Nat, a <= b
               PROVE  a * c <= b * c
<1>1. PICK n \in Nat : b = a + n
  <2>1. b - a \in Nat /\ b = a + (b - a)
    OBVIOUS
  <2> QED BY <2>1
<1>2. n * c \in Nat
  OBVIOUS
<1>3. b * c = a * c + n * c
  <2>1. c * (a + n) = c * a + c * n
    BY Distributes
  <2> QED BY <1>1, <2>1
<1> QED BY <1>2, <1>3

\* The sizes of a key's bucket are natural numbers.
LEMMA Sizes == ASSUME NEW k \in Keys
               PROVE  Token(k) \in Nat /\ Refill(k) \in Nat /\ Full(k) \in Nat
<1>1. k[1] \in Groups
  BY DEF Keys
<1>2. Limit[k[1]] \in Nat /\ Window[k[1]] \in Nat
  BY <1>1, TokenBucketAssumption
<1>3. Token(k) \in Nat
  BY <1>2 DEF Token, AtLeast
<1> QED BY <1>2, <1>3 DEF Refill, Full

\* What is left in a bucket and what was let through is within what was put in.
Credit(k) == Full(k) * (1 + restarts) + Refill(k) * ran
Covered == \A k \in Keys : Available(k) + admitted[k] * Token(k) <= Credit(k)
BucketInv == BucketTypeOK /\ Covered

LEMMA AvailableType ==
  ASSUME BucketTypeOK, NEW k \in Keys
  PROVE  Available(k) \in Nat /\ Available(k) <= Full(k)
<1>1. CASE bucket[k] = None
  BY <1>1, Sizes DEF Available
<1>2. CASE bucket[k] # None
  <2>1. bucket[k] \in Bucket
    BY <1>2 DEF BucketTypeOK
  <2>2. bucket[k].tokens \in Nat /\ bucket[k].last \in Int /\ now \in Int
    BY <2>1 DEF Bucket, BucketTypeOK
  <2>3. Elapsed(bucket[k].last) \in Nat
    BY <2>2 DEF Elapsed, AtLeast
  <2>4. Elapsed(bucket[k].last) * Refill(k) \in Nat
    BY <2>3, Sizes
  <2>5. Refilled(k) \in Nat
    BY <2>2, <2>4 DEF Refilled
  <2> QED BY <1>2, <2>5, Sizes DEF Available, AtMost
<1> QED BY <1>1, <1>2

LEMMA AvailableTypeNext ==
  ASSUME BucketTypeOK', NEW k \in Keys
  PROVE  Available(k)' \in Nat
<1>1. CASE bucket'[k] = None
  BY <1>1, Sizes DEF Available, Full, Token
<1>2. CASE bucket'[k] # None
  <2>1. bucket'[k] \in Bucket
    BY <1>2 DEF BucketTypeOK
  <2>2. bucket'[k].tokens \in Nat /\ bucket'[k].last \in Int /\ now' \in Int
    BY <2>1 DEF Bucket, BucketTypeOK
  <2>3. Elapsed(bucket[k].last)' \in Nat
    BY <2>2 DEF Elapsed, AtLeast
  <2>4. Elapsed(bucket[k].last)' * Refill(k) \in Nat
    BY <2>3, Sizes
  <2>5. Refilled(k)' \in Nat
    BY <2>2, <2>4 DEF Refilled, Refill
  <2> QED BY <1>2, <2>5, Sizes DEF Available, AtMost, Full, Token
<1> QED BY <1>1, <1>2

LEMMA BucketStart == BucketInit => BucketInv
<1> SUFFICES ASSUME BucketInit PROVE BucketInv
  OBVIOUS
<1>1. BucketTypeOK
  BY DEF BucketInit, BucketTypeOK
<1>2. ASSUME NEW k \in Keys PROVE Available(k) + admitted[k] * Token(k) <= Credit(k)
  <2>1. Available(k) = Full(k) /\ admitted[k] = 0 /\ ran = 0 /\ restarts = 0
    BY DEF BucketInit, Available
  <2> QED BY <2>1, Sizes DEF Credit
<1> QED BY <1>1, <1>2 DEF BucketInv, Covered

\* A request takes what it finds, less a token if it is let through.
LEMMA ServedKeeps ==
  ASSUME BucketInv, NEW k \in Keys, Allow(k) \/ Refuse(k)
  PROVE  BucketInv'
<1> DEFINE left == IF Allow(k) THEN Available(k) - Token(k) ELSE Available(k)
<1>1. BucketTypeOK /\ Covered
  BY DEF BucketInv
<1>2. left \in Nat
  <2>1. CASE Allow(k)
    BY <2>1, <1>1, AvailableType, Sizes DEF Allow
  <2>2. CASE ~Allow(k)
    BY <2>2, <1>1, AvailableType
  <2> QED BY <2>1, <2>2
<1>3. bucket' = [bucket EXCEPT ![k] = [tokens |-> left, last |-> now]]
  BY DEF Allow, Refuse, Keep
<1>4. now' = now /\ ran' = ran /\ restarts' = restarts
  BY DEF Allow, Refuse
<1>5. [tokens |-> left, last |-> now] \in Bucket
  BY <1>1, <1>2 DEF Bucket, BucketTypeOK
<1>6. admitted' \in [Keys -> Nat]
  BY <1>1 DEF Allow, Refuse, BucketTypeOK
<1>7. BucketTypeOK'
  BY <1>1, <1>3, <1>4, <1>5, <1>6 DEF BucketTypeOK
<1>8. ASSUME NEW j \in Keys PROVE Available(j)' + admitted'[j] * Token(j) <= Credit(j)'
  <2>0. Credit(j)' = Credit(j)
    BY <1>4 DEF Credit, Full, Refill, Token
  <2>1. CASE j # k
    <3>1. bucket'[j] = bucket[j] /\ admitted'[j] = admitted[j]
      BY <2>1, <1>1, <1>3 DEF BucketTypeOK, Allow, Refuse
    <3>2. Available(j)' = Available(j)
      BY <3>1, <1>4 DEF Available, Refilled, Elapsed, Full, Refill, Token
    <3> QED BY <3>1, <3>2, <2>0, <1>1 DEF Covered
  <2>2. CASE j = k
    <3>1. bucket'[k] = [tokens |-> left, last |-> now]
      BY <1>1, <1>3 DEF BucketTypeOK
    <3>2. bucket'[k] # None
      BY <3>1, <1>5, TokenBucketAssumption DEF Bucket
    <3>3. Elapsed(bucket[k].last)' = 0
      BY <3>1, <1>1, <1>4 DEF Elapsed, AtLeast, BucketTypeOK
    <3>4. Refilled(k)' = left
      BY <3>1, <3>3, <1>2, Sizes DEF Refilled, Refill
    <3>5. Available(k)' <= left
      BY <3>2, <3>4, <1>2, Sizes DEF Available, AtMost, Full, Token
    <3>5a. Available(k)' \in Nat
      BY <3>2, <3>4, <1>2, Sizes DEF Available, AtMost, Full, Token
    <3>6. left + admitted'[k] * Token(k) = Available(k) + admitted[k] * Token(k)
      <4>1. CASE Allow(k)
        <5>1. admitted'[k] = admitted[k] + 1
          BY <4>1, <1>1 DEF Allow, BucketTypeOK
        <5>2. Token(k) * (admitted[k] + 1) = Token(k) * admitted[k] + Token(k) * 1
          BY Distributes, Sizes, <1>1 DEF BucketTypeOK
        <5> QED BY <4>1, <5>1, <5>2, <1>1, AvailableType, Sizes DEF BucketTypeOK
      <4>2. CASE ~Allow(k)
        BY <4>2 DEF Refuse
      <4> QED BY <4>1, <4>2
    <3>7. admitted'[k] * Token(k) \in Nat /\ admitted[k] * Token(k) \in Nat
      BY <1>1, <1>6, Sizes DEF BucketTypeOK
    <3>8. Credit(k) \in Int
      BY <1>1, Sizes DEF Credit, BucketTypeOK
    <3> QED BY <2>0, <2>2, <3>5, <3>5a, <3>6, <3>7, <3>8, <1>1, <1>2, AvailableType DEF Covered
  <2> QED BY <2>1, <2>2
<1>9. Covered'
  BY <1>8 DEF Covered, Token
<1> QED BY <1>7, <1>9 DEF BucketInv

\* Time gives back no more than it refills, and none when it is set back.
LEMMA ClockKeeps ==
  ASSUME BucketInv, NEW d \in Moves, Tick(d) \/ SetBack(d)
  PROVE  BucketInv'
<1> DEFINE e == IF Tick(d) THEN d ELSE 0
<1>1. BucketTypeOK /\ Covered
  BY DEF BucketInv
<1>2. d \in Nat /\ e \in Nat
  BY TokenBucketAssumption
<1>3. now' \in Int /\ now' <= now + e
  BY <1>1, <1>2 DEF Tick, SetBack, BucketTypeOK
<1>4. bucket' = bucket /\ admitted' = admitted /\ restarts' = restarts
  BY DEF Tick, SetBack
<1>5. ran' = ran + e
  BY <1>1 DEF Tick, SetBack, BucketTypeOK
<1>6. BucketTypeOK'
  BY <1>1, <1>2, <1>3, <1>4, <1>5 DEF BucketTypeOK
<1>7. ASSUME NEW k \in Keys PROVE Available(k)' + admitted[k] * Token(k) <= Credit(k)'
  <2>1. Refill(k) * (ran + e) = Refill(k) * ran + Refill(k) * e
    BY Distributes, Sizes, <1>1, <1>2 DEF BucketTypeOK
  <2>2. Credit(k)' = Credit(k) + Refill(k) * e
    BY <1>1, <1>4, <1>5, <2>1, Sizes, <1>2 DEF Credit, Full, Refill, Token, BucketTypeOK
  <2>3. Refill(k) * e \in Nat
    BY <1>2, Sizes
  <2>4. Available(k)' <= Available(k) + Refill(k) * e
    <3>1. CASE bucket[k] = None
      BY <3>1, <1>4, <2>3, Sizes DEF Available, Full, Refill, Token
    <3>2. CASE bucket[k] # None
      <4> DEFINE l == bucket[k].last
                 g == now - l
                 h == now' - l
      <4>1. bucket[k].tokens \in Nat /\ l \in Int /\ now \in Int
        BY <3>2, <1>1 DEF Bucket, BucketTypeOK
      <4>2. Elapsed(l) \in Nat /\ Elapsed(l)' \in Nat
        BY <4>1, <1>3, <1>4 DEF Elapsed, AtLeast
      <4>3. Elapsed(l)' <= Elapsed(l) + e
        BY <4>1, <1>2, <1>3, <1>4 DEF Elapsed, AtLeast
      <4>4. Elapsed(l)' * Refill(k) <= (Elapsed(l) + e) * Refill(k)
        BY Grows, <4>2, <4>3, <1>2, Sizes
      <4>5. (Elapsed(l) + e) * Refill(k) = Elapsed(l) * Refill(k) + Refill(k) * e
        <5>1. Refill(k) * (Elapsed(l) + e) = Refill(k) * Elapsed(l) + Refill(k) * e
          BY Distributes, <4>2, <1>2, Sizes
        <5> QED BY <5>1, <4>2, <1>2, Sizes
      <4>6. Elapsed(l)' * Refill(k) \in Nat /\ Elapsed(l) * Refill(k) \in Nat
        BY <4>2, Sizes
      <4>7. Refilled(k)' = bucket[k].tokens + Elapsed(l)' * Refill(k)
        BY <1>4 DEF Refilled, Refill
      <4>8. Refilled(k)' <= Refilled(k) + Refill(k) * e
        BY <4>1, <4>4, <4>5, <4>6, <4>7, <2>3 DEF Refilled
      <4>9. Refilled(k)' \in Nat /\ Refilled(k) \in Nat
        BY <4>1, <4>6, <4>7 DEF Refilled
      <4>10. Available(k)' = AtMost(Full(k), Refilled(k)') /\ Available(k) = AtMost(Full(k), Refilled(k))
        BY <3>2, <1>4 DEF Available, Full, Refill, Token, AtMost
      <4> QED BY <4>8, <4>9, <4>10, <2>3, Sizes DEF AtMost
    <3> QED BY <3>1, <3>2
  <2>5. Available(k) \in Nat /\ Available(k)' \in Nat
    BY <1>1, <1>6, AvailableType, AvailableTypeNext
  <2>6. admitted[k] * Token(k) \in Nat /\ Credit(k) \in Int
    BY <1>1, Sizes DEF Credit, BucketTypeOK
  <2> QED BY <2>2, <2>3, <2>4, <2>5, <2>6, <1>1 DEF Covered
<1>8. Covered'
  BY <1>4, <1>7 DEF Covered, Token
<1> QED BY <1>6, <1>8 DEF BucketInv

LEMMA RestartKeeps == ASSUME BucketInv, Restart PROVE BucketInv'
<1>1. BucketTypeOK /\ Covered
  BY DEF BucketInv
<1>2. BucketTypeOK'
  BY <1>1 DEF Restart, BucketTypeOK
<1>3. ASSUME NEW k \in Keys PROVE Available(k)' + admitted[k] * Token(k) <= Credit(k)'
  <2>1. Available(k)' = Full(k)
    BY DEF Restart, Available, Full, Token
  <2>2. Full(k) * (1 + restarts + 1) = Full(k) * (1 + restarts) + Full(k) * 1
    BY Distributes, Sizes, <1>1 DEF BucketTypeOK
  <2>3. Credit(k)' = Credit(k) + Full(k)
    BY <2>2, <1>1, Sizes DEF Restart, Credit, Full, Refill, Token, BucketTypeOK
  <2>4. admitted[k] * Token(k) \in Nat /\ Credit(k) \in Int
    BY <1>1, Sizes DEF Credit, BucketTypeOK
  <2> QED BY <1>1, <2>1, <2>3, <2>4, AvailableType, Sizes DEF Covered
<1> QED BY <1>2, <1>3 DEF BucketInv, Covered, Restart, Token

LEMMA WindowKeeps == ASSUME BucketInv, OpenWindow PROVE BucketInv'
<1>1. BucketTypeOK
  BY DEF BucketInv
<1>2. BucketTypeOK'
  BY <1>1 DEF OpenWindow, BucketTypeOK
<1>3. ASSUME NEW k \in Keys PROVE Available(k)' + admitted'[k] * Token(k) <= Credit(k)'
  <2>1. Available(k)' = Available(k)
    BY DEF OpenWindow, Available, Refilled, Elapsed, Full, Refill, Token
  <2>2. admitted'[k] = 0 /\ Credit(k)' = Full(k)
    BY Sizes DEF OpenWindow, Credit, Full, Refill, Token
  <2> QED BY <1>1, <2>1, <2>2, AvailableType, Sizes
<1> QED BY <1>2, <1>3 DEF BucketInv, Covered, Token

LEMMA BucketStep == ASSUME BucketInv, [BucketNext]_bucketVars PROVE BucketInv'
<1>1. ASSUME NEW k \in Keys, Allow(k) \/ Refuse(k) PROVE BucketInv'
  BY <1>1, ServedKeeps
<1>2. ASSUME NEW d \in Moves, Tick(d) \/ SetBack(d) PROVE BucketInv'
  BY <1>2, ClockKeeps
<1>3. CASE Restart
  BY <1>3, RestartKeeps
<1>4. CASE OpenWindow
  BY <1>4, WindowKeeps
<1>5. CASE UNCHANGED bucketVars
  BY <1>5 DEF bucketVars, BucketInv, BucketTypeOK, Covered, Available, Refilled, Elapsed,
              Credit, Full, Refill, Token
<1> QED BY <1>1, <1>2, <1>3, <1>4, <1>5 DEF BucketNext

LEMMA CoveredIsBounded == BucketInv => AdmissionsBounded
<1> SUFFICES ASSUME BucketInv, NEW k \in Keys
             PROVE  admitted[k] * Token(k) <= Full(k) * (1 + restarts) + Refill(k) * ran
  BY DEF AdmissionsBounded
<1>1. BucketTypeOK /\ Available(k) + admitted[k] * Token(k) <= Credit(k)
  BY DEF BucketInv, Covered
<1>2. admitted[k] * Token(k) \in Nat /\ Credit(k) \in Int
  BY <1>1, Sizes DEF Credit, BucketTypeOK
<1> QED BY <1>1, <1>2, AvailableType DEF Credit

\* Every step of the service is one of the limiter.
LEMMA SessionsLimit == SessionsSpec => BucketSpec
<1>1. SessionsInit => BucketInit
  BY DEF SessionsInit
<1>2. [SessionsNext]_vars => [BucketNext]_bucketVars
  <2>1. ASSUME NEW r \in Requests, NEW h \in Hosts, Arrive(r, h) PROVE BucketNext
    BY <2>1, SessionsAssumption DEF Arrive, BucketNext, Keys
  <2>2. Limiter => BucketNext
    BY DEF Limiter, BucketNext
  <2>3. Crash => BucketNext
    BY DEF Crash, BucketNext
  <2> QED BY <2>1, <2>2, <2>3 DEF SessionsNext, vars
<1> QED BY <1>1, <1>2, PTL DEF SessionsSpec, BucketSpec

\* A client gets no more requests through than the limit and the refill, with
\* any limits, moves of the clock and restarts (rate_limit.py:25-37).
THEOREM LimiterBounds == SessionsSpec => []AdmissionsBounded
<1>1. BucketSpec => []BucketInv
  BY BucketStart, BucketStep, PTL DEF BucketSpec
<1> QED BY <1>1, SessionsLimit, CoveredIsBounded, PTL

-----------------------------------------------------------------------------
(* The handlers.                                                            *)

AuthTypeOK ==
  /\ stage \in [Requests -> Stages]
  /\ ask \in [Requests -> Asks \cup {NoAsk}]
  /\ found \in [Requests -> Ids \cup {None}]
  /\ users \subseteq User
  /\ session \in [Requests -> Session \cup {None}]
  /\ reply \in [Requests -> [code : Codes, user : Ids \cup {None}]]
  /\ raced \subseteq Requests

\* A crash as the handlers see it.
CutAll ==
  /\ stage' = [r \in Requests |-> IF InFlight(r) THEN "done" ELSE stage[r]]
  /\ reply' = [r \in Requests |-> IF InFlight(r) THEN [code |-> "lost", user |-> None] ELSE reply[r]]
  /\ UNCHANGED <<ask, found, users, session, raced>>

AuthNext ==
  \/ \E r \in Requests, a \in Asks : Begin(r, a)
  \/ \E r \in Requests : Handle(r)
  \/ \E r \in Requests : Expire(r)
  \/ CutAll

LEMMA SessionsSteps == [SessionsNext]_vars => [AuthNext]_authVars
<1>1. ASSUME NEW r \in Requests, NEW h \in Hosts, Arrive(r, h) PROVE AuthNext
  BY <1>1 DEF Arrive, AuthNext
<1>2. ASSUME NEW r \in Requests, Handle(r) \/ Expire(r) PROVE AuthNext
  BY <1>2 DEF AuthNext
<1>3. Crash => AuthNext
  BY DEF Crash, AuthNext, CutAll
<1> QED BY <1>1, <1>2, <1>3 DEF SessionsNext, vars

\* What kind of request is at which stage, and that a session is the last
\* thing its request makes; a sign-in whose session is refreshed has one.
Shape ==
  \A r \in Requests :
    /\ stage[r] \in {"validate", "revoke"} => ask[r].kind = "refresh"
    /\ stage[r] \in {"insert", "commit"} =>
         ask[r].kind \in {"register", "google"} /\ Phone(r) # None
    /\ stage[r] = "find" => ask[r].kind \in {"login", "google"}
    /\ stage[r] = "idle" <=> ask[r] = NoAsk
    /\ stage[r] \in {"revoke", "create"} => found[r] # None
    /\ reply[r].code # "none" => stage[r] = "done"
    /\ ask[r].kind = "refresh" => session[Presented(r)] # None
    /\ session[r] # None =>
         /\ stage[r] = "done" /\ stage[session[r].root] = "done"
         /\ session[session[r].root] # None /\ ask[session[r].root].kind # "refresh"

\* The fields of a request, by its kind.
LEMMA Fields ==
  ASSUME NEW a \in Asks
  PROVE  /\ a # NoAsk
         /\ a.kind \in {"login", "register", "google", "refresh"}
         /\ a.kind = "refresh" <=> a.token # None
         /\ a.kind = "refresh" => a.token \in Requests
         /\ a.kind # "refresh" => a.email \in Emails
         /\ a.kind = "register" => a.phone \in Phones
         /\ a.phone \in Phones \cup {None}
BY SessionsAssumption DEF Asks, NoAsk

Inv1 == AuthTypeOK /\ Shape

LEMMA AuthStart == AuthInit => Inv1
BY SessionsAssumption DEF AuthInit, Inv1, AuthTypeOK, Shape, Stages, NoAsk, NoReply, Codes, User,
   Asks, Ids

LEMMA TypesStep == ASSUME Inv1, [AuthNext]_authVars PROVE AuthTypeOK'
<1> USE DEF Inv1, AuthTypeOK, Go, Told, End, Stages, Codes
<1>1. ASSUME NEW r \in Requests, NEW a \in Asks, Begin(r, a) PROVE AuthTypeOK'
  BY <1>1, Fields DEF Begin, FirstStage
<1>2. ASSUME NEW r \in Requests, FindForLogin(r) PROVE AuthTypeOK'
  <2>1. CASE End(r, "UNAUTHORIZED") /\ UNCHANGED found
    BY <1>2, <2>1 DEF FindForLogin
  <2>2. ASSUME NEW u \in OfEmail(Email(r)), found' = [found EXCEPT ![r] = u.id],
               Go(r, "create"), UNCHANGED reply
        PROVE  AuthTypeOK'
    <3>1. u.id \in Ids
      BY DEF OfEmail, User
    <3> QED BY <1>2, <2>2, <3>1 DEF FindForLogin
  <2> QED BY <1>2, <2>1, <2>2 DEF FindForLogin
<1>3. ASSUME NEW r \in Requests, FindForGoogle(r) PROVE AuthTypeOK'
  BY <1>3 DEF FindForGoogle, OfEmail, User
<1>4. ASSUME NEW r \in Requests, Insert(r) PROVE AuthTypeOK'
  <2>1. CASE End(r, Taken(r))
    BY <1>4, <2>1 DEF Insert, Taken
  <2>2. CASE Go(r, "commit") /\ UNCHANGED reply
    BY <1>4, <2>2 DEF Insert
  <2> QED BY <1>4, <2>1, <2>2 DEF Insert
<1>5. ASSUME NEW r \in Requests, CommitUser(r) PROVE AuthTypeOK'
  <2>1. stage[r] = "commit" /\ ask[r].kind \in {"register", "google"} /\ Phone(r) # None
    BY <1>5 DEF CommitUser, Shape
  <2>2. ask[r] \in Asks
    BY <2>1 DEF NoAsk
  <2>3. Email(r) \in Emails /\ Phone(r) \in Phones /\ r \in Ids
    BY <2>1, <2>2, Fields DEF Email, Phone, Ids
  <2>4. [id |-> r, email |-> Email(r), phone |-> Phone(r)] \in User
    BY <2>3 DEF User
  <2>5. users' \subseteq User /\ found' \in [Requests -> Ids \cup {None}]
    BY <1>5, <2>3, <2>4 DEF CommitUser
  <2>6. CASE Go(r, "create") /\ UNCHANGED reply
    BY <1>5, <2>5, <2>6 DEF CommitUser
  <2>7. CASE Go(r, "done") /\ Told(r, "ok", r)
    BY <1>5, <2>3, <2>5, <2>7 DEF CommitUser
  <2> QED BY <1>5, <2>6, <2>7 DEF CommitUser
<1>6. ASSUME NEW r \in Requests, Validate(r) PROVE AuthTypeOK'
  <2>1. ask[r].kind = "refresh" /\ ask[r] \in Asks
    BY <1>6 DEF Validate, Shape, NoAsk
  <2>2. Presented(r) \in Requests
    BY <2>1, Fields DEF Presented
  <2>3. CASE Usable(Presented(r))
    <3>1. session[Presented(r)] \in Session
      BY <2>2, <2>3 DEF Usable, Live
    <3> QED BY <1>6, <2>3, <3>1 DEF Validate, Session
  <2>4. CASE ~Usable(Presented(r))
    BY <1>6, <2>4 DEF Validate
  <2> QED BY <2>3, <2>4
<1>7. ASSUME NEW r \in Requests, Revoke(r) PROVE AuthTypeOK'
  <2>1. ask[r].kind = "refresh" /\ ask[r] \in Asks
    BY <1>7 DEF Revoke, Shape, NoAsk
  <2>2. Presented(r) \in Requests /\ session[Presented(r)] # None
    BY <2>1, Fields DEF Presented, Shape
  <2>3. session[Presented(r)] \in Session
    BY <2>2
  <2>4. [session[Presented(r)] EXCEPT !.revoked = TRUE] \in Session
    BY <2>3 DEF Session
  <2> QED BY <1>7, <2>2, <2>4 DEF Revoke, Revoked
<1>8. ASSUME NEW r \in Requests, Create(r) PROVE AuthTypeOK'
  <2>1. Root(r) \in Requests
    BY <1>8, Fields DEF Root, Shape, Presented, Session, NoAsk, Create
  <2>2. found[r] \in Ids
    BY <1>8 DEF Create, Shape
  <2>3. [user |-> found[r], root |-> Root(r), revoked |-> FALSE, expired |-> FALSE] \in Session
    BY <2>1, <2>2 DEF Session
  <2>4. CASE Told(r, "ok", found[r])
    BY <1>8, <2>2, <2>3, <2>4 DEF Create
  <2>5. CASE Told(r, "lost", None)
    BY <1>8, <2>3, <2>5 DEF Create
  <2> QED BY <1>8, <2>4, <2>5 DEF Create
<1>9. ASSUME NEW r \in Requests, CutOff(r) PROVE AuthTypeOK'
  BY <1>9 DEF CutOff
<1>10. ASSUME NEW t \in Requests, Expire(t) PROVE AuthTypeOK'
  <2>1. session[t] \in Session
    BY <1>10 DEF Expire, Live
  <2>2. [session[t] EXCEPT !.expired = TRUE] \in Session
    BY <2>1 DEF Session
  <2> QED BY <1>10, <2>2 DEF Expire
<1>11. CASE CutAll
  BY <1>11 DEF CutAll
<1>12. CASE UNCHANGED authVars
  BY <1>12 DEF authVars
<1> QED BY <1>1, <1>2, <1>3, <1>4, <1>5, <1>6, <1>7, <1>8, <1>9, <1>10, <1>11, <1>12
        DEF AuthNext, Handle

LEMMA NoSession == None \notin Session
BY NoneIsNoSession

LEMMA ShapeStep == ASSUME Inv1, [AuthNext]_authVars PROVE Shape'
<1> USE DEF Inv1, AuthTypeOK, Shape, Go, Told, End
<1>0. None \notin Ids /\ \A r \in Requests : session[r] # None => session[r] \in Session
  BY SessionsAssumption DEF Ids
<1>1. ASSUME NEW r \in Requests, NEW a \in Asks, Begin(r, a) PROVE Shape'
  <2>1. stage[r] = "idle" /\ ask[r] = NoAsk /\ session[r] = None
    BY <1>1 DEF Begin
  <2>2. ask' = [ask EXCEPT ![r] = a] /\ session' = session /\ found' = found
    BY <1>1 DEF Begin
  <2>3. a.kind = "refresh" => session[a.token] # None
    BY <1>1 DEF Begin, Issued
  <2>4. a # NoAsk /\ (a.kind = "register" => a.phone # None)
    BY Fields, SessionsAssumption
  <2>5. \A t \in Requests : session[t] # None => session[t].root \in Requests /\ session[t].root # r
    BY <2>1, <1>0 DEF Session
  <2>6. CASE Go(r, FirstStage(a)) /\ UNCHANGED reply
    <3>1. stage' = [stage EXCEPT ![r] = FirstStage(a)]
      BY <2>6
    <3>2. /\ FirstStage(a) \in {"find", "insert", "validate"}
          /\ FirstStage(a) = "find" => a.kind \in {"login", "google"}
          /\ FirstStage(a) = "insert" => a.kind = "register"
          /\ FirstStage(a) = "validate" => a.kind = "refresh"
      BY Fields DEF FirstStage
    <3> QED BY <2>1, <2>2, <2>3, <2>4, <2>5, <2>6, <3>1, <3>2 DEF Phone, Presented
  <2>7. ASSUME NEW c \in {"NOT_INVITED", "UNAUTHORIZED"}, End(r, c) PROVE Shape'
    BY <2>1, <2>2, <2>3, <2>4, <2>5, <2>7 DEF Phone, Presented
  <2> QED BY <1>1, <2>6, <2>7 DEF Begin
<1>2. ASSUME NEW r \in Requests, FindForLogin(r) PROVE Shape'
  <2>1. CASE End(r, "UNAUTHORIZED") /\ UNCHANGED found
    BY <1>0, <1>2, <2>1 DEF FindForLogin, Phone, Presented, Session
  <2>2. ASSUME NEW u \in OfEmail(Email(r)), found' = [found EXCEPT ![r] = u.id],
               Go(r, "create"), UNCHANGED reply
        PROVE  Shape'
    <3>1. u.id # None
      BY <1>0 DEF OfEmail, User
    <3> QED BY <1>0, <1>2, <2>2, <3>1 DEF FindForLogin, Phone, Presented, Session
  <2> QED BY <1>2, <2>1, <2>2 DEF FindForLogin
<1>3. ASSUME NEW r \in Requests, FindForGoogle(r) PROVE Shape'
  <2>1. ASSUME NEW u \in OfEmail(Email(r)), found' = [found EXCEPT ![r] = u.id],
               Go(r, "create"), UNCHANGED reply
        PROVE  Shape'
    <3>1. u.id # None
      BY <1>0 DEF OfEmail, User
    <3> QED BY <1>0, <1>3, <2>1, <3>1 DEF FindForGoogle, Phone, Presented, Session
  <2>2. CASE End(r, "ONBOARDING") /\ UNCHANGED found
    BY <1>0, <1>3, <2>2 DEF FindForGoogle, Phone, Presented, Session
  <2>3. CASE Phone(r) # None /\ Go(r, "insert") /\ UNCHANGED <<found, reply>>
    BY <1>0, <1>3, <2>3 DEF FindForGoogle, Phone, Presented, Session
  <2> QED BY <1>3, <2>1, <2>2, <2>3 DEF FindForGoogle
<1>4. ASSUME NEW r \in Requests, Insert(r) PROVE Shape'
  <2>1. CASE End(r, Taken(r))
    BY <1>0, <1>4, <2>1 DEF Insert, Taken, Phone, Presented, Session
  <2>2. CASE Go(r, "commit") /\ UNCHANGED reply
    BY <1>0, <1>4, <2>2 DEF Insert, Phone, Presented, Session
  <2> QED BY <1>4, <2>1, <2>2 DEF Insert
<1>5. ASSUME NEW r \in Requests, CommitUser(r) PROVE Shape'
  <2>1. r # None
    BY SessionsAssumption
  <2>2. CASE Go(r, "create") /\ UNCHANGED reply
    BY <1>0, <1>5, <2>1, <2>2 DEF CommitUser, Phone, Presented, Session
  <2>3. CASE Go(r, "done") /\ Told(r, "ok", r)
    BY <1>0, <1>5, <2>1, <2>3 DEF CommitUser, Phone, Presented, Session
  <2> QED BY <1>5, <2>2, <2>3 DEF CommitUser
<1>6. ASSUME NEW r \in Requests, Validate(r) PROVE Shape'
  <2>1. ask[r].kind = "refresh" /\ stage[r] = "validate"
    BY <1>6 DEF Validate
  <2>2. Presented(r) \in Requests /\ session[Presented(r)] # None
    BY <2>1, Fields DEF Presented, NoAsk
  <2>3. CASE Usable(Presented(r))
    <3>1. session[Presented(r)].user # None
      BY <1>0, <2>2 DEF Session
    <3> QED BY <1>0, <1>6, <2>1, <2>3, <3>1 DEF Validate, Phone, Presented, Session
  <2>4. CASE ~Usable(Presented(r))
    BY <1>0, <1>6, <2>1, <2>4 DEF Validate, Phone, Presented, Session
  <2> QED BY <2>3, <2>4
<1>7. ASSUME NEW r \in Requests, Revoke(r) PROVE Shape'
  <2>1. ask[r].kind = "refresh" /\ stage[r] = "revoke"
    BY <1>7 DEF Revoke
  <2>2. Presented(r) \in Requests /\ session[Presented(r)] # None
    BY <2>1, Fields DEF Presented, NoAsk
  <2>3. \A t \in Requests : /\ session'[t] = None <=> session[t] = None
                            /\ session[t] # None => session'[t].root = session[t].root
    <3>1. session[Presented(r)] \in Session
      BY <1>0, <2>2
    <3>2. [session[Presented(r)] EXCEPT !.revoked = TRUE] \in Session
      BY <3>1 DEF Session
    <3>3. session'[Presented(r)] = [session[Presented(r)] EXCEPT !.revoked = TRUE]
      BY <1>7, <2>2 DEF Revoke, Revoked
    <3>4. session'[Presented(r)] # None /\ session'[Presented(r)].root = session[Presented(r)].root
      <4>1. session'[Presented(r)] \in Session
        BY <3>2, <3>3
      <4>2. session'[Presented(r)].root = session[Presented(r)].root
        BY <3>1, <3>3 DEF Session
      <4> QED BY <4>1, <4>2, NoSession
    <3>5. \A t \in Requests : t # Presented(r) => session'[t] = session[t]
      BY <1>7 DEF Revoke, Revoked
    <3> QED BY <2>2, <3>4, <3>5
  <2>4. /\ stage' = [stage EXCEPT ![r] = "create"]
        /\ UNCHANGED <<ask, found, reply>>
    BY <1>7 DEF Revoke
  <2>5. ASSUME NEW q \in Requests, session'[q] # None
        PROVE  /\ stage'[q] = "done" /\ stage'[session'[q].root] = "done"
               /\ session'[session'[q].root] # None /\ ask'[session'[q].root].kind # "refresh"
    <3>0. session[q] # None =>
            /\ stage[q] = "done" /\ stage[session[q].root] = "done"
            /\ session[session[q].root] # None /\ ask[session[q].root].kind # "refresh"
      OBVIOUS
    <3> HIDE DEF Inv1, AuthTypeOK, Shape
    <3>1. session[q] # None /\ session[q].root \in Requests /\ session'[q].root = session[q].root
      BY <1>0, <2>3, <2>5 DEF Session
    <3>2. session[q].root # r
      BY <2>1, <3>0, <3>1
    <3>3. stage[q] = "done" => q # r
      BY <2>1
    <3>4. \A t \in Requests : t # r => stage'[t] = stage[t]
      BY <2>4
    <3> QED BY <2>3, <2>4, <3>0, <3>1, <3>2, <3>3, <3>4
  <2>6. \A q \in Requests : ask'[q].kind = "refresh" => session'[Presented(q)'] # None
    BY <2>3, <2>4, Fields DEF Presented, NoAsk
  <2> QED BY <2>1, <2>4, <2>5, <2>6 DEF Phone
<1>8. ASSUME NEW r \in Requests, Create(r) PROVE Shape'
  <2>1. stage[r] = "create" /\ session[r] = None
    BY <1>8 DEF Create
  <2>2. ask[r].kind = "refresh" => Presented(r) \in Requests /\ session[Presented(r)] \in Session
    BY <1>0, Fields DEF Presented, NoAsk
  <2>3. /\ Root(r) \in Requests /\ ask[Root(r)].kind # "refresh"
        /\ Root(r) = r \/ (stage[Root(r)] = "done" /\ session[Root(r)] # None)
    BY <2>2 DEF Root, Session
  <2>4. [user |-> found[r], root |-> Root(r), revoked |-> FALSE, expired |-> FALSE] \in Session
    BY <2>1, <2>3 DEF Session
  <2>5. session'[r] # None /\ session'[r].root = Root(r)
    <3>1. session'[r] = [user |-> found[r], root |-> Root(r), revoked |-> FALSE, expired |-> FALSE]
      BY <1>8 DEF Create
    <3>2. session'[r] \in Session
      BY <2>4, <3>1
    <3>3. session'[r].root = Root(r)
      BY <3>1
    <3> QED BY <3>2, <3>3, NoSession
  <2>6. /\ stage' = [stage EXCEPT ![r] = "done"]
        /\ UNCHANGED <<ask, found>>
        /\ \A q \in Requests : q # r => reply'[q] = reply[q]
    BY <1>8 DEF Create
  <2>7. \A t \in Requests : t # r => session'[t] = session[t]
    BY <1>8 DEF Create
  <2>8. ASSUME NEW q \in Requests, session'[q] # None
        PROVE  /\ stage'[q] = "done" /\ stage'[session'[q].root] = "done"
               /\ session'[session'[q].root] # None /\ ask'[session'[q].root].kind # "refresh"
    <3>1. CASE q = r
      BY <2>3, <2>5, <2>6, <2>7, <3>1
    <3>2. CASE q # r
      <4>1. session'[q] = session[q] /\ session[q].root \in Requests
        BY <1>0, <2>7, <2>8, <3>2 DEF Session
      <4>2. session[session[q].root] # None /\ session[q].root # r
        BY <2>1, <2>7, <2>8, <3>2, <4>1
      <4> QED BY <2>6, <2>7, <2>8, <3>2, <4>1, <4>2
    <3> QED BY <3>1, <3>2
  <2>9. \A q \in Requests : ask'[q].kind = "refresh" => session'[Presented(q)'] # None
    BY <2>5, <2>6, <2>7, Fields DEF Presented, NoAsk
  <2> QED BY <2>1, <2>6, <2>8, <2>9 DEF Phone
<1>9. ASSUME NEW r \in Requests, CutOff(r) PROVE Shape'
  BY <1>0, <1>9 DEF CutOff, InFlight, Phone, Presented, Session
<1>10. ASSUME NEW t \in Requests, Expire(t) PROVE Shape'
  <2>1. \A s \in Requests : /\ session'[s] = None <=> session[s] = None
                            /\ session[s] # None => session'[s].root = session[s].root
    <3>1. session[t] \in Session
      BY <1>0, <1>10 DEF Expire, Live
    <3>2. [session[t] EXCEPT !.expired = TRUE] \in Session
      BY <3>1 DEF Session
    <3>3. session'[t] = [session[t] EXCEPT !.expired = TRUE]
      BY <1>10 DEF Expire
    <3>4. session'[t] # None /\ session'[t].root = session[t].root
      <4>1. session'[t] \in Session
        BY <3>2, <3>3
      <4>2. session'[t].root = session[t].root
        BY <3>1, <3>3 DEF Session
      <4> QED BY <4>1, <4>2, NoSession
    <3>5. \A s \in Requests : s # t => session'[s] = session[s]
      BY <1>10 DEF Expire
    <3> QED BY <1>10, <3>4, <3>5 DEF Expire, Live
  <2>2. UNCHANGED <<stage, ask, found, reply>>
    BY <1>10 DEF Expire
  <2>3. ASSUME NEW q \in Requests, session'[q] # None
        PROVE  /\ stage'[q] = "done" /\ stage'[session'[q].root] = "done"
               /\ session'[session'[q].root] # None /\ ask'[session'[q].root].kind # "refresh"
    <3>0. session[q] # None =>
            /\ stage[q] = "done" /\ stage[session[q].root] = "done"
            /\ session[session[q].root] # None /\ ask[session[q].root].kind # "refresh"
      OBVIOUS
    <3> HIDE DEF Inv1, AuthTypeOK, Shape
    <3>1. session[q] # None /\ session[q].root \in Requests /\ session'[q].root = session[q].root
      BY <1>0, <2>1, <2>3 DEF Session
    <3> QED BY <2>1, <2>2, <3>0, <3>1
  <2>4. \A q \in Requests : ask'[q].kind = "refresh" => session'[Presented(q)'] # None
    BY <2>1, <2>2, Fields DEF Presented, NoAsk
  <2> QED BY <2>2, <2>3, <2>4 DEF Phone
<1>11. CASE CutAll
  BY <1>0, <1>11 DEF CutAll, InFlight, Phone, Presented, Session
<1>12. CASE UNCHANGED authVars
  BY <1>12 DEF authVars, Phone, Presented
<1> QED BY <1>1, <1>2, <1>3, <1>4, <1>5, <1>6, <1>7, <1>8, <1>9, <1>10, <1>11, <1>12
        DEF AuthNext, Handle
LEMMA Inv1Holds == SessionsSpec => []Inv1
<1>1. SessionsInit => Inv1
  BY AuthStart DEF SessionsInit
<1>2. Inv1 /\ [SessionsNext]_vars => Inv1'
  BY SessionsSteps, TypesStep, ShapeStep DEF Inv1
<1> QED BY <1>1, <1>2, PTL DEF SessionsSpec

\* Type correctness, of the limiter and of the handlers behind it.
THEOREM SessionsTypes == SessionsSpec => []SessionsTypeOK
<1>1. BucketSpec => []BucketInv
  BY BucketStart, BucketStep, PTL DEF BucketSpec
<1>2. BucketInv /\ Inv1 => SessionsTypeOK
  BY DEF BucketInv, Inv1, AuthTypeOK, SessionsTypeOK
<1> QED BY <1>1, <1>2, SessionsLimit, Inv1Holds, PTL

-----------------------------------------------------------------------------
(* What never changes: what a request asks, whose session it made, and of   *)
(* which sign-in.                                                           *)

LEMMA Roots == ASSUME Inv1, NEW r \in Requests
               PROVE  /\ session[r] # None =>
                           session[r] \in Session /\ session[r].root \in Requests
                      /\ ask[r].kind = "refresh" =>
                           Presented(r) \in Requests /\ session[Presented(r)] # None
                      /\ Root(r) \in Requests
<1>1. session[r] # None => session[r] \in Session /\ session[r].root \in Requests
  BY DEF Inv1, AuthTypeOK, Session
<1>2. ask[r].kind = "refresh" => Presented(r) \in Requests /\ session[Presented(r)] # None
  BY Fields DEF Inv1, AuthTypeOK, Shape, Presented, NoAsk
<1>3. ask[r].kind = "refresh" => session[Presented(r)].root \in Requests
  BY <1>2 DEF Inv1, AuthTypeOK, Session
<1> QED BY <1>1, <1>2, <1>3 DEF Root

\* What a step leaves of a session.
Kept(t) ==
  session[t] # None =>
    /\ session'[t] # None
    /\ session'[t].root = session[t].root /\ session'[t].user = session[t].user

LEMMA Keeps == ASSUME Inv1, [AuthNext]_authVars, NEW t \in Requests
               PROVE  /\ Kept(t)
                      /\ ask[t] # NoAsk => ask'[t] = ask[t]
                      /\ session[t] = None /\ session'[t] # None => Create(t)
                      /\ Live(t)' => Live(t) \/ Create(t)
<1> USE DEF Inv1, AuthTypeOK
<1>1. ASSUME NEW r \in Requests, NEW a \in Asks, Begin(r, a)
      PROVE  session' = session /\ (ask[t] # NoAsk => ask'[t] = ask[t])
  BY <1>1 DEF Begin, Shape
<1>2. ASSUME NEW r \in Requests,
             FindForLogin(r) \/ FindForGoogle(r) \/ Insert(r) \/ CommitUser(r) \/ Validate(r) \/ CutOff(r)
      PROVE  session' = session /\ ask' = ask
  BY <1>2 DEF FindForLogin, FindForGoogle, Insert, CommitUser, Validate, CutOff
<1>3. CASE session' = session /\ (ask[t] # NoAsk => ask'[t] = ask[t])
  BY <1>3 DEF Kept, Live
<1>4. ASSUME NEW s \in Requests, session[s] # None, NEW f \in {"revoked", "expired"},
             session' = [session EXCEPT ![s][f] = TRUE]
      PROVE  Kept(t) /\ (session'[t] # None => session[t] # None) /\ (Live(t)' => Live(t))
  <2>1. session[s] \in Session
    BY <1>4
  <2>2. /\ [session[s] EXCEPT ![f] = TRUE] \in Session
        /\ [session[s] EXCEPT ![f] = TRUE].root = session[s].root
        /\ [session[s] EXCEPT ![f] = TRUE].user = session[s].user
        /\ ~[session[s] EXCEPT ![f] = TRUE].revoked => ~session[s].revoked
    BY <1>4, <2>1 DEF Session
  <2>3. session'[s] = [session[s] EXCEPT ![f] = TRUE]
    BY <1>4
  <2>4. t # s => session'[t] = session[t]
    BY <1>4
  <2>5. session'[s] # None
    BY <2>2, <2>3, NoSession
  <2> QED BY <1>4, <2>2, <2>3, <2>4, <2>5 DEF Kept, Live
<1>5. ASSUME NEW r \in Requests, Revoke(r) PROVE Kept(t) /\ ask' = ask /\ (Live(t)' => Live(t)) /\ (session'[t] # None => session[t] # None)
  <2>1. Presented(r) \in Requests /\ session[Presented(r)] # None
    BY <1>5, Roots DEF Revoke, Shape
  <2> QED BY <1>4, <1>5, <2>1 DEF Revoke, Revoked
<1>6. ASSUME NEW s \in Requests, Expire(s) PROVE Kept(t) /\ ask' = ask /\ (Live(t)' => Live(t)) /\ (session'[t] # None => session[t] # None)
  BY <1>4, <1>6 DEF Expire, Live
<1>7. ASSUME NEW r \in Requests, Create(r)
      PROVE  ask' = ask /\ (t # r => session'[t] = session[t]) /\ session[r] = None
  BY <1>7 DEF Create, Shape
<1>8. ASSUME NEW r \in Requests, Create(r)
      PROVE  Kept(t) /\ (session[t] = None /\ session'[t] # None => Create(t)) /\ (Live(t)' => Live(t) \/ Create(t))
  BY <1>7, <1>8 DEF Kept, Live
<1>9. CutAll \/ UNCHANGED authVars => session' = session /\ ask' = ask
  BY DEF CutAll, authVars
<1> QED BY <1>1, <1>2, <1>3, <1>5, <1>6, <1>7, <1>8, <1>9 DEF AuthNext, Handle
LEMMA RootStays == ASSUME Inv1, [AuthNext]_authVars, NEW r \in Requests, ask[r] # NoAsk
                   PROVE  /\ Root(r)' = Root(r) /\ Presented(r)' = Presented(r)
                          /\ Email(r)' = Email(r)
<1>1. ask'[r] = ask[r]
  BY Keeps
<1>2. ask[r].kind = "refresh" => session'[Presented(r)].root = session[Presented(r)].root
  BY Keeps, Roots DEF Kept
<1> QED BY <1>1, <1>2 DEF Root, Presented, Email

\* Nobody descends from a sign-in that has made no session yet.
LEMMA FirstOfLine == ASSUME Inv1, NEW r \in Requests, ask[r].kind # "refresh", stage[r] # "done",
                            NEW s \in Requests, Root(s) = r
                     PROVE  s = r
<1>1. CASE ask[s].kind = "refresh"
  <2>1. Presented(s) \in Requests /\ session[Presented(s)] # None /\ session[Presented(s)].root = r
    BY <1>1, Roots DEF Root
  <2> QED BY <2>1 DEF Inv1, Shape
<1> QED BY <1>1 DEF Root

-----------------------------------------------------------------------------
(* One session for each sign-in.                                            *)

\* Who has the session of his sign-in, or has revoked it to make the next.
Holds(r) == Live(r) \/ stage[r] = "create"

\* The sessions of a sign-in form a line unless two refreshes raced.
Line ==
  /\ \A r \in Requests : session[r] # None => session[r].root = Root(r)
  /\ \A r, s \in Requests :
       Holds(r) /\ Holds(s) /\ Root(r) = Root(s) => r = s \/ Root(r) \in raced
  /\ \A r, s \in Requests :
       stage[r] = "revoke" /\ stage[s] = "revoke" /\ Root(r) = Root(s) => r = s \/ Root(r) \in raced
  /\ \A r \in Requests : stage[r] = "revoke" => Live(Presented(r)) \/ Root(r) \in raced

LEMMA LineStart == AuthInit => Line
BY DEF AuthInit, Line, Holds, Live

\* A step in which nobody becomes a holder or a refresh keeps the line.
LEMMA NobodyNew ==
  ASSUME Inv1, Line, [AuthNext]_authVars, raced' = raced,
         \A r \in Requests : /\ session'[r] # None => session[r] # None
                             /\ Holds(r)' => Holds(r)
                             /\ stage'[r] = "revoke" =>
                                  stage[r] = "revoke" /\ (Live(Presented(r)) => Live(Presented(r))')
  PROVE  Line'
<1>1. \A r \in Requests : session[r] # None \/ Holds(r) \/ stage[r] = "revoke" => ask[r] # NoAsk
  BY DEF Inv1, Shape, Holds, Live
<1>2. \A r \in Requests : ask[r] # NoAsk => Root(r)' = Root(r)
  BY RootStays
<1>3. \A r \in Requests : session[r] # None => session'[r].root = session[r].root
  BY Keeps DEF Kept
<1> QED BY <1>1, <1>2, <1>3 DEF Line

LEMMA LineStep == ASSUME Inv1, Line, [AuthNext]_authVars PROVE Line'
<1> USE DEF Go, Told, End
<1>s. stage \in [Requests -> Stages] /\ session \in [Requests -> Session \cup {None}]
  BY DEF Inv1, AuthTypeOK
<1>a. \A r \in Requests : ask[r] # NoAsk => Root(r)' = Root(r) /\ Presented(r)' = Presented(r)
  BY RootStays
<1>b. \A r \in Requests : session[r] # None \/ Holds(r) \/ stage[r] # "idle" => ask[r] # NoAsk
  BY DEF Inv1, Shape, Holds, Live
<1>1. ASSUME NEW r \in Requests, NEW a \in Asks, Begin(r, a) PROVE Line'
  <2>1. session' = session /\ raced' = raced
    BY <1>1 DEF Begin
  <2>2. \A t \in Requests : /\ stage'[t] = "create" => stage[t] = "create"
                            /\ stage'[t] = "revoke" => stage[t] = "revoke"
    BY <1>s, <1>1, Fields DEF Begin, FirstStage
  <2> QED BY <1>a, <1>b, <2>1, <2>2, NobodyNew DEF Holds, Live
<1>2. ASSUME NEW r \in Requests, Insert(r) \/ CutOff(r) PROVE Line'
  <2>1. session' = session /\ raced' = raced
    BY <1>2 DEF Insert, CutOff
  <2>2. \A t \in Requests : /\ stage'[t] = "create" => stage[t] = "create"
                            /\ stage'[t] = "revoke" => stage[t] = "revoke"
    BY <1>s, <1>2 DEF Insert, CutOff
  <2> QED BY <1>a, <1>b, <2>1, <2>2, NobodyNew DEF Holds, Live
<1>3. CASE CutAll \/ UNCHANGED authVars
  <2>1. session' = session /\ raced' = raced
    BY <1>3 DEF CutAll, authVars
  <2>2. \A t \in Requests : /\ stage'[t] = "create" => stage[t] = "create"
                            /\ stage'[t] = "revoke" => stage[t] = "revoke"
    BY <1>s, <1>3 DEF CutAll, authVars
  <2> QED BY <1>a, <1>b, <2>1, <2>2, NobodyNew DEF Holds, Live
\* The first session of a sign-in.
<1>4. ASSUME NEW r \in Requests, FindForLogin(r) \/ FindForGoogle(r) \/ CommitUser(r) PROVE Line'
  <2>1. session' = session /\ raced' = raced
    BY <1>4 DEF FindForLogin, FindForGoogle, CommitUser
  <2>2. ask[r].kind # "refresh" /\ stage[r] # "done" /\ stage[r] # "idle" /\ stage'[r] # "revoke"
    <3>1. stage[r] \in {"find", "commit"}
      BY <1>4 DEF FindForLogin, FindForGoogle, CommitUser
    <3>2. ask[r].kind # "refresh"
      BY <3>1 DEF Inv1, Shape
    <3>3. stage'[r] # "revoke"
      BY <1>s, <1>4 DEF FindForLogin, FindForGoogle, CommitUser
    <3> QED BY <3>1, <3>2, <3>3
  <2>3. \A t \in Requests : t # r => stage'[t] = stage[t]
    BY <1>s, <1>4 DEF FindForLogin, FindForGoogle, CommitUser
  <2>4. \A t \in Requests : Root(t) = r => t = r
    BY <2>2, FirstOfLine
  <2>5. Root(r) = r
    BY <2>2 DEF Root
  <2>6. session[r] = None
    BY <2>2 DEF Inv1, Shape
  <2>7. \A t \in Requests : /\ Live(t)' <=> Live(t)
                            /\ Holds(t)' /\ t # r => Holds(t)
                            /\ Holds(t)' => ask[t] # NoAsk
    BY <1>b, <2>1, <2>2, <2>3, <2>6 DEF Holds, Live
  <2>8. \A t \in Requests : Holds(t)' => Root(t)' = Root(t)
    BY <1>a, <2>7
  <2>9. \A t \in Requests : session'[t] # None => session'[t].root = Root(t)'
    BY <1>a, <1>b, <2>1 DEF Line
  <2>10. \A t \in Requests : stage'[t] = "revoke" =>
           /\ stage[t] = "revoke" /\ Root(t)' = Root(t) /\ Presented(t)' = Presented(t)
           /\ Presented(t) \in Requests
    <3>1. \A t \in Requests : stage[t] = "revoke" => Presented(t) \in Requests
      BY Roots DEF Inv1, Shape
    <3> QED BY <1>a, <1>b, <2>2, <2>3, <3>1
  <2>11. \A t \in Requests : stage'[t] = "revoke" => (Live(Presented(t)) <=> Live(Presented(t))')
    BY <2>1, <2>10 DEF Live
  <2>12. \A t, u \in Requests : Holds(t)' /\ Holds(u)' /\ Root(t)' = Root(u)' => t = u \/ Root(t)' \in raced'
    BY <2>1, <2>4, <2>5, <2>7, <2>8 DEF Line
  <2> QED BY <2>1, <2>9, <2>10, <2>11, <2>12 DEF Line
<1>5. ASSUME NEW r \in Requests, Create(r) PROVE Line'
  <2>1. /\ session'[r] = [user |-> found[r], root |-> Root(r), revoked |-> FALSE, expired |-> FALSE]
        /\ stage[r] = "create" /\ session[r] = None /\ raced' = raced
        /\ \A t \in Requests : t # r => session'[t] = session[t] /\ stage'[t] = stage[t]
        /\ stage'[r] = "done"
    BY <1>s, <1>5 DEF Create, Inv1, Shape
  <2>2. \A t \in Requests : Holds(t)' => Holds(t)
    BY <2>1 DEF Holds, Live
  <2>3. \A t \in Requests : session'[t] # None => session'[t].root = Root(t)'
    <3>1. session'[r].root = Root(r)'
      BY <1>a, <1>b, <2>1
    <3> QED BY <1>a, <1>b, <2>1, <3>1 DEF Line
  <2>4. \A t \in Requests : stage'[t] = "revoke" =>
           /\ stage[t] = "revoke" /\ Root(t)' = Root(t) /\ Presented(t)' = Presented(t)
           /\ Presented(t) \in Requests /\ Presented(t) # r
    <3>1. \A t \in Requests : stage[t] = "revoke" =>
             Presented(t) \in Requests /\ session[Presented(t)] # None
      BY Roots DEF Inv1, Shape
    <3> QED BY <1>a, <1>b, <2>1, <3>1
  <2>5. \A t \in Requests : stage'[t] = "revoke" => (Live(Presented(t)) <=> Live(Presented(t))')
    BY <2>1, <2>4 DEF Live
  <2>6. \A t \in Requests : Holds(t) => Root(t)' = Root(t)
    BY <1>a, <1>b
  <2>7. \A t, u \in Requests : Holds(t)' /\ Holds(u)' /\ Root(t)' = Root(u)' => t = u \/ Root(t)' \in raced'
    BY <2>1, <2>2, <2>6 DEF Line
  <2> QED BY <2>1, <2>3, <2>4, <2>5, <2>7 DEF Line
<1>6. ASSUME NEW t \in Requests, Expire(t) PROVE Line'
  <2>1. stage' = stage /\ raced' = raced /\ ask' = ask
    BY <1>6 DEF Expire
  <2>2. session[t] \in Session
    BY <1>s, <1>6 DEF Expire, Live
  <2>3. session'[t] = [session[t] EXCEPT !.expired = TRUE] /\ \A q \in Requests : q # t => session'[q] = session[q]
    BY <1>s, <1>6 DEF Expire
  <2>4. session'[t].revoked = session[t].revoked /\ session'[t] # None
    <3>1. session'[t].revoked = session[t].revoked
      BY <2>2, <2>3 DEF Session
    <3>2. session[t] # None
      BY <2>2, NoSession
    <3> QED BY <3>1, <3>2, Keeps DEF Kept
  <2>5. \A q \in Requests : (Live(q)' <=> Live(q)) /\ (session'[q] # None => session[q] # None)
    BY <1>6, <2>3, <2>4 DEF Live, Expire
  <2>6. \A q \in Requests : stage[q] = "revoke" => Presented(q) \in Requests
    BY Roots DEF Inv1, Shape
  <2>7. \A q \in Requests : stage[q] = "revoke" => (Live(Presented(q)) => Live(Presented(q))')
    BY <2>1, <2>5, <2>6 DEF Presented, Live
  <2> QED BY <2>1, <2>5, <2>7, NobodyNew DEF Holds
<1>7. ASSUME NEW r \in Requests, Validate(r) PROVE Line'
  <2>0. /\ stage[r] = "validate" /\ session' = session /\ users' = users /\ ask' = ask
        /\ Presented(r) \in Requests /\ session[Presented(r)] # None
        /\ Root(r) = session[Presented(r)].root
    BY <1>7, Roots DEF Validate, Inv1, Shape, Root
  <2>1. CASE ~Usable(Presented(r))
    <3>1. raced' = raced /\ stage' = [stage EXCEPT ![r] = "done"]
      BY <1>7, <2>1 DEF Validate
    <3>2. \A t \in Requests : /\ stage'[t] = "create" => stage[t] = "create"
                              /\ stage'[t] = "revoke" => stage[t] = "revoke"
      BY <1>s, <3>1
    <3> QED BY <1>a, <1>b, <2>0, <3>1, <3>2, NobodyNew DEF Holds, Live
  <2>2. CASE Usable(Presented(r))
    <3>1. stage' = [stage EXCEPT ![r] = "revoke"] /\ raced \subseteq raced'
      BY <1>7, <2>2 DEF Validate
    <3>2. Live(Presented(r)) /\ Root(Presented(r)) = Root(r)
      BY <2>0, <2>2 DEF Usable, Live, Line
    <3>3. \A t \in Requests : /\ Root(t)' = Root(t) /\ Presented(t)' = Presented(t)
                              /\ Live(t)' <=> Live(t)
                              /\ Holds(t)' <=> Holds(t)
                              /\ stage'[t] = "revoke" => t = r \/ stage[t] = "revoke"
      <4>1. \A t \in Requests : /\ stage'[t] = "create" <=> stage[t] = "create"
                                /\ stage'[t] = "revoke" => t = r \/ stage[t] = "revoke"
        BY <1>s, <2>0, <3>1
      <4>2. \A t \in Requests : /\ Root(t)' = Root(t) /\ Presented(t)' = Presented(t)
                                /\ Live(t)' <=> Live(t)
        BY <2>0 DEF Root, Presented, Live
      <4> QED BY <4>1, <4>2 DEF Holds
    <3>4. ASSUME NEW t \in Requests, stage[t] = "revoke", Root(t) = Root(r)
          PROVE  Root(r) \in raced'
      <4>1. CASE Root(r) \in raced
        BY <3>1, <4>1
      <4>2. CASE Root(r) \notin raced
        <5>1. Presented(t) \in Requests /\ session[Presented(t)] # None /\ ask[t].kind = "refresh"
          BY <3>4, Roots DEF Inv1, Shape
        <5>2. Live(Presented(t)) /\ Root(Presented(t)) = Root(r)
          BY <3>4, <4>2, <5>1 DEF Line, Root
        <5>3. Presented(t) = Presented(r)
          BY <2>0, <3>2, <4>2, <5>1, <5>2 DEF Line, Holds
        <5>4. t \in Refreshing(Presented(r))
          BY <3>4, <5>3 DEF Refreshing
        <5>5. raced' = raced \cup {session[Presented(r)].root}
          BY <1>7, <2>2, <5>4 DEF Validate
        <5> QED BY <2>0, <5>5
      <4> QED BY <4>1, <4>2
    <3>5. \A t \in Requests : session'[t] # None => session'[t].root = Root(t)'
      BY <2>0, <3>3 DEF Line
    <3>6. \A t, u \in Requests :
             Holds(t)' /\ Holds(u)' /\ Root(t)' = Root(u)' => t = u \/ Root(t)' \in raced'
      <4>1. \A t, u \in Requests :
              Holds(t) /\ Holds(u) /\ Root(t) = Root(u) => t = u \/ Root(t) \in raced
        BY DEF Line
      <4> QED BY <3>1, <3>3, <4>1
    <3>7. \A t, u \in Requests :
             stage'[t] = "revoke" /\ stage'[u] = "revoke" /\ Root(t)' = Root(u)' =>
               t = u \/ Root(t)' \in raced'
      BY <3>1, <3>3, <3>4 DEF Line
    <3>8. \A t \in Requests : stage'[t] = "revoke" => Live(Presented(t))' \/ Root(t)' \in raced'
      <4>1. \A t \in Requests : stage[t] = "revoke" => Presented(t) \in Requests
        BY Roots DEF Inv1, Shape
      <4>2. \A t \in Requests : Live(Presented(t))' <=> Live(Presented(t))
        BY <2>0 DEF Live, Presented
      <4> QED BY <3>1, <3>2, <3>3, <4>1, <4>2 DEF Line
    <3> QED BY <3>5, <3>6, <3>7, <3>8 DEF Line
  <2> QED BY <2>1, <2>2
<1>8. ASSUME NEW r \in Requests, Revoke(r) PROVE Line'
  <2>0. /\ stage[r] = "revoke" /\ stage' = [stage EXCEPT ![r] = "create"] /\ ask' = ask
        /\ raced' = raced
        /\ Presented(r) \in Requests /\ session[Presented(r)] # None
        /\ Root(r) = session[Presented(r)].root
    BY <1>8, Roots DEF Revoke, Inv1, Shape, Root
  <2>1. ~Live(Presented(r))' /\ \A t \in Requests : t # Presented(r) => session'[t] = session[t]
    <3>1. session'[Presented(r)] = [session[Presented(r)] EXCEPT !.revoked = TRUE]
      BY <1>s, <1>8, <2>0 DEF Revoke, Revoked
    <3>2. session[Presented(r)] \in Session
      BY <1>s, <2>0
    <3>3. session'[Presented(r)].revoked
      BY <3>1, <3>2 DEF Session
    <3>4. Presented(r)' = Presented(r)
      BY <2>0 DEF Presented
    <3>5. \A t \in Requests : t # Presented(r) => session'[t] = session[t]
      BY <1>s, <1>8 DEF Revoke, Revoked
    <3> QED BY <3>3, <3>4, <3>5 DEF Live
  <2>2. Presented(r)' = Presented(r) /\ Root(Presented(r)) = Root(r)
    BY <2>0 DEF Presented, Line
  <2>3. \A t \in Requests : Live(t)' => Live(t) /\ t # Presented(r)
    BY <2>1, <2>2 DEF Live
  <2>4. \A t \in Requests : ask[t] # NoAsk => Root(t)' = Root(t)
    BY <1>a
  <2>5. \A t \in Requests : session'[t] # None => session[t] # None /\ session'[t].root = Root(t)'
    BY <1>a, <1>b, <2>0, <2>1, Keeps DEF Line, Kept
  <2>6. \A t \in Requests : Holds(t)' => t = r \/ (Holds(t) /\ t # Presented(r))
    <3>1. stage[Presented(r)] = "done" /\ Presented(r) # r
      BY <2>0 DEF Inv1, Shape
    <3> QED BY <1>s, <2>0, <2>3, <3>1 DEF Holds
  <2>7. \A t \in Requests : Holds(t)' => Root(t)' = Root(t)
    BY <1>b, <2>0, <2>4, <2>6
  \* Whoever held the sign-in was the presented session.
  <2>8. ASSUME NEW t \in Requests, Holds(t)', t # r, Root(t) = Root(r) PROVE Root(r) \in raced
    <3>1. Live(Presented(r)) \/ Root(r) \in raced
      BY <2>0 DEF Line
    <3>2. Holds(t) /\ t # Presented(r)
      BY <2>6, <2>8
    <3> QED BY <2>0, <2>2, <2>8, <3>1, <3>2 DEF Line, Holds
  <2>9. \A t, u \in Requests :
          Holds(t)' /\ Holds(u)' /\ Root(t)' = Root(u)' => t = u \/ Root(t)' \in raced'
    BY <2>0, <2>6, <2>7, <2>8 DEF Line
  <2>10. \A t \in Requests : stage'[t] = "revoke" => stage[t] = "revoke" /\ t # r /\ Root(t)' = Root(t)
    BY <1>a, <1>b, <1>s, <2>0
  <2>11. \A t, u \in Requests :
           stage'[t] = "revoke" /\ stage'[u] = "revoke" /\ Root(t)' = Root(u)' =>
             t = u \/ Root(t)' \in raced'
    BY <2>0, <2>10 DEF Line
  <2>12. ASSUME NEW t \in Requests, stage'[t] = "revoke" PROVE Live(Presented(t))' \/ Root(t)' \in raced'
    <3>1. CASE Root(t) \in raced
      BY <2>0, <2>10, <2>12, <3>1
    <3>2. CASE Root(t) \notin raced
      <4>1. stage[t] = "revoke" /\ t # r
        BY <2>10, <2>12
      <4>2. Root(t) # Root(r) /\ Live(Presented(t)) /\ Presented(t) \in Requests
        <5>1. Presented(t) \in Requests
          BY <4>1, Roots DEF Inv1, Shape
        <5> QED BY <2>0, <3>2, <4>1, <5>1 DEF Line
      <4>3. Root(Presented(t)) = Root(t)
        BY <4>1, <4>2, Roots DEF Line, Root, Live, Inv1, Shape
      <4>4. Presented(t) # Presented(r)
        BY <2>2, <4>2, <4>3
      <4>5. Presented(t)' = Presented(t)
        BY <2>0 DEF Presented
      <4> QED BY <2>1, <4>2, <4>4, <4>5 DEF Live
    <3> QED BY <3>1, <3>2
  <2> QED BY <2>5, <2>9, <2>11, <2>12 DEF Line
<1> QED BY <1>1, <1>2, <1>3, <1>4, <1>5, <1>6, <1>7, <1>8 DEF AuthNext, Handle

LEMMA LineHolds == SessionsSpec => []Line
<1>1. SessionsInit => Line
  BY LineStart DEF SessionsInit
<1>2. Inv1 /\ Line /\ [SessionsNext]_vars => Line'
  BY SessionsSteps, LineStep
<1> QED BY <1>1, <1>2, Inv1Holds, PTL DEF SessionsSpec

\* A sign-in never has two sessions to refresh, whatever is cut off, lost or
\* tried again, except by two refreshes at once (routes/auth.py:85-91).
THEOREM OneSession == SessionsSpec => []OneSessionPerSignIn
<1>1. Line => OneSessionPerSignIn
  BY DEF Line, OneSessionPerSignIn, Holds, Live
<1> QED BY <1>1, LineHolds, PTL
-----------------------------------------------------------------------------
(* One account for each address.                                            *)

Owns(set, email, id) == \E u \in set : u.email = email /\ u.id = id

OneForEach ==
  /\ \A u, v \in users : u.email = v.email => u = v
  /\ \A r \in Inserting : OfEmail(Email(r)) = {}
  /\ \A r, s \in Inserting : Email(r) = Email(s) => r = s

\* Who signs in, has a session or was let in is who has the address.
Owners ==
  /\ \A r \in Requests : stage[r] \in {"revoke", "create"} => Owns(users, Address(r), found[r])
  /\ \A r \in Requests : session[r] # None => Owns(users, Email(session[r].root), session[r].user)
  /\ \A r \in Requests : reply[r].code = "ok" => Owns(users, Address(r), reply[r].user)

LEMMA OwnsMore == ASSUME NEW a, NEW b, a \subseteq b, NEW email, NEW id, Owns(a, email, id)
                  PROVE  Owns(b, email, id)
BY DEF Owns

LEMMA UsersGrow == [AuthNext]_authVars => users \subseteq users'
BY DEF AuthNext, authVars, Handle, Begin, FindForLogin, FindForGoogle, Insert, CommitUser,
       Validate, Revoke, Create, CutOff, Expire, CutAll

LEMMA OneForEachStart == AuthInit => OneForEach /\ Owners /\ TakenIsTaken
<1> SUFFICES ASSUME AuthInit PROVE OneForEach /\ Owners /\ TakenIsTaken
  OBVIOUS
<1>1. \A u, v \in users : u.email = v.email => u = v
  BY SessionsAssumption DEF AuthInit
<1> QED BY <1>1 DEF AuthInit, OneForEach, Owners, TakenIsTaken, Inserting, NoReply

LEMMA OneForEachStep == ASSUME Inv1, OneForEach, [AuthNext]_authVars PROVE OneForEach'
<1> USE DEF Go, Told, End
<1>s. stage \in [Requests -> Stages] /\ users \subseteq User
  BY DEF Inv1, AuthTypeOK
<1>e. \A r \in Requests : stage[r] # "idle" => Email(r)' = Email(r)
  BY RootStays DEF Inv1, Shape
<1>0. ASSUME users' = users, \A r \in Requests : stage'[r] = "commit" => stage[r] = "commit"
      PROVE  OneForEach'
  <2>1. \A r \in Inserting' : r \in Inserting /\ Email(r)' = Email(r)
    BY <1>0, <1>e DEF Inserting
  <2> QED BY <1>0, <2>1 DEF OneForEach, OfEmail
<1>1. ASSUME NEW r \in Requests, NEW a \in Asks, Begin(r, a) PROVE OneForEach'
  BY <1>0, <1>1, <1>s, Fields DEF Begin, FirstStage
<1>2. ASSUME NEW r \in Requests,
             FindForLogin(r) \/ FindForGoogle(r) \/ Validate(r) \/ Revoke(r) \/ Create(r) \/ CutOff(r)
      PROVE  OneForEach'
  BY <1>0, <1>2, <1>s DEF FindForLogin, FindForGoogle, Validate, Revoke, Create, CutOff
<1>3. ASSUME NEW t \in Requests, Expire(t) PROVE OneForEach'
  BY <1>0, <1>3 DEF Expire
<1>4. CASE CutAll \/ UNCHANGED authVars
  BY <1>0, <1>4, <1>s DEF CutAll, authVars
<1>5. ASSUME NEW r \in Requests, Insert(r) PROVE OneForEach'
  <2>1. CASE End(r, Taken(r))
    BY <1>0, <1>5, <1>s, <2>1 DEF Insert
  <2>2. CASE ~Violation(r) /\ FreeEmail(r) /\ Go(r, "commit")
    <3>1. users' = users /\ \A q \in Requests : stage'[q] = "commit" => q = r \/ stage[q] = "commit"
      BY <1>5, <1>s, <2>2 DEF Insert
    <3>2. \A q \in Inserting' : Email(q)' = Email(q) /\ (q = r \/ q \in Inserting)
      BY <1>5, <1>e, <3>1 DEF Insert, Inserting
    <3>3. OfEmail(Email(r)) = {} /\ \A q \in Inserting : Email(q) # Email(r)
      BY <2>2 DEF Violation, FreeEmail
    <3> QED BY <3>1, <3>2, <3>3 DEF OneForEach, OfEmail
  <2> QED BY <1>5, <2>1, <2>2 DEF Insert
<1>6. ASSUME NEW r \in Requests, CommitUser(r) PROVE OneForEach'
  <2>1. /\ r \in Inserting /\ users' = users \cup {[id |-> r, email |-> Email(r), phone |-> Phone(r)]}
        /\ \A q \in Requests : stage'[q] = "commit" => q # r /\ stage[q] = "commit"
    BY <1>6, <1>s DEF CommitUser, Inserting
  <2>2. \A q \in Inserting' : q # r /\ q \in Inserting /\ Email(q)' = Email(q)
    BY <1>e, <2>1 DEF Inserting
  <2>3. \A u \in users : u.email # Email(r)
    BY <2>1 DEF OneForEach, OfEmail
  <2>4. \A u, v \in users' : u.email = v.email => u = v
    BY <2>1, <2>3 DEF OneForEach
  <2>5. \A q \in Inserting' : OfEmail(Email(q))' = {}
    <3>1. \A q \in Inserting' : Email(q) # Email(r) /\ OfEmail(Email(q)) = {}
      BY <2>1, <2>2 DEF OneForEach
    <3> QED BY <2>1, <2>2, <3>1 DEF OfEmail
  <2> QED BY <2>2, <2>4, <2>5 DEF OneForEach
<1> QED BY <1>1, <1>2, <1>3, <1>4, <1>5, <1>6 DEF AuthNext, Handle

LEMMA AddressStays == ASSUME Inv1, [AuthNext]_authVars, NEW r \in Requests, ask[r] # NoAsk
                      PROVE  Address(r)' = Address(r) /\ Address(r) = Email(Root(r))
<1>1. Address(r) = Email(Root(r)) /\ Address(r)' = Email(Root(r))'
  BY DEF Address, Root
<1>2. Root(r) \in Requests /\ ask[Root(r)] # NoAsk
  BY Roots DEF Inv1, Shape, Root
<1> QED BY <1>1, <1>2, RootStays DEF Email
\* Who is about to make a session knows whose it is.
LEMMA FoundOwns ==
  ASSUME Inv1, OneForEach, Owners, Line, [AuthNext]_authVars, NEW q \in Requests,
         stage'[q] \in {"revoke", "create"}
  PROVE  Owns(users', Address(q)', found'[q])
<1> USE DEF Go, Told, End
<1>s. stage \in [Requests -> Stages] /\ found \in [Requests -> Ids \cup {None}]
  BY DEF Inv1, AuthTypeOK
<1>1. \/ stage[q] \in {"revoke", "create"} /\ found'[q] = found[q]
      \/ FindForLogin(q) \/ FindForGoogle(q) \/ CommitUser(q) \/ Validate(q)
  <2>1. ASSUME NEW r \in Requests, NEW a \in Asks, Begin(r, a)
        PROVE  stage[q] \in {"revoke", "create"} /\ found'[q] = found[q]
    BY <1>s, <2>1, Fields DEF Begin, FirstStage
  <2>2. ASSUME NEW r \in Requests, r # q, Handle(r)
        PROVE  stage[q] \in {"revoke", "create"} /\ found'[q] = found[q]
    BY <1>s, <2>2 DEF Handle, FindForLogin, FindForGoogle, Insert, CommitUser, Validate, Revoke,
                      Create, CutOff
  <2>3. CASE Insert(q) \/ Create(q) \/ CutOff(q)
    BY <1>s, <2>3 DEF Insert, Create, CutOff
  <2>4. CASE Revoke(q)
    BY <1>s, <2>4 DEF Revoke
  <2>5. CASE CutAll \/ UNCHANGED authVars \/ \E t \in Requests : Expire(t)
    BY <1>s, <2>5 DEF CutAll, authVars, Expire
  <2> QED BY <2>1, <2>2, <2>3, <2>4, <2>5 DEF AuthNext, Handle
<1>2. users \subseteq users'
  BY UsersGrow
<1>3. CASE stage[q] \in {"revoke", "create"} /\ found'[q] = found[q]
  <2>1. Address(q)' = Address(q)
    BY <1>3, AddressStays DEF Inv1, Shape
  <2> QED BY <1>2, <1>3, <2>1, OwnsMore DEF Owners
<1>4. CASE FindForLogin(q) \/ FindForGoogle(q)
  <2>1. ask[q].kind # "refresh" /\ ask' = ask /\ users' = users
    BY <1>4 DEF FindForLogin, FindForGoogle
  <2>2. PICK u \in OfEmail(Email(q)) : found'[q] = u.id
    BY <1>4, <1>s DEF FindForLogin, FindForGoogle
  <2> QED BY <2>1, <2>2 DEF Owns, OfEmail, Address, Email
<1>5. CASE CommitUser(q)
  <2>1. ask[q].kind # "refresh" /\ ask' = ask
    BY <1>5 DEF CommitUser, Inv1, Shape
  <2>2. found'[q] = q /\ [id |-> q, email |-> Email(q), phone |-> Phone(q)] \in users'
    BY <1>5, <1>s DEF CommitUser
  <2> QED BY <2>1, <2>2 DEF Owns, Address, Email
<1>6. CASE Validate(q)
  <2>1. /\ Presented(q) \in Requests /\ session[Presented(q)] # None
        /\ ask[q].kind = "refresh" /\ ask' = ask /\ users' = users /\ session' = session
    BY <1>6, Roots DEF Validate, Inv1, Shape
  <2>2. found'[q] = session[Presented(q)].user
    BY <1>6, <1>s DEF Validate
  <2>3. Address(q)' = Email(session[Presented(q)].root)
    BY <2>1 DEF Address, Email, Presented
  <2> QED BY <2>1, <2>2, <2>3 DEF Owners
<1> QED BY <1>1, <1>3, <1>4, <1>5, <1>6

LEMMA OwnersStep ==
  ASSUME Inv1, OneForEach, Owners, Line, [AuthNext]_authVars PROVE Owners'
<1> USE DEF Go, Told, End
<1>s. /\ stage \in [Requests -> Stages] /\ session \in [Requests -> Session \cup {None}]
      /\ reply \in [Requests -> [code : Codes, user : Ids \cup {None}]]
  BY DEF Inv1, AuthTypeOK
<1>1. users \subseteq users'
  BY UsersGrow
<1>2. ASSUME NEW q \in Requests, session'[q] # None
      PROVE  Owns(users', Email(session[q].root)', session'[q].user)
  <2>1. CASE session[q] # None
    <3>1. session'[q].root = session[q].root /\ session'[q].user = session[q].user
      BY <2>1, Keeps DEF Kept
    <3>2. session[q].root \in Requests /\ ask[session[q].root] # NoAsk
      BY <2>1, Roots DEF Inv1, Shape
    <3>3. Email(session[q].root)' = Email(session[q].root)
      BY <3>1, <3>2, RootStays DEF Email
    <3> QED BY <1>1, <2>1, <3>1, <3>3, OwnsMore DEF Owners
  <2>2. CASE session[q] = None
    <3>1. Create(q)
      BY <1>2, <2>2, Keeps
    <3>2. session'[q] = [user |-> found[q], root |-> Root(q), revoked |-> FALSE, expired |-> FALSE]
      BY <1>s, <3>1 DEF Create
    <3>3. session'[q].user = found[q] /\ session'[q].root = Root(q) /\ stage[q] = "create"
      BY <3>1, <3>2 DEF Create
    <3>4. Address(q) = Email(Root(q)) /\ Root(q) \in Requests /\ ask' = ask
      BY <3>1, <3>3, AddressStays, Roots DEF Inv1, Shape, Create
    <3>5. Email(session[q].root)' = Address(q)
      BY <3>3, <3>4 DEF Email
    <3> QED BY <1>1, <3>3, <3>5, OwnsMore DEF Owners
  <2> QED BY <2>1, <2>2
<1>3. ASSUME NEW q \in Requests, reply'[q].code = "ok"
      PROVE  Owns(users', Address(q)', reply'[q].user)
  <2>1. reply'[q] = reply[q] \/ CommitUser(q) \/ Create(q)
    <3>1. ASSUME NEW r \in Requests, NEW a \in Asks, Begin(r, a) PROVE reply'[q] = reply[q]
      BY <1>s, <1>3, <3>1 DEF Begin
    <3>2. ASSUME NEW r \in Requests, r # q, Handle(r) PROVE reply'[q] = reply[q]
      BY <1>s, <3>2 DEF Handle, FindForLogin, FindForGoogle, Insert, CommitUser, Validate, Revoke,
                      Create, CutOff
    <3>3. CASE FindForLogin(q) \/ FindForGoogle(q) \/ Insert(q) \/ Validate(q) \/ Revoke(q) \/ CutOff(q)
      BY <1>s, <1>3, <3>3 DEF FindForLogin, FindForGoogle, Insert, Validate, Revoke, CutOff, Taken
    <3>4. CASE CutAll \/ UNCHANGED authVars \/ \E t \in Requests : Expire(t)
      BY <1>s, <1>3, <3>4 DEF CutAll, authVars, Expire
    <3> QED BY <3>1, <3>2, <3>3, <3>4 DEF AuthNext, Handle
  <2>2. CASE reply'[q] = reply[q]
    <3>1. Address(q)' = Address(q)
      BY <1>3, <2>2, AddressStays DEF Inv1, Shape
    <3> QED BY <1>1, <1>3, <2>2, <3>1, OwnsMore DEF Owners
  <2>3. CASE CommitUser(q) /\ reply'[q] # reply[q]
    <3>1. ask[q].kind # "refresh" /\ ask' = ask
      BY <2>3 DEF CommitUser, Inv1, Shape
    <3>2. reply'[q] = [code |-> "ok", user |-> q]
      BY <1>s, <2>3 DEF CommitUser
    <3>3. reply'[q].user = q /\ [id |-> q, email |-> Email(q), phone |-> Phone(q)] \in users'
      BY <2>3, <3>2 DEF CommitUser
    <3> QED BY <3>1, <3>3 DEF Owns, Address, Email
  <2>4. CASE Create(q)
    <3>1. stage[q] = "create"
      BY <2>4 DEF Create
    <3>2. reply'[q] = [code |-> "ok", user |-> found[q]] \/ reply'[q] = [code |-> "lost", user |-> None]
      BY <1>s, <2>4 DEF Create
    <3>3. reply'[q].user = found[q]
      BY <1>3, <3>2
    <3>4. Address(q)' = Address(q)
      BY <3>1, AddressStays DEF Inv1, Shape
    <3> QED BY <1>1, <3>1, <3>3, <3>4, OwnsMore DEF Owners
  <2> QED BY <2>1, <2>2, <2>3, <2>4
<1> QED BY <1>2, <1>3, FoundOwns DEF Owners

LEMMA TakenStep == ASSUME Inv1, TakenIsTaken, [AuthNext]_authVars PROVE TakenIsTaken'
<1> USE DEF Go, Told, End
<1>s. reply \in [Requests -> [code : Codes, user : Ids \cup {None}]]
  BY DEF Inv1, AuthTypeOK
<1>1. users \subseteq users'
  BY UsersGrow
<1>2. SUFFICES ASSUME NEW q \in Requests, reply'[q].code \in {"EMAIL_TAKEN", "PHONE_TAKEN"}
               PROVE  /\ reply'[q].code = "EMAIL_TAKEN" => OfEmail(Email(q))' # {}
                      /\ reply'[q].code = "PHONE_TAKEN" => OfPhone(Phone(q))' # {}
  BY DEF TakenIsTaken
<1>3. reply'[q] = reply[q] \/ (Insert(q) /\ End(q, Taken(q)) /\ Violation(q))
  <2>1. ASSUME NEW r \in Requests, NEW a \in Asks, Begin(r, a) PROVE reply'[q] = reply[q]
    BY <1>s, <1>2, <2>1 DEF Begin
  <2>2. ASSUME NEW r \in Requests, r # q, Handle(r) PROVE reply'[q] = reply[q]
    BY <1>s, <2>2 DEF Handle, FindForLogin, FindForGoogle, Insert, CommitUser, Validate, Revoke,
                    Create, CutOff
  <2>3. CASE FindForLogin(q) \/ FindForGoogle(q) \/ Validate(q) \/ Revoke(q) \/ CutOff(q)
    BY <1>s, <1>2, <2>3 DEF FindForLogin, FindForGoogle, Validate, Revoke, CutOff
  <2>4. CASE CommitUser(q) \/ Create(q)
    BY <1>s, <1>2, <2>4 DEF CommitUser, Create
  <2>5. CASE Insert(q)
    BY <1>s, <2>5 DEF Insert
  <2>6. CASE CutAll \/ UNCHANGED authVars \/ \E t \in Requests : Expire(t)
    BY <1>s, <1>2, <2>6 DEF CutAll, authVars, Expire
  <2> QED BY <2>1, <2>2, <2>3, <2>4, <2>5, <2>6 DEF AuthNext, Handle
<1>4. CASE reply'[q] = reply[q]
  <2>1. ask[q] # NoAsk
    BY <1>2, <1>4 DEF Inv1, Shape
  <2>2. ask'[q] = ask[q]
    BY <2>1, Keeps
  <2> QED BY <1>1, <1>2, <1>4, <2>2 DEF TakenIsTaken, OfEmail, OfPhone, Email, Phone
<1>5. CASE Insert(q) /\ End(q, Taken(q)) /\ Violation(q)
  <2>1. reply'[q].code = Taken(q) /\ ask' = ask /\ users' = users
    BY <1>s, <1>5 DEF Insert
  <2>2. IF OfEmail(Email(q)) # {} THEN Taken(q) = "EMAIL_TAKEN"
                                  ELSE Taken(q) = "PHONE_TAKEN" /\ OfPhone(Phone(q)) # {}
    BY <1>5 DEF Taken, Violation
  <2> QED BY <2>1, <2>2 DEF OfEmail, OfPhone, Email, Phone
<1> QED BY <1>3, <1>4, <1>5
Inv2 == OneForEach /\ Owners /\ Line /\ TakenIsTaken

LEMMA Inv2Holds == SessionsSpec => []Inv2
<1>1. SessionsInit => Inv2
  BY LineStart, OneForEachStart DEF SessionsInit, Inv2
<1>2. Inv1 /\ Inv2 /\ [SessionsNext]_vars => Inv2'
  BY SessionsSteps, LineStep, OneForEachStep, OwnersStep, TakenStep DEF Inv2
<1> QED BY <1>1, <1>2, Inv1Holds, PTL DEF SessionsSpec

\* Concurrent first sign-ins with one address end with one account, whose
\* owner all later sign-ins and refreshes are (routes/auth_google.py:198-230).
THEOREM OneAccount == SessionsSpec => []SignInsAgree
<1>1. Inv1 /\ Inv2 => SignInsAgree
  <2> SUFFICES ASSUME Inv1, Inv2, NEW r \in Requests, NEW s \in Requests,
                      reply[r].code = "ok", reply[s].code = "ok", Address(r) = Address(s)
               PROVE  /\ reply[r].user = reply[s].user
                      /\ \E u \in OfEmail(Address(r)) : u.id = reply[r].user
    BY DEF SignInsAgree
  <2>1. PICK u \in users : u.email = Address(r) /\ u.id = reply[r].user
    BY DEF Inv2, Owners, Owns
  <2>2. PICK v \in users : v.email = Address(s) /\ v.id = reply[s].user
    BY DEF Inv2, Owners, Owns
  <2>3. u = v
    BY <2>1, <2>2 DEF Inv2, OneForEach
  <2> QED BY <2>1, <2>2, <2>3 DEF OfEmail
<1> QED BY <1>1, Inv1Holds, Inv2Holds, PTL

\* Whoever is told that his address or number is taken finds the account that
\* has it (db/schema_v1.sql:1419-1427).
THEOREM TakenAccounts == SessionsSpec => []TakenIsTaken
<1>1. Inv2 => TakenIsTaken
  BY DEF Inv2
<1> QED BY <1>1, Inv2Holds, PTL
=============================================================================
