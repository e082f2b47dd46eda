----------------------------- MODULE TokenBucket -----------------------------
(***************************************************************************)
(* The rate limiter: one token bucket for each group of routes and client, *)
(* kept in the memory of the process and refilled by the wall clock.       *)
(*                                                                         *)
(* Tokens are counted in parts, Window[g] parts to a token, so a refill of *)
(* limit / window tokens a second is Limit[g] parts a second.  The clock   *)
(* is read in whole seconds; it may be set back.                           *)
(***************************************************************************)
EXTENDS Integers

CONSTANTS
  Groups,    \* the groups of routes that are limited
  Hosts,     \* the addresses of clients
  Limit,     \* auth_limit, webhook_limit
  Window,    \* auth_window_seconds, webhook_window_seconds
  Moves,     \* seconds the clock may move at once
  None       \* no bucket

ASSUME TokenBucketAssumption ==
  /\ Limit \in [Groups -> Nat] /\ Window \in [Groups -> Nat]
  /\ Moves \subseteq Nat
  /\ None \notin [tokens : Nat, last : Int]

Keys == Groups \X Hosts

VARIABLES
  now,       \* time.time()
  bucket,    \* _buckets
  ran,       \* seconds the clock has run forward since a window was opened
  restarts,  \* restarts of the process since then
  admitted   \* requests let through since then

bucketVars == <<now, bucket, ran, restarts, admitted>>

BucketInit ==
  /\ now = 0
  /\ bucket = [k \in Keys |-> None]
  /\ ran = 0 /\ restarts = 0
  /\ admitted = [k \in Keys |-> 0]

AtMost(m, n) == IF m < n THEN m ELSE n
AtLeast(m, n) == IF m > n THEN m ELSE n

\* A token, a full bucket and a second of refill, in parts.
Token(k) == AtLeast(1, Window[k[1]])
Full(k) == Limit[k[1]] * Token(k)
Refill(k) == Limit[k[1]]

Difference(last) == now - last
Elapsed(last) == AtLeast(0, now - last)
Refilled(k) == bucket[k].tokens + Elapsed(bucket[k].last) * Refill(k)
Uncapped(k) == IF bucket[k] = None THEN Full(k) ELSE Refilled(k)

\* The parts a request finds: a client that is new, or was forgotten, finds a
\* full bucket.
Available(k) ==
  IF bucket[k] = None THEN Full(k) ELSE AtMost(Full(k), Refilled(k))

Keep(k, tokens) == bucket' = [bucket EXCEPT ![k] = [tokens |-> tokens, last |-> now]]

Allow(k) ==
  /\ Available(k) >= Token(k)
  /\ Keep(k, Available(k) - Token(k))
  /\ admitted' = [admitted EXCEPT ![k] = @ + 1]
  /\ UNCHANGED <<now, ran, restarts>>

\* Refused with 429: what was refilled is kept.
Refuse(k) ==
  /\ Available(k) < Token(k)
  /\ Keep(k, Available(k))
  /\ UNCHANGED <<now, ran, admitted, restarts>>

-----------------------------------------------------------------------------
(* The environment.                                                         *)
Tick(d) ==
  /\ now' = now + d
  /\ ran' = ran + d
  /\ UNCHANGED <<bucket, restarts, admitted>>

SetBack(d) ==
  /\ now' = now - d
  /\ UNCHANGED <<bucket, ran, restarts, admitted>>

\* The buckets are in memory.
Restart ==
  /\ bucket' = [k \in Keys |-> None]
  /\ restarts' = restarts + 1
  /\ UNCHANGED <<now, ran, admitted>>

\* Any moment may be the first of a window: count from it.
OpenWindow ==
  /\ ran' = 0 /\ restarts' = 0
  /\ admitted' = [k \in Keys |-> 0]
  /\ UNCHANGED <<now, bucket>>

BucketNext ==
  \/ \E k \in Keys : Allow(k) \/ Refuse(k)
  \/ \E d \in Moves : Tick(d) \/ SetBack(d)
  \/ Restart \/ OpenWindow

BucketSpec == BucketInit /\ [][BucketNext]_bucketVars

-----------------------------------------------------------------------------
(* Properties.                                                              *)

Bucket == [tokens : Nat, last : Int]

\* Every variable has its type; a clock that is set back leaves no debt.
BucketTypeOK ==
  /\ now \in Int
  /\ bucket \in [Keys -> Bucket \cup {None}]
  /\ ran \in Nat /\ restarts \in Nat
  /\ admitted \in [Keys -> Nat]

\* From any moment on (OpenWindow) a client gets no more requests through than
\* the limit and the refill of the time that has passed since, and the limit
\* once more for each restart: not by refused attempts, by a long pause, or by
\* a clock that is set back and runs the same seconds again
\* (rate_limit.py:29-30).
AdmissionsBounded ==
  \A k \in Keys :
    admitted[k] * Token(k) <= Full(k) * (1 + restarts) + Refill(k) * ran
=============================================================================
