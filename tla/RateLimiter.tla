---------------------------- MODULE RateLimiter ----------------------------
(***************************************************************************)
(* The per-identity token bucket of src/mcpgate/rate_limit.py.             *)
(*                                                                         *)
(* A call of allow() has two steps that other threads can come between:    *)
(* it reads the clock (line 33) and only then takes the lock under which   *)
(* the bucket is refilled and charged (lines 34-43).  The running server   *)
(* has one caller, its event loop, which is a singleton Threads; the class *)
(* offers itself to any number of threads.                                 *)
(*                                                                         *)
(* Tokens are counted in integer units so that a fraction of a token is a  *)
(* unit: a call costs Cost units, a bucket holds Capacity of them and      *)
(* gains RefillPerSecond of them per tick of the clock.  The rounding of   *)
(* Python floats is not modelled.                                          *)
(***************************************************************************)
EXTENDS Integers

CONSTANTS
  Identities,       \* client ids, the keys of _buckets
  Threads,          \* callers of allow()
  Capacity,         \* units a full bucket holds
  RefillPerSecond,  \* units a bucket gains per tick
  Cost,             \* units one call costs
  MaxTime           \* bound: the clock stops here

ASSUME LimiterAssumption ==
  /\ Capacity \in Nat
  /\ Cost \in 1 .. Capacity
  /\ RefillPerSecond \in Nat \ {0}
  /\ MaxTime \in Nat

VARIABLES
  clock,     \* the monotonic clock
  buckets,   \* _buckets: identity -> [tokens, updated_at], absent until first used
  pending,   \* calls that have read the clock and wait for the lock
  spent,     \* history: spent[i][s] = units granted to i at clock readings >= s
  hints      \* history: the retry_after of i's first refusal since its last grant

vars == <<clock, buckets, pending, spent, hints>>

Time == 0 .. MaxTime

Init ==
  /\ clock = 0
  /\ buckets = [i \in {} |-> [tokens |-> Capacity, updated_at |-> 0]]
  /\ pending = {}
  /\ spent = [i \in Identities |-> [s \in Time |-> 0]]
  /\ hints = {}

(***************************************************************************)
(* The bucket as the lock holder sees it.                                  *)
(***************************************************************************)

\* setdefault: an identity seen for the first time starts with a full bucket.
Bucket(i, t) ==
  IF i \in DOMAIN buckets THEN buckets[i]
                          ELSE [tokens |-> Capacity, updated_at |-> t]

Elapsed(i, t) ==
  IF t > Bucket(i, t).updated_at THEN t - Bucket(i, t).updated_at ELSE 0

\* Seeded fault: the refill is not capped.
UncappedLevel(i, t) == Bucket(i, t).tokens + Elapsed(i, t) * RefillPerSecond

\* The tokens in i's bucket once it has been refilled up to the reading t.
Level(i, t) ==
  LET refilled == Bucket(i, t).tokens + Elapsed(i, t) * RefillPerSecond
  IN  IF refilled < Capacity THEN refilled ELSE Capacity

SetBucket(i, tokens, t) ==
  buckets' = [j \in DOMAIN buckets \cup {i} |->
                IF j = i THEN [tokens |-> tokens, updated_at |-> t] ELSE buckets[j]]

-----------------------------------------------------------------------------

\* Thread t enters allow(i) and reads the clock, without the lock.
ReadClock(t, i) ==
  /\ \A c \in pending : c.thread # t
  /\ pending' = pending \cup {[thread |-> t, identity |-> i, now |-> clock]}
  /\ UNCHANGED <<clock, buckets, spent, hints>>

\* Seeded fault: any token left pays for a call.
AnyTokenIsEnough(c) == Level(c.identity, c.now) > 0

\* Seeded fault: a bucket that holds just the cost does not pay it.
MoreThanEnough(c) == Level(c.identity, c.now) > Cost

Enough(c) == Level(c.identity, c.now) >= Cost

\* The lock is held, the refilled bucket covers the cost: (True, 0.0).
Grant(c) ==
  /\ Enough(c)
  /\ SetBucket(c.identity, Level(c.identity, c.now) - Cost, c.now)
  /\ pending' = pending \ {c}
  /\ spent' = [spent EXCEPT ![c.identity] =
                 [s \in Time |-> IF s <= c.now THEN @[s] + Cost ELSE @[s]]]
  /\ hints' = {h \in hints : h.identity # c.identity}
  /\ UNCHANGED clock

\* retry_after, in units still missing rather than in seconds.
FirstHint(c, missing) ==
  hints' = IF \E h \in hints : h.identity = c.identity
           THEN hints
           ELSE hints \cup {[identity |-> c.identity, at |-> c.now, missing |-> missing]}

\* Seeded fault: a refused call is charged what is left.
ChargingDeny(c) ==
  /\ ~Enough(c)
  /\ SetBucket(c.identity, 0, c.now)
  /\ FirstHint(c, Cost - Level(c.identity, c.now))
  /\ pending' = pending \ {c}
  /\ UNCHANGED <<clock, spent>>

\* Seeded fault: a refusal advances updated_at and drops the refill.
RefillForgettingDeny(c) ==
  /\ ~Enough(c)
  /\ SetBucket(c.identity, Bucket(c.identity, c.now).tokens, c.now)
  /\ FirstHint(c, Cost - Level(c.identity, c.now))
  /\ pending' = pending \ {c}
  /\ UNCHANGED <<clock, spent>>

\* The lock is held, the bucket is too low: (False, retry_after).  The refill
\* is kept and so is the reading, even one older than the bucket's.
Deny(c) ==
  /\ ~Enough(c)
  /\ SetBucket(c.identity, Level(c.identity, c.now), c.now)
  /\ FirstHint(c, Cost - Level(c.identity, c.now))
  /\ pending' = pending \ {c}
  /\ UNCHANGED <<clock, spent>>

Tick ==
  /\ clock < MaxTime
  /\ clock' = clock + 1
  /\ UNCHANGED <<buckets, pending, spent, hints>>

Serve == \E c \in pending : Grant(c) \/ Deny(c)

Next ==
  \/ \E t \in Threads, i \in Identities : ReadClock(t, i)
  \/ \E c \in pending : Grant(c)
  \/ \E c \in pending : Deny(c)
  \/ Tick

Spec == Init /\ [][Next]_vars

\* Time goes on, a caller that has come to the lock gets it, and a client
\* keeps calling: the event loop takes the requests of all in turn.
Fairness ==
  /\ WF_vars(Tick)
  /\ WF_vars(Serve)
  /\ \A t \in Threads, i \in Identities : SF_vars(ReadClock(t, i))

FairSpec == Spec /\ Fairness

-----------------------------------------------------------------------------
(***************************************************************************)
(* Properties                                                              *)
(***************************************************************************)

Call == [thread : Threads, identity : Identities, now : Time]
Hint == [identity : Identities, at : Time, missing : 1 .. Cost]

\* Every bucket stays between empty and full, and every recorded instant is
\* one the clock can show (rate_limit.py:9-12, 35-43).
TypeOK ==
  /\ clock \in Time
  /\ DOMAIN buckets \subseteq Identities
  /\ buckets \in [DOMAIN buckets -> [tokens : 0 .. Capacity, updated_at : Time]]
  /\ pending \subseteq Call
  /\ spent \in [Identities -> [Time -> Nat]]
  /\ hints \subseteq Hint

\* What a window that opened at s and is still open leaves to identity i.
Allowance(i, s) == Capacity + RefillPerSecond * (clock - s) - spent[i][s]

\* However the calls of an identity are spaced, no window of time ever sees
\* it granted more than one full bucket plus the refill the window is worth
\* (README: "token-bucket rate limits per authenticated identity").
WindowBound ==
  \A i \in Identities : \A s \in 0 .. clock : Allowance(i, s) >= 0

\* The limiter refuses only what the contract forbids: an identity that has
\* Cost left in every open window would be granted a call now, whatever other
\* identities have spent and however often it was refused before.
NoNeedlessThrottle ==
  \A i \in Identities :
    (\A s \in 0 .. clock : Allowance(i, s) >= Cost) => Level(i, clock) >= Cost

\* retry_after is exact: until an identity is granted a call again, a call
\* made retry_after after its first refusal finds enough tokens, and a call
\* made any earlier does not (rate_limit.py:40).
RetryHintExact ==
  \A h \in hints :
    RefillPerSecond * (clock - h.at) >= h.missing <=> Level(h.identity, clock) >= Cost

Refused(i) == \E h \in hints : h.identity = i

\* The first refusal's retry_after ends within the bounded time.
DueInTime(i) ==
  \E h \in hints : h.identity = i /\ RefillPerSecond * (MaxTime - h.at) >= h.missing

\* A client that goes on calling, however early and often, is granted a call:
\* its refusals do not put off the refill, nor do the calls of others
\* (rate_limit.py:36-40).
NoStarvation == \A i \in Identities : DueInTime(i) ~> ~Refused(i)

\* The instant at which calls are judged: the reading of the one that waits.
Moment == IF pending = {} THEN clock ELSE (CHOOSE c \in pending : TRUE).now

Quota == INSTANCE WindowQuota WITH time <- Moment

\* The bucket is no more than a way to compute the quota of all windows: one
\* caller is granted a call exactly when every open window has room for it, and
\* what a refusal says is missing is missing in the tightest of them.
KeepsQuota == Quota!Spec

=============================================================================
