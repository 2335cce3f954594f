------------------------- MODULE RateLimiterProofs -------------------------
(***************************************************************************)
(* The window contract of the token bucket, for every capacity, cost,      *)
(* refill rate and set of identities, when one thread calls the limiter,   *)
(* as the server's event loop does: the limiter implements WindowQuota.    *)
(* With two threads the contract fails (run RateLimiter_threads), so all   *)
(* but the type theorem take OneCaller as their hypothesis.                *)
(***************************************************************************)
EXTENDS RateLimiter, TLAPS

OneCaller == \A a, b \in Threads : a = b

(***************************************************************************)
(* Readings enter the buckets in clock order, because the only thread has  *)
(* no second reading outstanding.                                          *)
(***************************************************************************)
ReadingsInOrder ==
  /\ \A c, d \in pending : c = d
  /\ \A c \in pending : c.now <= clock
  /\ \A i \in DOMAIN buckets : buckets[i].updated_at <= clock
  /\ \A c \in pending : \A i \in DOMAIN buckets : buckets[i].updated_at <= c.now

(***************************************************************************)
(* What the tokens in a bucket mean for every window: they never exceed    *)
(* what the window has left when the bucket was last touched ...           *)
(***************************************************************************)
TokensWithinWindows ==
  /\ \A i \in Identities \ DOMAIN buckets : \A s \in Time : spent[i][s] = 0
  /\ \A i \in DOMAIN buckets : \A s \in Time :
       /\ s > buckets[i].updated_at => spent[i][s] = 0
       /\ s <= buckets[i].updated_at =>
            spent[i][s] + buckets[i].tokens
              <= Capacity + RefillPerSecond * (buckets[i].updated_at - s)

(***************************************************************************)
(* ... and they are all that the tightest window has left.                 *)
(***************************************************************************)
TightWindow ==
  \A i \in DOMAIN buckets : \E s \in Time :
    /\ s <= buckets[i].updated_at
    /\ spent[i][s] + buckets[i].tokens
         = Capacity + RefillPerSecond * (buckets[i].updated_at - s)

IInv ==
  /\ TypeOK
  /\ ReadingsInOrder
  /\ TokensWithinWindows
  /\ TightWindow

-----------------------------------------------------------------------------
(***************************************************************************)
(* Arithmetic of the refill.                                               *)
(***************************************************************************)

\* The refill of an interval is the sum of the refills of its two parts.
LEMMA RefillSplits ==
  ASSUME NEW r \in Int, NEW s \in Int, NEW u \in Int, NEW t \in Int
  PROVE  r * (t - s) = r * (u - s) + (t - u) * r
  OBVIOUS

\* No interval loses tokens.
LEMMA RefillNonNegative ==
  ASSUME NEW r \in Nat, NEW d \in Nat
  PROVE  /\ r * d \in Nat
         /\ d * r \in Nat
  OBVIOUS

\* The level at a reading t not older than the bucket's: the tokens plus the
\* refill since, at most Capacity, and a full bucket for a new identity.
LEMMA LevelAt ==
  ASSUME TypeOK, NEW i \in Identities, NEW t \in Time,
         i \in DOMAIN buckets => buckets[i].updated_at <= t
  PROVE  /\ Level(i, t) \in 0 .. Capacity
         /\ i \notin DOMAIN buckets => Level(i, t) = Capacity
         /\ i \in DOMAIN buckets =>
              LET refilled == buckets[i].tokens + (t - buckets[i].updated_at) * RefillPerSecond
              IN  /\ refilled \in Nat
                  /\ refilled < Capacity => Level(i, t) = refilled
                  /\ refilled >= Capacity => Level(i, t) = Capacity
<1> USE LimiterAssumption
<1>1. CASE i \notin DOMAIN buckets
  <2>1. Bucket(i, t) = [tokens |-> Capacity, updated_at |-> t]
    BY <1>1 DEF Bucket
  <2>2. Elapsed(i, t) = 0
    BY <2>1 DEF Elapsed, Time
  <2>3. Level(i, t) = Capacity
    BY <2>1, <2>2 DEF Level
  <2>. QED  BY <1>1, <2>3
<1>2. CASE i \in DOMAIN buckets
  <2>1. /\ buckets[i] \in [tokens : 0 .. Capacity, updated_at : Time]
        /\ Bucket(i, t) = buckets[i]
    BY <1>2 DEF TypeOK, Bucket
  <2>2. /\ Elapsed(i, t) = t - buckets[i].updated_at
        /\ t - buckets[i].updated_at \in Nat
    BY <1>2, <2>1 DEF Elapsed, Time
  <2>3. (t - buckets[i].updated_at) * RefillPerSecond \in Nat
    BY <2>2, RefillNonNegative
  <2>. QED  BY <1>2, <2>1, <2>2, <2>3 DEF Level
<1>. QED  BY <1>1, <1>2

-----------------------------------------------------------------------------
(***************************************************************************)
(* The shapes, for any number of threads: a reading older than the bucket  *)
(* refills nothing, so the level stays between empty and full.             *)
(***************************************************************************)
LEMMA LevelBounds ==
  ASSUME TypeOK, NEW i \in Identities, NEW t \in Time
  PROVE  Level(i, t) \in 0 .. Capacity
<1> USE LimiterAssumption
<1>1. Bucket(i, t) \in [tokens : 0 .. Capacity, updated_at : Time]
  BY DEF Bucket, TypeOK
<1>2. Elapsed(i, t) \in Nat
  BY <1>1 DEF Elapsed, Time
<1>3. Elapsed(i, t) * RefillPerSecond \in Nat
  BY <1>2, RefillNonNegative
<1>. QED  BY <1>1, <1>3 DEF Level

LEMMA SetBucketTyped ==
  ASSUME TypeOK, NEW i \in Identities, NEW t \in Time, NEW tokens \in 0 .. Capacity,
         SetBucket(i, tokens, t)
  PROVE  /\ DOMAIN buckets' \subseteq Identities
         /\ buckets' \in [DOMAIN buckets' -> [tokens : 0 .. Capacity, updated_at : Time]]
<1>1. /\ DOMAIN buckets' = DOMAIN buckets \cup {i}
      /\ buckets' = [j \in DOMAIN buckets' |-> buckets'[j]]
      /\ buckets'[i] = [tokens |-> tokens, updated_at |-> t]
      /\ \A j \in DOMAIN buckets \ {i} : buckets'[j] = buckets[j]
  BY DEF SetBucket
<1>2. \A j \in DOMAIN buckets' : buckets'[j] \in [tokens : 0 .. Capacity, updated_at : Time]
  BY <1>1 DEF TypeOK
<1>. QED  BY <1>1, <1>2 DEF TypeOK

LEMMA GrantTyped == ASSUME TypeOK, NEW c \in pending, Grant(c) PROVE TypeOK'
<1> USE LimiterAssumption
<1>1. c.identity \in Identities /\ c.now \in Time
  BY DEF TypeOK, Call
<1>2. Level(c.identity, c.now) - Cost \in 0 .. Capacity
  BY <1>1, LevelBounds DEF Grant, Enough
<1>3. /\ DOMAIN buckets' \subseteq Identities
      /\ buckets' \in [DOMAIN buckets' -> [tokens : 0 .. Capacity, updated_at : Time]]
  BY <1>1, <1>2, SetBucketTyped DEF Grant
<1>4. spent' \in [Identities -> [Time -> Nat]]
  BY <1>1 DEF Grant, TypeOK
<1>. QED  BY <1>3, <1>4 DEF Grant, TypeOK

LEMMA DenyTyped == ASSUME TypeOK, NEW c \in pending, Deny(c) PROVE TypeOK'
<1>1. c.identity \in Identities /\ c.now \in Time
  BY DEF TypeOK, Call
<1>2. Level(c.identity, c.now) \in 0 .. Capacity
  BY <1>1, LevelBounds
<1>3. /\ DOMAIN buckets' \subseteq Identities
      /\ buckets' \in [DOMAIN buckets' -> [tokens : 0 .. Capacity, updated_at : Time]]
  BY <1>1, <1>2, SetBucketTyped DEF Deny
<1>4. hints' \subseteq Hint
  <2>1. Cost - Level(c.identity, c.now) \in 1 .. Cost
    BY <1>2, LimiterAssumption DEF Deny, Enough
  <2>. QED  BY <1>1, <2>1 DEF Deny, FirstHint, Hint, TypeOK
<1>. QED  BY <1>3, <1>4 DEF Deny, TypeOK

LEMMA TypeInductive == TypeOK /\ [Next]_vars => TypeOK'
<1> SUFFICES ASSUME TypeOK, [Next]_vars PROVE TypeOK'
  OBVIOUS
<1>1. CASE \E t \in Threads, i \in Identities : ReadClock(t, i)
  BY <1>1 DEF ReadClock, TypeOK, Call
<1>2. CASE \E c \in pending : Grant(c)
  BY <1>2, GrantTyped
<1>3. CASE \E c \in pending : Deny(c)
  BY <1>3, DenyTyped
<1>4. CASE Tick
  BY <1>4, LimiterAssumption DEF Tick, TypeOK, Time
<1>5. CASE UNCHANGED vars
  BY <1>5 DEF vars, TypeOK
<1>. QED  BY <1>1, <1>2, <1>3, <1>4, <1>5 DEF Next

-----------------------------------------------------------------------------
LEMMA InitInv == Init => IInv
  BY LimiterAssumption
  DEF Init, IInv, TypeOK, ReadingsInOrder, TokensWithinWindows, TightWindow, Time

LEMMA ReadClockInv ==
  ASSUME OneCaller, IInv, NEW th \in Threads, NEW id \in Identities, ReadClock(th, id)
  PROVE  IInv'
<1>1. TypeOK'
  BY TypeInductive DEF IInv, Next
<1>2. ReadingsInOrder'
  <2>1. pending = {}
    BY DEF OneCaller, IInv, TypeOK, Call, ReadClock
  <2>. QED  BY <2>1 DEF IInv, TypeOK, ReadingsInOrder, ReadClock, Time
<1>3. TokensWithinWindows' /\ TightWindow'
  BY DEF IInv, TokensWithinWindows, TightWindow, ReadClock
<1>. QED  BY <1>1, <1>2, <1>3 DEF IInv

LEMMA TickInv == ASSUME IInv, Tick PROVE IInv'
<1>1. TypeOK'
  BY TypeInductive DEF IInv, Next
<1>2. ReadingsInOrder'
  <2>1. \A c \in pending : c.now \in Time
    BY DEF IInv, TypeOK, Call
  <2>2. \A i \in DOMAIN buckets : buckets[i].updated_at \in Time
    BY DEF IInv, TypeOK
  <2>. QED  BY <2>1, <2>2 DEF IInv, TypeOK, ReadingsInOrder, Tick, Time
<1>3. TokensWithinWindows' /\ TightWindow'
  BY DEF IInv, TokensWithinWindows, TightWindow, Tick
<1>. QED  BY <1>1, <1>2, <1>3 DEF IInv

\* Both outcomes of the locked section, Charge = Cost when the call is granted
\* and 0 when it is refused, keep the tokens and the windows in step.
LEMMA LockedSection ==
  ASSUME IInv, NEW c \in pending, NEW Charge \in 0 .. Cost,
         Level(c.identity, c.now) >= Charge,
         SetBucket(c.identity, Level(c.identity, c.now) - Charge, c.now),
         spent' = [spent EXCEPT ![c.identity] =
                     [s \in Time |-> IF s <= c.now THEN @[s] + Charge ELSE @[s]]],
         pending' = pending \ {c},
         UNCHANGED clock
  PROVE  /\ ReadingsInOrder'
         /\ TokensWithinWindows'
         /\ TightWindow'
<1> DEFINE id == c.identity
           t  == c.now
           lv == Level(id, t)
<1>1. /\ id \in Identities /\ t \in Time /\ t <= clock /\ clock \in Time
      /\ \A i \in DOMAIN buckets : buckets[i].updated_at <= t
  BY DEF IInv, TypeOK, Call, ReadingsInOrder
<1>2. lv \in 0 .. Capacity
  BY <1>1, LevelAt DEF IInv
<1>3. /\ DOMAIN buckets' = DOMAIN buckets \cup {id}
      /\ buckets'[id] = [tokens |-> lv - Charge, updated_at |-> t]
      /\ \A i \in DOMAIN buckets \ {id} : buckets'[i] = buckets[i]
  BY DEF SetBucket
<1>4. /\ lv - Charge \in 0 .. Capacity
      /\ Cost \in Nat /\ Capacity \in Nat /\ RefillPerSecond \in Nat
      /\ Charge \in Nat
  BY <1>2, LimiterAssumption
<1>6. /\ spent' \in [Identities -> [Time -> Nat]]
      /\ \A s \in Time : spent'[id][s] = IF s <= t THEN spent[id][s] + Charge ELSE spent[id][s]
      /\ \A i \in Identities \ {id} : spent'[i] = spent[i]
  BY <1>1, <1>4 DEF IInv, TypeOK
<1>7. ReadingsInOrder'
  <2>1. pending' = {}
    BY DEF IInv, ReadingsInOrder
  <2>. QED  BY <1>1, <1>3, <2>1 DEF IInv, ReadingsInOrder
<1>8. /\ id \in Identities \ DOMAIN buckets =>
           \A s \in Time : spent[id][s] = 0 /\ lv = Capacity
      /\ id \in DOMAIN buckets =>
           \A s \in Time :
             /\ buckets[id].updated_at \in Time /\ buckets[id].tokens \in 0 .. Capacity
             /\ RefillPerSecond * (t - s) = RefillPerSecond * (buckets[id].updated_at - s)
                                            + (t - buckets[id].updated_at) * RefillPerSecond
             /\ RefillPerSecond * (buckets[id].updated_at - s) \in Int
             /\ (t - buckets[id].updated_at) * RefillPerSecond \in Nat
  <2>1. id \notin DOMAIN buckets => lv = Capacity
    BY <1>1, LevelAt DEF IInv
  <2>2. id \in DOMAIN buckets =>
           buckets[id].updated_at \in Time /\ buckets[id].tokens \in 0 .. Capacity
    BY DEF IInv, TypeOK
  <2>3. id \in DOMAIN buckets => t - buckets[id].updated_at \in Nat
    BY <1>1, <2>2 DEF Time
  <2>4. id \in DOMAIN buckets => (t - buckets[id].updated_at) * RefillPerSecond \in Nat
    BY <1>4, <2>3, RefillNonNegative
  <2>5. id \in DOMAIN buckets => \A s \in Time :
           /\ RefillPerSecond * (t - s) = RefillPerSecond * (buckets[id].updated_at - s)
                                            + (t - buckets[id].updated_at) * RefillPerSecond
           /\ RefillPerSecond * (buckets[id].updated_at - s) \in Int
    <3>1. RefillPerSecond \in Int /\ t \in Int /\ \A s \in Time : s \in Int
      BY <1>1, <1>4 DEF Time
    <3>2. id \in DOMAIN buckets => buckets[id].updated_at \in Int
      BY <2>2 DEF Time
    <3>. QED  BY <3>1, <3>2, RefillSplits
  <2>. QED  BY <2>1, <2>2, <2>4, <2>5 DEF IInv, TokensWithinWindows
<1>9. id \in DOMAIN buckets =>
        LET refilled == buckets[id].tokens + (t - buckets[id].updated_at) * RefillPerSecond
        IN  /\ refilled < Capacity => lv = refilled
            /\ refilled >= Capacity => lv = Capacity
  BY <1>1, LevelAt DEF IInv
<1>10. \A s \in Time : t >= s => RefillPerSecond * (t - s) \in Nat
  BY <1>1, <1>4, RefillNonNegative DEF Time
<1>11. TokensWithinWindows'
  <2>1. \A i \in Identities \ DOMAIN buckets' : \A s \in Time : spent'[i][s] = 0
    BY <1>3, <1>6 DEF IInv, TokensWithinWindows
  <2>2. ASSUME NEW i \in DOMAIN buckets \ {id}, NEW s \in Time
        PROVE  /\ s > buckets'[i].updated_at => spent'[i][s] = 0
               /\ s <= buckets'[i].updated_at =>
                    spent'[i][s] + buckets'[i].tokens
                      <= Capacity + RefillPerSecond * (buckets'[i].updated_at - s)
    BY <1>3, <1>6 DEF IInv, TypeOK, TokensWithinWindows
  <2>3. ASSUME NEW s \in Time, s > t PROVE spent'[id][s] = 0
    <3>1. /\ s \in Int /\ t \in Int /\ ~(s <= t)
          /\ id \in DOMAIN buckets => buckets[id].updated_at \in Int
      BY <1>1, <1>8, <2>3, LimiterAssumption DEF Time
    <3>2. spent'[id][s] = spent[id][s]
      BY <1>6, <3>1
    <3>3. id \in DOMAIN buckets => s > buckets[id].updated_at
      BY <1>1, <2>3, <3>1
    <3>. QED  BY <1>1, <3>2, <3>3 DEF IInv, TokensWithinWindows
  <2>4. ASSUME NEW s \in Time, s <= t
        PROVE  spent'[id][s] + (lv - Charge) <= Capacity + RefillPerSecond * (t - s)
    <3>1. spent'[id][s] = spent[id][s] + Charge /\ spent[id][s] \in Nat
      BY <1>1, <1>6, <2>4 DEF IInv, TypeOK
    <3>2. RefillPerSecond * (t - s) \in Nat
      BY <1>10, <2>4 DEF Time
    <3>3. CASE id \notin DOMAIN buckets
      BY <1>1, <1>2, <1>4, <1>8, <3>1, <3>2, <3>3
    <3>4. CASE id \in DOMAIN buckets /\ s > buckets[id].updated_at
      <4>1. spent[id][s] = 0
        BY <3>4 DEF IInv, TokensWithinWindows
      <4>. QED  BY <1>2, <1>4, <3>1, <3>2, <4>1
    <3>5. CASE id \in DOMAIN buckets /\ s <= buckets[id].updated_at
      <4>1. spent[id][s] + buckets[id].tokens
              <= Capacity + RefillPerSecond * (buckets[id].updated_at - s)
        BY <3>5 DEF IInv, TokensWithinWindows
      <4>2. lv <= buckets[id].tokens + (t - buckets[id].updated_at) * RefillPerSecond
        BY <1>4, <1>8, <1>9, <3>5
      <4>. QED  BY <1>2, <1>4, <1>8, <3>1, <3>5, <4>1, <4>2
    <3>. QED  BY <1>8, <3>3, <3>4, <3>5 DEF Time
  <2>. QED  BY <1>3, <2>1, <2>2, <2>3, <2>4 DEF TokensWithinWindows
<1>12. TightWindow'
  <2>1. ASSUME NEW i \in DOMAIN buckets \ {id}
        PROVE  \E s \in Time :
                 /\ s <= buckets'[i].updated_at
                 /\ spent'[i][s] + buckets'[i].tokens
                      = Capacity + RefillPerSecond * (buckets'[i].updated_at - s)
    BY <1>3, <1>6 DEF IInv, TypeOK, TightWindow
  <2>2. \E s \in Time :
           /\ s <= t
           /\ spent'[id][s] + (lv - Charge) = Capacity + RefillPerSecond * (t - s)
    <3>1. CASE \/ id \notin DOMAIN buckets
               \/ /\ id \in DOMAIN buckets /\ t > buckets[id].updated_at
                  /\ lv = Capacity
      <4>1. spent[id][t] = 0 /\ lv = Capacity
        BY <1>1, <1>8, <3>1 DEF IInv, TokensWithinWindows
      <4>2. spent'[id][t] = Charge
        BY <1>1, <1>4, <1>6, <4>1 DEF Time
      <4>3. RefillPerSecond * (t - t) = 0
        BY <1>1, <1>4 DEF Time
      <4>4. /\ t <= t
            /\ spent'[id][t] + (lv - Charge) = Capacity + RefillPerSecond * (t - t)
        BY <1>1, <1>4, <4>1, <4>2, <4>3 DEF Time
      <4>. QED  BY <1>1, <4>4
    <3>2. CASE id \in DOMAIN buckets /\ (lv # Capacity \/ t = buckets[id].updated_at)
      <4>1. PICK s \in Time :
              /\ s <= buckets[id].updated_at
              /\ spent[id][s] + buckets[id].tokens
                   = Capacity + RefillPerSecond * (buckets[id].updated_at - s)
        BY <3>2 DEF IInv, TightWindow
      <4>2. lv = buckets[id].tokens + (t - buckets[id].updated_at) * RefillPerSecond
        <5>1. CASE lv # Capacity
          BY <1>4, <1>8, <1>9, <3>2, <5>1
        <5>2. CASE t = buckets[id].updated_at
          <6>1. (t - buckets[id].updated_at) * RefillPerSecond = 0
            BY <1>1, <1>4, <5>2 DEF Time
          <6>. QED  BY <1>4, <1>8, <1>9, <3>2, <6>1
        <5>. QED  BY <3>2, <5>1, <5>2
      <4>3. s <= t /\ spent'[id][s] = spent[id][s] + Charge /\ spent[id][s] \in Nat
        <5>1. /\ s \in Int /\ t \in Int /\ buckets[id].updated_at \in Int
              /\ buckets[id].updated_at <= t
          <6>1. id \in DOMAIN buckets
            BY <3>2
          <6>2. buckets[id].updated_at \in Time
            BY <6>1 DEF IInv, TypeOK
          <6>. QED  BY <1>1, <6>1, <6>2, LimiterAssumption DEF Time
        <5>2. s <= t
          BY <4>1, <5>1
        <5>3. spent[id][s] \in Nat
          BY <1>1 DEF IInv, TypeOK
        <5>4. spent'[id][s] = spent[id][s] + Charge
          BY <1>6, <5>2
        <5>. QED  BY <5>2, <5>3, <5>4
      <4>4. spent'[id][s] + (lv - Charge) = Capacity + RefillPerSecond * (t - s)
        BY <1>4, <1>8, <3>2, <4>1, <4>2, <4>3
      <4>. QED  BY <4>3, <4>4
    <3>3. id \in DOMAIN buckets => t >= buckets[id].updated_at
      BY <1>1, <1>8 DEF Time
    <3>. QED  BY <1>1, <1>8, <3>1, <3>2, <3>3 DEF Time
  <2>. QED  BY <1>3, <2>1, <2>2 DEF TightWindow
<1>. QED  BY <1>7, <1>11, <1>12

LEMMA GrantInv == ASSUME IInv, NEW c \in pending, Grant(c) PROVE IInv'
<1>1. Cost \in 0 .. Cost
  BY LimiterAssumption
<1>2. TypeOK'
  BY TypeInductive DEF IInv, Next
<1>. QED  BY <1>1, <1>2, LockedSection DEF Grant, Enough, IInv

LEMMA DenyInv == ASSUME IInv, NEW c \in pending, Deny(c) PROVE IInv'
<1>1. c.identity \in Identities /\ c.now \in Time
  BY DEF IInv, TypeOK, Call
<1>2. Level(c.identity, c.now) \in 0 .. Capacity
  BY <1>1, LevelBounds DEF IInv
<1>3. 0 \in 0 .. Cost /\ Level(c.identity, c.now) - 0 = Level(c.identity, c.now)
  BY <1>2, LimiterAssumption
<1>4. spent' = [spent EXCEPT ![c.identity] =
                  [s \in Time |-> IF s <= c.now THEN @[s] + 0 ELSE @[s]]]
  <2>1. \A s \in Time : spent[c.identity][s] + 0 = spent[c.identity][s]
    BY <1>1 DEF IInv, TypeOK
  <2>2. spent[c.identity] =
          [s \in Time |-> IF s <= c.now THEN spent[c.identity][s] + 0 ELSE spent[c.identity][s]]
    BY <1>1, <2>1 DEF IInv, TypeOK
  <2>. QED  BY <1>1, <2>2 DEF Deny, IInv, TypeOK
<1>5. TypeOK'
  BY TypeInductive DEF IInv, Next
<1>6. /\ Level(c.identity, c.now) >= 0
      /\ SetBucket(c.identity, Level(c.identity, c.now) - 0, c.now)
      /\ pending' = pending \ {c}
      /\ UNCHANGED clock
  BY <1>2, <1>3 DEF Deny
<1>. QED  BY <1>3, <1>4, <1>5, <1>6, LockedSection DEF IInv

LEMMA StutterInv == ASSUME IInv, UNCHANGED vars PROVE IInv'
  BY DEF vars, IInv, TypeOK, ReadingsInOrder, TokensWithinWindows, TightWindow

-----------------------------------------------------------------------------
(***************************************************************************)
(* The bucket is the tightest window: its level at a reading not older     *)
(* than its own is what the tightest of the windows then open leaves.      *)
(***************************************************************************)
Left(i, s, t) == Capacity + RefillPerSecond * (t - s) - spent[i][s]

LEMMA LeftTyped ==
  ASSUME TypeOK, NEW i \in Identities, NEW t \in Time, NEW s \in 0 .. t
  PROVE  Left(i, s, t) \in Int
<1>1. s \in Time /\ t - s \in Nat
  BY LimiterAssumption DEF Time
<1>2. RefillPerSecond * (t - s) \in Nat
  BY <1>1, RefillNonNegative, LimiterAssumption
<1>3. spent[i][s] \in Nat
  BY <1>1 DEF TypeOK
<1>. QED  BY <1>2, <1>3, LimiterAssumption DEF Left

LEMMA NewIdentity ==
  ASSUME IInv, NEW i \in Identities \ DOMAIN buckets, NEW t \in Time, NEW s \in 0 .. t
  PROVE  Left(i, s, t) >= Level(i, t) /\ Left(i, t, t) = Level(i, t)
<1> USE LimiterAssumption
<1>1. s \in Time /\ t - s \in Nat /\ t - t = 0
  BY DEF Time
<1>2. RefillPerSecond * (t - s) \in Nat /\ RefillPerSecond * (t - t) = 0
  BY <1>1, RefillNonNegative
<1>3. Level(i, t) = Capacity
  BY LevelAt DEF IInv
<1>. QED  BY <1>1, <1>2, <1>3 DEF IInv, TokensWithinWindows, Left

LEMMA NoWindowTighter ==
  ASSUME IInv, NEW i \in DOMAIN buckets, NEW t \in Time, NEW s \in 0 .. t,
         buckets[i].updated_at <= t
  PROVE  Left(i, s, t) >= Level(i, t)
<1> USE LimiterAssumption
<1> DEFINE u == buckets[i].updated_at
<1>1. /\ i \in Identities /\ u \in Time /\ buckets[i].tokens \in Nat
      /\ s \in Time /\ spent[i][s] \in Nat
  BY DEF IInv, TypeOK, Time
<1>2. /\ RefillPerSecond * (t - s) = RefillPerSecond * (u - s) + (t - u) * RefillPerSecond
      /\ RefillPerSecond * (u - s) \in Int
  BY <1>1, RefillSplits DEF Time
<1>3. (t - u) * RefillPerSecond \in Nat /\ RefillPerSecond * (t - s) \in Nat
  BY <1>1, RefillNonNegative DEF Time
<1>4. /\ Level(i, t) \in 0 .. Capacity
      /\ Level(i, t) <= buckets[i].tokens + (t - u) * RefillPerSecond
  BY <1>1, <1>3, LevelAt DEF IInv
<1>5. CASE s > u
  <2>1. spent[i][s] = 0
    BY <1>1, <1>5 DEF IInv, TokensWithinWindows
  <2>. QED  BY <1>3, <1>4, <2>1 DEF Left
<1>6. CASE s <= u
  <2>1. spent[i][s] + buckets[i].tokens <= Capacity + RefillPerSecond * (u - s)
    BY <1>1, <1>6 DEF IInv, TokensWithinWindows
  <2> HIDE DEF u
  <2>. QED  BY <1>1, <1>2, <1>3, <1>4, <2>1 DEF Left
<1>. QED  BY <1>1, <1>5, <1>6 DEF Time

LEMMA SomeWindowTight ==
  ASSUME IInv, NEW i \in DOMAIN buckets, NEW t \in Time, buckets[i].updated_at <= t
  PROVE  \E s \in 0 .. t : Left(i, s, t) = Level(i, t)
<1> USE LimiterAssumption
<1> DEFINE u == buckets[i].updated_at
<1>1. i \in Identities /\ u \in Time /\ buckets[i].tokens \in 0 .. Capacity
  BY DEF IInv, TypeOK
<1>2. (t - u) * RefillPerSecond \in Nat
  BY <1>1, RefillNonNegative DEF Time
<1>3. LET refilled == buckets[i].tokens + (t - u) * RefillPerSecond
      IN  /\ refilled < Capacity => Level(i, t) = refilled
          /\ refilled >= Capacity => Level(i, t) = Capacity
  BY <1>1, LevelAt DEF IInv
<1>4. CASE u < t /\ Level(i, t) = Capacity
  <2>1. spent[i][t] = 0 /\ t - t = 0 /\ RefillPerSecond * 0 = 0
    BY <1>1, <1>4 DEF IInv, TokensWithinWindows, Time
  <2>2. Left(i, t, t) = Capacity
    BY <2>1 DEF Left
  <2>3. t \in 0 .. t
    BY DEF Time
  <2>. QED  BY <1>4, <2>2, <2>3
<1>5. CASE Level(i, t) = buckets[i].tokens + (t - u) * RefillPerSecond
  <2>1. PICK s \in Time :
          /\ s <= u
          /\ spent[i][s] + buckets[i].tokens = Capacity + RefillPerSecond * (u - s)
    BY DEF IInv, TightWindow
  <2>2. s \in 0 .. t /\ spent[i][s] \in Nat
    <3>1. spent \in [Identities -> [Time -> Nat]]
      BY DEF IInv, TypeOK
    <3>2. s \in Nat /\ u \in Nat /\ t \in Nat /\ s <= u /\ u <= t
      BY <1>1, <2>1 DEF Time
    <3> HIDE DEF u
    <3>3. s \in 0 .. t
      BY <3>2
    <3>. QED  BY <1>1, <2>1, <3>1, <3>3
  <2>3. /\ RefillPerSecond * (t - s) = RefillPerSecond * (u - s) + (t - u) * RefillPerSecond
        /\ RefillPerSecond * (u - s) \in Int
    BY <1>1, RefillSplits DEF Time
  <2> HIDE DEF u
  <2>4. Left(i, s, t) = Level(i, t)
    BY <1>1, <1>2, <1>5, <2>1, <2>2, <2>3 DEF Left
  <2>. QED  BY <2>2, <2>4
<1>6. CASE u = t
  <2>1. (t - u) * RefillPerSecond = 0
    BY <1>6 DEF Time
  <2>2. Level(i, t) = buckets[i].tokens + (t - u) * RefillPerSecond
    BY <1>1, <1>3, <2>1
  <2>. QED  BY <1>5, <2>2
<1>7. u < t \/ u = t
  BY <1>1 DEF Time
<1>8. Level(i, t) = Capacity \/ Level(i, t) = buckets[i].tokens + (t - u) * RefillPerSecond
  <2> DEFINE refilled == buckets[i].tokens + (t - u) * RefillPerSecond
  <2>1. refilled \in Nat
    BY <1>1, <1>2
  <2>2. /\ refilled < Capacity => Level(i, t) = refilled
        /\ refilled >= Capacity => Level(i, t) = Capacity
    BY <1>3
  <2> HIDE DEF refilled
  <2>3. Level(i, t) = Capacity \/ Level(i, t) = refilled
    BY <2>1, <2>2
  <2>. QED  BY <2>3 DEF refilled
<1>. QED  BY <1>4, <1>5, <1>6, <1>7, <1>8

LEMMA LevelIsTightest ==
  ASSUME IInv, NEW i \in Identities, NEW t \in Time,
         i \in DOMAIN buckets => buckets[i].updated_at <= t
  PROVE  /\ \A s \in 0 .. t : Left(i, s, t) >= Level(i, t)
         /\ \E s \in 0 .. t : Left(i, s, t) = Level(i, t)
<1>1. t \in 0 .. t
  BY LimiterAssumption DEF Time
<1>. QED  BY <1>1, NewIdentity, NoWindowTighter, SomeWindowTight

\* Both window properties read the level at the present instant.
LEMMA InvWindowBound == ASSUME IInv PROVE WindowBound
<1> SUFFICES ASSUME NEW i \in Identities, NEW s \in 0 .. clock
             PROVE  Allowance(i, s) >= 0
  BY DEF WindowBound
<1>1. clock \in Time /\ (i \in DOMAIN buckets => buckets[i].updated_at <= clock)
  BY DEF IInv, TypeOK, ReadingsInOrder
<1>2. Level(i, clock) \in 0 .. Capacity /\ Left(i, s, clock) >= Level(i, clock)
  BY <1>1, LevelBounds, LevelIsTightest DEF IInv
<1>3. Left(i, s, clock) \in Int
  BY <1>1, LeftTyped DEF IInv
<1>4. Allowance(i, s) = Left(i, s, clock)
  BY DEF Left, Allowance
<1>. QED  BY <1>2, <1>3, <1>4, LimiterAssumption

LEMMA InvNoNeedlessThrottle == ASSUME IInv PROVE NoNeedlessThrottle
<1> SUFFICES ASSUME NEW i \in Identities,
                    \A s \in 0 .. clock : Allowance(i, s) >= Cost
             PROVE  Level(i, clock) >= Cost
  BY DEF NoNeedlessThrottle
<1>1. clock \in Time /\ (i \in DOMAIN buckets => buckets[i].updated_at <= clock)
  BY DEF IInv, TypeOK, ReadingsInOrder
<1>2. PICK s \in 0 .. clock : Left(i, s, clock) = Level(i, clock)
  BY <1>1, LevelIsTightest
<1>. QED  BY <1>2 DEF Left, Allowance

LEMMA Inductive == ASSUME OneCaller PROVE IInv /\ [Next]_vars => IInv'
<1> SUFFICES ASSUME IInv, [Next]_vars PROVE IInv'
  OBVIOUS
<1>1. CASE \E t \in Threads, i \in Identities : ReadClock(t, i)
  BY <1>1, ReadClockInv
<1>2. CASE \E c \in pending : Grant(c)
  BY <1>2, GrantInv
<1>3. CASE \E c \in pending : Deny(c)
  BY <1>3, DenyInv
<1>4. CASE Tick
  BY <1>4, TickInv
<1>5. CASE UNCHANGED vars
  BY <1>5, StutterInv
<1>. QED  BY <1>1, <1>2, <1>3, <1>4, <1>5 DEF Next

LEMMA Invariance == ASSUME OneCaller PROVE Spec => []IInv
<1>1. IInv /\ [Next]_vars => IInv'
  BY Inductive
<1>. QED  BY <1>1, InitInv, PTL DEF Spec

-----------------------------------------------------------------------------
(***************************************************************************)
(* The hint: since its first refusal a waiting identity has not been       *)
(* charged, its bucket has never been full, and what it holds is what the  *)
(* refusal left plus the refill since.                                     *)
(***************************************************************************)
HintFits(h) ==
  /\ h.identity \in DOMAIN buckets
  /\ h.at <= buckets[h.identity].updated_at
  /\ buckets[h.identity].tokens + h.missing
       = Cost + RefillPerSecond * (buckets[h.identity].updated_at - h.at)

HintsFit == \A h \in hints : HintFits(h)

LEMMA GrantHints == ASSUME IInv, HintsFit, NEW c \in pending, Grant(c) PROVE HintsFit'
<1> SUFFICES ASSUME NEW h \in hints' PROVE HintFits(h)'
  BY DEF HintsFit
<1>1. h \in hints /\ h.identity # c.identity
  BY DEF Grant
<1>2. HintFits(h)
  BY <1>1 DEF HintsFit
<1>3. h.identity \in DOMAIN buckets' /\ buckets'[h.identity] = buckets[h.identity]
  BY <1>1, <1>2 DEF HintFits, Grant, SetBucket
<1>. QED  BY <1>2, <1>3 DEF HintFits

LEMMA DenyHints == ASSUME IInv, HintsFit, NEW c \in pending, Deny(c) PROVE HintsFit'
<1> USE LimiterAssumption
<1> DEFINE id == c.identity
           t  == c.now
           lv == Level(id, t)
<1>1. /\ id \in Identities /\ t \in Time
      /\ \A i \in DOMAIN buckets : buckets[i].updated_at <= t
  BY DEF IInv, TypeOK, Call, ReadingsInOrder
<1>2. lv \in 0 .. Capacity /\ lv < Cost
  BY <1>1, LevelAt DEF IInv, Deny, Enough
<1>3. /\ id \in DOMAIN buckets'
      /\ buckets'[id] = [tokens |-> lv, updated_at |-> t]
      /\ \A i \in DOMAIN buckets \ {id} : i \in DOMAIN buckets' /\ buckets'[i] = buckets[i]
  BY DEF Deny, SetBucket
<1> SUFFICES ASSUME NEW h \in hints' PROVE HintFits(h)'
  BY DEF HintsFit
<1>4. CASE h \in hints /\ h.identity # id
  <2>1. HintFits(h)
    BY <1>4 DEF HintsFit
  <2>. QED  BY <1>3, <1>4, <2>1 DEF HintFits
<1>5. CASE h \in hints /\ h.identity = id
  <2> DEFINE u == buckets[id].updated_at
             k == buckets[id].tokens
  <2>1. /\ id \in DOMAIN buckets /\ h.at <= u
        /\ k + h.missing = Cost + RefillPerSecond * (u - h.at)
    BY <1>5 DEF HintsFit, HintFits
  <2>2. /\ u \in Time /\ k \in Nat /\ u <= t
        /\ h.at \in Time /\ h.missing \in Nat
    BY <1>1, <1>5, <2>1 DEF IInv, TypeOK, Hint
  <2>3. lv = k + (t - u) * RefillPerSecond
    BY <1>1, <1>2, <2>1, LevelAt DEF IInv
  <2>4. /\ RefillPerSecond * (t - h.at) = RefillPerSecond * (u - h.at) + (t - u) * RefillPerSecond
        /\ RefillPerSecond * (u - h.at) \in Int /\ (t - u) * RefillPerSecond \in Int
    BY <1>1, <2>2, RefillSplits DEF Time
  <2>5. lv + h.missing = Cost + RefillPerSecond * (t - h.at) /\ h.at <= t
    <3> HIDE DEF u, k, lv
    <3>1. h.at <= t
      BY <1>1, <2>1, <2>2 DEF Time
    <3>. QED  BY <2>1, <2>2, <2>3, <2>4, <3>1
  <2>. QED  BY <1>3, <1>5, <2>5 DEF HintFits
<1>6. CASE h = [identity |-> id, at |-> t, missing |-> Cost - lv]
  <2>1. lv + (Cost - lv) = Cost + RefillPerSecond * (t - t) /\ t <= t
    BY <1>1, <1>2 DEF Time
  <2>. QED  BY <1>3, <1>6, <2>1 DEF HintFits
<1>. QED  BY <1>4, <1>5, <1>6 DEF Deny, FirstHint

LEMMA HintsInductive == ASSUME OneCaller PROVE IInv /\ HintsFit /\ [Next]_vars => HintsFit'
<1> SUFFICES ASSUME IInv, HintsFit, [Next]_vars PROVE HintsFit'
  OBVIOUS
<1>1. CASE \E c \in pending : Grant(c)
  BY <1>1, GrantHints
<1>2. CASE \E c \in pending : Deny(c)
  BY <1>2, DenyHints
<1>3. CASE UNCHANGED <<buckets, hints>>
  BY <1>3 DEF HintsFit, HintFits
<1>. QED  BY <1>1, <1>2, <1>3 DEF Next, ReadClock, Tick, vars

LEMMA InvRetryHintExact == ASSUME IInv, HintsFit PROVE RetryHintExact
<1> SUFFICES ASSUME NEW h \in hints
             PROVE  RefillPerSecond * (clock - h.at) >= h.missing
                      <=> Level(h.identity, clock) >= Cost
  BY DEF RetryHintExact
<1> USE LimiterAssumption
<1> DEFINE id == h.identity
           u == buckets[id].updated_at
           k == buckets[id].tokens
           refilled == k + (clock - u) * RefillPerSecond
<1>1. /\ id \in DOMAIN buckets /\ h.at <= u
      /\ k + h.missing = Cost + RefillPerSecond * (u - h.at)
  BY DEF HintsFit, HintFits
<1>2. /\ u \in Time /\ k \in Nat /\ u <= clock /\ clock \in Time
      /\ h.at \in Time /\ h.missing \in Nat /\ id \in Identities
  BY <1>1 DEF IInv, TypeOK, Hint, ReadingsInOrder
<1>3. /\ refilled \in Nat
      /\ refilled < Capacity => Level(id, clock) = refilled
      /\ refilled >= Capacity => Level(id, clock) = Capacity
  BY <1>1, <1>2, LevelAt DEF IInv
<1>4. /\ RefillPerSecond * (clock - h.at)
           = RefillPerSecond * (u - h.at) + (clock - u) * RefillPerSecond
      /\ RefillPerSecond * (u - h.at) \in Int /\ (clock - u) * RefillPerSecond \in Int
  BY <1>2, RefillSplits DEF Time
<1>5. Level(id, clock) >= Cost <=> refilled >= Cost
  BY <1>3
<1>6. refilled + h.missing = Cost + RefillPerSecond * (clock - h.at)
  <2> HIDE DEF u, k
  <2>. QED  BY <1>1, <1>2, <1>4
<1> HIDE DEF refilled
<1>. QED  BY <1>2, <1>3, <1>4, <1>5, <1>6

-----------------------------------------------------------------------------
(***************************************************************************)
(* The refinement of WindowQuota.  Calls are judged at the reading of the  *)
(* one caller that waits, so reading the clock and the clock's ticks move  *)
(* the quota's time at most, and the locked section is a grant or a        *)
(* refusal at that reading.                                                *)
(***************************************************************************)
LEMMA MomentIsReading ==
  ASSUME ReadingsInOrder, NEW c \in pending
  PROVE  Moment = c.now
<1>1. (CHOOSE d \in pending : TRUE) = c
  BY DEF ReadingsInOrder
<1>. QED  BY <1>1 DEF Moment

LEMMA MomentTyped == ASSUME IInv PROVE Moment \in Time /\ Moment <= clock
<1>1. CASE pending = {}
  BY <1>1, LimiterAssumption DEF Moment, IInv, TypeOK, Time
<1>2. CASE pending # {}
  <2>1. PICK c \in pending : TRUE
    BY <1>2
  <2>2. Moment = c.now
    BY MomentIsReading DEF IInv
  <2>. QED  BY <2>2 DEF IInv, TypeOK, Call, ReadingsInOrder
<1>. QED  BY <1>1, <1>2

\* The quota's time never goes back: a reading is the clock of its moment, and
\* when it has been dealt with the clock itself is the time again.
LEMMA MomentAdvances ==
  ASSUME OneCaller, IInv, [Next]_vars
  PROVE  Moment' \in Moment .. MaxTime
<1>1. IInv'
  BY Inductive
<1>2. Moment' \in Time
  <2>1. IInv' => (Moment \in Time)'
    BY MomentTyped, PTL
  <2>. QED  BY <1>1, <2>1 DEF Time
<1>3. Moment' >= Moment
  <2>1. CASE \E t \in Threads, i \in Identities : ReadClock(t, i)
    <3>1. PICK t \in Threads, i \in Identities : ReadClock(t, i)
      BY <2>1
    <3>2. pending = {}
      BY <3>1 DEF OneCaller, IInv, TypeOK, Call, ReadClock
    <3>3. pending' = {[thread |-> t, identity |-> i, now |-> clock]}
      BY <3>1, <3>2 DEF ReadClock
    <3>4. Moment = clock
      BY <3>2 DEF Moment
    <3>5. PICK c : c = [thread |-> t, identity |-> i, now |-> clock]
      OBVIOUS
    <3>6. pending' = {c} /\ c.now = clock
      BY <3>3, <3>5
    <3>7. (CHOOSE d \in pending' : TRUE) = c /\ pending' # {}
      BY <3>6
    <3>8. Moment' = clock
      BY <3>6, <3>7 DEF Moment
    <3>. QED  BY <3>4, <3>8, MomentTyped DEF Time
  <2>2. CASE \E c \in pending : Grant(c) \/ Deny(c)
    <3>1. PICK c \in pending : Grant(c) \/ Deny(c)
      BY <2>2
    <3>2. pending' = {} /\ clock' = clock
      BY <3>1 DEF Grant, Deny, IInv, ReadingsInOrder
    <3>3. Moment' = clock
      BY <3>2 DEF Moment
    <3>. QED  BY <3>3, MomentTyped, LimiterAssumption DEF IInv, TypeOK, Time
  <2>3. CASE Tick
    <3>1. pending' = pending /\ clock' = clock + 1
      BY <2>3 DEF Tick
    <3>2. Moment' = Moment \/ (Moment = clock /\ Moment' = clock + 1)
      BY <3>1 DEF Moment
    <3>. QED  BY <3>2, MomentTyped, LimiterAssumption DEF Time
  <2>4. CASE UNCHANGED vars
    <3>1. Moment' = Moment
      BY <2>4 DEF vars, Moment
    <3>. QED  BY <3>1, MomentTyped, LimiterAssumption DEF Time
  <2>. QED  BY <2>1, <2>2, <2>3, <2>4 DEF Next
<1>. QED  BY <1>2, <1>3, MomentTyped, LimiterAssumption DEF Time

LEMMA RoomIsLeft ==
  ASSUME NEW i, NEW s PROVE Quota!Room(i, s) = Left(i, s, Moment)
  BY DEF Quota!Room, Left

LEMMA GrantMaps ==
  ASSUME IInv, NEW c \in pending, Grant(c) PROVE Quota!Grant(c.identity)
<1>1. Moment = c.now
  BY MomentIsReading DEF IInv
<1>2. /\ c.identity \in Identities /\ c.now \in Time
      /\ c.identity \in DOMAIN buckets => buckets[c.identity].updated_at <= c.now
  BY DEF IInv, TypeOK, Call, ReadingsInOrder
<1>3. \A s \in 0 .. Moment : Quota!Room(c.identity, s) >= Cost
  <2> SUFFICES ASSUME NEW s \in 0 .. c.now PROVE Left(c.identity, s, c.now) >= Cost
    BY <1>1, RoomIsLeft
  <2>1. Left(c.identity, s, c.now) >= Level(c.identity, c.now)
    BY <1>2, LevelIsTightest
  <2>2. Level(c.identity, c.now) >= Cost
    BY DEF Grant, Enough
  <2>3. Level(c.identity, c.now) \in Int /\ Left(c.identity, s, c.now) \in Int
    BY <1>2, LevelBounds, LeftTyped, LimiterAssumption DEF IInv
  <2>. QED  BY <2>1, <2>2, <2>3, LimiterAssumption
<1>4. spent' = [spent EXCEPT ![c.identity] =
                  [s \in Quota!Time |-> IF s <= Moment THEN @[s] + Cost ELSE @[s]]]
  BY <1>1 DEF Grant, Quota!Time, Time
<1>5. hints' = {h \in hints : h.identity # c.identity}
  BY DEF Grant
<1>. QED  BY <1>3, <1>4, <1>5 DEF Quota!Grant

LEMMA DenyMaps ==
  ASSUME IInv, NEW c \in pending, Deny(c) PROVE Quota!Refuse(c.identity)
<1> DEFINE i == c.identity
           t == c.now
<1>1. Moment = t
  BY MomentIsReading DEF IInv
<1>2. /\ i \in Identities /\ t \in Time
      /\ i \in DOMAIN buckets => buckets[i].updated_at <= t
  BY DEF IInv, TypeOK, Call, ReadingsInOrder
<1>3. PICK s \in 0 .. t : Left(i, s, t) = Level(i, t)
  BY <1>2, LevelIsTightest
<1>4. \A r \in 0 .. t : Left(i, r, t) >= Left(i, s, t)
  BY <1>2, <1>3, LevelIsTightest
<1>5. Left(i, s, t) < Cost
  BY <1>2, <1>3, LevelBounds, LimiterAssumption DEF Deny, Enough, IInv
<1>6. hints' = IF \E h \in hints : h.identity = i
               THEN hints
               ELSE hints \cup {[identity |-> i, at |-> t, missing |-> Cost - Left(i, s, t)]}
  BY <1>3 DEF Deny, FirstHint
<1>7. UNCHANGED spent
  BY DEF Deny
<1> HIDE DEF t
<1>. QED  BY <1>1, <1>4, <1>5, <1>6, <1>7, RoomIsLeft DEF Quota!Refuse

LEMMA StepMaps ==
  ASSUME OneCaller, IInv, [Next]_vars PROVE [Quota!Next]_(Quota!vars)
<1>1. Moment' \in Moment .. MaxTime
  BY MomentAdvances
<1>2. CASE \E c \in pending : Grant(c)
  <2>1. PICK c \in pending : Grant(c)
    BY <1>2
  <2>2. c.identity \in Identities
    BY DEF IInv, TypeOK, Call
  <2>. QED  BY <1>1, <2>1, <2>2, GrantMaps DEF Quota!Next
<1>3. CASE \E c \in pending : Deny(c)
  <2>1. PICK c \in pending : Deny(c)
    BY <1>3
  <2>2. c.identity \in Identities
    BY DEF IInv, TypeOK, Call
  <2>. QED  BY <1>1, <2>1, <2>2, DenyMaps DEF Quota!Next
<1>4. CASE UNCHANGED <<spent, hints>>
  BY <1>1, <1>4 DEF Quota!Next
<1>. QED  BY <1>2, <1>3, <1>4 DEF Next, ReadClock, Tick, vars

\* However many threads call the limiter, every bucket stays between empty and
\* full, whatever the capacity, cost and refill rate (rate_limit.py:32-43).
THEOREM TypeCorrect == Spec => []TypeOK
<1>1. Init => TypeOK
  BY InitInv DEF IInv
<1>. QED  BY <1>1, TypeInductive, PTL DEF Spec

\* With one caller no window of time sees an identity granted more than a full
\* bucket plus the window's refill.
THEOREM WindowContract == ASSUME OneCaller PROVE Spec => []WindowBound
<1>1. IInv => WindowBound
  BY InvWindowBound
<1>. QED  BY <1>1, Invariance, PTL

\* With one caller an identity that every window leaves enough is not refused.
THEOREM ThrottleOnlyWhenDue == ASSUME OneCaller PROVE Spec => []NoNeedlessThrottle
<1>1. IInv => NoNeedlessThrottle
  BY InvNoNeedlessThrottle
<1>. QED  BY <1>1, Invariance, PTL

\* With one caller retry_after is exact: a refused identity that waits it out
\* is covered, and one that comes any earlier is not (rate_limit.py:40).
THEOREM HintContract == ASSUME OneCaller PROVE Spec => []RetryHintExact
<1>1. Init => HintsFit
  BY DEF Init, HintsFit
<1>2. IInv /\ HintsFit => RetryHintExact
  BY InvRetryHintExact
<1>3. IInv /\ HintsFit /\ [Next]_vars => HintsFit'
  BY HintsInductive
<1>. QED  BY <1>1, <1>2, <1>3, Invariance, PTL DEF Spec

\* With one caller the bucket, for all its refills and its cap, computes the
\* quota of every window: a call is granted exactly when each open window has
\* room for it, and what a refusal says is missing is what the tightest lacks.
THEOREM QuotaKept == ASSUME OneCaller PROVE Spec => KeepsQuota
<1>1. Init => Quota!Init
  BY DEF Init, Quota!Init, Moment, Time, Quota!Time
<1>2. IInv /\ [Next]_vars => [Quota!Next]_(Quota!vars)
  BY StepMaps
<1>. QED  BY <1>1, <1>2, Invariance, PTL DEF Spec, KeepsQuota, Quota!Spec

=============================================================================
