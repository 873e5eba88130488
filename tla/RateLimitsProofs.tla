--------------------------- MODULE RateLimitsProofs ---------------------------
(***************************************************************************)
(* The limits of RateLimits, for any number of requests, any limits, minutes  *)
(* and days of any length, and any faults.                                   *)
(***************************************************************************)
EXTENDS RateLimits, FiniteSetTheorems, TLAPS

(* Requests that INCR has let through the minute they came in, and that may still *)
(* be admitted; requests that have passed the check of the daily tokens.         *)
Waiting(m) == {r \in Requests : request[r].pc \in {"expireMinute", "tokens", "cost"} /\ request[r].window = m}
Committed == {r \in Requests : request[r].pc \in {"cost", "call"}}

(* The counter of the current minute has counted what is let through, and does not *)
(* expire before the minute is over; those of later minutes are not there yet.    *)
MinuteCounted(m) ==
    /\ m >= Minute => admitted[m] + Cardinality(Waiting(m)) <= Value(<<"rl", m>>)
    /\ m = Minute => \/ counter[<<"rl", m>>].ttl \in {NoTtl, 0}
                     \/ counter[<<"rl", m>>].ttl >= MinuteLength - (now % MinuteLength)
    /\ m > Minute => counter[<<"rl", m>>] = Absent

MinuteWithin(m) == admitted[m] + Cardinality(Waiting(m)) <= RpmLimit

MinuteInv ==
    RpmLimit > 0 =>
        /\ \A r \in Requests : request[r].window <= Minute
        /\ \A m \in Minutes : MinuteCounted(m) /\ MinuteWithin(m)

(* Before the last second of the day the counter of its tokens is what was used, *)
(* and is not about to expire.                                                  *)
LastSecond == now % DayLength = DayLength - 1
Lasts(ttl) == ttl >= DayLength - 1 - (now % DayLength)

DayCounted ==
    ~ LastSecond =>
        /\ Value(<<"tk", Today>>) = used[Today]
        /\ counter[<<"tk", Today>>].ttl \in {NoTtl, 0} \/ Lasts(counter[<<"tk", Today>>].ttl)

DaysToCome == \A d \in Days : d > Today => counter[<<"tk", d>>] = Absent /\ used[d] = 0

ExpiriesToCome ==
    \A r \in Requests :
        request[r].pc = "expireTokens" =>
            request[r].day <= Today /\ (request[r].day = Today => Lasts(request[r].ttl))

DayWithin ==
    TokenLimit > 0 /\ ~ LastSecond =>
        used[Today] + MaxTokens * Cardinality(Committed)
            <= TokenLimit - 1 + MaxTokens * Cardinality(Requests)

DayInv == DayCounted /\ DaysToCome /\ ExpiriesToCome /\ DayWithin

IInv == TypeOK /\ MinuteInv /\ DayInv

-----------------------------------------------------------------------------
(* Arithmetic of the clock. *)

LEMMA Division ==
    ASSUME NEW t \in Nat, NEW n \in Nat \ {0}
    PROVE  /\ t \div n \in Nat /\ t % n \in 0..(n - 1)
           /\ t = n * (t \div n) + (t % n)
OBVIOUS

LEMMA Quotient ==
    ASSUME NEW n \in Nat \ {0}, NEW q \in Nat, NEW r \in 0..(n - 1)
    PROVE  (n * q + r) \div n = q /\ (n * q + r) % n = r
OBVIOUS

LEMMA NextSecond ==
    ASSUME NEW t \in Nat, NEW n \in Nat \ {0}
    PROVE  \/ (t + 1) \div n = t \div n /\ (t + 1) % n = (t % n) + 1
           \/ (t + 1) \div n = (t \div n) + 1 /\ (t + 1) % n = 0 /\ t % n = n - 1
<1> DEFINE q == t \div n
           r == t % n
<1>1. q \in Nat /\ r \in 0..(n - 1) /\ t = n * q + r
    BY Division
<1> HIDE DEF q, r
<1>2. CASE r < n - 1
  <2>1. t + 1 = n * q + (r + 1) /\ r + 1 \in 0..(n - 1)
      BY <1>1, <1>2
  <2>2. (t + 1) \div n = q /\ (t + 1) % n = r + 1
      BY <1>1, <2>1, Quotient
  <2> QED
      BY <2>2 DEF q, r
<1>3. CASE r = n - 1
  <2>1. t + 1 = n * (q + 1) + 0
      BY <1>1, <1>3
  <2>2. (t + 1) \div n = q + 1 /\ (t + 1) % n = 0
      BY <1>1, <2>1, Quotient
  <2> QED
      BY <1>3, <2>2 DEF q, r
<1> QED
    BY <1>1, <1>2, <1>3

LEMMA QuotientsGrow ==
    ASSUME NEW s \in Nat, NEW t \in Nat, s <= t, NEW n \in Nat \ {0}
    PROVE  s \div n <= t \div n
OBVIOUS

LEMMA Products ==
    ASSUME NEW n \in Nat, NEW a \in Nat, NEW b \in Nat
    PROVE  /\ n * a \in Nat /\ n * 0 = 0
           /\ a <= b => n * a <= n * b
           /\ a + 1 <= b => n * a + n <= n * b
<1>1. n * a \in Nat /\ n * 0 = 0
    OBVIOUS
<1>2. ASSUME NEW k \in Nat, a + k = b PROVE n * b = n * a + n * k /\ n * k \in Nat
    BY <1>2
<1>3. ASSUME a <= b PROVE n * a <= n * b
  <2>1. b - a \in Nat /\ a + (b - a) = b
      BY <1>3
  <2> QED
      BY <1>1, <1>2, <2>1
<1>4. ASSUME a + 1 <= b PROVE n * a + n <= n * b
  <2>1. b - a - 1 \in Nat /\ b = a + 1 + (b - a - 1)
      BY <1>4
  <2>2. \A k \in Nat : n * (a + 1 + k) = n * a + n + n * k /\ n * k \in Nat /\ n * a \in Nat
      OBVIOUS
  <2>3. n * b = n * a + n + n * (b - a - 1) /\ n * (b - a - 1) \in Nat /\ n * a \in Nat
      BY <2>1, <2>2
  <2> QED
      BY <2>3
<1> QED
    BY <1>1, <1>3, <1>4

(* What the clock shows in a second and in the next. *)
LEMMA ClockTypes ==
    ASSUME now \in 0..MaxTime
    PROVE  /\ Minute \in Minutes /\ Today \in Days
           /\ Minutes \subseteq Nat /\ Days \subseteq Nat
           /\ now % MinuteLength \in 0..(MinuteLength - 1)
           /\ now % DayLength \in 0..(DayLength - 1)
<1> USE RateLimitsAssumption
<1>1. /\ now \in Nat /\ MaxTime \in Nat /\ now <= MaxTime
      /\ MinuteLength \in Nat \ {0} /\ DayLength \in Nat \ {0}
    OBVIOUS
<1>2. now \div MinuteLength <= MaxTime \div MinuteLength /\ now \div DayLength <= MaxTime \div DayLength
    BY <1>1, QuotientsGrow
<1>3. /\ now \div MinuteLength \in Nat /\ MaxTime \div MinuteLength \in Nat
      /\ now \div DayLength \in Nat /\ MaxTime \div DayLength \in Nat
      /\ now % MinuteLength \in 0..(MinuteLength - 1) /\ now % DayLength \in 0..(DayLength - 1)
    BY <1>1, Division
<1> QED
    BY <1>2, <1>3 DEF Minute, Today, Minutes, Days

LEMMA Seconds ==
    ASSUME now \in 0..MaxTime, now' = now + 1
    PROVE  /\ \/ Minute' = Minute /\ now' % MinuteLength = (now % MinuteLength) + 1
              \/ Minute' = Minute + 1 /\ now' % MinuteLength = 0
           /\ \/ Today' = Today /\ now' % DayLength = (now % DayLength) + 1
              \/ Today' = Today + 1 /\ now' % DayLength = 0 /\ LastSecond
<1>1. now \in Nat /\ MinuteLength \in Nat \ {0} /\ DayLength \in Nat \ {0}
    BY RateLimitsAssumption
<1>2. \/ (now + 1) \div MinuteLength = now \div MinuteLength /\ (now + 1) % MinuteLength = (now % MinuteLength) + 1
      \/ (now + 1) \div MinuteLength = (now \div MinuteLength) + 1 /\ (now + 1) % MinuteLength = 0
    BY <1>1, NextSecond
<1>3. \/ (now + 1) \div DayLength = now \div DayLength /\ (now + 1) % DayLength = (now % DayLength) + 1
      \/ /\ (now + 1) \div DayLength = (now \div DayLength) + 1 /\ (now + 1) % DayLength = 0
         /\ now % DayLength = DayLength - 1
    BY <1>1, NextSecond
<1> QED
    BY <1>2, <1>3 DEF Minute, Today, LastSecond

(* A minute is no longer than a day. *)
LEMMA MinutesFitDays == MinuteLength <= DayLength
<1>1. SUFFICES ASSUME DayLength < MinuteLength PROVE FALSE
    BY RateLimitsAssumption
<1>2. DayLength = MinuteLength * 0 + DayLength /\ DayLength \in 0..(MinuteLength - 1)
    BY <1>1, RateLimitsAssumption
<1>3. DayLength % MinuteLength = DayLength
    BY <1>1, <1>2, Quotient, RateLimitsAssumption
<1> QED
    BY <1>3, RateLimitsAssumption

-----------------------------------------------------------------------------
(* Sets of requests of which one changes. *)

LEMMA Sizes ==
    ASSUME NEW S \in SUBSET Requests
    PROVE  /\ IsFiniteSet(S) /\ Cardinality(S) \in Nat
           /\ Cardinality(S) <= Cardinality(Requests) /\ Cardinality(Requests) \in Nat
BY FS_Subset, FS_CardinalityType, RateLimitsAssumption

LEMMA OneChanges ==
    ASSUME NEW S \in SUBSET Requests, NEW T \in SUBSET Requests, NEW r \in Requests,
           T \ {r} \subseteq S
    PROVE  /\ Cardinality(T) <= Cardinality(S) + 1
           /\ r \notin T => Cardinality(T) <= Cardinality(S)
           /\ r \notin T /\ r \in S => Cardinality(T) <= Cardinality(S) - 1
<1>1. IsFiniteSet(S) /\ IsFiniteSet(T) /\ Cardinality(S) \in Nat /\ Cardinality(T) \in Nat
    BY Sizes
<1>2. /\ IsFiniteSet(S \cup {r}) /\ Cardinality(S \cup {r}) \in Nat
      /\ Cardinality(S \cup {r}) <= Cardinality(S) + 1
  <2>1. IsFiniteSet(S \cup {r})
      BY <1>1, FS_AddElement
  <2>2. Cardinality(S \cup {r}) = IF r \in S THEN Cardinality(S) ELSE Cardinality(S) + 1
      BY <1>1, FS_AddElement
  <2> QED
      BY <1>1, <2>1, <2>2
<1>3. /\ IsFiniteSet(S \ {r}) /\ Cardinality(S \ {r}) \in Nat
      /\ r \in S => Cardinality(S \ {r}) = Cardinality(S) - 1
    BY <1>1, FS_RemoveElement, FS_CardinalityType
<1>4. T \subseteq S \cup {r} /\ Cardinality(T) <= Cardinality(S \cup {r})
    BY <1>2, FS_Subset
<1>5. r \notin T => Cardinality(T) <= Cardinality(S)
    BY <1>1, FS_Subset
<1>6. r \notin T => Cardinality(T) <= Cardinality(S \ {r})
  <2>1. SUFFICES ASSUME r \notin T PROVE T \in SUBSET (S \ {r})
      BY <1>3, FS_Subset
  <2> QED
      BY <2>1
<1> QED
    BY <1>1, <1>2, <1>3, <1>4, <1>5, <1>6

-----------------------------------------------------------------------------
(* Types. *)

Counter == [value : Nat, ttl : 0..DayLength \cup {NoTtl}]

LEMMA NamesBuilt ==
    /\ \A m \in Minutes : <<"rl", m>> \in Names
    /\ \A d \in Days : <<"tk", d>> \in Names /\ <<"cs", d>> \in Names
BY DEF Names

LEMMA ZeroTypes == 0 \in Minutes /\ 0 \in Days /\ Idle \in Request /\ Absent \in Counter
<1>1. 0 \in Minutes /\ 0 \in Days
  <2>1. MaxTime \in Nat /\ MinuteLength \in Nat \ {0} /\ DayLength \in Nat \ {0}
      BY RateLimitsAssumption
  <2>2. MaxTime \div MinuteLength \in Nat /\ MaxTime \div DayLength \in Nat
      BY <2>1, Division
  <2> QED
      BY <2>2 DEF Minutes, Days
<1> QED
    BY <1>1, RateLimitsAssumption DEF Idle, Request, Points, Absent, Counter

LEMMA CountersTyped ==
    ASSUME counter \in [Names -> Counter], NEW name \in Names
    PROVE  /\ \A by \in Nat : Raise(name, by) => counter' \in [Names -> Counter]
           /\ \A time \in 0..DayLength : ExpireIn(name, time) => counter' \in [Names -> Counter]
<1>1. counter[name] \in Counter /\ Absent \in Counter
    BY ZeroTypes
<1>2. ASSUME NEW by \in Nat, Raise(name, by)
      PROVE  counter' \in [Names -> Counter]
  <2>1. [value |-> counter[name].value + by,
         ttl |-> IF counter[name] = Absent THEN NoTtl ELSE counter[name].ttl] \in Counter
      BY <1>1 DEF Counter
  <2> QED
      BY <1>2, <2>1 DEF Raise
<1>3. ASSUME NEW time \in 0..DayLength, ExpireIn(name, time)
      PROVE  counter' \in [Names -> Counter]
  <2>1. [counter[name] EXCEPT !.ttl = time] \in Counter
      BY <1>1 DEF Counter
  <2> QED
      BY <1>1, <1>3, <2>1 DEF ExpireIn
<1> QED
    BY <1>2, <1>3

LEMMA InitTypes == Init => TypeOK
BY ZeroTypes, RateLimitsAssumption DEF Init, TypeOK, Counter

LEMMA NextTypes == TypeOK /\ [Next]_vars => TypeOK'
<1> SUFFICES ASSUME TypeOK, [Next]_vars PROVE TypeOK'
    OBVIOUS
<1> USE RateLimitsAssumption
<1>1. /\ Minute \in Minutes /\ Today \in Days /\ Idle \in Request
      /\ counter \in [Names -> Counter] /\ request \in [Requests -> Request]
    BY ClockTypes, ZeroTypes DEF TypeOK, Counter
<1>2. ASSUME NEW r \in Requests, Arrive(r) PROVE TypeOK'
  <2>1. <<"rl", Minute>> \in Names
      BY <1>1, NamesBuilt
  <2>2. counter' \in [Names -> Counter]
    <3>1. 1 \in Nat
        OBVIOUS
    <3>2. UNCHANGED counter \/ Raise(<<"rl", Minute>>, 1)
        BY <1>2 DEF Arrive
    <3> QED
        BY <1>1, <2>1, <3>1, <3>2, CountersTyped
  <2>3. request' \in [Requests -> Request]
    <3>1. [Idle EXCEPT !.pc = "tokens", !.window = Minute] \in Request
        BY <1>1 DEF Idle, Request, Points
    <3>2. ASSUME NEW p \in {"expireMinute", "tokens"}, NEW c \in Nat
          PROVE  [Idle EXCEPT !.pc = p, !.window = Minute, !.count = c] \in Request
        BY <1>1 DEF Idle, Request, Points
    <3>3. Value(<<"rl", Minute>>) + 1 \in Nat
        BY <1>1, <2>1 DEF Value, Counter
    <3>4. \E q \in Request : request' = [request EXCEPT ![r] = q]
        BY <1>1, <1>2, <3>1, <3>2, <3>3 DEF Arrive
    <3> QED
        BY <1>1, <3>4
  <2>4. arrivals' \in 0..MaxArrivals /\ UNCHANGED <<now, admitted, used>>
      BY <1>2 DEF Arrive, TypeOK
  <2> QED
      BY <2>2, <2>3, <2>4 DEF TypeOK, Counter
<1>3. ASSUME NEW r \in Requests, NEW p \in Points, NEW q \in Request,
             Ends(r) \/ Goto(r, p) \/ request' = [request EXCEPT ![r] = q]
      PROVE  request' \in [Requests -> Request]
  <2>1. [request[r] EXCEPT !.pc = p] \in Request
      BY <1>1 DEF Request
  <2> QED
      BY <1>1, <1>3, <2>1 DEF Ends, Goto
<1>4. ASSUME NEW r \in Requests, ExpireMinute(r) PROVE TypeOK'
  <2>1. request[r].window \in Minutes /\ "tokens" \in Points
      BY <1>1 DEF Request, Points
  <2>2. counter' \in [Names -> Counter]
      BY <1>1, <1>4, <2>1, NamesBuilt, CountersTyped, MinutesFitDays DEF ExpireMinute
  <2>3. request' \in [Requests -> Request]
      BY <1>1, <1>3, <1>4, <2>1 DEF ExpireMinute
  <2> QED
      BY <1>4, <2>2, <2>3 DEF ExpireMinute, TypeOK, Counter
<1>5. ASSUME NEW r \in Requests, CheckTokens(r) \/ CheckCost(r) \/ NothingUsed(r) \/ RedisFails(r)
      PROVE  TypeOK'
  <2>1. "cost" \in Points /\ [Idle EXCEPT !.pc = "call"] \in Request
      BY <1>1 DEF Idle, Request, Points
  <2>2. request' \in [Requests -> Request]
      BY <1>1, <1>3, <1>5, <2>1 DEF CheckTokens, CheckCost, NothingUsed, RedisFails
  <2>3. admitted' \in [Minutes -> Nat]
      BY <1>5 DEF CheckTokens, CheckCost, NothingUsed, RedisFails, TypeOK
  <2> QED
      BY <1>5, <2>2, <2>3 DEF CheckTokens, CheckCost, NothingUsed, RedisFails, TypeOK
<1>6. ASSUME NEW r \in Requests, CountTokens(r) PROVE TypeOK'
  <2>1. PICK u \in Usages, t \in SecondsUntilMidnight :
            /\ Raise(<<"tk", Today>>, u.tokens)
            /\ used' = [used EXCEPT ![Today] = @ + u.tokens]
            /\ request' = [request EXCEPT ![r] =
                   [Idle EXCEPT !.pc = "expireTokens", !.cost = u.cost, !.ttl = t, !.day = Today]]
      BY <1>6 DEF CountTokens
  <2>2. u.tokens \in Nat /\ u.cost \in Nat /\ t \in 0..DayLength
      BY ClockTypes DEF TypeOK, SecondsUntilMidnight
  <2>3. [Idle EXCEPT !.pc = "expireTokens", !.cost = u.cost, !.ttl = t, !.day = Today] \in Request
      BY <1>1, <2>2 DEF Idle, Request, Points
  <2>4. request' \in [Requests -> Request] /\ counter' \in [Names -> Counter]
      BY <1>1, <2>1, <2>2, <2>3, NamesBuilt, CountersTyped
  <2>5. used' \in [Days -> Nat]
      BY <1>1, <2>1, <2>2 DEF TypeOK
  <2> QED
      BY <1>6, <2>4, <2>5 DEF CountTokens, TypeOK, Counter
<1>7. ASSUME NEW r \in Requests, ExpireTokens(r) \/ ExpireCost(r) PROVE TypeOK'
  <2>1. request[r].day \in Days /\ request[r].ttl \in 0..DayLength /\ "addCost" \in Points
      BY <1>1 DEF Request, Points
  <2>2. counter' \in [Names -> Counter]
      BY <1>1, <1>7, <2>1, NamesBuilt, CountersTyped DEF ExpireTokens, ExpireCost
  <2>3. request' \in [Requests -> Request]
      BY <1>1, <1>3, <1>7, <2>1 DEF ExpireTokens, ExpireCost
  <2> QED
      BY <1>7, <2>2, <2>3 DEF ExpireTokens, ExpireCost, TypeOK, Counter
<1>8. ASSUME NEW r \in Requests, CountCost(r) PROVE TypeOK'
  <2>1. request[r].cost \in Nat
      BY <1>1 DEF Request
  <2>2. counter' \in [Names -> Counter]
      BY <1>1, <1>8, <2>1, NamesBuilt, CountersTyped DEF CountCost
  <2>3. [request[r] EXCEPT !.pc = "expireCost", !.day = Today] \in Request
      BY <1>1 DEF Request, Points
  <2>4. request' = [request EXCEPT ![r] = [request[r] EXCEPT !.pc = "expireCost", !.day = Today]]
      BY <1>1, <1>8 DEF CountCost, Request
  <2>5. request' \in [Requests -> Request]
      BY <1>1, <2>3, <2>4
  <2> QED
      BY <1>8, <2>2, <2>5 DEF CountCost, TypeOK, Counter
<1>9. CASE Crash
    BY <1>1, <1>9 DEF Crash, TypeOK
<1>10. CASE Tick
  <2>1. ASSUME NEW n \in Names
        PROVE  (IF counter[n].ttl = 1 THEN Absent
                ELSE IF counter[n].ttl > 1 THEN [counter[n] EXCEPT !.ttl = @ - 1] ELSE counter[n]) \in Counter
    <3>1. counter[n] \in Counter /\ Absent \in Counter
        BY <1>1, ZeroTypes
    <3> QED
        BY <3>1 DEF Counter, NoTtl
  <2>2. counter' \in [Names -> Counter]
      BY <1>10, <2>1 DEF Tick
  <2> QED
      BY <1>10, <2>2 DEF Tick, TypeOK, Counter
<1>11. CASE UNCHANGED vars
    BY <1>11 DEF vars, TypeOK
<1> QED
    BY <1>2, <1>4, <1>5, <1>6, <1>7, <1>8, <1>9, <1>10, <1>11 DEF Next

(* What a command does to the counter it names, and that it touches no other. *)
LEMMA CounterEffects ==
    ASSUME counter \in [Names -> Counter], NEW name \in Names
    PROVE  /\ \A by \in Nat : Raise(name, by) =>
                  /\ Value(name)' = Value(name) + by
                  /\ counter'[name].ttl = (IF counter[name] = Absent THEN NoTtl ELSE counter[name].ttl)
                  /\ \A n \in Names : n # name => counter'[n] = counter[n]
           /\ \A time \in 0..DayLength : ExpireIn(name, time) =>
                  /\ counter'[name] = (IF counter[name] = Absent \/ time = 0
                                       THEN Absent ELSE [counter[name] EXCEPT !.ttl = time])
                  /\ \A n \in Names : n # name => counter'[n] = counter[n]
BY DEF Raise, ExpireIn, Value, Counter

LEMMA InitIInv == Init => IInv
<1> SUFFICES ASSUME Init PROVE IInv
    OBVIOUS
<1> USE RateLimitsAssumption
<1>1. TypeOK
    BY InitTypes
<1>2. /\ Minute \in Minutes /\ Today \in Days /\ Minutes \subseteq Nat /\ Days \subseteq Nat
      /\ now % MinuteLength \in 0..(MinuteLength - 1) /\ now % DayLength \in 0..(DayLength - 1)
    BY <1>1, ClockTypes DEF TypeOK
<1>3. \A r \in Requests : request[r] = Idle
    BY DEF Init
<1>4. \A n \in Names : counter[n] = Absent
    BY DEF Init
<1>5. Committed = {} /\ \A m \in Minutes : Waiting(m) = {}
    BY <1>3 DEF Committed, Waiting, Idle
<1>6. Cardinality({}) = 0 /\ Cardinality(Requests) \in Nat
    BY FS_EmptySet, FS_CardinalityType
<1>7. MinuteInv
  <2>1. \A r \in Requests : request[r].window <= Minute
      BY <1>2, <1>3 DEF Idle
  <2>2. ASSUME NEW m \in Minutes, RpmLimit > 0 PROVE MinuteCounted(m) /\ MinuteWithin(m)
    <3>1. counter[<<"rl", m>>] = Absent /\ admitted[m] = 0 /\ Cardinality(Waiting(m)) = 0
        BY <1>4, <1>5, <1>6, NamesBuilt DEF Init
    <3> QED
        BY <3>1 DEF MinuteCounted, MinuteWithin, Value, Absent
  <2> QED
      BY <2>1, <2>2 DEF MinuteInv
<1>8. DayInv
  <2>1. \A d \in Days : counter[<<"tk", d>>] = Absent /\ used[d] = 0
      BY <1>4, NamesBuilt DEF Init
  <2>2. DayCounted /\ DaysToCome
      BY <1>2, <2>1 DEF DayCounted, DaysToCome, Value, Absent
  <2>3. ExpiriesToCome
      BY <1>3 DEF ExpiriesToCome, Idle
  <2>4. DayWithin
    <3>1. used[Today] = 0 /\ Cardinality(Committed) = 0
        BY <1>2, <1>5, <1>6, <2>1
    <3>2. MaxTokens * Cardinality(Committed) = 0 /\ MaxTokens * Cardinality(Requests) \in Nat
        BY <1>6, <3>1, Products
    <3> QED
        BY <3>1, <3>2 DEF DayWithin
  <2> QED
      BY <2>2, <2>3, <2>4 DEF DayInv
<1> QED
    BY <1>1, <1>7, <1>8 DEF IInv

-----------------------------------------------------------------------------
(* Requests per minute. *)

WaitingPoints == {"expireMinute", "tokens", "cost"}

(* A step that counts no request and lets none through. *)
LEMMA MinutesKept ==
    ASSUME TypeOK, TypeOK', MinuteInv, UNCHANGED <<now, admitted>>,
           \A m \in Minutes : counter'[<<"rl", m>>] = counter[<<"rl", m>>],
           \A r \in Requests :
              \/ request'[r].pc \notin WaitingPoints /\ request'[r].window \in {0, request[r].window}
              \/ /\ request[r].pc \in WaitingPoints
                 /\ request'[r].pc \in WaitingPoints /\ request'[r].window = request[r].window
    PROVE  MinuteInv'
<1> SUFFICES ASSUME RpmLimit > 0 PROVE MinuteInv'
    BY DEF MinuteInv
<1>1. Minute \in Nat /\ Minutes \subseteq Nat /\ Minute' = Minute /\ now' = now
    BY ClockTypes DEF TypeOK, Minute
<1>2. \A r \in Requests : request'[r].window <= Minute'
    BY <1>1 DEF MinuteInv
<1>3. ASSUME NEW m \in Minutes PROVE MinuteCounted(m)' /\ MinuteWithin(m)'
  <2>1. Waiting(m) \in SUBSET Requests /\ Waiting(m)' \in SUBSET Waiting(m)
      BY DEF Waiting, WaitingPoints
  <2>2. /\ Cardinality(Waiting(m)) \in Nat /\ Cardinality(Waiting(m)') \in Nat
        /\ Cardinality(Waiting(m)') <= Cardinality(Waiting(m))
      BY <2>1, Sizes, FS_Subset
  <2>3. /\ admitted' = admitted /\ admitted[m] \in Nat
        /\ counter'[<<"rl", m>>] = counter[<<"rl", m>>] /\ Value(<<"rl", m>>) \in Nat
      BY NamesBuilt DEF TypeOK, Value
  <2>4. MinuteCounted(m) /\ MinuteWithin(m)
      BY DEF MinuteInv
  <2> QED
      BY <1>1, <2>2, <2>3, <2>4, RateLimitsAssumption DEF MinuteCounted, MinuteWithin, Value
<1> QED
    BY <1>2, <1>3 DEF MinuteInv

(* INCR: what has been let through this minute, and this request, are counted. *)
LEMMA ArriveMinutes ==
    ASSUME TypeOK, TypeOK', MinuteInv, NEW r \in Requests, Arrive(r)
    PROVE  MinuteInv'
<1> SUFFICES ASSUME RpmLimit > 0 PROVE MinuteInv'
    BY DEF MinuteInv
<1> DEFINE c == Value(<<"rl", Minute>>) + 1
<1>1. /\ Minute \in Minutes /\ Minutes \subseteq Nat /\ Minute' = Minute /\ now' = now /\ admitted' = admitted
      /\ now % MinuteLength \in 0..(MinuteLength - 1) /\ RpmLimit \in Nat /\ MinuteLength \in Nat
    BY ClockTypes, RateLimitsAssumption DEF TypeOK, Minute, Arrive
<1>2. counter \in [Names -> Counter] /\ <<"rl", Minute>> \in Names /\ Raise(<<"rl", Minute>>, 1)
    BY <1>1, NamesBuilt DEF TypeOK, Counter, Arrive
<1>3. /\ Value(<<"rl", Minute>>)' = c /\ c \in Nat \ {0} /\ Value(<<"rl", Minute>>) \in Nat
      /\ counter'[<<"rl", Minute>>].ttl = (IF counter[<<"rl", Minute>>] = Absent THEN NoTtl
                                            ELSE counter[<<"rl", Minute>>].ttl)
      /\ \A n \in Names : n # <<"rl", Minute>> => counter'[n] = counter[n]
  <2>1. 1 \in Nat /\ Value(<<"rl", Minute>>) \in Nat
      BY <1>2 DEF Value, Counter
  <2> QED
      BY <1>1, <1>2, <2>1, CounterEffects
<1>4. /\ request[r].pc = "idle" /\ \A q \in Requests \ {r} : request'[q] = request[q]
      /\ \/ request'[r] = Idle
         \/ /\ request'[r].pc \in WaitingPoints /\ request'[r].window = Minute
            /\ c <= RpmLimit
  <2>1. request'[r] = (IF c > 1 /\ OverRpm(c) THEN Idle
                       ELSE [Idle EXCEPT !.pc = IF c = 1 THEN "expireMinute" ELSE "tokens",
                                         !.window = Minute, !.count = c])
      BY DEF Arrive, TypeOK
  <2>2. (c > 1 /\ OverRpm(c)) \/ c <= RpmLimit
      BY <1>1, <1>3 DEF OverRpm
  <2>3. ASSUME ~ (c > 1 /\ OverRpm(c))
        PROVE  request'[r].pc \in WaitingPoints /\ request'[r].window = Minute
    <3>1. PICK p \in {"expireMinute", "tokens"}, k \in Nat :
              request'[r] = [Idle EXCEPT !.pc = p, !.window = Minute, !.count = k]
        BY <1>3, <2>1, <2>3
    <3> QED
        BY <3>1 DEF Idle, WaitingPoints
  <2> QED
      BY <2>1, <2>2, <2>3 DEF Arrive, At, TypeOK
<1> HIDE DEF c
<1>5. \A q \in Requests : request'[q].window <= Minute'
    BY <1>1, <1>4 DEF MinuteInv, Idle
<1>6. ASSUME NEW m \in Minutes PROVE MinuteCounted(m)' /\ MinuteWithin(m)'
  <2>1. Waiting(m) \in SUBSET Requests /\ Waiting(m)' \in SUBSET Requests /\ Waiting(m)' \ {r} \subseteq Waiting(m)
      BY <1>4 DEF Waiting, WaitingPoints
  <2>2. m # Minute \/ c > RpmLimit => r \notin Waiting(m)'
      BY <1>1, <1>3, <1>4 DEF Waiting, WaitingPoints, Idle
  <2>3. /\ Cardinality(Waiting(m)) \in Nat /\ Cardinality(Waiting(m)') \in Nat
        /\ Cardinality(Waiting(m)') <= Cardinality(Waiting(m)) + 1
        /\ m # Minute \/ c > RpmLimit => Cardinality(Waiting(m)') <= Cardinality(Waiting(m))
      BY <2>1, <2>2, Sizes, OneChanges
  <2>4. admitted[m] \in Nat /\ MinuteCounted(m) /\ MinuteWithin(m)
      BY DEF TypeOK, MinuteInv
  <2>5. CASE m = Minute
    <3>1. admitted[m] + Cardinality(Waiting(m)') <= c
        BY <1>1, <1>3, <2>3, <2>4, <2>5 DEF MinuteCounted, c
    <3>2. MinuteCounted(m)'
        BY <1>1, <1>3, <2>4, <2>5, <3>1 DEF MinuteCounted
    <3>3. MinuteWithin(m)'
        BY <1>1, <1>3, <2>3, <2>4, <3>1 DEF MinuteWithin
    <3> QED
        BY <3>2, <3>3
  <2>6. CASE m # Minute
    <3>1. <<"rl", m>> \in Names /\ counter'[<<"rl", m>>] = counter[<<"rl", m>>]
          /\ Value(<<"rl", m>>)' = Value(<<"rl", m>>) /\ Value(<<"rl", m>>) \in Nat
        BY <1>2, <1>3, <2>6, NamesBuilt DEF Value, Counter
    <3>2. MinuteCounted(m)'
        BY <1>1, <2>3, <2>4, <2>6, <3>1 DEF MinuteCounted
    <3>3. MinuteWithin(m)'
        BY <1>1, <2>3, <2>4, <2>6 DEF MinuteWithin
    <3> QED
        BY <3>2, <3>3
  <2> QED
      BY <2>5, <2>6
<1> QED
    BY <1>5, <1>6 DEF MinuteInv

(* EXPIRE, however late: the counter lasts for as long as the minute. *)
LEMMA ExpireMinutes ==
    ASSUME TypeOK, TypeOK', MinuteInv, NEW r \in Requests, ExpireMinute(r)
    PROVE  MinuteInv'
<1> SUFFICES ASSUME RpmLimit > 0 PROVE MinuteInv'
    BY DEF MinuteInv
<1> DEFINE w == request[r].window
<1>1. /\ Minute \in Minutes /\ Minutes \subseteq Nat /\ Minute' = Minute /\ now' = now /\ admitted' = admitted
      /\ now % MinuteLength \in 0..(MinuteLength - 1) /\ MinuteLength \in Nat \ {0} /\ MinuteLength \in 0..DayLength
    BY ClockTypes, MinutesFitDays, RateLimitsAssumption DEF TypeOK, Minute, ExpireMinute
<1>2. counter \in [Names -> Counter] /\ w \in Minutes /\ <<"rl", w>> \in Names /\ ExpireIn(<<"rl", w>>, MinuteLength)
    BY NamesBuilt DEF TypeOK, Counter, Request, ExpireMinute
<1>3. /\ counter'[<<"rl", w>>] = (IF counter[<<"rl", w>>] = Absent
                                  THEN Absent ELSE [counter[<<"rl", w>>] EXCEPT !.ttl = MinuteLength])
      /\ \A n \in Names : n # <<"rl", w>> => counter'[n] = counter[n]
    BY <1>1, <1>2, CounterEffects
<1>4. /\ request[r].pc = "expireMinute" /\ \A q \in Requests \ {r} : request'[q] = request[q]
      /\ \/ request'[r] = Idle
         \/ request'[r].pc = "tokens" /\ request'[r].window = w
    BY DEF ExpireMinute, At, Ends, Goto, TypeOK, Request
<1> HIDE DEF w
<1>5. \A q \in Requests : request'[q].window <= Minute'
    BY <1>1, <1>4 DEF MinuteInv, Idle, w
<1>6. ASSUME NEW m \in Minutes PROVE MinuteCounted(m)' /\ MinuteWithin(m)'
  <2>1. Waiting(m) \in SUBSET Requests /\ Waiting(m)' \in SUBSET Waiting(m)
      BY <1>4 DEF Waiting, Idle, w
  <2>2. /\ Cardinality(Waiting(m)) \in Nat /\ Cardinality(Waiting(m)') \in Nat
        /\ Cardinality(Waiting(m)') <= Cardinality(Waiting(m))
      BY <2>1, Sizes, FS_Subset
  <2>3. /\ admitted[m] \in Nat /\ MinuteCounted(m) /\ MinuteWithin(m)
        /\ <<"rl", m>> \in Names /\ counter[<<"rl", m>>] \in Counter
      BY <1>2, NamesBuilt DEF TypeOK, MinuteInv
  <2>4. MinuteWithin(m)'
      BY <1>1, <2>2, <2>3, RateLimitsAssumption DEF MinuteWithin
  <2>5. /\ Value(<<"rl", m>>)' = Value(<<"rl", m>>) /\ Value(<<"rl", m>>) \in Nat
        /\ \/ counter'[<<"rl", m>>] = counter[<<"rl", m>>]
           \/ counter'[<<"rl", m>>].ttl = MinuteLength /\ counter[<<"rl", m>>] # Absent
      BY <1>2, <1>3, <2>3 DEF Value, Counter
  <2>6. MinuteCounted(m)'
    <3>1. CASE counter'[<<"rl", m>>] = counter[<<"rl", m>>]
        BY <1>1, <2>2, <2>3, <2>5, <3>1 DEF MinuteCounted
    <3>2. CASE counter'[<<"rl", m>>].ttl = MinuteLength /\ counter[<<"rl", m>>] # Absent
        BY <1>1, <2>2, <2>3, <2>5, <3>2 DEF MinuteCounted
    <3> QED
        BY <2>5, <3>1, <3>2
  <2> QED
      BY <2>4, <2>6
<1> QED
    BY <1>5, <1>6 DEF MinuteInv

(* A request that is let through no longer waits. *)
LEMMA CostMinutes ==
    ASSUME TypeOK, TypeOK', MinuteInv, NEW r \in Requests, CheckCost(r)
    PROVE  MinuteInv'
<1> SUFFICES ASSUME RpmLimit > 0 PROVE MinuteInv'
    BY DEF MinuteInv
<1> DEFINE w == request[r].window
<1>1. /\ Minute \in Minutes /\ Minutes \subseteq Nat /\ Minute' = Minute /\ now' = now /\ counter' = counter
      /\ w \in Minutes
    BY ClockTypes DEF TypeOK, Minute, CheckCost, Request
<1>2. /\ request[r].pc = "cost" /\ \A q \in Requests \ {r} : request'[q] = request[q]
      /\ request'[r].pc \notin WaitingPoints /\ request'[r].window = 0
      /\ admitted' = admitted \/ admitted' = [admitted EXCEPT ![w] = @ + 1]
    BY DEF CheckCost, At, Ends, TypeOK, Idle, WaitingPoints
<1> HIDE DEF w
<1>3. \A q \in Requests : request'[q].window <= Minute'
    BY <1>1, <1>2 DEF MinuteInv
<1>4. ASSUME NEW m \in Minutes PROVE MinuteCounted(m)' /\ MinuteWithin(m)'
  <2>1. /\ Waiting(m) \in SUBSET Requests /\ Waiting(m)' \in SUBSET Requests
        /\ Waiting(m)' \ {r} \subseteq Waiting(m) /\ r \notin Waiting(m)'
        /\ m = w => r \in Waiting(m)
      BY <1>2 DEF Waiting, WaitingPoints, w
  <2>2. /\ Cardinality(Waiting(m)) \in Nat /\ Cardinality(Waiting(m)') \in Nat
        /\ Cardinality(Waiting(m)') <= Cardinality(Waiting(m))
        /\ m = w => Cardinality(Waiting(m)') <= Cardinality(Waiting(m)) - 1
      BY <2>1, Sizes, OneChanges
  <2>3. admitted[m] \in Nat /\ admitted'[m] \in {admitted[m], admitted[m] + 1} /\ (m # w => admitted'[m] = admitted[m])
      BY <1>1, <1>2 DEF TypeOK
  <2>4. /\ MinuteCounted(m) /\ MinuteWithin(m)
        /\ Value(<<"rl", m>>)' = Value(<<"rl", m>>) /\ Value(<<"rl", m>>) \in Nat
      BY <1>1, NamesBuilt DEF TypeOK, MinuteInv, Value
  <2>5. admitted'[m] + Cardinality(Waiting(m)') <= admitted[m] + Cardinality(Waiting(m))
      BY <2>2, <2>3
  <2> QED
      BY <1>1, <2>2, <2>3, <2>4, <2>5, RateLimitsAssumption DEF MinuteCounted, MinuteWithin
<1> QED
    BY <1>3, <1>4 DEF MinuteInv

(* The clock: the counter of the minute is not deleted before the minute is over. *)
LEMMA TickMinutes ==
    ASSUME TypeOK, TypeOK', MinuteInv, Tick
    PROVE  MinuteInv'
<1> SUFFICES ASSUME RpmLimit > 0 PROVE MinuteInv'
    BY DEF MinuteInv
<1>1. /\ Minute \in Nat /\ Minutes \subseteq Nat /\ request' = request /\ admitted' = admitted
      /\ now % MinuteLength \in 0..(MinuteLength - 1) /\ MinuteLength \in Nat \ {0}
      /\ now' % MinuteLength \in 0..(MinuteLength - 1)
      /\ \/ Minute' = Minute /\ now' % MinuteLength = (now % MinuteLength) + 1
         \/ Minute' = Minute + 1 /\ now' % MinuteLength = 0
  <2>1. now \in 0..MaxTime /\ now' \in 0..MaxTime /\ now' = now + 1
      BY DEF TypeOK, Tick
  <2>2. now' \in Nat /\ MinuteLength \in Nat \ {0}
      BY <2>1, RateLimitsAssumption
  <2>3. now' % MinuteLength \in 0..(MinuteLength - 1)
      BY <2>2, Division
  <2> QED
      BY <2>1, <2>2, <2>3, ClockTypes, Seconds DEF Tick
<1>2. \A q \in Requests : request'[q].window <= Minute'
  <2>1. \A q \in Requests : request[q].window \in Nat /\ request[q].window <= Minute
      BY <1>1 DEF MinuteInv, TypeOK, Request
  <2> QED
      BY <1>1, <2>1
<1>3. ASSUME NEW m \in Minutes PROVE MinuteCounted(m)' /\ MinuteWithin(m)'
  <2>1. Waiting(m)' = Waiting(m) /\ Cardinality(Waiting(m)) \in Nat
      BY <1>1, Sizes DEF Waiting
  <2>2. admitted[m] \in Nat /\ MinuteCounted(m) /\ MinuteWithin(m) /\ counter[<<"rl", m>>] \in Counter
      BY NamesBuilt DEF TypeOK, MinuteInv, Counter
  <2>3. MinuteWithin(m)'
      BY <1>1, <2>1, <2>2 DEF MinuteWithin
  <2>4. counter'[<<"rl", m>>] = (IF counter[<<"rl", m>>].ttl = 1 THEN Absent
                                 ELSE IF counter[<<"rl", m>>].ttl > 1
                                      THEN [counter[<<"rl", m>>] EXCEPT !.ttl = @ - 1]
                                      ELSE counter[<<"rl", m>>])
      BY NamesBuilt DEF Tick
  <2>5. CASE m < Minute'
      BY <1>1, <2>3, <2>5 DEF MinuteCounted
  <2>6. CASE m = Minute' /\ m = Minute
    <3>1. counter[<<"rl", m>>].ttl \in {NoTtl, 0} \/ counter[<<"rl", m>>].ttl >= 2 + (MinuteLength - 1 - (now' % MinuteLength))
        BY <1>1, <2>2, <2>6 DEF MinuteCounted
    <3>2. CASE counter[<<"rl", m>>].ttl \in {NoTtl, 0}
        BY <1>1, <2>1, <2>2, <2>3, <2>4, <2>6, <3>2 DEF MinuteCounted, Value, NoTtl
    <3>3. CASE counter[<<"rl", m>>].ttl >= 2 + (MinuteLength - 1 - (now' % MinuteLength))
        BY <1>1, <2>1, <2>2, <2>3, <2>4, <2>6, <3>3 DEF MinuteCounted, Value, Counter, NoTtl
    <3> QED
        BY <3>1, <3>2, <3>3
  <2>7. CASE m > Minute /\ m >= Minute'
    <3>1. counter[<<"rl", m>>] = Absent /\ counter'[<<"rl", m>>] = Absent
        BY <2>2, <2>4, <2>7 DEF MinuteCounted, Absent
    <3> QED
        BY <1>1, <2>1, <2>2, <2>3, <2>7, <3>1 DEF MinuteCounted, Absent, Value
  <2> QED
      BY <1>1, <2>3, <2>5, <2>6, <2>7
<1> QED
    BY <1>2, <1>3 DEF MinuteInv

LEMMA MinuteStep == TypeOK /\ TypeOK' /\ MinuteInv /\ [Next]_vars => MinuteInv'
<1> SUFFICES ASSUME TypeOK, TypeOK', MinuteInv, [Next]_vars PROVE MinuteInv'
    OBVIOUS
<1>1. counter \in [Names -> Counter]
    BY DEF TypeOK, Counter
<1>2. Today \in Days
    BY ClockTypes DEF TypeOK
<1>3. ASSUME NEW d \in Days, NEW kind \in {"tk", "cs"}, NEW by \in Nat, Raise(<<kind, d>>, by)
      PROVE  \A m \in Minutes : counter'[<<"rl", m>>] = counter[<<"rl", m>>]
    BY <1>1, <1>3, NamesBuilt, CounterEffects
<1>4. ASSUME NEW d \in Days, NEW kind \in {"tk", "cs"}, NEW time \in 0..DayLength, ExpireIn(<<kind, d>>, time)
      PROVE  \A m \in Minutes : counter'[<<"rl", m>>] = counter[<<"rl", m>>]
    BY <1>1, <1>4, NamesBuilt, CounterEffects
<1>5. ASSUME NEW r \in Requests, CheckTokens(r) \/ NothingUsed(r) \/ RedisFails(r) PROVE MinuteInv'
  <2>1. \A q \in Requests :
           \/ request'[q].pc \notin WaitingPoints /\ request'[q].window \in {0, request[q].window}
           \/ /\ request[q].pc \in WaitingPoints
              /\ request'[q].pc \in WaitingPoints /\ request'[q].window = request[q].window
      BY <1>5 DEF CheckTokens, NothingUsed, RedisFails, At, Ends, Goto, TypeOK, Request, WaitingPoints, Idle
  <2> QED
      BY <1>5, <2>1, MinutesKept DEF CheckTokens, NothingUsed, RedisFails
<1>6. ASSUME NEW r \in Requests, CountTokens(r) PROVE MinuteInv'
  <2>1. PICK u \in Usages, t \in SecondsUntilMidnight :
            /\ Raise(<<"tk", Today>>, u.tokens)
            /\ request' = [request EXCEPT ![r] =
                   [Idle EXCEPT !.pc = "expireTokens", !.cost = u.cost, !.ttl = t, !.day = Today]]
      BY <1>6 DEF CountTokens
  <2>2. u.tokens \in Nat
      BY RateLimitsAssumption
  <2>3. \A q \in Requests :
           \/ request'[q].pc \notin WaitingPoints /\ request'[q].window \in {0, request[q].window}
           \/ /\ request[q].pc \in WaitingPoints
              /\ request'[q].pc \in WaitingPoints /\ request'[q].window = request[q].window
      BY <2>1 DEF TypeOK, WaitingPoints, Idle
  <2>4. \A m \in Minutes : counter'[<<"rl", m>>] = counter[<<"rl", m>>]
      BY <1>2, <1>3, <2>1, <2>2
  <2> QED
      BY <1>6, <2>3, <2>4, MinutesKept DEF CountTokens
<1>7. ASSUME NEW r \in Requests, ExpireTokens(r) \/ CountCost(r) \/ ExpireCost(r) PROVE MinuteInv'
  <2>1. request[r].day \in Days /\ request[r].ttl \in 0..DayLength /\ request[r].cost \in Nat
      BY DEF TypeOK, Request
  <2>2. \A m \in Minutes : counter'[<<"rl", m>>] = counter[<<"rl", m>>]
      BY <1>2, <1>3, <1>4, <1>7, <2>1 DEF ExpireTokens, CountCost, ExpireCost
  <2>3. \A q \in Requests :
           \/ request'[q].pc \notin WaitingPoints /\ request'[q].window \in {0, request[q].window}
           \/ /\ request[q].pc \in WaitingPoints
              /\ request'[q].pc \in WaitingPoints /\ request'[q].window = request[q].window
      BY <1>7 DEF ExpireTokens, CountCost, ExpireCost, At, Ends, Goto, TypeOK, Request, WaitingPoints, Idle
  <2> QED
      BY <1>7, <2>2, <2>3, MinutesKept DEF ExpireTokens, CountCost, ExpireCost
<1>8. CASE Crash \/ UNCHANGED vars
  <2>1. \A q \in Requests :
           \/ request'[q].pc \notin WaitingPoints /\ request'[q].window \in {0, request[q].window}
           \/ /\ request[q].pc \in WaitingPoints
              /\ request'[q].pc \in WaitingPoints /\ request'[q].window = request[q].window
      BY <1>8 DEF Crash, vars, WaitingPoints, Idle
  <2> QED
      BY <1>8, <2>1, MinutesKept DEF Crash, vars
<1> QED
    BY <1>5, <1>6, <1>7, <1>8, ArriveMinutes, ExpireMinutes, CostMinutes, TickMinutes DEF Next

-----------------------------------------------------------------------------
(* Tokens per day. *)

CommittedPoints == {"cost", "call"}

LEMMA DayTypes ==
    ASSUME TypeOK
    PROVE  /\ Today \in Days /\ Days \subseteq Nat /\ DayLength \in Nat \ {0}
           /\ now % DayLength \in 0..(DayLength - 1)
           /\ Committed \in SUBSET Requests
           /\ Cardinality(Committed) \in Nat /\ Cardinality(Requests) \in Nat
           /\ Cardinality(Committed) <= Cardinality(Requests)
           /\ MaxTokens * Cardinality(Committed) \in Nat /\ MaxTokens * Cardinality(Requests) \in Nat
           /\ MaxTokens * Cardinality(Committed) <= MaxTokens * Cardinality(Requests)
           /\ counter \in [Names -> Counter]
           /\ MaxTokens \in Nat /\ TokenLimit \in Nat
<1>1. Committed \in SUBSET Requests
    BY DEF Committed
<1>2. /\ Cardinality(Committed) \in Nat /\ Cardinality(Requests) \in Nat
      /\ Cardinality(Committed) <= Cardinality(Requests) /\ MaxTokens \in Nat
    BY <1>1, Sizes, RateLimitsAssumption
<1> QED
    BY <1>1, <1>2, ClockTypes, Products, RateLimitsAssumption DEF TypeOK, Counter

(* A step that counts no tokens and commits no request. *)
LEMMA DaysKept ==
    ASSUME TypeOK, TypeOK', DayInv, UNCHANGED <<now, used>>,
           \A d \in Days : counter'[<<"tk", d>>] = counter[<<"tk", d>>],
           \A r \in Requests :
              /\ request'[r].pc \in CommittedPoints => request[r].pc \in CommittedPoints
              /\ request'[r].pc = "expireTokens" => request'[r] = request[r]
    PROVE  DayInv'
<1>1. /\ Today \in Days /\ Today' = Today /\ (LastSecond' <=> LastSecond)
      /\ \A ttl : Lasts(ttl)' <=> Lasts(ttl)
    BY DayTypes DEF Today, LastSecond, Lasts
<1>2. DayCounted' /\ DaysToCome' /\ ExpiriesToCome'
    BY <1>1 DEF DayInv, DayCounted, DaysToCome, ExpiriesToCome, Value
<1>3. /\ Cardinality(Committed)' \in Nat /\ Cardinality(Committed) \in Nat
      /\ Cardinality(Committed)' <= Cardinality(Committed)
  <2>1. Committed \in SUBSET Requests /\ Committed' \in SUBSET Committed
      BY DEF Committed, CommittedPoints
  <2> QED
      BY <2>1, Sizes, FS_Subset
<1>4. /\ MaxTokens * Cardinality(Committed)' \in Nat /\ MaxTokens * Cardinality(Committed) \in Nat
      /\ MaxTokens * Cardinality(Committed)' <= MaxTokens * Cardinality(Committed)
    BY <1>3, DayTypes, Products
<1>5. used[Today] \in Nat /\ MaxTokens * Cardinality(Requests) \in Nat /\ TokenLimit \in Nat
    BY <1>1, DayTypes DEF TypeOK
<1>6. DayWithin'
    BY <1>1, <1>4, <1>5 DEF DayInv, DayWithin
<1> QED
    BY <1>2, <1>6 DEF DayInv

(* A request passes the check of the tokens: the counter is what was used. *)
LEMMA CheckDays ==
    ASSUME TypeOK, TypeOK', DayInv, NEW r \in Requests, CheckTokens(r)
    PROVE  DayInv'
<1>1. /\ Today \in Days /\ Today' = Today /\ (LastSecond' <=> LastSecond)
      /\ (\A ttl : Lasts(ttl)' <=> Lasts(ttl))
      /\ UNCHANGED <<now, counter, used>>
    BY DayTypes DEF Today, LastSecond, Lasts, CheckTokens
<1>2. CASE OverDaily(TokenLimit, <<"tk", Today>>)
  <2>1. \A q \in Requests :
              /\ request'[q].pc \in CommittedPoints => request[q].pc \in CommittedPoints
              /\ request'[q].pc = "expireTokens" => request'[q] = request[q]
      BY <1>2 DEF CheckTokens, Ends, Idle, TypeOK, CommittedPoints
  <2> QED
      BY <1>1, <2>1, DaysKept
<1>3. CASE ~ OverDaily(TokenLimit, <<"tk", Today>>)
  <2>1. \A q \in Requests : request'[q].pc = "expireTokens" => request'[q] = request[q]
      BY <1>3 DEF CheckTokens, Goto, TypeOK, Request
  <2>2. DayCounted' /\ DaysToCome' /\ ExpiriesToCome'
      BY <1>1, <2>1 DEF DayInv, DayCounted, DaysToCome, ExpiriesToCome, Value
  <2>3. /\ Value(<<"tk", Today>>) \in Nat /\ used[Today] \in Nat /\ TokenLimit \in Nat
        /\ TokenLimit > 0 => Value(<<"tk", Today>>) <= TokenLimit - 1
    <3>1. Value(<<"tk", Today>>) \in Nat
        BY <1>1, DayTypes, NamesBuilt DEF Value, Counter
    <3>2. used[Today] \in Nat /\ TokenLimit \in Nat
        BY <1>1, DayTypes DEF TypeOK
    <3> QED
        BY <1>3, <3>1, <3>2 DEF OverDaily
  <2>4. /\ MaxTokens * Cardinality(Committed)' \in Nat /\ MaxTokens * Cardinality(Requests) \in Nat
        /\ MaxTokens * Cardinality(Committed)' <= MaxTokens * Cardinality(Requests)
    <3>1. Committed' \in SUBSET Requests
        BY DEF Committed
    <3>2. Cardinality(Committed)' \in Nat /\ Cardinality(Committed)' <= Cardinality(Requests)
        BY <3>1, Sizes
    <3> QED
        BY <3>2, DayTypes, Products
  <2>5. DayWithin'
      BY <1>1, <2>3, <2>4 DEF DayInv, DayCounted, DayWithin
  <2> QED
      BY <2>2, <2>5 DEF DayInv
<1> QED
    BY <1>2, <1>3

(* The answer comes: what it used is counted, and the request is no longer committed. *)
LEMMA CountDays ==
    ASSUME TypeOK, TypeOK', DayInv, NEW r \in Requests, CountTokens(r)
    PROVE  DayInv'
<1>1. /\ Today \in Days /\ Today' = Today /\ (LastSecond' <=> LastSecond) /\ now' = now
      /\ (\A ttl : Lasts(ttl)' <=> Lasts(ttl))
      /\ now % DayLength \in 0..(DayLength - 1) /\ DayLength \in Nat /\ <<"tk", Today>> \in Names
    BY DayTypes, NamesBuilt DEF Today, LastSecond, Lasts, CountTokens
<1>2. PICK u \in Usages, t \in SecondsUntilMidnight :
            /\ Raise(<<"tk", Today>>, u.tokens)
            /\ used' = [used EXCEPT ![Today] = @ + u.tokens]
            /\ request' = [request EXCEPT ![r] =
                   [Idle EXCEPT !.pc = "expireTokens", !.cost = u.cost, !.ttl = t, !.day = Today]]
    BY DEF CountTokens
<1>3. u.tokens \in 0..MaxTokens /\ u.tokens \in Nat /\ t \in Nat /\ Lasts(t)
  <2>1. u.tokens \in 0..MaxTokens /\ u.tokens \in Nat
      BY RateLimitsAssumption
  <2>2. t \in Nat /\ Lasts(t)
      BY <1>1 DEF SecondsUntilMidnight, Lasts
  <2> QED
      BY <2>1, <2>2
<1>4. /\ Value(<<"tk", Today>>)' = Value(<<"tk", Today>>) + u.tokens
      /\ counter'[<<"tk", Today>>].ttl = (IF counter[<<"tk", Today>>] = Absent THEN NoTtl
                                           ELSE counter[<<"tk", Today>>].ttl)
      /\ \A n \in Names : n # <<"tk", Today>> => counter'[n] = counter[n]
    BY <1>1, <1>2, <1>3, DayTypes, CounterEffects
<1>5. /\ used'[Today] = used[Today] + u.tokens /\ used[Today] \in Nat
      /\ \A d \in Days : d # Today => used'[d] = used[d]
    BY <1>1, <1>2 DEF TypeOK
<1>6. /\ request[r].pc = "call" /\ \A q \in Requests \ {r} : request'[q] = request[q]
      /\ request'[r].pc = "expireTokens" /\ request'[r].ttl = t /\ request'[r].day = Today
    BY <1>2 DEF CountTokens, At, TypeOK, Idle
<1>7. DayCounted'
    BY <1>1, <1>4, <1>5 DEF DayInv, DayCounted
<1>8. DaysToCome'
  <2>1. ASSUME NEW d \in Days, d > Today PROVE counter'[<<"tk", d>>] = Absent /\ used'[d] = 0
    <3>1. d # Today
        BY <1>1, <2>1, DayTypes
    <3>2. <<"tk", d>> # <<"tk", Today>> /\ <<"tk", d>> \in Names
        BY <3>1, NamesBuilt
    <3> QED
        BY <1>4, <1>5, <2>1, <3>1, <3>2 DEF DayInv, DaysToCome
  <2> QED
      BY <1>1, <2>1 DEF DaysToCome
<1>9. ExpiriesToCome'
    BY <1>1, <1>3, <1>6, DayTypes DEF DayInv, ExpiriesToCome
<1>10. DayWithin'
  <2>1. /\ Committed \in SUBSET Requests /\ Committed' \in SUBSET Requests
        /\ Committed' \ {r} \subseteq Committed /\ r \notin Committed' /\ r \in Committed
      BY <1>6 DEF Committed
  <2>2. /\ Cardinality(Committed) \in Nat /\ Cardinality(Committed)' \in Nat
        /\ Cardinality(Committed)' + 1 <= Cardinality(Committed)
      BY <2>1, Sizes, OneChanges
  <2>3. /\ MaxTokens * Cardinality(Committed) \in Nat /\ MaxTokens * Cardinality(Committed)' \in Nat
        /\ MaxTokens * Cardinality(Committed)' + MaxTokens <= MaxTokens * Cardinality(Committed)
        /\ MaxTokens \in Nat /\ MaxTokens * Cardinality(Requests) \in Nat /\ TokenLimit \in Nat
      BY <2>2, DayTypes, Products
  <2> QED
      BY <1>1, <1>3, <1>5, <2>3 DEF DayInv, DayWithin
<1> QED
    BY <1>7, <1>8, <1>9, <1>10 DEF DayInv

(* EXPIRE: of this day's counter it deletes nothing before the last second. *)
LEMMA ExpireDays ==
    ASSUME TypeOK, TypeOK', DayInv, NEW r \in Requests, ExpireTokens(r)
    PROVE  DayInv'
<1> DEFINE d == request[r].day
           ttl == request[r].ttl
<1>1. /\ Today \in Days /\ Today' = Today /\ (LastSecond' <=> LastSecond) /\ now' = now /\ used' = used
      /\ (\A k : Lasts(k)' <=> Lasts(k))
      /\ now % DayLength \in 0..(DayLength - 1) /\ DayLength \in Nat
    BY DayTypes DEF Today, LastSecond, Lasts, ExpireTokens
<1>2. d \in Days /\ ttl \in 0..DayLength /\ <<"tk", d>> \in Names /\ ExpireIn(<<"tk", d>>, ttl)
    BY NamesBuilt DEF TypeOK, Request, ExpireTokens
<1>3. /\ counter'[<<"tk", d>>] = (IF counter[<<"tk", d>>] = Absent \/ ttl = 0
                                  THEN Absent ELSE [counter[<<"tk", d>>] EXCEPT !.ttl = ttl])
      /\ \A n \in Names : n # <<"tk", d>> => counter'[n] = counter[n]
    BY <1>2, DayTypes, CounterEffects
<1>4. /\ \A q \in Requests \ {r} : request'[q] = request[q]
      /\ request'[r].pc \notin CommittedPoints \cup {"expireTokens"}
    BY DEF ExpireTokens, At, Ends, Goto, TypeOK, Request, Idle, CommittedPoints
<1>5. d <= Today /\ (d = Today => Lasts(ttl))
    BY DEF DayInv, ExpiriesToCome, ExpireTokens, At
<1> HIDE DEF d, ttl
<1>6. ExpiriesToCome'
    BY <1>1, <1>4 DEF DayInv, ExpiriesToCome
<1>7. DaysToCome'
  <2>1. ASSUME NEW e \in Days, e > Today PROVE counter'[<<"tk", e>>] = Absent /\ used'[e] = 0
    <3>1. e # d
        BY <1>1, <1>2, <1>5, <2>1, DayTypes
    <3>2. <<"tk", e>> # <<"tk", d>> /\ <<"tk", e>> \in Names
        BY <3>1, NamesBuilt
    <3> QED
        BY <1>1, <1>3, <2>1, <3>2 DEF DayInv, DaysToCome
  <2> QED
      BY <1>1, <2>1 DEF DaysToCome
<1>8. DayCounted'
  <2>1. SUFFICES ASSUME ~ LastSecond PROVE DayCounted'
      BY <1>1 DEF DayCounted
  <2>2. <<"tk", Today>> \in Names /\ counter[<<"tk", Today>>] \in Counter /\ DayCounted
      BY <1>1, DayTypes, NamesBuilt DEF DayInv
  <2>3. CASE d = Today
    <3>1. ttl # 0
        BY <1>1, <1>2, <1>5, <2>1, <2>3 DEF Lasts, LastSecond
    <3> QED
        BY <1>1, <1>3, <1>5, <2>1, <2>2, <2>3, <3>1 DEF DayCounted, Value, Counter
  <2>4. CASE d # Today
    <3>1. counter'[<<"tk", Today>>] = counter[<<"tk", Today>>]
        BY <1>3, <2>2, <2>4
    <3> QED
        BY <1>1, <2>1, <2>2, <3>1 DEF DayCounted, Value
  <2> QED
      BY <2>3, <2>4
<1>9. DayWithin'
  <2>1. Committed \in SUBSET Requests /\ Committed' \in SUBSET Committed
      BY <1>4 DEF Committed, CommittedPoints
  <2>2. /\ Cardinality(Committed) \in Nat /\ Cardinality(Committed)' \in Nat
        /\ Cardinality(Committed)' <= Cardinality(Committed)
      BY <2>1, Sizes, FS_Subset
  <2>3. /\ MaxTokens * Cardinality(Committed)' \in Nat /\ MaxTokens * Cardinality(Committed) \in Nat
        /\ MaxTokens * Cardinality(Committed)' <= MaxTokens * Cardinality(Committed)
        /\ used[Today] \in Nat /\ MaxTokens * Cardinality(Requests) \in Nat /\ TokenLimit \in Nat
      BY <1>1, <2>2, DayTypes, Products DEF TypeOK
  <2> QED
      BY <1>1, <2>3 DEF DayInv, DayWithin
<1> QED
    BY <1>6, <1>7, <1>8, <1>9 DEF DayInv

(* The clock: the counter of the day lasts until its last second. *)
LEMMA TickDays ==
    ASSUME TypeOK, TypeOK', DayInv, Tick
    PROVE  DayInv'
<1>1. /\ Today \in Days /\ Today' \in Days /\ Days \subseteq Nat
      /\ now % DayLength \in 0..(DayLength - 1) /\ DayLength \in Nat \ {0}
      /\ now' % DayLength \in 0..(DayLength - 1)
      /\ \/ Today' = Today /\ now' % DayLength = (now % DayLength) + 1
         \/ Today' = Today + 1 /\ now' % DayLength = 0
  <2>1. now \in 0..MaxTime /\ now' \in 0..MaxTime /\ now' = now + 1
      BY DEF TypeOK, Tick
  <2>2. now' \in Nat /\ MaxTime \in Nat /\ now' <= MaxTime /\ DayLength \in Nat \ {0}
      BY <2>1, RateLimitsAssumption
  <2>3. /\ now' % DayLength \in 0..(DayLength - 1) /\ now' \div DayLength \in Nat
        /\ MaxTime \div DayLength \in Nat /\ now' \div DayLength <= MaxTime \div DayLength
      BY <2>2, Division, QuotientsGrow
  <2>4. Today' \in Days
      BY <2>3 DEF Today, Days
  <2> QED
      BY <2>1, <2>2, <2>3, <2>4, DayTypes, Seconds
<1>2. request' = request /\ used' = used
    BY DEF Tick
<1>3. ASSUME NEW d \in Days
      PROVE  /\ counter[<<"tk", d>>] \in Counter
             /\ counter[<<"tk", d>>].ttl \in {NoTtl, 0} => counter'[<<"tk", d>>] = counter[<<"tk", d>>]
             /\ counter[<<"tk", d>>].ttl > 1 =>
                   counter'[<<"tk", d>>] = [counter[<<"tk", d>>] EXCEPT !.ttl = counter[<<"tk", d>>].ttl - 1]
  <2>1. /\ counter[<<"tk", d>>] \in Counter
        /\ counter'[<<"tk", d>>] = (IF counter[<<"tk", d>>].ttl = 1 THEN Absent
                                    ELSE IF counter[<<"tk", d>>].ttl > 1
                                         THEN [counter[<<"tk", d>>] EXCEPT !.ttl = counter[<<"tk", d>>].ttl - 1]
                                         ELSE counter[<<"tk", d>>])
      BY DayTypes, NamesBuilt DEF Tick
  <2> QED
      BY <2>1 DEF NoTtl
<1>4. \A d \in Days : d > Today => counter'[<<"tk", d>>] = Absent /\ used'[d] = 0
  <2>1. ASSUME NEW d \in Days, d > Today PROVE counter'[<<"tk", d>>] = Absent /\ used'[d] = 0
    <3>1. counter[<<"tk", d>>] = Absent /\ used[d] = 0
        BY <2>1 DEF DayInv, DaysToCome
    <3>2. Absent.ttl = 0
        BY DEF Absent
    <3> QED
        BY <1>2, <1>3, <3>1, <3>2
  <2> QED
      BY <2>1
<1>5. DaysToCome'
    BY <1>1, <1>4 DEF DaysToCome
<1>6. ExpiriesToCome'
  <2>1. ASSUME NEW r \in Requests, request[r].pc = "expireTokens"
        PROVE  request[r].day <= Today' /\ (request[r].day = Today' => Lasts(request[r].ttl)')
    <3>1. request[r].day \in Nat /\ request[r].ttl \in Nat /\ request[r].day <= Today
          /\ (request[r].day = Today => Lasts(request[r].ttl))
      <4>1. request[r].day \in Days /\ request[r].ttl \in 0..DayLength
          BY DEF TypeOK, Request
      <4>2. request[r].day <= Today /\ (request[r].day = Today => Lasts(request[r].ttl))
          BY <2>1 DEF DayInv, ExpiriesToCome
      <4> QED
          BY <1>1, <4>1, <4>2
    <3> QED
        BY <1>1, <1>2, <3>1 DEF Lasts
  <2> QED
      BY <1>2, <2>1 DEF ExpiriesToCome
<1>7. /\ Committed' = Committed /\ MaxTokens * Cardinality(Committed) \in Nat
      /\ MaxTokens * Cardinality(Requests) \in Nat /\ TokenLimit \in Nat
      /\ MaxTokens * Cardinality(Committed) <= MaxTokens * Cardinality(Requests)
    BY <1>2, DayTypes DEF Committed
<1>8. CASE Today' = Today /\ now' % DayLength = (now % DayLength) + 1
  <2>1. ~ LastSecond' => ~ LastSecond
      BY <1>1, <1>8 DEF LastSecond
  <2>2. DayWithin'
      BY <1>2, <1>7, <1>8, <2>1 DEF DayInv, DayWithin
  <2>3. SUFFICES ASSUME ~ LastSecond' PROVE DayCounted'
      BY <1>5, <1>6, <2>2 DEF DayInv, DayCounted
  <2>4. /\ Value(<<"tk", Today>>) = used[Today]
        /\ counter[<<"tk", Today>>].ttl \in {NoTtl, 0} \/ Lasts(counter[<<"tk", Today>>].ttl)
        /\ counter[<<"tk", Today>>] \in Counter
    <3>1. DayCounted /\ counter[<<"tk", Today>>] \in Counter
        BY <1>1, <1>3 DEF DayInv
    <3> QED
        BY <2>1, <2>3, <3>1 DEF DayCounted
  <2>5. CASE counter[<<"tk", Today>>].ttl \in {NoTtl, 0}
    <3>1. counter'[<<"tk", Today>>] = counter[<<"tk", Today>>]
        BY <1>1, <1>3, <2>5
    <3> QED
        BY <1>2, <1>8, <2>4, <2>5, <3>1 DEF DayCounted, Value
  <2>6. CASE Lasts(counter[<<"tk", Today>>].ttl)
    <3>1. counter[<<"tk", Today>>].ttl >= 2 /\ counter[<<"tk", Today>>].ttl \in Nat
        BY <1>1, <1>8, <2>3, <2>4, <2>6 DEF Lasts, LastSecond, Counter, NoTtl
    <3>2. counter'[<<"tk", Today>>] = [counter[<<"tk", Today>>] EXCEPT !.ttl = counter[<<"tk", Today>>].ttl - 1]
        BY <1>1, <1>3, <3>1
    <3>3. /\ counter'[<<"tk", Today>>].ttl >= DayLength - 1 - (now' % DayLength)
          /\ counter'[<<"tk", Today>>].value = counter[<<"tk", Today>>].value
        BY <1>1, <1>8, <2>4, <2>6, <3>1, <3>2 DEF Lasts, Counter
    <3> QED
        BY <1>2, <1>8, <2>4, <3>3 DEF DayCounted, Value, Lasts
  <2> QED
      BY <2>4, <2>5, <2>6
<1>9. CASE Today' = Today + 1 /\ now' % DayLength = 0
  <2>1. counter'[<<"tk", Today'>>] = Absent /\ used'[Today'] = 0
      BY <1>1, <1>4, <1>9
  <2>2. DayCounted'
      BY <2>1 DEF DayCounted, Value, Absent
  <2>3. DayWithin'
      BY <1>7, <2>1 DEF DayWithin
  <2> QED
      BY <1>5, <1>6, <2>2, <2>3 DEF DayInv
<1> QED
    BY <1>1, <1>8, <1>9

LEMMA DayStep == TypeOK /\ TypeOK' /\ DayInv /\ [Next]_vars => DayInv'
<1> SUFFICES ASSUME TypeOK, TypeOK', DayInv, [Next]_vars PROVE DayInv'
    OBVIOUS
<1>1. /\ counter \in [Names -> Counter] /\ Minute \in Minutes /\ Today \in Days
      /\ MinuteLength \in 0..DayLength
    BY ClockTypes, MinutesFitDays, RateLimitsAssumption DEF TypeOK, Counter
<1>2. ASSUME NEW n \in Names, n[1] # "tk", NEW by \in Nat, NEW time \in 0..DayLength,
             Raise(n, by) \/ ExpireIn(n, time)
      PROVE  \A d \in Days : counter'[<<"tk", d>>] = counter[<<"tk", d>>]
  <2>1. \A d \in Days : <<"tk", d>> \in Names /\ <<"tk", d>>[1] = "tk"
      BY NamesBuilt
  <2> QED
      BY <1>1, <1>2, <2>1, CounterEffects
<1>3. ASSUME NEW r \in Requests, Arrive(r) \/ ExpireMinute(r) PROVE DayInv'
  <2>1. request[r].window \in Minutes
      BY DEF TypeOK, Request
  <2>2. \A d \in Days : counter'[<<"tk", d>>] = counter[<<"tk", d>>]
    <3>1. \A m \in Minutes : <<"rl", m>> \in Names /\ <<"rl", m>>[1] # "tk"
        BY NamesBuilt
    <3>2. \/ UNCHANGED counter \/ Raise(<<"rl", Minute>>, 1)
          \/ ExpireIn(<<"rl", request[r].window>>, MinuteLength)
        BY <1>3 DEF Arrive, ExpireMinute
    <3>3. 1 \in Nat /\ 0 \in Nat /\ 0 \in 0..DayLength
        BY RateLimitsAssumption
    <3> QED
        BY <1>1, <1>2, <2>1, <3>1, <3>2, <3>3
  <2>3. /\ request'[r].pc \notin CommittedPoints \cup {"expireTokens"}
        /\ \A q \in Requests \ {r} : request'[q] = request[q]
    <3>1. request' = [request EXCEPT ![r] = request'[r]]
        BY <1>3 DEF Arrive, ExpireMinute, Ends, Goto, TypeOK, Request
    <3>2. ASSUME Arrive(r) PROVE request'[r].pc \in {"idle", "tokens", "expireMinute"}
      <4> DEFINE c == Value(<<"rl", Minute>>) + 1
      <4>1. CASE RpmLimit = 0
          BY <3>2, <4>1 DEF Arrive, TypeOK, Idle
      <4>2. CASE RpmLimit # 0
        <5>1. request'[r] = (IF c > 1 /\ OverRpm(c) THEN Idle
                             ELSE [Idle EXCEPT !.pc = IF c = 1 THEN "expireMinute" ELSE "tokens",
                                               !.window = Minute, !.count = c])
            BY <3>2, <4>2 DEF Arrive, TypeOK
        <5> HIDE DEF c
        <5>2. CASE c > 1 /\ OverRpm(c)
            BY <5>1, <5>2 DEF Idle
        <5>3. CASE ~ (c > 1 /\ OverRpm(c))
          <6>1. PICK p \in {"expireMinute", "tokens"} :
                    request'[r] = [Idle EXCEPT !.pc = p, !.window = Minute, !.count = c]
              BY <5>1, <5>3
          <6> QED
              BY <6>1 DEF Idle
        <5> QED
            BY <5>2, <5>3
      <4> QED
          BY <4>1, <4>2
    <3>3. request'[r].pc \in {"idle", "tokens", "expireMinute"}
        BY <1>3, <3>2 DEF ExpireMinute, Ends, Goto, TypeOK, Request, Idle
    <3> QED
        BY <3>1, <3>3 DEF CommittedPoints, TypeOK
  <2>4. UNCHANGED <<now, used>>
      BY <1>3 DEF Arrive, ExpireMinute
  <2> QED
      BY <2>2, <2>3, <2>4, DaysKept
<1>4. ASSUME NEW r \in Requests, CheckCost(r) \/ NothingUsed(r) \/ RedisFails(r) PROVE DayInv'
  <2>1. \A q \in Requests :
              /\ request'[q].pc \in CommittedPoints => request[q].pc \in CommittedPoints
              /\ request'[q].pc = "expireTokens" => request'[q] = request[q]
      BY <1>4 DEF CheckCost, NothingUsed, RedisFails, At, Ends, Idle, TypeOK, CommittedPoints
  <2> QED
      BY <1>4, <2>1, DaysKept DEF CheckCost, NothingUsed, RedisFails
<1>5. ASSUME NEW r \in Requests, CountCost(r) \/ ExpireCost(r) PROVE DayInv'
  <2>1. request[r].day \in Days /\ request[r].ttl \in 0..DayLength /\ request[r].cost \in Nat
      BY DEF TypeOK, Request
  <2>2. \A d \in Days : counter'[<<"tk", d>>] = counter[<<"tk", d>>]
    <3>1. \A d \in Days : <<"cs", d>> \in Names /\ <<"cs", d>>[1] # "tk"
        BY NamesBuilt
    <3>2. Raise(<<"cs", Today>>, request[r].cost) \/ ExpireIn(<<"cs", request[r].day>>, request[r].ttl)
        BY <1>5 DEF CountCost, ExpireCost
    <3> QED
        BY <1>1, <1>2, <2>1, <3>1, <3>2
  <2>3. \A q \in Requests :
              /\ request'[q].pc \in CommittedPoints => request[q].pc \in CommittedPoints
              /\ request'[q].pc = "expireTokens" => request'[q] = request[q]
      BY <1>5 DEF CountCost, ExpireCost, At, Ends, Idle, TypeOK, Request, CommittedPoints
  <2> QED
      BY <1>5, <2>2, <2>3, DaysKept DEF CountCost, ExpireCost
<1>6. CASE Crash \/ UNCHANGED vars
  <2>1. \A q \in Requests :
              /\ request'[q].pc \in CommittedPoints => request[q].pc \in CommittedPoints
              /\ request'[q].pc = "expireTokens" => request'[q] = request[q]
      BY <1>6 DEF Crash, vars, Idle, CommittedPoints
  <2> QED
      BY <1>6, <2>1, DaysKept DEF Crash, vars
<1> QED
    BY <1>3, <1>4, <1>5, <1>6, CheckDays, CountDays, ExpireDays, TickDays DEF Next

-----------------------------------------------------------------------------
(* The invariant, and what follows from it. *)

(* The clock, the counters and the requests keep the inductive invariant. *)
THEOREM Invariance == Spec => []IInv
<1>1. IInv /\ [Next]_vars => IInv'
    BY NextTypes, MinuteStep, DayStep DEF IInv
<1> QED
    BY <1>1, InitIInv, PTL DEF Spec

(* The counters are named by a minute or a day the clock can show, and kept for a *)
(* day at most.                                                                  *)
THEOREM TypeCorrect == Spec => []TypeOK
<1>1. IInv => TypeOK
    BY DEF IInv
<1> QED
    BY <1>1, Invariance, PTL

(* enforceKeyLimits lets no more than rateLimitRpm requests of one clock minute   *)
(* through, whatever the EXPIRE of the counter does, however late the checks run, *)
(* and whatever fails.                                                           *)
THEOREM RequestsLimited == Spec => []RequestsWithinLimit
<1>1. IInv => RequestsWithinLimit
  <2> SUFFICES ASSUME IInv, RpmLimit > 0, NEW m \in Minutes PROVE admitted[m] <= RpmLimit
      BY DEF RequestsWithinLimit
  <2>1. MinuteWithin(m) /\ admitted[m] \in Nat
      BY DEF IInv, MinuteInv, TypeOK
  <2>2. Waiting(m) \in SUBSET Requests
      BY DEF Waiting
  <2> QED
      BY <2>1, <2>2, Sizes, RateLimitsAssumption DEF MinuteWithin
<1> QED
    BY <1>1, Invariance, PTL

(* The daily tokens overshoot by no more than one answer for every request that   *)
(* is under way at once, until the last second of the day.                        *)
THEOREM TokensLimited == Spec => []TokensWithinLimit
<1>1. IInv => TokensWithinLimit
  <2> SUFFICES ASSUME IInv PROVE TokensWithinLimit
      OBVIOUS
  <2>1. /\ MaxTokens * Cardinality(Committed) \in Nat /\ used[Today] \in Nat
        /\ MaxTokens * Cardinality(Requests) \in Nat /\ TokenLimit \in Nat
      BY DayTypes DEF IInv, TypeOK
  <2> QED
      BY <2>1 DEF IInv, DayInv, DayWithin, TokensWithinLimit, LastSecond
<1> QED
    BY <1>1, Invariance, PTL
=============================================================================
