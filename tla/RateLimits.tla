----------------------------- MODULE RateLimits -----------------------------
(***************************************************************************)
(* The limits of one API key (routes/v1.ts): enforceKeyLimits before the    *)
(* handler of a /v1 request, incrementDailyCounters after the answer.  The  *)
(* counters live in Redis and carry the minute or the day in their name.    *)
(*                                                                          *)
(* Time is counted in seconds from a midnight.  A command is executed in    *)
(* the second in which it is sent; its reply may take any time.  The        *)
(* handler does not wait for incrementDailyCounters, but a request is not   *)
(* over here before its counters are written.                               *)
(***************************************************************************)
EXTENDS Integers, FiniteSets

CONSTANTS
    Requests,     \* requests that may be under way at the same time
    RpmLimit,     \* rateLimitRpm, 0 = unlimited
    TokenLimit,   \* tokenLimitDaily, 0 = unlimited
    CostLimit,    \* costLimitDaily, 0 = unlimited
    Usages,       \* what an answer may have used: records of tokens and cost
    MaxTokens,    \* the most tokens an answer uses
    MinuteLength, \* 60
    DayLength,    \* 86400
    MaxTime,      \* bound on the time
    MaxArrivals,  \* bound on the number of requests
    Faults        \* what may fail: a subset of {"redis", "crash"}

ASSUME RateLimitsAssumption ==
    /\ IsFiniteSet(Requests)
    /\ {RpmLimit, TokenLimit, CostLimit, MaxTokens, MaxTime, MaxArrivals} \subseteq Nat
    /\ Usages \subseteq [tokens : 0..MaxTokens, cost : Nat]
    /\ MinuteLength \in Nat \ {0}
    /\ DayLength \in Nat \ {0}
    /\ (DayLength % MinuteLength) = 0
    /\ Faults \subseteq {"redis", "crash"}

VARIABLES
    now,       \* seconds since the first midnight
    counter,   \* Redis: value and time left of every counter
    request,   \* each request: its await (pc) and the locals it still needs
    arrivals,  \* requests so far
    admitted,  \* history: requests let through, by the minute they came in
    used       \* history: tokens counted, by day

vars == <<now, counter, request, arrivals, admitted, used>>

NoTtl == -1
Absent == [value |-> 0, ttl |-> 0]

Minute == now \div MinuteLength
Today == now \div DayLength
Minutes == 0..(MaxTime \div MinuteLength)
Days == 0..(MaxTime \div DayLength)

(* rl:<id>:<minute>, tk:<id>:<day> and cs:<id>:<day> *)
Names == ({"rl"} \X Minutes) \cup ({"tk", "cs"} \X Days)

Points == {"idle", "expireMinute", "tokens", "cost", "call", "expireTokens", "addCost", "expireCost"}

(* window: the minute of its rl: counter; count: what INCR returned for it;   *)
(* cost: of its answer; ttl: secondsUntilMidnightUTC() when the answer came;  *)
(* day: of the counter it has just raised.                                    *)
Request == [pc : Points, window : Minutes, count : Nat, cost : Nat, ttl : 0..DayLength, day : Days]
Idle == [pc |-> "idle", window |-> 0, count |-> 0, cost |-> 0, ttl |-> 0, day |-> 0]

(* Type invariant: the names of the counters stay within the minutes and days *)
(* that the clock can show, and no counter of a day is kept for more than one. *)
TypeOK ==
    /\ now \in 0..MaxTime
    /\ counter \in [Names -> [value : Nat, ttl : 0..DayLength \cup {NoTtl}]]
    /\ request \in [Requests -> Request]
    /\ arrivals \in 0..MaxArrivals
    /\ admitted \in [Minutes -> Nat]
    /\ used \in [Days -> Nat]

Init ==
    /\ now \in 0..MaxTime
    /\ now < DayLength
    /\ counter = [n \in Names |-> Absent]
    /\ request = [r \in Requests |-> Idle]
    /\ arrivals = 0
    /\ admitted = [m \in Minutes |-> 0]
    /\ used = [d \in Days |-> 0]

At(r, p) == request[r].pc = p
Goto(r, p) == request' = [request EXCEPT ![r].pc = p]
Ends(r) == request' = [request EXCEPT ![r] = Idle]

(* INCR, INCRBY, INCRBYFLOAT: the expiry of a counter stays, a new one has none. *)
Raise(name, by) ==
    counter' = [counter EXCEPT ![name] =
                   [value |-> @.value + by, ttl |-> IF @ = Absent THEN NoTtl ELSE @.ttl]]

(* EXPIRE, which deletes when the time is 0. *)
ExpireIn(name, time) ==
    counter' = [counter EXCEPT ![name] =
                   IF @ = Absent \/ time = 0 THEN Absent ELSE [@ EXCEPT !.ttl = time]]

Value(name) == counter[name].value

-----------------------------------------------------------------------------
(* enforceKeyLimits. *)

OverRpm_ByOne(c) == RpmLimit > 0 /\ c > RpmLimit + 1  \* mutant: off by one
OverRpm(c) == RpmLimit > 0 /\ c > RpmLimit

OverDaily(limit, name) == limit > 0 /\ Value(name) >= limit

(* With a limit of 0 the minute is not counted at all. *)
Arrive(r) ==
    /\ At(r, "idle") /\ arrivals < MaxArrivals
    /\ arrivals' = arrivals + 1
    /\ IF RpmLimit = 0
       THEN /\ request' = [request EXCEPT ![r] = [Idle EXCEPT !.pc = "tokens", !.window = Minute]]
            /\ UNCHANGED counter
       ELSE LET c == Value(<<"rl", Minute>>) + 1
            IN  /\ Raise(<<"rl", Minute>>, 1)
                /\ request' = [request EXCEPT ![r] =
                       IF c > 1 /\ OverRpm(c) THEN Idle
                       ELSE [Idle EXCEPT !.pc = IF c = 1 THEN "expireMinute" ELSE "tokens",
                                         !.window = Minute, !.count = c]]
    /\ UNCHANGED <<now, admitted, used>>

ExpireMinute(r) ==
    /\ At(r, "expireMinute")
    /\ ExpireIn(<<"rl", request[r].window>>, MinuteLength)
    /\ IF OverRpm(request[r].count) THEN Ends(r) ELSE Goto(r, "tokens")
    /\ UNCHANGED <<now, arrivals, admitted, used>>

CheckTokens(r) ==
    /\ At(r, "tokens")
    /\ IF OverDaily(TokenLimit, <<"tk", Today>>) THEN Ends(r) ELSE Goto(r, "cost")
    /\ UNCHANGED <<now, counter, arrivals, admitted, used>>

CheckCost(r) ==
    /\ At(r, "cost")
    /\ IF OverDaily(CostLimit, <<"cs", Today>>)
       THEN Ends(r) /\ UNCHANGED admitted
       ELSE /\ request' = [request EXCEPT ![r] = [Idle EXCEPT !.pc = "call"]]
            /\ admitted' = [admitted EXCEPT ![request[r].window] = @ + 1]
    /\ UNCHANGED <<now, counter, arrivals, used>>

-----------------------------------------------------------------------------
(* incrementDailyCounters. *)

(* Mutant: the daily counters expire with the minute. *)
SecondsUntilMidnight_OfMinute == {MinuteLength}

(* Mutant: until the midnight after the next. *)
SecondsUntilMidnight_NextDay == {2 * DayLength - (now % DayLength)}

(* Whole seconds: one less than what is left of the day unless a second has *)
(* just begun.                                                              *)
SecondsUntilMidnight ==
    LET left == DayLength - (now % DayLength)
    IN  {left, left - 1}

(* The answer comes: ttl is computed, and tokens are counted on this day. *)
CountTokens(r) ==
    /\ At(r, "call")
    /\ \E u \in Usages, t \in SecondsUntilMidnight :
          /\ u.tokens > 0
          /\ Raise(<<"tk", Today>>, u.tokens)
          /\ used' = [used EXCEPT ![Today] = @ + u.tokens]
          /\ request' = [request EXCEPT ![r] =
                 [Idle EXCEPT !.pc = "expireTokens", !.cost = u.cost, !.ttl = t, !.day = Today]]
    /\ UNCHANGED <<now, arrivals, admitted>>

(* An answer without usage, or an error: nothing is counted. *)
NothingUsed(r) ==
    /\ At(r, "call")
    /\ Ends(r)
    /\ UNCHANGED <<now, counter, arrivals, admitted, used>>

ExpireTokens(r) ==
    /\ At(r, "expireTokens")
    /\ ExpireIn(<<"tk", request[r].day>>, request[r].ttl)
    /\ IF request[r].cost > 0 THEN Goto(r, "addCost") ELSE Ends(r)
    /\ UNCHANGED <<now, arrivals, admitted, used>>

(* The cost is counted on the day it is by now. *)
CountCost(r) ==
    /\ At(r, "addCost")
    /\ Raise(<<"cs", Today>>, request[r].cost)
    /\ request' = [request EXCEPT ![r].pc = "expireCost", ![r].day = Today]
    /\ UNCHANGED <<now, arrivals, admitted, used>>

(* ... but expires with the ttl computed when the answer came. *)
ExpireCost(r) ==
    /\ At(r, "expireCost")
    /\ ExpireIn(<<"cs", request[r].day>>, request[r].ttl)
    /\ Ends(r)
    /\ UNCHANGED <<now, arrivals, admitted, used>>

-----------------------------------------------------------------------------
(* A command of enforceKeyLimits is rejected: the request ends with a 500. *)
RedisFails(r) ==
    /\ "redis" \in Faults
    /\ request[r].pc \in {"expireMinute", "tokens", "cost"}
    /\ Ends(r)
    /\ UNCHANGED <<now, counter, arrivals, admitted, used>>

(* The server dies and is started again.  This is also what becomes of a      *)
(* command of incrementDailyCounters that is rejected: nobody awaits its      *)
(* promise, and Node ends the process.                                        *)
Crash ==
    /\ "crash" \in Faults
    /\ \E r \in Requests : ~ At(r, "idle")
    /\ request' = [r \in Requests |-> Idle]
    /\ UNCHANGED <<now, counter, arrivals, admitted, used>>

Tick ==
    /\ now < MaxTime
    /\ now' = now + 1
    /\ counter' = [n \in Names |->
                      IF counter[n].ttl = 1 THEN Absent
                      ELSE IF counter[n].ttl > 1 THEN [counter[n] EXCEPT !.ttl = @ - 1]
                      ELSE counter[n]]
    /\ UNCHANGED <<request, arrivals, admitted, used>>

Next ==
    \/ \E r \in Requests :
          \/ Arrive(r) \/ ExpireMinute(r) \/ CheckTokens(r) \/ CheckCost(r)
          \/ CountTokens(r) \/ NothingUsed(r) \/ ExpireTokens(r)
          \/ CountCost(r) \/ ExpireCost(r)
          \/ RedisFails(r)
    \/ Crash
    \/ Tick

Spec == Init /\ [][Next]_vars

-----------------------------------------------------------------------------
(* Properties. *)

(* In no clock minute are more than rateLimitRpm requests let through, though  *)
(* the counter of a minute may expire, the EXPIRE of its first request fail or  *)
(* come late, and requests of one minute be checked in the next.               *)
RequestsWithinLimit ==
    RpmLimit > 0 => \A m \in Minutes : admitted[m] <= RpmLimit

(* The check comes before the call and the count after it, so requests under   *)
(* way together overshoot the daily limit, each by one answer at most; before   *)
(* the last second of the day no early expiry lets them overshoot by more.      *)
TokensWithinLimit ==
    TokenLimit > 0 /\ (now % DayLength) # DayLength - 1 =>
        used[Today] <= TokenLimit - 1 + MaxTokens * Cardinality(Requests)
=============================================================================
