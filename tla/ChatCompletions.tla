-------------------------- MODULE ChatCompletions --------------------------
(***************************************************************************)
(* POST /v1/chat/completions (routes/v1.ts): a request resolves its model  *)
(* to one provider key per pool, then tries these candidates in turn.      *)
(*                                                                         *)
(* Each request is a process whose program counter stands at an await of   *)
(* the handler; everything up to the next await is one step.  Redis        *)
(* commands of different requests interleave between the awaits, and so do *)
(* the expiries, a crash of the server and a loss of Redis.                *)
(*                                                                         *)
(* A pool is the list of active keys of one matching model's provider, in  *)
(* the order of the resolution chain; what puts models and keys there is   *)
(* not part of this module.                                                *)
(***************************************************************************)
EXTENDS KeyHealth

CONSTANTS
    Requests,     \* requests that may arrive, each once
    Chain,        \* the pools of the requested model, a sequence of sequences
    RoundRobin,   \* whether the model's strategy is round_robin
    Streams,      \* values of body.stream that requests may carry
    Codes,        \* statuses an upstream may answer with
    RetryAfters,  \* Retry-After headers of a 429
    Faults,       \* what may fail: a subset of FaultKinds
    NoKey         \* holds no key

FaultKinds == {"redis", "secret", "body", "crash", "flush"}

NoAnswer == 0
Unreachable == 502
NoHeader == -1
BadHeader == 0  \* "0", a negative number or an HTTP date: Redis refuses PX 0 and PX NaN

ASSUME ChatAssumption ==
    /\ IsFiniteSet(Requests)
    /\ Chain \in Seq(Seq(Keys))
    /\ RoundRobin \in BOOLEAN
    /\ Streams \subseteq BOOLEAN
    /\ Codes \subseteq Nat \ {NoAnswer, Unreachable}
    /\ RetryAfters \subseteq Nat \cup {NoHeader}
    /\ Faults \subseteq FaultKinds
    /\ NoKey \notin Keys

VARIABLES
    pc,          \* the await each request stands at
    stream,      \* body.stream
    at,          \* the pool being resolved, then the candidate being tried
    cands,       \* resolved.candidates, as the keys chosen
    avail,       \* selectKey: positions read as available
    load,        \* selectKey: inflight values read
    code,        \* status of the latest upstream call
    retryAfter,  \* its Retry-After header
    count,       \* recordError: what INCR failures returned
    holds,       \* the key whose inflight slot the request holds
    rows,        \* usage rows the request has appended
    outcome,     \* status sent to the client, or NoAnswer
    rrProvider   \* value of rr:provider:<model>

resolveVars == <<cands, avail, load, rrProvider>>
callVars == <<code, retryAfter, count>>
replyVars == <<rows, outcome>>
requestVars == <<pc, stream, at, resolveVars, callVars, holds, replyVars>>
vars == <<healthVars, requestVars>>

Points == {"start", "health", "pick", "resolved", "acquire", "fetch", "record", "expire",
           "open", "body", "relay", "decr", "floor", "settle", "done", "crashed"}

(* Type invariant: every local of a request and every Redis value has the    *)
(* shape the handler of routes/v1.ts and key-health.ts give it.              *)
TypeOK ==
    /\ HealthTypeOK
    /\ pc \in [Requests -> Points]
    /\ stream \in [Requests -> BOOLEAN]
    /\ at \in [Requests -> Nat]
    /\ cands \in [Requests -> Seq(Keys)]
    /\ avail \in [Requests -> SUBSET Nat]
    /\ load \in [Requests -> [Keys -> Int]]
    /\ code \in [Requests -> Nat]
    /\ retryAfter \in [Requests -> Nat \cup {NoHeader}]
    /\ count \in [Requests -> Nat]
    /\ holds \in [Requests -> Keys \cup {NoKey}]
    /\ rows \in [Requests -> Nat]
    /\ outcome \in [Requests -> Nat]
    /\ rrProvider \in Nat

Init ==
    /\ HealthInit
    /\ pc = [r \in Requests |-> "start"]
    /\ stream \in [Requests -> Streams]
    /\ at = [r \in Requests |-> 0]
    /\ cands = [r \in Requests |-> <<>>]
    /\ avail = [r \in Requests |-> {}]
    /\ load = [r \in Requests |-> [k \in Keys |-> 0]]
    /\ code = [r \in Requests |-> NoAnswer]
    /\ retryAfter = [r \in Requests |-> NoHeader]
    /\ count = [r \in Requests |-> 0]
    /\ holds = [r \in Requests |-> NoKey]
    /\ rows = [r \in Requests |-> 0]
    /\ outcome = [r \in Requests |-> NoAnswer]
    /\ rrProvider = 0

Goto(r, p) == pc' = [pc EXCEPT ![r] = p]
Reply(r, status) == outcome' = [outcome EXCEPT ![r] = status]

-----------------------------------------------------------------------------
(* resolveModel: one selectKey per pool, in the order of the chain. *)

Begin(r) ==
    /\ pc[r] = "start"
    /\ at' = [at EXCEPT ![r] = 1]
    /\ Goto(r, IF Chain = <<>> THEN "resolved" ELSE "health")
    /\ UNCHANGED <<healthVars, stream, resolveVars, callVars, holds, replyVars>>

NextPool(r) ==
    /\ at' = [at EXCEPT ![r] = @ + 1]
    /\ Goto(r, IF at[r] < Len(Chain) THEN "health" ELSE "resolved")

(* The pool is empty, or every key of it is in cooldown or circuit-open. *)
NoneAvailable(r) ==
    /\ pc[r] = "health"
    /\ AvailablePositions(Chain[at[r]]) = {}
    /\ NextPool(r)
    /\ UNCHANGED <<healthVars, stream, resolveVars, callVars, holds, replyVars>>

OneAvailable(r) ==
    /\ pc[r] = "health"
    /\ \E i \in DOMAIN Chain[at[r]] :
          /\ AvailablePositions(Chain[at[r]]) = {i}
          /\ cands' = [cands EXCEPT ![r] = Append(@, Chain[at[r]][i])]
    /\ NextPool(r)
    /\ UNCHANGED <<healthVars, stream, avail, load, rrProvider, callVars, holds, replyVars>>

SeveralAvailable(r) ==
    /\ pc[r] = "health"
    /\ Cardinality(AvailablePositions(Chain[at[r]])) > 1
    /\ avail' = [avail EXCEPT ![r] = AvailablePositions(Chain[at[r]])]
    /\ load' = [load EXCEPT ![r] = inflight]
    /\ Goto(r, "pick")
    /\ UNCHANGED <<healthVars, stream, at, cands, rrProvider, callVars, holds, replyVars>>

(* INCR rr:selectKey, then choose from what was read before it. *)
Pick(r) ==
    /\ pc[r] = "pick"
    /\ IncrRoundRobin
    /\ \E i \in Picks(Chain[at[r]], avail[r], load[r], rrSelect') :
          cands' = [cands EXCEPT ![r] = Append(@, Chain[at[r]][i])]
    /\ avail' = [avail EXCEPT ![r] = {}]
    /\ load' = [load EXCEPT ![r] = [k \in Keys |-> 0]]
    /\ NextPool(r)
    /\ UNCHANGED <<stream, rrProvider, callVars, holds, replyVars>>

(* Mutant: only the model that is not found is answered. *)
NoCandidate_UnknownModelOnly(r) ==
    /\ pc[r] = "resolved"
    /\ cands[r] = <<>> /\ Chain = <<>>
    /\ Reply(r, 404)
    /\ Goto(r, "done")
    /\ UNCHANGED <<healthVars, stream, at, resolveVars, callVars, holds, rows>>

NoCandidate(r) ==
    /\ pc[r] = "resolved"
    /\ cands[r] = <<>>
    /\ Reply(r, IF Chain = <<>> THEN 404 ELSE 503)
    /\ Goto(r, "done")
    /\ UNCHANGED <<healthVars, stream, at, resolveVars, callVars, holds, rows>>

Rotated(s, n) == [i \in DOMAIN s |-> s[((i - 1 + n) % Len(s)) + 1]]

(* Mutant: the rotation uses the counter of the key selection. *)
ApplyStrategy_SharedCounter(r) ==
    /\ cands' = [cands EXCEPT ![r] = IF RoundRobin THEN Rotated(@, rrSelect) ELSE @]
    /\ UNCHANGED rrProvider

(* applyStrategy: round_robin rotates the candidates by INCR rr:provider, and *)
(* leaves them alone when Redis fails.                                        *)
ApplyStrategy(r) ==
    IF RoundRobin /\ Len(cands[r]) > 1
    THEN \/ /\ rrProvider' = rrProvider + 1
            /\ cands' = [cands EXCEPT ![r] = Rotated(@, rrProvider')]
         \/ /\ "redis" \in Faults
            /\ UNCHANGED <<rrProvider, cands>>
    ELSE UNCHANGED <<rrProvider, cands>>

StartAttempts(r) ==
    /\ pc[r] = "resolved"
    /\ cands[r] # <<>>
    /\ ApplyStrategy(r)
    /\ at' = [at EXCEPT ![r] = 1]
    /\ Goto(r, "acquire")
    /\ UNCHANGED <<healthVars, stream, avail, load, callVars, holds, replyVars>>

-----------------------------------------------------------------------------
(* One attempt: incrInflight, the upstream call, and the record of its result. *)

Key(r) == cands[r][at[r]]

Acquire(r) ==
    /\ pc[r] = "acquire"
    /\ IncrInflight(Key(r))
    /\ holds' = [holds EXCEPT ![r] = Key(r)]
    /\ Goto(r, "fetch")
    /\ UNCHANGED <<stream, at, resolveVars, callVars, replyVars>>

UpstreamAnswers(r) ==
    /\ pc[r] = "fetch"
    /\ \E c \in Codes, h \in RetryAfters :
          /\ code' = [code EXCEPT ![r] = c]
          /\ retryAfter' = [retryAfter EXCEPT ![r] = IF c = 429 THEN h ELSE NoHeader]
    /\ Goto(r, "record")
    /\ UNCHANGED <<healthVars, stream, at, resolveVars, count, holds, replyVars>>

(* fetch rejects, or the 120 s AbortSignal fires: the slot is given back first. *)
UpstreamUnreachable(r) ==
    /\ pc[r] = "fetch"
    /\ code' = [code EXCEPT ![r] = Unreachable]
    /\ Goto(r, "decr")
    /\ UNCHANGED <<healthVars, stream, at, resolveVars, retryAfter, count, holds, replyVars>>

(* An unreachable candidate records its error after the slot is back, an *)
(* answer before its body is read.                                       *)
AfterRecord_NoRelease(r) == "settle"  \* mutant: the slot is not given back
AfterRecord(r) == IF code[r] = Unreachable THEN "settle" ELSE "body"
AfterDecr(r) == IF code[r] = Unreachable THEN "record" ELSE "settle"

RecordSuccess(r) ==
    /\ pc[r] = "record"
    /\ code[r] = 200
    /\ ClearHealth(Key(r))
    /\ Goto(r, AfterRecord(r))
    /\ UNCHANGED <<stream, at, resolveVars, callVars, holds, replyVars>>

CooldownFor_NoDefault(h) == h  \* mutant: the header is used when there is none
CooldownFor(h) == IF h = NoHeader THEN CooldownTtl ELSE h

RecordRateLimit(r) ==
    /\ pc[r] = "record"
    /\ code[r] = 429
    /\ retryAfter[r] # BadHeader
    /\ SetCooldown(Key(r), CooldownFor(retryAfter[r]))
    /\ retryAfter' = [retryAfter EXCEPT ![r] = NoHeader]
    /\ Goto(r, AfterRecord(r))
    /\ UNCHANGED <<stream, at, resolveVars, code, count, holds, replyVars>>

RecordAuthError(r) ==
    /\ pc[r] = "record"
    /\ code[r] \in {401, 403}
    /\ SetCooldown(Key(r), AuthCooldownTtl)
    /\ Goto(r, AfterRecord(r))
    /\ UNCHANGED <<stream, at, resolveVars, callVars, holds, replyVars>>

RecordServerError(r) ==
    /\ pc[r] = "record"
    /\ code[r] >= 500
    /\ IncrFailures(Key(r))
    /\ count' = [count EXCEPT ![r] = failures'[Key(r)]]
    /\ Goto(r, "expire")
    /\ UNCHANGED <<stream, at, resolveVars, code, retryAfter, holds, replyVars>>

(* recordError does nothing for any other status. *)
RecordOther(r) ==
    /\ pc[r] = "record"
    /\ code[r] < 500 /\ code[r] \notin {200, 401, 403, 429}
    /\ Goto(r, AfterRecord(r))
    /\ UNCHANGED <<healthVars, stream, at, resolveVars, callVars, holds, replyVars>>

Expire(r) ==
    /\ pc[r] = "expire"
    /\ ExpireFailures(Key(r))
    /\ Goto(r, IF count[r] >= FailureThreshold THEN "open" ELSE AfterRecord(r))
    /\ count' = [count EXCEPT ![r] = 0]
    /\ UNCHANGED <<stream, at, resolveVars, code, retryAfter, holds, replyVars>>

Open(r) ==
    /\ pc[r] = "open"
    /\ OpenCircuit(Key(r))
    /\ Goto(r, AfterRecord(r))
    /\ UNCHANGED <<stream, at, resolveVars, callVars, holds, replyVars>>

-----------------------------------------------------------------------------
(* The body of the answer, the slot, and what follows the attempt. *)

ReadBody(r) ==
    /\ pc[r] = "body"
    /\ ~ (stream[r] /\ code[r] = 200)
    /\ Goto(r, "decr")
    /\ UNCHANGED <<healthVars, stream, at, resolveVars, callVars, holds, replyVars>>

(* The client has its status from the first byte on. *)
Commit(r) ==
    /\ pc[r] = "body"
    /\ stream[r] /\ code[r] = 200
    /\ Reply(r, 200)
    /\ Goto(r, "relay")
    /\ UNCHANGED <<healthVars, stream, at, resolveVars, callVars, holds, rows>>

(* The stream ends or breaks; the finally block runs in both cases. *)
EndRelay(r) ==
    /\ pc[r] = "relay"
    /\ Goto(r, "decr")
    /\ UNCHANGED <<healthVars, stream, at, resolveVars, callVars, holds, replyVars>>

AfterRelease_NoFloor(r, left) == AfterDecr(r)  \* mutant: a negative counter stays
AfterRelease(r, left) == IF left < 0 THEN "floor" ELSE AfterDecr(r)

Release(r) ==
    /\ pc[r] = "decr"
    /\ DecrInflight(Key(r))
    /\ holds' = [holds EXCEPT ![r] = NoKey]
    /\ Goto(r, AfterRelease(r, inflight'[Key(r)]))
    /\ UNCHANGED <<stream, at, resolveVars, callVars, replyVars>>

Floor(r) ==
    /\ pc[r] = "floor"
    /\ FloorInflight(Key(r))
    /\ Goto(r, AfterDecr(r))
    /\ UNCHANGED <<stream, at, resolveVars, callVars, holds, replyVars>>

Retryable(c) == c \in {403, 404, 429} \/ c >= 500

IsLast_TooEarly(r) == at[r] + 1 >= Len(cands[r])  \* mutant: off by one
IsLast(r) == at[r] = Len(cands[r])

Logged_AnswersOnly(r) == rows[r] + (IF code[r] = 200 THEN 1 ELSE 0)  \* mutant
Logged(r) == rows[r] + 1

(* logUsage, then the next candidate or the answer. *)
Settle(r) ==
    /\ pc[r] = "settle"
    /\ rows' = [rows EXCEPT ![r] = Logged(r)]
    /\ IF Retryable(code[r]) /\ ~ IsLast(r)
       THEN /\ at' = [at EXCEPT ![r] = @ + 1]
            /\ Goto(r, "acquire")
            /\ UNCHANGED outcome
       ELSE /\ Reply(r, code[r])
            /\ Goto(r, "done")
            /\ UNCHANGED at
    /\ UNCHANGED <<healthVars, stream, resolveVars, callVars, holds>>

-----------------------------------------------------------------------------
(* What leaves the handler early. *)

(* An exception leaves the handler: a 500, unless the answer is under way. *)
Abandon(r) ==
    /\ Reply(r, IF outcome[r] = NoAnswer THEN 500 ELSE outcome[r])
    /\ Goto(r, "done")
    /\ UNCHANGED <<stream, at, resolveVars, callVars, holds, rows>>

Throw(r) == Abandon(r) /\ UNCHANGED healthVars

RecordRefused(r) ==
    /\ pc[r] = "record"
    /\ code[r] = 429
    /\ retryAfter[r] = BadHeader
    /\ Throw(r)

(* text() rejects, or normalizeResponse cannot parse what it got. *)
BodyBreaks(r) ==
    /\ "body" \in Faults
    /\ pc[r] = "body"
    /\ ~ stream[r]
    /\ Throw(r)

(* decrypt throws on the secret of the key that selectKey returned. *)
SecretUnreadable(r) ==
    /\ "secret" \in Faults
    /\ \/ pc[r] = "pick" /\ IncrRoundRobin
       \/ /\ pc[r] = "health" /\ Cardinality(AvailablePositions(Chain[at[r]])) = 1
          /\ UNCHANGED healthVars
    /\ Abandon(r)

(* A command is rejected without having been executed. *)
RedisFails(r) ==
    /\ "redis" \in Faults
    /\ pc[r] \in {"health", "pick", "acquire", "record", "expire", "open", "decr", "floor"}
    /\ Throw(r)

Live(r) == pc[r] \notin {"start", "done", "crashed"}

(* The server process dies, and every request it was serving with it. *)
Crash ==
    /\ "crash" \in Faults
    /\ \E r \in Requests : Live(r)
    /\ pc' = [r \in Requests |-> IF Live(r) THEN "crashed" ELSE pc[r]]
    /\ UNCHANGED <<healthVars, stream, at, resolveVars, callVars, holds, replyVars>>

RedisLost ==
    /\ "flush" \in Faults
    /\ Flush
    /\ rrProvider' = 0
    /\ UNCHANGED <<pc, stream, at, cands, avail, load, callVars, holds, replyVars>>

TimePasses == Tick /\ UNCHANGED requestVars

Step(r) ==
    \/ Begin(r) \/ NoneAvailable(r) \/ OneAvailable(r) \/ SeveralAvailable(r) \/ Pick(r)
    \/ NoCandidate(r) \/ StartAttempts(r)
    \/ Acquire(r) \/ UpstreamAnswers(r) \/ UpstreamUnreachable(r)
    \/ RecordSuccess(r) \/ RecordRateLimit(r) \/ RecordAuthError(r)
    \/ RecordServerError(r) \/ RecordOther(r) \/ RecordRefused(r)
    \/ Expire(r) \/ Open(r)
    \/ ReadBody(r) \/ Commit(r) \/ EndRelay(r) \/ Release(r) \/ Floor(r) \/ Settle(r)

Fault(r) == BodyBreaks(r) \/ SecretUnreadable(r) \/ RedisFails(r)

Next ==
    \/ \E r \in Requests : Step(r) \/ Fault(r)
    \/ Crash
    \/ RedisLost
    \/ TimePasses

Spec == Init /\ [][Next]_vars

(* A request that has begun is driven by the event loop, every Redis command *)
(* by its retry limit, and the upstream call with its body by the 120 s      *)
(* AbortSignal; time passes.                                                 *)
Fairness == /\ \A r \in Requests : WF_vars(Live(r) /\ Step(r))
            /\ WF_vars(TimePasses)

FairSpec == Spec /\ Fairness

-----------------------------------------------------------------------------
(* Properties. *)

Holders(k) == {r \in Requests : holds[r] = k}

(* As long as Redis is not lost, pk:<id>:inflight is the number of requests  *)
(* that took a slot of the key and have not given it back, at every instant  *)
(* between any two commands of any requests (incrInflight, decrInflight).    *)
InflightMatchesHolders ==
    \A k \in Keys : inflight[k] = Cardinality(Holders(k))

(* When Redis may be lost at any time, the counter can only undercount: a    *)
(* key is never taken for busier than it is (decrInflight's floor).          *)
InflightNeverOvercounts ==
    \A k \in Keys : inflight[k] <= Cardinality(Holders(k))

(* decrInflight floors at 0: a negative value is seen only while the request *)
(* that caused it is about to reset it.                                      *)
NegativeOnlyUntilFloored ==
    \A k \in Keys : inflight[k] < 0 => \E r \in Requests : pc[r] = "floor" /\ Key(r) = k

(* incrInflight then decrInflight nets to zero over a request: one that has  *)
(* been answered holds no slot of any key.                                   *)
NoSlotAfterAnswer ==
    \A r \in Requests : pc[r] = "done" => holds[r] = NoKey

(* An error that calls for the next candidate (403, 404, 429, 5xx, or an     *)
(* unreachable upstream) reaches the client only after the last candidate.   *)
ErrorOnlyAfterLastCandidate ==
    \A r \in Requests :
        pc[r] = "done" /\ cands[r] # <<>> /\ Retryable(outcome[r]) => at[r] = Len(cands[r])

(* Every upstream call leaves exactly one usage row, whichever way the        *)
(* request went through its candidates.                                       *)
OneRowPerAttempt ==
    \A r \in Requests : pc[r] = "done" /\ cands[r] # <<>> => rows[r] = at[r]

(* A failure counter without an expiry would add up errors for ever: there   *)
(* is one only while a request is about to send its EXPIRE.                  *)
FailureCounterExpires ==
    \A k \in Keys : failuresTtl[k] = NoTtl => \E r \in Requests : pc[r] = "expire" /\ Key(r) = k

ChosenBy(k) == {r \in Requests : \E i \in DOMAIN cands[r] : cands[r][i] = k}

RoundRobinBalanced ==
    \A i \in DOMAIN Chain : \A m, n \in DOMAIN Chain[i] :
        Cardinality(ChosenBy(Chain[i][m])) <= Cardinality(ChosenBy(Chain[i][n])) + 1

FirstTriedIn(i) ==
    {r \in Requests : /\ pc[r] \notin {"start", "health", "pick", "resolved"}
                      /\ cands[r][1] \in {Chain[i][n] : n \in DOMAIN Chain[i]}}

ProvidersBalanced ==
    \A i, j \in DOMAIN Chain : Cardinality(FirstTriedIn(i)) <= Cardinality(FirstTriedIn(j)) + 1

(* selectKey hands out the keys of a pool in turn: while all of them stay     *)
(* available, no key has been chosen for two requests more than another of   *)
(* its pool.  And with strategy round_robin the first candidate of the        *)
(* requests is each pool's in turn, so long as every pool has an available    *)
(* key (applyStrategy).                                                      *)
RotationIsFair == RoundRobinBalanced /\ ProvidersBalanced

(* Every request is answered, whatever the upstreams do and whatever fails,    *)
(* unless its server dies.                                                    *)
RequestsFinish ==
    \A r \in Requests : Live(r) ~> ~ Live(r)

(* No key is out of rotation for ever: cooldowns and circuits run out.        *)
KeysRecover ==
    \A k \in Keys : ~ Available(k) ~> Available(k)
=============================================================================
