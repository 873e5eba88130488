----------------------- MODULE ChatCompletionsProofs -----------------------
(***************************************************************************)
(* The slots, the candidates, the usage rows, the failure counters and the *)
(* rotations of the chat completions handler, for any requests, pools and  *)
(* keys.                                                                   *)
(***************************************************************************)
EXTENDS CircuitHistory, FiniteSetTheorems, TLAPS

-----------------------------------------------------------------------------
(* Operators the handler is built from. *)

LEMMA RotatedInSeq ==
    ASSUME NEW S, NEW s \in Seq(S), Len(s) > 0, NEW n \in Nat
    PROVE  \E p \in Seq(S) : p = Rotated(s, n) /\ Len(p) = Len(s)
<1>1. Len(s) \in Nat \ {0} /\ DOMAIN s = 1..Len(s)
    OBVIOUS
<1>2. ASSUME NEW i \in 1..Len(s) PROVE s[((i - 1 + n) % Len(s)) + 1] \in S
  <2>1. PICK m \in Nat : m = i - 1 + n
      BY <1>1
  <2>2. m % Len(s) \in 0..(Len(s) - 1)
      BY <1>1
  <2>3. (m % Len(s)) + 1 \in 1..Len(s)
      BY <1>1, <2>2
  <2> QED
      BY <1>1, <2>1, <2>3
<1>3. PICK p : p = [i \in 1..Len(s) |-> s[((i - 1 + n) % Len(s)) + 1]]
    OBVIOUS
<1>4. p \in Seq(S) /\ Len(p) = Len(s)
    BY <1>1, <1>2, <1>3
<1> QED
    BY <1>1, <1>3, <1>4 DEF Rotated

(* The commands that count keep the types of the health state. *)
LEMMA IncrInflightType == ASSUME HealthTypeOK, NEW k \in Keys, IncrInflight(k) PROVE HealthTypeOK'
<1>1. inflight' \in [Keys -> Int]
    BY DEF HealthTypeOK, IncrInflight
<1> QED
    BY <1>1 DEF HealthTypeOK, IncrInflight

LEMMA DecrInflightType == ASSUME HealthTypeOK, NEW k \in Keys, DecrInflight(k) PROVE HealthTypeOK'
<1>1. inflight' \in [Keys -> Int]
    BY DEF HealthTypeOK, DecrInflight
<1> QED
    BY <1>1 DEF HealthTypeOK, DecrInflight

LEMMA FloorInflightType == ASSUME HealthTypeOK, NEW k \in Keys, FloorInflight(k) PROVE HealthTypeOK'
<1>1. inflight' \in [Keys -> Int]
    BY DEF HealthTypeOK, FloorInflight
<1> QED
    BY <1>1 DEF HealthTypeOK, FloorInflight

LEMMA IncrFailuresType == ASSUME HealthTypeOK, NEW k \in Keys, IncrFailures(k) PROVE HealthTypeOK'
<1>1. failures' \in [Keys -> Nat]
    BY DEF HealthTypeOK, IncrFailures
<1>2. failuresTtl' \in [Keys -> Nat \cup {NoTtl}]
    BY DEF HealthTypeOK, IncrFailures, NoTtl
<1> QED
    BY <1>1, <1>2 DEF HealthTypeOK, IncrFailures

LEMMA InitTypeOK == Init => TypeOK
    BY KeyHealthAssumption, ChatAssumption
       DEF Init, HealthInit, TypeOK, HealthTypeOK, Points, NoAnswer, NoHeader

-----------------------------------------------------------------------------
(* The inductive invariant. *)

Resolving == {"health", "pick"}
Attempting == {"acquire", "fetch", "record", "expire", "open", "body", "relay", "decr",
               "floor", "settle"}
Recording == {"record", "expire", "open"}

HasSlot(r) == pc[r] \in {"fetch", "body", "relay", "decr"}
              \/ (pc[r] \in Recording /\ code[r] # Unreachable)
HasNone(r) == pc[r] \in {"start", "health", "pick", "resolved", "acquire", "floor", "settle"}
              \/ (pc[r] \in Recording /\ code[r] = Unreachable)

(* Where a request stands bounds its position, and tells whether it has a slot. *)
Phase(r) ==
    /\ retryAfter[r] \in RetryAfters \cup {NoHeader}
    /\ pc[r] \in Resolving => at[r] \in DOMAIN Chain
    /\ pc[r] = "pick" => avail[r] \subseteq DOMAIN Chain[at[r]]
    /\ pc[r] \in Attempting => at[r] \in 1..Len(cands[r])
    /\ HasSlot(r) => holds[r] = Key(r)
    /\ HasNone(r) => holds[r] = NoKey

(* Nothing makes the handler throw. *)
Orderly == Faults \cap {"redis", "secret", "body"} = {} /\ BadHeader \notin RetryAfters

(* What then holds of a request on its way and at its end. *)
OrderlyPhase(r) ==
    /\ pc[r] \in {"start", "health", "pick", "resolved"} => rows[r] = 0
    /\ pc[r] \in Attempting => rows[r] = at[r] - 1
    /\ pc[r] = "done" => holds[r] = NoKey
    /\ pc[r] = "done" /\ cands[r] # <<>> =>
          rows[r] = at[r] /\ (Retryable(outcome[r]) => at[r] = Len(cands[r]))

LEMMA TypePreserved ==
    ASSUME TypeOK, NEW r \in Requests, Phase(r), Step(r) \/ Fault(r)
    PROVE  TypeOK'
<1>k. /\ pc[r] \in Attempting => Key(r) \in Keys
      /\ pc[r] \in Resolving => Chain[at[r]] \in Seq(Keys) /\ at[r] \in Nat
    BY ChatAssumption DEF TypeOK, Phase, Key
<1>1. CASE Begin(r)
    BY <1>1, KeyHealthAssumption, ChatAssumption
       DEF TypeOK, HealthTypeOK, healthVars, resolveVars, callVars, replyVars, Goto, Points, Begin
<1>2. CASE NoneAvailable(r)
  <2>1. at' \in [Requests -> Nat] /\ pc' \in [Requests -> Points]
      BY <1>2 DEF TypeOK, NoneAvailable, NextPool, Goto, Points
  <2> QED
      BY <1>2, <2>1 DEF TypeOK, HealthTypeOK, healthVars, resolveVars, callVars, replyVars, NoneAvailable
<1>3. CASE OneAvailable(r)
  <2>1. at' \in [Requests -> Nat] /\ pc' \in [Requests -> Points]
      BY <1>3 DEF TypeOK, OneAvailable, NextPool, Goto, Points
  <2>2. PICK k \in Keys : cands' = [cands EXCEPT ![r] = Append(@, k)]
    <3>1. PICK i \in DOMAIN Chain[at[r]] : cands' = [cands EXCEPT ![r] = Append(@, Chain[at[r]][i])]
        BY <1>3 DEF OneAvailable
    <3>2. Chain[at[r]][i] \in Keys
        BY <1>k, <1>3, <3>1 DEF OneAvailable, Resolving
    <3> QED
        BY <3>1, <3>2
  <2>3. cands' \in [Requests -> Seq(Keys)]
      BY <2>2 DEF TypeOK
  <2> QED
      BY <1>3, <2>1, <2>3 DEF TypeOK, HealthTypeOK, healthVars, resolveVars, callVars, replyVars, OneAvailable
<1>4. CASE SeveralAvailable(r)
  <2>1. pc' \in [Requests -> Points] /\ load' \in [Requests -> [Keys -> Int]]
      BY <1>4 DEF TypeOK, HealthTypeOK, SeveralAvailable, Goto, Points
  <2>2. AvailablePositions(Chain[at[r]]) \subseteq Nat
      BY <1>k, <1>4 DEF SeveralAvailable, Resolving, AvailablePositions
  <2>3. avail' \in [Requests -> SUBSET Nat]
      BY <1>4, <2>2 DEF TypeOK, SeveralAvailable
  <2> QED
      BY <1>4, <2>1, <2>3 DEF TypeOK, HealthTypeOK, healthVars, resolveVars, callVars, replyVars, SeveralAvailable
<1>5. CASE Pick(r)
  <2>1. at' \in [Requests -> Nat] /\ pc' \in [Requests -> Points]
      BY <1>5 DEF TypeOK, Pick, NextPool, Goto, Points
  <2>2. PICK k \in Keys : cands' = [cands EXCEPT ![r] = Append(@, k)]
    <3>1. PICK i \in avail[r] : cands' = [cands EXCEPT ![r] = Append(@, Chain[at[r]][i])]
        BY <1>5 DEF Pick, Picks
    <3>2. i \in DOMAIN Chain[at[r]]
        BY <1>5, <3>1 DEF Pick, Phase
    <3>3. Chain[at[r]][i] \in Keys
        BY <1>k, <1>5, <3>2 DEF Pick, Resolving
    <3> QED
        BY <3>1, <3>3
  <2>3. cands' \in [Requests -> Seq(Keys)]
      BY <2>2 DEF TypeOK
  <2>4. avail' \in [Requests -> SUBSET Nat] /\ load' \in [Requests -> [Keys -> Int]]
      BY <1>5 DEF TypeOK, Pick
  <2>5. HealthTypeOK'
      BY <1>5 DEF TypeOK, HealthTypeOK, Pick, IncrRoundRobin
  <2> QED
      BY <1>5, <2>1, <2>3, <2>4, <2>5 DEF TypeOK, callVars, replyVars, Pick
<1>6. CASE NoCandidate(r)
    BY <1>6, KeyHealthAssumption, ChatAssumption
       DEF TypeOK, HealthTypeOK, healthVars, resolveVars, callVars, replyVars, Goto, Points, NoCandidate, Reply
<1>7. CASE StartAttempts(r)
  <2>1. at' \in [Requests -> Nat] /\ pc' \in [Requests -> Points]
      BY <1>7 DEF TypeOK, StartAttempts, Goto, Points
  <2>2. rrProvider' \in Nat /\ cands' \in [Requests -> Seq(Keys)]
    <3>1. CASE UNCHANGED <<rrProvider, cands>>
        BY <3>1 DEF TypeOK
    <3>2. CASE /\ Len(cands[r]) > 1
               /\ rrProvider' = rrProvider + 1
               /\ cands' = [cands EXCEPT ![r] = Rotated(@, rrProvider')]
      <4>1. rrProvider' \in Nat /\ cands[r] \in Seq(Keys) /\ Len(cands[r]) > 0
          BY <3>2 DEF TypeOK
      <4>2. Rotated(cands[r], rrProvider') \in Seq(Keys)
          BY <4>1, RotatedInSeq
      <4> QED
          BY <3>2, <4>1, <4>2 DEF TypeOK
    <3> QED
        BY <1>7, <3>1, <3>2 DEF StartAttempts, ApplyStrategy
  <2> QED
      BY <1>7, <2>1, <2>2 DEF TypeOK, HealthTypeOK, healthVars, callVars, replyVars, StartAttempts
<1>8. CASE Acquire(r)
  <2>1. holds' \in [Requests -> Keys \cup {NoKey}] /\ pc' \in [Requests -> Points]
      BY <1>k, <1>8 DEF TypeOK, Acquire, Attempting, Goto, Points
  <2>2. HealthTypeOK'
      BY <1>k, <1>8, IncrInflightType DEF TypeOK, Acquire, Attempting
  <2> QED
      BY <1>8, <2>1, <2>2 DEF TypeOK, resolveVars, callVars, replyVars, Acquire
<1>9. CASE UpstreamAnswers(r)
  <2>1. PICK c \in Codes, h \in RetryAfters :
           /\ code' = [code EXCEPT ![r] = c]
           /\ retryAfter' = [retryAfter EXCEPT ![r] = IF c = 429 THEN h ELSE NoHeader]
      BY <1>9 DEF UpstreamAnswers
  <2>2. c \in Nat /\ h \in Nat \cup {NoHeader}
      BY ChatAssumption
  <2>3. code' \in [Requests -> Nat] /\ retryAfter' \in [Requests -> Nat \cup {NoHeader}]
      BY <2>1, <2>2 DEF TypeOK
  <2>4. pc' \in [Requests -> Points]
      BY <1>9 DEF TypeOK, UpstreamAnswers, Goto, Points
  <2> QED
      BY <1>9, <2>3, <2>4 DEF TypeOK, HealthTypeOK, healthVars, resolveVars, replyVars, UpstreamAnswers
<1>10. CASE UpstreamUnreachable(r)
  <2>1. code' \in [Requests -> Nat] /\ pc' \in [Requests -> Points]
      BY <1>10 DEF TypeOK, UpstreamUnreachable, Unreachable, Goto, Points
  <2> QED
      BY <1>10, <2>1 DEF TypeOK, HealthTypeOK, healthVars, resolveVars, callVars, replyVars, UpstreamUnreachable
<1>11. CASE RecordSuccess(r)
    BY <1>11, KeyHealthAssumption, ChatAssumption
       DEF TypeOK, HealthTypeOK, healthVars, resolveVars, callVars, replyVars, Goto, Points, RecordSuccess, AfterRecord, ClearHealth, Key
<1>12. CASE RecordRateLimit(r)
  <2>1. CooldownFor(retryAfter[r]) \in Nat
      BY KeyHealthAssumption DEF TypeOK, CooldownFor
  <2>2. HealthTypeOK'
      BY <1>12, <2>1 DEF TypeOK, HealthTypeOK, RecordRateLimit, SetCooldown
  <2>3. retryAfter' \in [Requests -> Nat \cup {NoHeader}] /\ pc' \in [Requests -> Points]
      BY <1>12 DEF TypeOK, RecordRateLimit, AfterRecord, Goto, Points
  <2> QED
      BY <1>12, <2>2, <2>3 DEF TypeOK, resolveVars, callVars, replyVars, RecordRateLimit
<1>13. CASE RecordAuthError(r)
    BY <1>13, KeyHealthAssumption, ChatAssumption
       DEF TypeOK, HealthTypeOK, healthVars, resolveVars, callVars, replyVars, Goto, Points, RecordAuthError, AfterRecord, SetCooldown, Key
<1>14. CASE RecordServerError(r)
  <2>1. HealthTypeOK'
      BY <1>k, <1>14, IncrFailuresType DEF TypeOK, RecordServerError, Attempting
  <2>2. count' \in [Requests -> Nat] /\ pc' \in [Requests -> Points]
      BY <1>k, <1>14, <2>1
         DEF TypeOK, HealthTypeOK, RecordServerError, Attempting, Goto, Points
  <2> QED
      BY <1>14, <2>1, <2>2 DEF TypeOK, resolveVars, replyVars, RecordServerError
<1>15. CASE RecordOther(r)
    BY <1>15, KeyHealthAssumption, ChatAssumption
       DEF TypeOK, HealthTypeOK, healthVars, resolveVars, callVars, replyVars, Goto, Points, RecordOther, AfterRecord
<1>16. CASE Expire(r)
    BY <1>16, KeyHealthAssumption, ChatAssumption
       DEF TypeOK, HealthTypeOK, healthVars, resolveVars, callVars, replyVars, Goto, Points, Expire, AfterRecord, ExpireFailures, Key
<1>17. CASE Open(r)
    BY <1>17, KeyHealthAssumption, ChatAssumption
       DEF TypeOK, HealthTypeOK, healthVars, resolveVars, callVars, replyVars, Goto, Points, Open, AfterRecord, OpenCircuit, Key
<1>18. CASE ReadBody(r)
    BY <1>18, KeyHealthAssumption, ChatAssumption
       DEF TypeOK, HealthTypeOK, healthVars, resolveVars, callVars, replyVars, Goto, Points, ReadBody
<1>19. CASE Commit(r)
    BY <1>19, KeyHealthAssumption, ChatAssumption
       DEF TypeOK, HealthTypeOK, healthVars, resolveVars, callVars, replyVars, Goto, Points, Commit, Reply
<1>20. CASE EndRelay(r)
    BY <1>20, KeyHealthAssumption, ChatAssumption
       DEF TypeOK, HealthTypeOK, healthVars, resolveVars, callVars, replyVars, Goto, Points, EndRelay
<1>21. CASE Release(r)
  <2>1. HealthTypeOK'
      BY <1>k, <1>21, DecrInflightType DEF TypeOK, Release, Attempting
  <2>2. holds' \in [Requests -> Keys \cup {NoKey}] /\ pc' \in [Requests -> Points]
      BY <1>21 DEF TypeOK, Release, AfterRelease, AfterDecr, Goto, Points
  <2> QED
      BY <1>21, <2>1, <2>2 DEF TypeOK, resolveVars, callVars, replyVars, Release
<1>22. CASE Floor(r)
  <2>1. HealthTypeOK'
      BY <1>k, <1>22, FloorInflightType DEF TypeOK, Floor, Attempting
  <2>2. pc' \in [Requests -> Points]
      BY <1>22 DEF TypeOK, Floor, AfterDecr, Goto, Points
  <2> QED
      BY <1>22, <2>1, <2>2 DEF TypeOK, resolveVars, callVars, replyVars, Floor
<1>23. CASE Settle(r)
  <2>1. rows' \in [Requests -> Nat]
      BY <1>23 DEF TypeOK, Settle, Logged
  <2>2. at' \in [Requests -> Nat]
    <3>1. CASE at' = [at EXCEPT ![r] = @ + 1]
        BY <3>1 DEF TypeOK
    <3>2. CASE at' = at
        BY <3>2 DEF TypeOK
    <3> QED
        BY <1>23, <3>1, <3>2 DEF Settle
  <2>3. outcome' \in [Requests -> Nat] /\ pc' \in [Requests -> Points]
      BY <1>23 DEF TypeOK, Settle, Reply, Goto, Points
  <2> QED
      BY <1>23, <2>1, <2>2, <2>3 DEF TypeOK, HealthTypeOK, healthVars, resolveVars, callVars, Settle
<1>24. CASE RecordRefused(r) \/ Fault(r)
  <2>1. Abandon(r) /\ (IncrRoundRobin \/ UNCHANGED healthVars)
      BY <1>24 DEF RecordRefused, Fault, BodyBreaks, SecretUnreadable, RedisFails, Throw
  <2>h. HealthTypeOK'
      BY <2>1 DEF TypeOK, HealthTypeOK, healthVars, IncrRoundRobin
  <2>2. outcome' \in [Requests -> Nat] /\ pc' \in [Requests -> Points]
      BY <2>1 DEF TypeOK, Abandon, Reply, Goto, Points
  <2> QED
      BY <2>1, <2>h, <2>2 DEF TypeOK, resolveVars, callVars, Abandon
<1> QED
    BY <1>1, <1>2, <1>3, <1>4, <1>5, <1>6, <1>7, <1>8, <1>9, <1>10, <1>11, <1>12, <1>13, <1>14, <1>15, <1>16, <1>17, <1>18, <1>19, <1>20, <1>21, <1>22, <1>23, <1>24 DEF Step

-----------------------------------------------------------------------------
(* A step of a request leaves the others where they were. *)
Frame(r) ==
    \A q \in Requests \ {r} :
        /\ pc'[q] = pc[q] /\ at'[q] = at[q] /\ cands'[q] = cands[q] /\ avail'[q] = avail[q]
        /\ code'[q] = code[q] /\ retryAfter'[q] = retryAfter[q] /\ holds'[q] = holds[q]
        /\ rows'[q] = rows[q] /\ outcome'[q] = outcome[q]

LEMMA OthersStay ==
    ASSUME TypeOK, NEW r \in Requests, Step(r) \/ Fault(r)
    PROVE  Frame(r)
<1>1. CASE Begin(r)
    BY <1>1 DEF TypeOK, Frame, resolveVars, callVars, replyVars, Goto, Reply, Begin
<1>2. CASE NoneAvailable(r)
    BY <1>2 DEF TypeOK, Frame, resolveVars, callVars, replyVars, Goto, Reply, NoneAvailable, NextPool
<1>3. CASE OneAvailable(r)
    BY <1>3 DEF TypeOK, Frame, resolveVars, callVars, replyVars, Goto, Reply, OneAvailable, NextPool
<1>4. CASE SeveralAvailable(r)
    BY <1>4 DEF TypeOK, Frame, resolveVars, callVars, replyVars, Goto, Reply, SeveralAvailable
<1>5. CASE Pick(r)
    BY <1>5 DEF TypeOK, Frame, resolveVars, callVars, replyVars, Goto, Reply, Pick, NextPool
<1>6. CASE NoCandidate(r)
    BY <1>6 DEF TypeOK, Frame, resolveVars, callVars, replyVars, Goto, Reply, NoCandidate
<1>7. CASE StartAttempts(r)
    BY <1>7 DEF TypeOK, Frame, resolveVars, callVars, replyVars, Goto, Reply, StartAttempts, ApplyStrategy
<1>8. CASE Acquire(r)
    BY <1>8 DEF TypeOK, Frame, resolveVars, callVars, replyVars, Goto, Reply, Acquire
<1>9. CASE UpstreamAnswers(r)
    BY <1>9 DEF TypeOK, Frame, resolveVars, callVars, replyVars, Goto, Reply, UpstreamAnswers
<1>10. CASE UpstreamUnreachable(r)
    BY <1>10 DEF TypeOK, Frame, resolveVars, callVars, replyVars, Goto, Reply, UpstreamUnreachable
<1>11. CASE RecordSuccess(r)
    BY <1>11 DEF TypeOK, Frame, resolveVars, callVars, replyVars, Goto, Reply, RecordSuccess
<1>12. CASE RecordRateLimit(r)
    BY <1>12 DEF TypeOK, Frame, resolveVars, callVars, replyVars, Goto, Reply, RecordRateLimit
<1>13. CASE RecordAuthError(r)
    BY <1>13 DEF TypeOK, Frame, resolveVars, callVars, replyVars, Goto, Reply, RecordAuthError
<1>14. CASE RecordServerError(r)
    BY <1>14 DEF TypeOK, Frame, resolveVars, callVars, replyVars, Goto, Reply, RecordServerError
<1>15. CASE RecordOther(r)
    BY <1>15 DEF TypeOK, Frame, resolveVars, callVars, replyVars, Goto, Reply, RecordOther
<1>16. CASE Expire(r)
    BY <1>16 DEF TypeOK, Frame, resolveVars, callVars, replyVars, Goto, Reply, Expire
<1>17. CASE Open(r)
    BY <1>17 DEF TypeOK, Frame, resolveVars, callVars, replyVars, Goto, Reply, Open
<1>18. CASE ReadBody(r)
    BY <1>18 DEF TypeOK, Frame, resolveVars, callVars, replyVars, Goto, Reply, ReadBody
<1>19. CASE Commit(r)
    BY <1>19 DEF TypeOK, Frame, resolveVars, callVars, replyVars, Goto, Reply, Commit
<1>20. CASE EndRelay(r)
    BY <1>20 DEF TypeOK, Frame, resolveVars, callVars, replyVars, Goto, Reply, EndRelay
<1>21. CASE Release(r)
    BY <1>21 DEF TypeOK, Frame, resolveVars, callVars, replyVars, Goto, Reply, Release
<1>22. CASE Floor(r)
    BY <1>22 DEF TypeOK, Frame, resolveVars, callVars, replyVars, Goto, Reply, Floor
<1>23. CASE Settle(r)
    BY <1>23 DEF TypeOK, Frame, resolveVars, callVars, replyVars, Goto, Reply, Settle
<1>24. CASE RecordRefused(r) \/ Fault(r)
  <2>1. Abandon(r)
      BY <1>24 DEF RecordRefused, Fault, BodyBreaks, SecretUnreadable, RedisFails, Throw
  <2> QED
      BY <2>1 DEF TypeOK, Frame, resolveVars, callVars, replyVars, Goto, Reply, Abandon
<1> QED
    BY <1>1, <1>2, <1>3, <1>4, <1>5, <1>6, <1>7, <1>8, <1>9, <1>10, <1>11, <1>12, <1>13, <1>14, <1>15, <1>16, <1>17, <1>18, <1>19, <1>20, <1>21, <1>22, <1>23, <1>24 DEF Step

LEMMA PhasePreserved ==
    ASSUME TypeOK, NEW r \in Requests, Phase(r), Orderly => OrderlyPhase(r), Step(r) \/ Fault(r)
    PROVE  Phase(r)' /\ (Orderly => OrderlyPhase(r)')
<1>1. CASE Begin(r)
    BY <1>1, ChatAssumption DEF TypeOK, Phase, OrderlyPhase, HasSlot, HasNone, Resolving, Attempting, Recording, Key, AfterRecord, resolveVars, callVars, replyVars, Goto, Reply, Begin
<1>2. CASE NoneAvailable(r)
    BY <1>2, ChatAssumption DEF TypeOK, Phase, OrderlyPhase, HasSlot, HasNone, Resolving, Attempting, Recording, Key, AfterRecord, resolveVars, callVars, replyVars, Goto, Reply, NoneAvailable, NextPool
<1>3. CASE OneAvailable(r)
    BY <1>3, ChatAssumption DEF TypeOK, Phase, OrderlyPhase, HasSlot, HasNone, Resolving, Attempting, Recording, Key, AfterRecord, resolveVars, callVars, replyVars, Goto, Reply, OneAvailable, NextPool
<1>4. CASE SeveralAvailable(r)
    BY <1>4, ChatAssumption DEF TypeOK, Phase, OrderlyPhase, HasSlot, HasNone, Resolving, Attempting, Recording, Key, AfterRecord, resolveVars, callVars, replyVars, Goto, Reply, SeveralAvailable, AvailablePositions
<1>5. CASE Pick(r)
    BY <1>5, ChatAssumption DEF TypeOK, Phase, OrderlyPhase, HasSlot, HasNone, Resolving, Attempting, Recording, Key, AfterRecord, resolveVars, callVars, replyVars, Goto, Reply, Pick, NextPool
<1>6. CASE NoCandidate(r)
    BY <1>6, ChatAssumption DEF TypeOK, Phase, OrderlyPhase, HasSlot, HasNone, Resolving, Attempting, Recording, Key, AfterRecord, resolveVars, callVars, replyVars, Goto, Reply, NoCandidate
<1>7. CASE StartAttempts(r)
  <2>1. /\ pc[r] = "resolved" /\ pc'[r] = "acquire" /\ at'[r] = 1
        /\ UNCHANGED <<code, retryAfter, holds, rows, outcome>>
      BY <1>7 DEF TypeOK, StartAttempts, callVars, replyVars, Goto
  <2>2. 1 \in 1..Len(cands'[r])
    <3>1. cands[r] \in Seq(Keys) /\ Len(cands[r]) > 0 /\ rrProvider + 1 \in Nat
        BY <1>7 DEF TypeOK, StartAttempts
    <3>2. \/ cands'[r] = Rotated(cands[r], rrProvider + 1)
          \/ cands' = cands
        BY <1>7 DEF TypeOK, StartAttempts, ApplyStrategy
    <3>3. Len(cands'[r]) = Len(cands[r])
        BY <3>1, <3>2, RotatedInSeq
    <3> QED
        BY <3>1, <3>3
  <2> QED
      BY <2>1, <2>2 DEF Phase, OrderlyPhase, HasSlot, HasNone, Resolving, Attempting, Recording
<1>8. CASE Acquire(r)
    BY <1>8, ChatAssumption DEF TypeOK, Phase, OrderlyPhase, HasSlot, HasNone, Resolving, Attempting, Recording, Key, AfterRecord, resolveVars, callVars, replyVars, Goto, Reply, Acquire
<1>9. CASE UpstreamAnswers(r)
    BY <1>9, ChatAssumption DEF TypeOK, Phase, OrderlyPhase, HasSlot, HasNone, Resolving, Attempting, Recording, Key, AfterRecord, resolveVars, callVars, replyVars, Goto, Reply, UpstreamAnswers
<1>10. CASE UpstreamUnreachable(r)
    BY <1>10, ChatAssumption DEF TypeOK, Phase, OrderlyPhase, HasSlot, HasNone, Resolving, Attempting, Recording, Key, AfterRecord, resolveVars, callVars, replyVars, Goto, Reply, UpstreamUnreachable
<1>11. CASE RecordSuccess(r)
    BY <1>11, ChatAssumption DEF TypeOK, Phase, OrderlyPhase, HasSlot, HasNone, Resolving, Attempting, Recording, Key, AfterRecord, resolveVars, callVars, replyVars, Goto, Reply, RecordSuccess
<1>12. CASE RecordRateLimit(r)
    BY <1>12, ChatAssumption DEF TypeOK, Phase, OrderlyPhase, HasSlot, HasNone, Resolving, Attempting, Recording, Key, AfterRecord, resolveVars, callVars, replyVars, Goto, Reply, RecordRateLimit
<1>13. CASE RecordAuthError(r)
    BY <1>13, ChatAssumption DEF TypeOK, Phase, OrderlyPhase, HasSlot, HasNone, Resolving, Attempting, Recording, Key, AfterRecord, resolveVars, callVars, replyVars, Goto, Reply, RecordAuthError
<1>14. CASE RecordServerError(r)
    BY <1>14, ChatAssumption DEF TypeOK, Phase, OrderlyPhase, HasSlot, HasNone, Resolving, Attempting, Recording, Key, AfterRecord, resolveVars, callVars, replyVars, Goto, Reply, RecordServerError
<1>15. CASE RecordOther(r)
    BY <1>15, ChatAssumption DEF TypeOK, Phase, OrderlyPhase, HasSlot, HasNone, Resolving, Attempting, Recording, Key, AfterRecord, resolveVars, callVars, replyVars, Goto, Reply, RecordOther
<1>16. CASE Expire(r)
    BY <1>16, ChatAssumption DEF TypeOK, Phase, OrderlyPhase, HasSlot, HasNone, Resolving, Attempting, Recording, Key, AfterRecord, resolveVars, callVars, replyVars, Goto, Reply, Expire
<1>17. CASE Open(r)
    BY <1>17, ChatAssumption DEF TypeOK, Phase, OrderlyPhase, HasSlot, HasNone, Resolving, Attempting, Recording, Key, AfterRecord, resolveVars, callVars, replyVars, Goto, Reply, Open
<1>18. CASE ReadBody(r)
    BY <1>18, ChatAssumption DEF TypeOK, Phase, OrderlyPhase, HasSlot, HasNone, Resolving, Attempting, Recording, Key, AfterRecord, resolveVars, callVars, replyVars, Goto, Reply, ReadBody
<1>19. CASE Commit(r)
    BY <1>19, ChatAssumption DEF TypeOK, Phase, OrderlyPhase, HasSlot, HasNone, Resolving, Attempting, Recording, Key, AfterRecord, resolveVars, callVars, replyVars, Goto, Reply, Commit
<1>20. CASE EndRelay(r)
    BY <1>20, ChatAssumption DEF TypeOK, Phase, OrderlyPhase, HasSlot, HasNone, Resolving, Attempting, Recording, Key, AfterRecord, resolveVars, callVars, replyVars, Goto, Reply, EndRelay
<1>21. CASE Release(r)
  <2>1. /\ pc[r] = "decr" /\ holds'[r] = NoKey
        /\ pc'[r] \in {"floor", "settle"}
           \/ (pc'[r] = "record" /\ code'[r] = Unreachable)
        /\ UNCHANGED <<at, cands, avail, code, retryAfter, rows, outcome>>
      BY <1>21 DEF TypeOK, Release, AfterRelease, AfterDecr, resolveVars, callVars, replyVars, Goto, Reply
  <2> QED
      BY <2>1 DEF Phase, OrderlyPhase, HasSlot, HasNone, Resolving, Attempting, Recording
<1>22. CASE Floor(r)
  <2>1. /\ pc[r] = "floor"
        /\ pc'[r] = "settle" \/ (pc'[r] = "record" /\ code'[r] = Unreachable)
        /\ UNCHANGED <<at, cands, avail, code, retryAfter, holds, rows, outcome>>
      BY <1>22 DEF TypeOK, Floor, AfterDecr, resolveVars, callVars, replyVars, Goto, Reply
  <2> QED
      BY <2>1 DEF Phase, OrderlyPhase, HasSlot, HasNone, Resolving, Attempting, Recording
<1>23. CASE Settle(r)
  <2>1. /\ pc[r] = "settle" /\ rows'[r] = rows[r] + 1
        /\ UNCHANGED <<cands, avail, code, retryAfter, holds>>
        /\ rows[r] \in Nat /\ at[r] \in 1..Len(cands[r]) /\ Len(cands[r]) \in Nat
        /\ holds[r] = NoKey
      BY <1>23 DEF TypeOK, Settle, Logged, resolveVars, callVars, Phase, OrderlyPhase, HasSlot, HasNone, Resolving, Attempting, Recording
  <2>2. CASE Retryable(code[r]) /\ ~ IsLast(r)
    <3>1. pc'[r] = "acquire" /\ at'[r] = at[r] + 1 /\ outcome' = outcome
        BY <1>23, <2>2 DEF TypeOK, Settle, Goto
    <3>2. at'[r] \in 1..Len(cands'[r])
        BY <2>1, <2>2, <3>1 DEF IsLast
    <3> QED
        BY <2>1, <3>1, <3>2 DEF Phase, OrderlyPhase, HasSlot, HasNone, Resolving, Attempting, Recording
  <2>3. CASE ~ (Retryable(code[r]) /\ ~ IsLast(r))
    <3>1. pc'[r] = "done" /\ at'[r] = at[r] /\ outcome'[r] = code[r]
        BY <1>23, <2>3 DEF TypeOK, Settle, Goto, Reply
    <3>2. Retryable(outcome'[r]) => at'[r] = Len(cands'[r])
        BY <2>1, <2>3, <3>1 DEF IsLast
    <3>3. Orderly => rows'[r] = at'[r]
        BY <2>1, <3>1 DEF OrderlyPhase, Attempting
    <3> QED
        BY <2>1, <3>1, <3>2, <3>3 DEF Phase, OrderlyPhase, HasSlot, HasNone, Resolving, Attempting, Recording
  <2> QED
      BY <2>2, <2>3
<1>24. CASE RecordRefused(r) \/ Fault(r)
  <2>1. Abandon(r) /\ ~ Orderly
      BY <1>24 DEF RecordRefused, Fault, Throw, BodyBreaks, SecretUnreadable, RedisFails, Orderly, Phase,
             BadHeader, NoHeader
  <2> QED
      BY <2>1 DEF TypeOK, Phase, OrderlyPhase, HasSlot, HasNone, Resolving, Attempting, Recording, resolveVars, callVars, replyVars, Goto, Reply, Abandon
<1> QED
    BY <1>1, <1>2, <1>3, <1>4, <1>5, <1>6, <1>7, <1>8, <1>9, <1>10, <1>11, <1>12, <1>13, <1>14, <1>15, <1>16, <1>17, <1>18, <1>19, <1>20, <1>21, <1>22, <1>23, <1>24 DEF Step

-----------------------------------------------------------------------------
(* The slots: who holds one changes only where incrInflight and decrInflight  *)
(* are called.                                                                *)

LEMMA SlotsStay ==
    ASSUME NEW r \in Requests, Step(r) \/ Fault(r), ~ Acquire(r), ~ Release(r), ~ Floor(r)
    PROVE  UNCHANGED <<inflight, holds>>
<1>1. CASE \/ Begin(r) \/ NoneAvailable(r) \/ OneAvailable(r) \/ SeveralAvailable(r) \/ Pick(r)
           \/ NoCandidate(r) \/ StartAttempts(r) \/ UpstreamAnswers(r) \/ UpstreamUnreachable(r)
    BY <1>1 DEF Begin, NoneAvailable, OneAvailable, SeveralAvailable, Pick, NoCandidate,
                StartAttempts, UpstreamAnswers, UpstreamUnreachable, IncrRoundRobin, healthVars
<1>2. CASE \/ RecordSuccess(r) \/ RecordRateLimit(r) \/ RecordAuthError(r)
           \/ RecordServerError(r) \/ RecordOther(r) \/ Expire(r) \/ Open(r)
    BY <1>2 DEF RecordSuccess, RecordRateLimit, RecordAuthError, RecordServerError, RecordOther,
                Expire, Open, ClearHealth, SetCooldown, IncrFailures, ExpireFailures, OpenCircuit,
                healthVars
<1>3. CASE ReadBody(r) \/ Commit(r) \/ EndRelay(r) \/ Settle(r)
    BY <1>3 DEF ReadBody, Commit, EndRelay, Settle, healthVars
<1>4. CASE RecordRefused(r) \/ Fault(r)
    BY <1>4 DEF RecordRefused, Fault, BodyBreaks, SecretUnreadable, RedisFails, Throw,
                Abandon, IncrRoundRobin, healthVars
<1> QED
    BY <1>1, <1>2, <1>3, <1>4 DEF Step

(* Redis is never lost. *)
NoLoss == "flush" \notin Faults

(* A request always gets to the command that follows the one it sent. *)
Undisturbed == Faults \cap {"redis", "crash"} = {}

(* Only decrInflight leads to its floor, and only it or a fault leaves it. *)
LEMMA FloorFromRelease ==
    ASSUME TypeOK, NEW r \in Requests, Step(r) \/ Fault(r), ~ Release(r), ~ Floor(r)
    PROVE  pc'[r] # "floor" /\ (Undisturbed => pc[r] # "floor")
<1>1. CASE \/ Begin(r) \/ NoneAvailable(r) \/ OneAvailable(r) \/ SeveralAvailable(r) \/ Pick(r)
           \/ NoCandidate(r) \/ StartAttempts(r) \/ UpstreamAnswers(r) \/ UpstreamUnreachable(r)
    BY <1>1 DEF TypeOK, Goto, NextPool, Begin, NoneAvailable, OneAvailable, SeveralAvailable, Pick, NoCandidate,
                StartAttempts, UpstreamAnswers, UpstreamUnreachable
<1>2. CASE \/ RecordSuccess(r) \/ RecordRateLimit(r) \/ RecordAuthError(r)
           \/ RecordServerError(r) \/ RecordOther(r) \/ Expire(r) \/ Open(r)
    BY <1>2 DEF TypeOK, Goto, AfterRecord, RecordSuccess, RecordRateLimit, RecordAuthError,
                RecordServerError, RecordOther, Expire, Open
<1>3. CASE Acquire(r) \/ ReadBody(r) \/ Commit(r) \/ EndRelay(r) \/ Settle(r)
    BY <1>3 DEF TypeOK, Goto, Acquire, ReadBody, Commit, EndRelay, Settle
<1>4. CASE RecordRefused(r) \/ Fault(r)
    BY <1>4 DEF TypeOK, Goto, Undisturbed, RecordRefused, Fault, BodyBreaks, SecretUnreadable,
                RedisFails, Throw, Abandon, IncrRoundRobin
<1> QED
    BY <1>1, <1>2, <1>3, <1>4 DEF Step

(* The failure counter changes in recordSuccess and recordError only. *)
LEMMA FailuresStay ==
    ASSUME TypeOK, NEW r \in Requests, Step(r) \/ Fault(r),
           ~ RecordSuccess(r), ~ RecordServerError(r), ~ Expire(r)
    PROVE  UNCHANGED <<failures, failuresTtl>> /\ (Undisturbed => pc[r] # "expire")
<1>1. CASE \/ Begin(r) \/ NoneAvailable(r) \/ OneAvailable(r) \/ SeveralAvailable(r) \/ Pick(r)
           \/ NoCandidate(r) \/ StartAttempts(r) \/ UpstreamAnswers(r) \/ UpstreamUnreachable(r)
    BY <1>1 DEF healthVars, IncrRoundRobin, Begin, NoneAvailable, OneAvailable, SeveralAvailable, Pick, NoCandidate,
                StartAttempts, UpstreamAnswers, UpstreamUnreachable
<1>2. CASE RecordRateLimit(r) \/ RecordAuthError(r) \/ RecordOther(r) \/ Open(r)
    BY <1>2 DEF healthVars, RecordRateLimit, RecordAuthError, RecordOther, Open, SetCooldown,
                OpenCircuit
<1>3. CASE \/ Acquire(r) \/ ReadBody(r) \/ Commit(r) \/ EndRelay(r) \/ Release(r) \/ Floor(r)
           \/ Settle(r)
    BY <1>3 DEF healthVars, Acquire, ReadBody, Commit, EndRelay, Release, Floor, Settle,
                IncrInflight, DecrInflight, FloorInflight
<1>4. CASE RecordRefused(r) \/ Fault(r)
    BY <1>4 DEF healthVars, Undisturbed, RecordRefused, Fault, BodyBreaks, SecretUnreadable,
                RedisFails, Throw, Abandon, IncrRoundRobin
<1> QED
    BY <1>1, <1>2, <1>3, <1>4 DEF Step

LEMMA HoldersFinite ==
    \A k : IsFiniteSet(Holders(k)) /\ Cardinality(Holders(k)) \in Nat
<1>1. \A k : Holders(k) \subseteq Requests
    BY DEF Holders
<1> QED
    BY <1>1, ChatAssumption, FS_Subset, FS_CardinalityType

LEMMA TakeSlot ==
    ASSUME TypeOK, NEW r \in Requests, holds[r] = NoKey, NEW k \in Keys,
           holds' = [holds EXCEPT ![r] = k]
    PROVE  /\ Cardinality(Holders(k)') = Cardinality(Holders(k)) + 1
           /\ \A x \in Keys \ {k} : Cardinality(Holders(x)') = Cardinality(Holders(x))
<1>1. NoKey \notin Keys
    BY ChatAssumption
<1>2. Holders(k)' = Holders(k) \cup {r} /\ r \notin Holders(k)
    BY <1>1 DEF TypeOK, Holders
<1>3. \A x \in Keys \ {k} : Holders(x)' = Holders(x)
    BY <1>1 DEF TypeOK, Holders
<1> QED
    BY <1>2, <1>3, HoldersFinite, FS_AddElement

LEMMA GiveSlot ==
    ASSUME TypeOK, NEW r \in Requests, NEW k \in Keys, holds[r] = k,
           holds' = [holds EXCEPT ![r] = NoKey]
    PROVE  /\ Cardinality(Holders(k)') = Cardinality(Holders(k)) - 1
           /\ \A x \in Keys \ {k} : Cardinality(Holders(x)') = Cardinality(Holders(x))
<1>1. NoKey \notin Keys
    BY ChatAssumption
<1>2. Holders(k)' = Holders(k) \ {r} /\ r \in Holders(k)
    BY <1>1 DEF TypeOK, Holders
<1>3. \A x \in Keys \ {k} : Holders(x)' = Holders(x)
    BY <1>1 DEF TypeOK, Holders
<1> QED
    BY <1>2, <1>3, HoldersFinite, FS_RemoveElement

-----------------------------------------------------------------------------
Slots ==
    /\ InflightNeverOvercounts
    /\ NoLoss => InflightMatchesHolders /\ \A r \in Requests : pc[r] # "floor"
    /\ Undisturbed => NegativeOnlyUntilFloored

LEMMA SlotsPreserved ==
    ASSUME TypeOK, Slots, NEW r \in Requests, Phase(r), Phase(r)', Frame(r),
           Step(r) \/ Fault(r)
    PROVE  Slots'
<1>k. pc[r] \in Attempting => Key(r) \in Keys
    BY DEF TypeOK, Phase, Key
<1>f. \A q \in Requests \ {r} : pc'[q] = pc[q] /\ Key(q)' = Key(q)
    BY DEF Frame, Key
<1>1. CASE Acquire(r)
  <2>1. /\ pc[r] = "acquire" /\ Key(r) \in Keys /\ holds[r] = NoKey
        /\ inflight' = [inflight EXCEPT ![Key(r)] = @ + 1]
        /\ holds' = [holds EXCEPT ![r] = Key(r)]
        /\ pc'[r] = "fetch"
      BY <1>1, <1>k DEF TypeOK, Acquire, IncrInflight, Phase, HasNone, Attempting, Goto
  <2>2. \A x \in Keys : /\ inflight[x] \in Int
                        /\ inflight'[x] = IF x = Key(r) THEN inflight[x] + 1 ELSE inflight[x]
      BY <2>1 DEF TypeOK, HealthTypeOK
  <2>3. \A x \in Keys : Cardinality(Holders(x)') = IF x = Key(r) THEN Cardinality(Holders(x)) + 1
                                                  ELSE Cardinality(Holders(x))
      BY <2>1, TakeSlot
  <2>4. InflightNeverOvercounts'
      BY <2>2, <2>3, HoldersFinite DEF Slots, InflightNeverOvercounts
  <2>5. NoLoss => InflightMatchesHolders' /\ \A q \in Requests : pc'[q] # "floor"
      BY <1>f, <2>1, <2>2, <2>3, HoldersFinite DEF Slots, InflightMatchesHolders
  <2>6. Undisturbed => NegativeOnlyUntilFloored'
      BY <1>f, <2>1, <2>2 DEF Slots, NegativeOnlyUntilFloored
  <2> QED
      BY <2>4, <2>5, <2>6 DEF Slots
<1>2. CASE Release(r)
  <2>1. /\ pc[r] = "decr" /\ Key(r) \in Keys /\ holds[r] = Key(r)
        /\ inflight' = [inflight EXCEPT ![Key(r)] = @ - 1]
        /\ holds' = [holds EXCEPT ![r] = NoKey]
        /\ Key(r)' = Key(r)
        /\ IF inflight'[Key(r)] < 0 THEN pc'[r] = "floor" ELSE pc'[r] # "floor"
      BY <1>2, <1>k DEF TypeOK, Release, DecrInflight, Phase, HasSlot, Attempting, Goto, Key,
                        resolveVars, AfterRelease, AfterDecr
  <2>2. \A x \in Keys : /\ inflight[x] \in Int
                        /\ inflight'[x] = IF x = Key(r) THEN inflight[x] - 1 ELSE inflight[x]
      BY <2>1 DEF TypeOK, HealthTypeOK
  <2>3. \A x \in Keys : Cardinality(Holders(x)') = IF x = Key(r) THEN Cardinality(Holders(x)) - 1
                                                  ELSE Cardinality(Holders(x))
      BY <2>1, GiveSlot
  <2>4. InflightNeverOvercounts'
      BY <2>2, <2>3, HoldersFinite DEF Slots, InflightNeverOvercounts
  <2>5. r \in Holders(Key(r)) /\ Cardinality(Holders(Key(r))) > 0
    <3>1. r \in Holders(Key(r))
        BY <2>1 DEF Holders
    <3> QED
        BY <3>1, HoldersFinite, FS_EmptySet
  <2>6. NoLoss => InflightMatchesHolders' /\ \A q \in Requests : pc'[q] # "floor"
      BY <1>f, <2>1, <2>2, <2>3, <2>5, HoldersFinite DEF Slots, InflightMatchesHolders
  <2>7. Undisturbed => NegativeOnlyUntilFloored'
      BY <1>f, <2>1, <2>2 DEF Slots, NegativeOnlyUntilFloored
  <2> QED
      BY <2>4, <2>6, <2>7 DEF Slots
<1>3. CASE Floor(r)
  <2>1. /\ pc[r] = "floor" /\ Key(r) \in Keys
        /\ inflight' = [inflight EXCEPT ![Key(r)] = 0] /\ holds' = holds
      BY <1>3, <1>k DEF TypeOK, Floor, FloorInflight, Attempting
  <2>2. \A x \in Keys : /\ inflight[x] \in Int
                        /\ inflight'[x] = IF x = Key(r) THEN 0 ELSE inflight[x]
      BY <2>1 DEF TypeOK, HealthTypeOK
  <2>3. \A x \in Keys : Holders(x)' = Holders(x)
      BY <2>1 DEF Holders
  <2>4. InflightNeverOvercounts'
      BY <2>2, <2>3, HoldersFinite DEF Slots, InflightNeverOvercounts
  <2>5. ~ NoLoss
      BY <2>1 DEF Slots
  <2>6. Undisturbed => NegativeOnlyUntilFloored'
      BY <1>f, <2>1, <2>2 DEF Slots, NegativeOnlyUntilFloored
  <2> QED
      BY <2>4, <2>5, <2>6 DEF Slots
<1>4. CASE ~ Acquire(r) /\ ~ Release(r) /\ ~ Floor(r)
  <2>1. UNCHANGED <<inflight, holds>>
      BY <1>4, SlotsStay
  <2>2. \A x \in Keys : Holders(x)' = Holders(x)
      BY <2>1 DEF Holders
  <2>3. InflightNeverOvercounts'
      BY <2>1, <2>2 DEF Slots, InflightNeverOvercounts
  <2>4. InflightMatchesHolders => InflightMatchesHolders'
      BY <2>1, <2>2 DEF InflightMatchesHolders
  <2>5. pc'[r] # "floor" /\ (Undisturbed => pc[r] # "floor")
      BY <1>4, FloorFromRelease
  <2>6. NoLoss => \A q \in Requests : pc'[q] # "floor"
      BY <1>f, <2>5 DEF Slots
  <2>7. Undisturbed => NegativeOnlyUntilFloored'
      BY <1>f, <2>1, <2>5 DEF Slots, NegativeOnlyUntilFloored
  <2> QED
      BY <2>3, <2>4, <2>6, <2>7 DEF Slots
<1> QED
    BY <1>1, <1>2, <1>3, <1>4

-----------------------------------------------------------------------------
(* The failure counters and their expiries. *)
Counters ==
    /\ \A k \in Keys : failures[k] = 0 => failuresTtl[k] # NoTtl
    /\ Undisturbed => FailureCounterExpires

LEMMA CountersPreserved ==
    ASSUME TypeOK, Counters, NEW r \in Requests, Phase(r), Frame(r), Step(r) \/ Fault(r)
    PROVE  Counters'
<1>k. pc[r] \in Attempting => Key(r) \in Keys
    BY DEF TypeOK, Phase, Key
<1>f. \A q \in Requests \ {r} : pc'[q] = pc[q] /\ Key(q)' = Key(q)
    BY DEF Frame, Key
<1>1. CASE RecordSuccess(r)
  <2>1. /\ pc[r] = "record"
        /\ \A k \in Keys : \/ failures'[k] = 0 /\ failuresTtl'[k] = 0
                           \/ failures'[k] = failures[k] /\ failuresTtl'[k] = failuresTtl[k]
      BY <1>1 DEF TypeOK, HealthTypeOK, RecordSuccess, ClearHealth
  <2> QED
      BY <1>f, <2>1 DEF Counters, FailureCounterExpires, NoTtl
<1>2. CASE RecordServerError(r)
  <2>1. /\ pc[r] = "record" /\ pc'[r] = "expire" /\ Key(r)' = Key(r) /\ Key(r) \in Keys
        /\ failures' = [failures EXCEPT ![Key(r)] = @ + 1]
        /\ \A k \in Keys \ {Key(r)} : failuresTtl'[k] = failuresTtl[k]
      BY <1>2, <1>k DEF TypeOK, HealthTypeOK, RecordServerError, IncrFailures, Attempting,
                        Goto, Key, resolveVars
  <2>2. \A k \in Keys : failures[k] \in Nat
                        /\ failures'[k] = IF k = Key(r) THEN failures[k] + 1 ELSE failures[k]
      BY <2>1 DEF TypeOK, HealthTypeOK
  <2>3. \A k \in Keys : failures'[k] = 0 => failuresTtl'[k] # NoTtl
      BY <2>1, <2>2 DEF Counters
  <2>4. Undisturbed => FailureCounterExpires'
      BY <1>f, <2>1 DEF Counters, FailureCounterExpires
  <2> QED
      BY <2>3, <2>4 DEF Counters
<1>3. CASE Expire(r)
  <2>1. /\ pc[r] = "expire" /\ Key(r) \in Keys /\ failures' = failures
        /\ failuresTtl' = [failuresTtl EXCEPT ![Key(r)] =
                              IF failures[Key(r)] = 0 THEN @ ELSE CircuitWindow]
      BY <1>3, <1>k DEF Expire, ExpireFailures, Attempting
  <2>2. /\ failuresTtl'[Key(r)] # NoTtl
        /\ \A k \in Keys \ {Key(r)} : failuresTtl'[k] = failuresTtl[k]
      BY <2>1, KeyHealthAssumption DEF TypeOK, HealthTypeOK, Counters, NoTtl
  <2> QED
      BY <1>f, <2>1, <2>2 DEF Counters, FailureCounterExpires
<1>4. CASE ~ RecordSuccess(r) /\ ~ RecordServerError(r) /\ ~ Expire(r)
  <2>1. UNCHANGED <<failures, failuresTtl>> /\ (Undisturbed => pc[r] # "expire")
      BY <1>4, FailuresStay
  <2> QED
      BY <1>f, <2>1 DEF Counters, FailureCounterExpires
<1> QED
    BY <1>1, <1>2, <1>3, <1>4

-----------------------------------------------------------------------------
(* The inductive invariant, and the steps that are not a request's. *)
IInv ==
    /\ TypeOK
    /\ \A r \in Requests : Phase(r) /\ (Orderly => OrderlyPhase(r))
    /\ Slots
    /\ Counters

LEMMA InitIInv == Init => IInv
<1> SUFFICES ASSUME Init PROVE IInv
    OBVIOUS
<1>1. TypeOK
    BY InitTypeOK
<1>2. \A r \in Requests : Phase(r) /\ OrderlyPhase(r)
    BY DEF Init, Phase, OrderlyPhase, Resolving, Attempting, Recording, HasSlot, HasNone, NoHeader
<1>3. Slots
  <2>1. \A k \in Keys : Holders(k) = {}
      BY ChatAssumption DEF Init, Holders
  <2>2. \A k \in Keys : inflight[k] = 0 /\ Cardinality(Holders(k)) = 0
      BY <2>1, FS_EmptySet DEF Init, HealthInit
  <2>3. \A r \in Requests : pc[r] = "start"
      BY DEF Init
  <2> QED
      BY <2>2, <2>3 DEF Slots, InflightNeverOvercounts, InflightMatchesHolders,
                        NegativeOnlyUntilFloored
<1>4. Counters
    BY DEF Init, HealthInit, Counters, FailureCounterExpires, NoTtl
<1> QED
    BY <1>1, <1>2, <1>3, <1>4 DEF IInv

LEMMA RequestIInv ==
    ASSUME IInv, NEW r \in Requests, Step(r) \/ Fault(r)
    PROVE  IInv'
<1>1. TypeOK' /\ Frame(r)
    BY TypePreserved, OthersStay DEF IInv
<1>2. Phase(r)' /\ (Orderly => OrderlyPhase(r)')
    BY PhasePreserved DEF IInv
<1>3. ASSUME NEW q \in Requests \ {r} PROVE Phase(q)' /\ (Orderly => OrderlyPhase(q)')
    BY <1>1 DEF IInv, Frame, Phase, OrderlyPhase, HasSlot, HasNone, Key
<1>4. Slots'
    BY <1>1, <1>2, SlotsPreserved DEF IInv
<1>5. Counters'
    BY <1>1, CountersPreserved DEF IInv
<1> QED
    BY <1>1, <1>2, <1>3, <1>4, <1>5 DEF IInv

(* Time passing touches expiries and what expires, and no request. *)
LEMMA TickType ==
    ASSUME HealthTypeOK, Tick
    PROVE  HealthTypeOK'
<1>1. \A t \in Nat : (IF t > 0 THEN t - 1 ELSE t) \in Nat
    OBVIOUS
<1>2. \A t \in Nat \cup {NoTtl} : (IF t > 0 THEN t - 1 ELSE t) \in Nat \cup {NoTtl}
    BY DEF NoTtl
<1>3. /\ cooldown' \in [Keys -> Nat] /\ circuit' \in [Keys -> Nat]
      /\ failuresTtl' \in [Keys -> Nat \cup {NoTtl}]
    BY <1>1, <1>2 DEF HealthTypeOK, Tick
<1>4. failures' \in [Keys -> Nat]
    BY DEF HealthTypeOK, Tick
<1> QED
    BY <1>3, <1>4 DEF HealthTypeOK, Tick

LEMMA TimeIInv == ASSUME IInv, TimePasses PROVE IInv'
<1>1. /\ UNCHANGED <<pc, at, cands, avail, code, retryAfter, holds, rows, outcome, inflight>>
      /\ Tick
    BY DEF TimePasses, Tick, requestVars, resolveVars, callVars, replyVars
<1>2. TypeOK'
    BY TickType DEF IInv, TypeOK, TimePasses, requestVars, resolveVars, callVars, replyVars
<1>3. \A r \in Requests : Phase(r)' /\ (Orderly => OrderlyPhase(r)')
    BY <1>1 DEF IInv, Phase, OrderlyPhase, HasSlot, HasNone, Key
<1>4. Slots'
  <2>1. \A k \in Keys : Holders(k)' = Holders(k)
      BY <1>1 DEF Holders
  <2>2. \A r \in Requests : Key(r)' = Key(r)
      BY <1>1 DEF Key
  <2> QED
      BY <1>1, <2>1, <2>2 DEF IInv, Slots, InflightNeverOvercounts, InflightMatchesHolders,
                              NegativeOnlyUntilFloored
<1>5. Counters'
  <2>1. \A k \in Keys : failuresTtl'[k] = NoTtl => failuresTtl[k] = NoTtl /\ failures'[k] = failures[k]
    <3>1. \A k \in Keys :
             /\ failuresTtl[k] \in Nat \cup {NoTtl}
             /\ failuresTtl'[k] = IF failuresTtl[k] > 0 THEN failuresTtl[k] - 1 ELSE failuresTtl[k]
             /\ failures'[k] = IF failuresTtl[k] = 1 THEN 0 ELSE failures[k]
        BY <1>1 DEF IInv, TypeOK, HealthTypeOK, Tick
    <3> QED
        BY <3>1 DEF NoTtl
  <2>2. \A r \in Requests : Key(r)' = Key(r)
      BY <1>1 DEF Key
  <2> QED
      BY <1>1, <2>1, <2>2 DEF IInv, Counters, FailureCounterExpires
<1> QED
    BY <1>2, <1>3, <1>4, <1>5 DEF IInv

LEMMA CrashIInv == ASSUME IInv, Crash PROVE IInv'
<1>1. /\ UNCHANGED <<at, cands, avail, code, retryAfter, holds, rows, outcome>>
      /\ UNCHANGED <<failures, failuresTtl, inflight>>
      /\ \A r \in Requests : pc'[r] = "crashed" \/ pc'[r] = pc[r]
    BY DEF Crash, healthVars, resolveVars, callVars, replyVars
<1>2. TypeOK'
  <2>1. pc' \in [Requests -> Points]
      BY DEF IInv, TypeOK, Crash, Points
  <2> QED
      BY <2>1 DEF IInv, TypeOK, HealthTypeOK, Crash, healthVars, resolveVars, callVars, replyVars
<1>3. \A r \in Requests : Phase(r)' /\ (Orderly => OrderlyPhase(r)')
  <2> SUFFICES ASSUME NEW r \in Requests PROVE Phase(r)' /\ (Orderly => OrderlyPhase(r)')
      OBVIOUS
  <2>1. CASE pc'[r] = pc[r]
      BY <1>1, <2>1 DEF IInv, Phase, OrderlyPhase, HasSlot, HasNone, Key
  <2>2. CASE pc'[r] = "crashed"
      BY <1>1, <2>2 DEF IInv, Phase, OrderlyPhase, HasSlot, HasNone, Resolving, Attempting, Recording
  <2> QED
      BY <1>1, <2>1, <2>2
<1>4. ~ Undisturbed
    BY DEF Crash, Undisturbed
<1>5. Slots'
  <2>1. \A k \in Keys : Holders(k)' = Holders(k)
      BY <1>1 DEF Holders
  <2> QED
      BY <1>1, <1>4, <2>1 DEF IInv, Slots, InflightNeverOvercounts, InflightMatchesHolders
<1>6. Counters'
    BY <1>1, <1>4 DEF IInv, Counters
<1> QED
    BY <1>2, <1>3, <1>5, <1>6 DEF IInv

LEMMA RedisLostIInv == ASSUME IInv, RedisLost PROVE IInv'
<1>1. /\ UNCHANGED <<pc, at, cands, avail, code, retryAfter, holds, rows, outcome>>
      /\ \A k \in Keys : failuresTtl'[k] = 0 /\ inflight'[k] = 0
      /\ ~ NoLoss
    BY DEF RedisLost, Flush, NoLoss, callVars, replyVars
<1>2. TypeOK'
  <2>1. HealthTypeOK'
      BY DEF RedisLost, Flush, HealthTypeOK, NoTtl
  <2> QED
      BY <2>1 DEF IInv, TypeOK, RedisLost, callVars, replyVars
<1>3. \A r \in Requests : Phase(r)' /\ (Orderly => OrderlyPhase(r)')
    BY <1>1 DEF IInv, Phase, OrderlyPhase, HasSlot, HasNone, Key
<1>4. Slots'
  <2>1. \A k \in Keys : Holders(k)' = Holders(k)
      BY <1>1 DEF Holders
  <2>2. InflightNeverOvercounts'
      BY <1>1, <2>1, HoldersFinite DEF InflightNeverOvercounts
  <2>3. NegativeOnlyUntilFloored'
      BY <1>1 DEF NegativeOnlyUntilFloored
  <2> QED
      BY <1>1, <2>2, <2>3 DEF Slots
<1>5. Counters'
    BY <1>1 DEF Counters, FailureCounterExpires, NoTtl
<1> QED
    BY <1>2, <1>3, <1>4, <1>5 DEF IInv

LEMMA NextIInv == IInv /\ [Next]_vars => IInv'
<1> SUFFICES ASSUME IInv, [Next]_vars PROVE IInv'
    OBVIOUS
<1>1. CASE \E r \in Requests : Step(r) \/ Fault(r)
    BY <1>1, RequestIInv
<1>2. CASE Crash
    BY <1>2, CrashIInv
<1>3. CASE RedisLost
    BY <1>3, RedisLostIInv
<1>4. CASE TimePasses
    BY <1>4, TimeIInv
<1>5. CASE UNCHANGED vars
  <2>1. UNCHANGED <<healthVars, pc, stream, at, cands, avail, load, rrProvider, code, retryAfter,
                    count, holds, rows, outcome>>
      BY <1>5 DEF vars, requestVars, resolveVars, callVars, replyVars
  <2>2. TypeOK'
      BY <2>1 DEF IInv, TypeOK, HealthTypeOK, healthVars
  <2>3. \A r \in Requests : Phase(r)' /\ (Orderly => OrderlyPhase(r)')
      BY <2>1 DEF IInv, Phase, OrderlyPhase, HasSlot, HasNone, Key
  <2>4. /\ \A k \in Keys : Holders(k)' = Holders(k)
        /\ \A r \in Requests : Key(r)' = Key(r)
      BY <2>1 DEF Holders, Key
  <2>5. Slots'
      BY <2>1, <2>4 DEF IInv, Slots, InflightNeverOvercounts, InflightMatchesHolders,
                        NegativeOnlyUntilFloored, healthVars
  <2>6. Counters'
      BY <2>1, <2>4 DEF IInv, Counters, FailureCounterExpires, healthVars
  <2> QED
      BY <2>2, <2>3, <2>5, <2>6 DEF IInv
<1> QED
    BY <1>1, <1>2, <1>3, <1>4, <1>5 DEF Next

-----------------------------------------------------------------------------
(* The theorems. *)

(* The inductive invariant holds in every state, whatever fails. *)
THEOREM Invariance == Spec => []IInv
<1> QED
    BY InitIInv, NextIInv, PTL DEF Spec

(* Every local of a request and every Redis value keeps its type, whatever fails. *)
THEOREM TypeCorrect == Spec => []TypeOK
<1>1. IInv => TypeOK
    BY DEF IInv, TypeOK
<1> QED
    BY <1>1, Invariance, PTL

(* The inflight counter of a key never exceeds the requests that hold a slot of
   it, whatever fails, a loss of Redis included. *)
THEOREM SlotsNeverOvercounted == Spec => []InflightNeverOvercounts
<1>1. IInv => InflightNeverOvercounts
    BY DEF IInv, Slots
<1> QED
    BY <1>1, Invariance, PTL

(* As long as Redis is not lost, the inflight counter of a key is the number of
   requests that hold a slot of it, whatever else fails. *)
THEOREM SlotsExact == ASSUME NoLoss PROVE Spec => []InflightMatchesHolders
<1>1. IInv => InflightMatchesHolders
    BY DEF IInv, Slots, InflightMatchesHolders
<1> QED
    BY <1>1, Invariance, PTL

(* When Redis answers and the server stays up, a counter that a loss of Redis
   made negative is about to be reset. *)
THEOREM NegativeIsTransient == ASSUME Undisturbed PROVE Spec => []NegativeOnlyUntilFloored
<1>1. IInv => NegativeOnlyUntilFloored
    BY DEF IInv, Slots, NegativeOnlyUntilFloored
<1> QED
    BY <1>1, Invariance, PTL

(* When Redis answers and the server stays up, a failure counter without an
   expiry is about to get one. *)
THEOREM FailureCountersExpire == ASSUME Undisturbed PROVE Spec => []FailureCounterExpires
<1>1. IInv => FailureCounterExpires
    BY DEF IInv, Counters, FailureCounterExpires
<1> QED
    BY <1>1, Invariance, PTL

(* When nothing makes the handler throw, a request that has been answered holds
   no slot, whichever way it went through its candidates. *)
THEOREM SlotsAreGivenBack == ASSUME Orderly PROVE Spec => []NoSlotAfterAnswer
<1>1. IInv => NoSlotAfterAnswer
    BY DEF IInv, OrderlyPhase, NoSlotAfterAnswer
<1> QED
    BY <1>1, Invariance, PTL

(* When nothing makes the handler throw, an error that calls for the next
   candidate reaches the client only after the last one. *)
THEOREM EveryCandidateIsTried == ASSUME Orderly PROVE Spec => []ErrorOnlyAfterLastCandidate
<1>1. IInv => ErrorOnlyAfterLastCandidate
    BY DEF IInv, OrderlyPhase, ErrorOnlyAfterLastCandidate
<1> QED
    BY <1>1, Invariance, PTL

(* When nothing makes the handler throw, every upstream call leaves one row. *)
THEOREM EveryAttemptIsLogged == ASSUME Orderly PROVE Spec => []OneRowPerAttempt
<1>1. IInv => OneRowPerAttempt
    BY DEF IInv, OrderlyPhase, OneRowPerAttempt
<1> QED
    BY <1>1, Invariance, PTL

-----------------------------------------------------------------------------
(* The history of CircuitHistory. *)

HistoryInv ==
    /\ IInv
    /\ errors \in [Keys -> Seq(Nat)]
    /\ FailuresSinceSuccess

LEMMA OlderType ==
    ASSUME NEW ages \in Seq(Nat)
    PROVE  Older(ages) \in Seq(Nat) /\ Len(Older(ages)) = Len(ages)
<1>1. DOMAIN ages = 1..Len(ages) /\ Len(ages) \in Nat
    OBVIOUS
<1>2. \A i \in 1..Len(ages) : ages[i] + 1 \in Nat
    BY <1>1
<1>3. PICK s : s = [i \in 1..Len(ages) |-> ages[i] + 1]
    OBVIOUS
<1>4. s \in Seq(Nat) /\ Len(s) = Len(ages)
    BY <1>1, <1>2, <1>3
<1> QED
    BY <1>1, <1>3, <1>4 DEF Older

(* What the steps that Observe tells apart do to the failure counter. *)
LEMMA ErrorsCount ==
    ASSUME IInv, NEW r \in Requests, RecordServerError(r)
    PROVE  /\ failures'[Key(r)] = failures[Key(r)] + 1 /\ Key(r) \in Keys
           /\ \A k \in Keys : k # Key(r) => failures'[k] = failures[k]
           /\ pc[r] = "record" /\ pc'[r] = "expire"
<1>1. Key(r) \in Keys /\ pc[r] = "record"
    BY DEF IInv, TypeOK, Phase, Key, Attempting, RecordServerError
<1> QED
    BY <1>1 DEF IInv, TypeOK, HealthTypeOK, RecordServerError, IncrFailures, Goto

LEMMA SuccessClears ==
    ASSUME IInv, NEW r \in Requests, RecordSuccess(r)
    PROVE  /\ failures'[Key(r)] = 0 /\ Key(r) \in Keys
           /\ \A k \in Keys : k # Key(r) => failures'[k] = failures[k]
           /\ pc[r] = "record" /\ pc'[r] \in {"settle", "body"}
<1>1. Key(r) \in Keys /\ pc[r] = "record"
    BY DEF IInv, TypeOK, Phase, Key, Attempting, RecordSuccess
<1> QED
    BY <1>1 DEF IInv, TypeOK, HealthTypeOK, RecordSuccess, ClearHealth, Goto, AfterRecord

LEMMA TimeForgets ==
    ASSUME IInv, TimePasses
    PROVE  pc' = pc /\ \A k \in Keys : failures'[k] \in {0, failures[k]}
BY DEF IInv, TypeOK, HealthTypeOK, TimePasses, Tick, requestVars

LEMMA OtherwiseNoMore ==
    ASSUME IInv, [Next]_vars, NEW k \in Keys,
           ~ \E r \in Requests : RecordServerError(r) /\ Key(r) = k
    PROVE  failures'[k] \in {0, failures[k]}
<1>1. ASSUME NEW r \in Requests, Step(r) \/ Fault(r) PROVE failures'[k] \in {0, failures[k]}
  <2>1. CASE RecordServerError(r)
      BY <2>1, ErrorsCount
  <2>2. CASE RecordSuccess(r)
      BY <2>2, SuccessClears
  <2>3. CASE Expire(r)
      BY <2>3 DEF Expire, ExpireFailures
  <2>4. CASE ~ RecordServerError(r) /\ ~ RecordSuccess(r) /\ ~ Expire(r)
    <3>1. TypeOK
        BY DEF IInv
    <3> QED
        BY <1>1, <2>4, <3>1, FailuresStay
  <2> QED
      BY <2>1, <2>2, <2>3, <2>4
<1>2. CASE Crash \/ UNCHANGED vars
    BY <1>2 DEF Crash, vars, healthVars
<1>3. CASE RedisLost
    BY <1>3 DEF RedisLost, Flush
<1> QED
    BY <1>1, <1>2, <1>3, TimeForgets DEF Next

LEMMA HistoryStep == HistoryInv /\ [HistoryNext]_historyVars => HistoryInv'
<1> SUFFICES ASSUME HistoryInv, [HistoryNext]_historyVars PROVE HistoryInv'
    OBVIOUS
<1>1. IInv /\ [Next]_vars /\ errors \in [Keys -> Seq(Nat)]
    BY DEF HistoryInv, HistoryNext, historyVars
<1>2. IInv'
    BY <1>1, NextIInv
<1>3. \A k \in Keys : /\ failures[k] \in Nat /\ failures'[k] \in Nat /\ errors[k] \in Seq(Nat)
                      /\ failures[k] <= Len(errors[k])
    BY <1>1, <1>2 DEF HistoryInv, IInv, TypeOK, HealthTypeOK, FailuresSinceSuccess
<1>4. CASE UNCHANGED historyVars
    BY <1>1, <1>2, <1>4 DEF historyVars, vars, healthVars, HistoryInv, FailuresSinceSuccess
<1>5. CASE Observe
  <2>1. ASSUME NEW k \in Keys
        PROVE  errors'[k] \in Seq(Nat) /\ failures'[k] <= Len(errors'[k])
    <3> DEFINE Erred == \E r \in Requests : RecordServerError(r) /\ Key(r) = k
               Answered == \E r \in Requests : RecordSuccess(r) /\ Key(r) = k
    <3>1. errors'[k] = CASE TimePasses -> Older(errors[k])
                         [] Erred -> Append(errors[k], 0)
                         [] Answered -> <<>>
                         [] OTHER -> errors[k]
        BY <1>5 DEF Observe
    <3>2. Erred => failures'[k] = failures[k] + 1 /\ pc' # pc
        BY <1>1, ErrorsCount
    <3>3. Answered => failures'[k] = 0 /\ pc' # pc
        BY <1>1, SuccessClears
    <3>4. ~ Erred => failures'[k] \in {0, failures[k]}
        BY <1>1, OtherwiseNoMore
    <3>5. TimePasses => pc' = pc /\ failures'[k] \in {0, failures[k]}
        BY <1>1, TimeForgets
    <3>6. ~ (TimePasses /\ Erred) /\ ~ (TimePasses /\ Answered) /\ ~ (Erred /\ Answered)
        BY <1>3, <3>2, <3>3, <3>5
    <3> HIDE DEF Erred, Answered
    <3>7. /\ errors[k] \in Seq(Nat) /\ Len(errors[k]) \in Nat
          /\ Older(errors[k]) \in Seq(Nat) /\ Len(Older(errors[k])) = Len(errors[k])
          /\ Append(errors[k], 0) \in Seq(Nat) /\ Len(Append(errors[k], 0)) = Len(errors[k]) + 1
          /\ <<>> \in Seq(Nat) /\ Len(<<>>) = 0
        BY <1>3, OlderType
    <3>8. CASE TimePasses
      <4>1. errors'[k] = Older(errors[k])
          BY <3>1, <3>6, <3>8
      <4> QED
          BY <1>3, <3>5, <3>7, <3>8, <4>1
    <3>9. CASE Erred
      <4>1. errors'[k] = Append(errors[k], 0)
          BY <3>1, <3>6, <3>9
      <4> QED
          BY <1>3, <3>2, <3>7, <3>9, <4>1
    <3>10. CASE Answered
      <4>1. errors'[k] = <<>>
          BY <3>1, <3>6, <3>10
      <4> QED
          BY <3>3, <3>7, <3>10, <4>1
    <3>11. CASE ~ TimePasses /\ ~ Erred /\ ~ Answered
      <4>1. errors'[k] = errors[k]
          BY <3>1, <3>11
      <4> QED
          BY <1>3, <3>4, <3>7, <3>11, <4>1
    <3> QED
        BY <3>8, <3>9, <3>10, <3>11
  <2>2. errors' \in [Keys -> Seq(Nat)]
    <3>1. errors' = [k \in Keys |-> errors'[k]]
        BY <1>5 DEF Observe
    <3> QED
        BY <2>1, <3>1
  <2> QED
      BY <1>2, <2>1, <2>2 DEF HistoryInv, FailuresSinceSuccess
<1> QED
    BY <1>4, <1>5 DEF HistoryNext

(* A key that has answered starts from zero: however the commands of the requests  *)
(* and the expiries interleave and whatever fails, the counter of the circuit      *)
(* breaker never claims more server errors than came since the key's last success. *)
THEOREM FailuresCounted == HistorySafety => []FailuresSinceSuccess
<1>1. HistoryInit => HistoryInv
  <2>1. ASSUME HistoryInit PROVE IInv /\ errors \in [Keys -> Seq(Nat)] /\ FailuresSinceSuccess
    <3>1. IInv
        BY <2>1, InitIInv DEF HistoryInit
    <3>2. errors = [k \in Keys |-> <<>>] /\ <<>> \in Seq(Nat) /\ Len(<<>>) = 0
        BY <2>1 DEF HistoryInit
    <3>3. \A k \in Keys : failures[k] = 0
        BY <2>1 DEF HistoryInit, Init, HealthInit
    <3> QED
        BY <3>1, <3>2, <3>3 DEF FailuresSinceSuccess
  <2> QED
      BY <2>1 DEF HistoryInv
<1>2. HistoryInv => FailuresSinceSuccess
    BY DEF HistoryInv
<1> QED
    BY <1>1, <1>2, HistoryStep, PTL DEF HistorySafety

-----------------------------------------------------------------------------
(* Turns: a counter modulo the number of keys or of pools. *)

LEMMA Division ==
    ASSUME NEW n \in Int, NEW len \in Nat \ {0}
    PROVE  \E q \in Int : n = len * q + (n % len) /\ n % len \in 0..(len - 1)
<1>1. n \div len \in Int /\ n = len * (n \div len) + (n % len) /\ n % len \in 0..(len - 1)
    OBVIOUS
<1> QED
    BY <1>1

LEMMA Remainder ==
    ASSUME NEW n \in Int, NEW len \in Nat \ {0}, NEW q \in Int, NEW y \in 0..(len - 1),
           n = len * q + y
    PROVE  n % len = y
<1>1. PICK p \in Int : n = len * p + (n % len) /\ n % len \in 0..(len - 1)
    BY Division
<1>2. len * (p - q) = y - (n % len)
    BY <1>1
<1>3. p - q = 0
  <2>1. CASE p - q >= 1
    <3>1. len * (p - q) >= len
        BY <2>1
    <3> QED
        BY <1>1, <1>2, <3>1
  <2>2. CASE p - q <= -1
    <3>1. len * (p - q) <= - len
        BY <2>2
    <3> QED
        BY <1>1, <1>2, <3>1
  <2> QED
      BY <2>1, <2>2
<1> QED
    BY <1>1, <1>2, <1>3

(* A counter's next turn. *)
LEMMA NextTurn ==
    ASSUME NEW n \in Nat, NEW len \in Nat \ {0}
    PROVE  (n + 1) % len = IF n % len = len - 1 THEN 0 ELSE (n % len) + 1
<1>1. n \in Int /\ n + 1 \in Int
    OBVIOUS
<1>2. PICK q \in Int : n = len * q + (n % len) /\ n % len \in 0..(len - 1)
    BY <1>1, Division
<1>3. CASE n % len = len - 1
  <2>1. PICK m \in Int, p \in Int : m = n + 1 /\ p = q + 1
      BY <1>1
  <2>2. m = len * p + 0 /\ 0 \in 0..(len - 1)
      BY <1>2, <1>3, <2>1
  <2>3. m % len = 0
      BY <2>2, Remainder
  <2> QED
      BY <1>3, <2>1, <2>3
<1>4. CASE n % len # len - 1
  <2>1. PICK m \in Int, y \in 0..(len - 1) : m = n + 1 /\ y = (n % len) + 1
      BY <1>1, <1>2, <1>4
  <2>2. m = len * q + y
      BY <1>2, <2>1
  <2>3. m % len = y
      BY <2>2, Remainder
  <2> QED
      BY <1>4, <2>1, <2>3
<1> QED
    BY <1>3, <1>4

(* A rotation reaches every position. *)
LEMMA RotationReaches ==
    ASSUME NEW n \in Nat, NEW len \in Nat \ {0}, NEW t \in 1..len
    PROVE  \E i \in 1..len : ((i - 1 + n) % len) + 1 = t
<1>1. PICK m \in Int : m = t - 1 - n
    OBVIOUS
<1>2. PICK q \in Int, y \in 0..(len - 1) : m = len * q + y
    BY Division
<1>3. PICK i \in 1..len : i = y + 1
    BY <1>2
<1>4. PICK l \in Int, p \in Int, z \in 0..(len - 1) : l = i - 1 + n /\ p = - q /\ z = t - 1
    OBVIOUS
<1>5. l = len * p + z
    BY <1>1, <1>2, <1>3, <1>4
<1>6. l % len = z
    BY <1>5, Remainder
<1>7. ((i - 1 + n) % len) + 1 = t
    BY <1>4, <1>6
<1> QED
    BY <1>7

LEMMA RotatedKeeps ==
    ASSUME NEW S, NEW s \in Seq(S), Len(s) > 0, NEW n \in Nat
    PROVE  \A k : (\E i \in DOMAIN Rotated(s, n) : Rotated(s, n)[i] = k)
                  <=> (\E i \in DOMAIN s : s[i] = k)
<1>1. DOMAIN s = 1..Len(s) /\ Len(s) \in Nat \ {0}
    OBVIOUS
<1>2. /\ DOMAIN Rotated(s, n) = 1..Len(s)
      /\ \A i \in 1..Len(s) : Rotated(s, n)[i] = s[((i - 1 + n) % Len(s)) + 1]
    BY <1>1 DEF Rotated
<1>3. ASSUME NEW i \in 1..Len(s) PROVE ((i - 1 + n) % Len(s)) + 1 \in 1..Len(s)
  <2>1. PICK m \in Int : m = i - 1 + n
      OBVIOUS
  <2>2. m % Len(s) \in 0..(Len(s) - 1)
      BY <1>1
  <2> QED
      BY <1>1, <2>1, <2>2
<1>4. ASSUME NEW t \in 1..Len(s) PROVE \E i \in 1..Len(s) : s[t] = Rotated(s, n)[i]
  <2>1. PICK i \in 1..Len(s) : ((i - 1 + n) % Len(s)) + 1 = t
      BY <1>1, RotationReaches
  <2> QED
      BY <1>2, <2>1
<1>5. DOMAIN Rotated(s, n) = DOMAIN s
    BY <1>1, <1>2
<1>6. ASSUME NEW i \in DOMAIN s PROVE \E t \in DOMAIN s : Rotated(s, n)[i] = s[t]
    BY <1>1, <1>2, <1>3
<1>7. ASSUME NEW t \in DOMAIN s PROVE \E i \in DOMAIN s : s[t] = Rotated(s, n)[i]
    BY <1>1, <1>4
<1> QED
    BY <1>5, <1>6, <1>7

(* How n draws are spread over len turns: q each, and one more for as many *)
(* turns as the last round has reached.  The first draw is the second's.   *)
Spread(c, n, len) ==
    \E q \in Nat : \A i \in 1..len :
        c[i] = q + (IF 2 <= i /\ i <= (n % len) + 1 THEN 1 ELSE 0)

LEMMA SpreadNext ==
    ASSUME NEW n \in Nat, NEW len \in Nat \ {0}, NEW c, NEW d, Spread(c, n, len),
           NEW j \in 1..len, j = ((n + 1) % len) + 1, 
           \A i \in 1..len : d[i] = c[i] + (IF i = j THEN 1 ELSE 0)
    PROVE  Spread(d, n + 1, len)
<1>1. PICK q \in Nat : \A i \in 1..len :
          c[i] = q + (IF 2 <= i /\ i <= (n % len) + 1 THEN 1 ELSE 0)
    BY DEF Spread
<1>2. n % len \in 0..(len - 1)
    OBVIOUS
<1>3. CASE n % len = len - 1
  <2>1. j = 1 /\ (n + 1) % len = 0
      BY <1>3, NextTurn
  <2>2. ASSUME NEW i \in 1..len PROVE d[i] = q + 1
      BY <1>1, <1>3, <2>1
  <2>3. \A i \in 1..len : d[i] = (q + 1) + (IF 2 <= i /\ i <= ((n + 1) % len) + 1 THEN 1 ELSE 0)
      BY <2>1, <2>2
  <2> QED
      BY <2>3 DEF Spread
<1>4. CASE n % len # len - 1
  <2>1. j = (n % len) + 2 /\ (n + 1) % len = (n % len) + 1
      BY <1>2, <1>4, NextTurn
  <2>2. \A i \in 1..len : d[i] = q + (IF 2 <= i /\ i <= ((n + 1) % len) + 1 THEN 1 ELSE 0)
      BY <1>1, <1>2, <2>1
  <2> QED
      BY <2>2 DEF Spread
<1> QED
    BY <1>3, <1>4

LEMMA SpreadBalanced ==
    ASSUME NEW n, NEW len \in Nat, NEW c, Spread(c, n, len)
    PROVE  \A i, j \in 1..len : c[i] \in Nat /\ c[i] <= c[j] + 1
    BY DEF Spread

LEMMA RankOfPosition ==
    ASSUME NEW n \in Nat, NEW i \in 1..n
    PROVE  RankIn(i, 1..n) = i - 1
<1>1. {j \in 1..n : j < i} = 1..(i - 1)
    OBVIOUS
<1>2. Cardinality(1..(i - 1)) = i - 1
  <2>1. PICK m \in Int : m = i - 1
      OBVIOUS
  <2>2. Cardinality(1..m) = IF 1 > m THEN 0 ELSE m - 1 + 1
      BY FS_Interval
  <2> QED
      BY <2>1, <2>2
<1> QED
    BY <1>1, <1>2 DEF RankIn

-----------------------------------------------------------------------------
(* The rotations: what they need of the pools, of the failures and of the keys. *)

KeysOf(i) == {Chain[i][n] : n \in DOMAIN Chain[i]}

(* Every pool has a key and no key is in it twice or in two of them; only one   *)
(* pool has several, because every selectKey draws from the same rr:selectKey;  *)
(* and nothing ends a request between the draw and its use.                     *)
Rotating ==
    /\ Chain # <<>>
    /\ \A i \in DOMAIN Chain : Len(Chain[i]) > 0
    /\ \A i, j \in DOMAIN Chain : Len(Chain[i]) > 1 /\ Len(Chain[j]) > 1 => i = j
    /\ \A i, j \in DOMAIN Chain : \A m \in DOMAIN Chain[i], n \in DOMAIN Chain[j] :
          Chain[i][m] = Chain[j][n] => i = j /\ m = n
    /\ Len(Chain) > 1 => RoundRobin
    /\ Faults \subseteq {"body"}

(* The keys of the pools are available, and none is so much busier than another *)
(* of its pool that selectKey passes it over.                                   *)
Calm ==
    \A i \in DOMAIN Chain : \A m, n \in DOMAIN Chain[i] :
        /\ Available(Chain[i][m])
        /\ inflight[Chain[i][m]] <= inflight[Chain[i][n]] + TieSlack

KeyTurns(p) == [i \in 1..Len(Chain[p]) |-> Cardinality(ChosenBy(Chain[p][i]))]
PoolTurns == [i \in 1..Len(Chain) |-> Cardinality(FirstTriedIn(i))]

(* A request has one candidate for each pool it has been through. *)
Candidates(r) ==
    /\ pc[r] = "start" => cands[r] = <<>>
    /\ pc[r] \in Resolving => Len(cands[r]) = at[r] - 1
    /\ pc[r] = "resolved" => Len(cands[r]) = Len(Chain)
    /\ pc[r] \in {"health", "pick", "resolved"} =>
          \A i \in DOMAIN cands[r] : cands[r][i] \in KeysOf(i)
    /\ pc[r] = "pick" =>
          /\ avail[r] = DOMAIN Chain[at[r]]
          /\ Len(Chain[at[r]]) > 1
          /\ \A m, n \in DOMAIN Chain[at[r]] :
                load[r][Chain[at[r]][m]] <= load[r][Chain[at[r]][n]] + TieSlack

RotationInv ==
    /\ \A r \in Requests : Candidates(r)
    /\ \A p \in DOMAIN Chain : Len(Chain[p]) > 1 => Spread(KeyTurns(p), rrSelect, Len(Chain[p]))
    /\ Len(Chain) > 1 => Spread(PoolTurns, rrProvider, Len(Chain))

-----------------------------------------------------------------------------
(* What the steps of a request do to the rotations. *)

LEMMA PoolsTyped ==
    ASSUME Rotating, NEW p \in DOMAIN Chain
    PROVE  /\ Len(Chain) \in Nat /\ DOMAIN Chain = 1..Len(Chain)
           /\ Chain[p] \in Seq(Keys) /\ Len(Chain[p]) \in Nat \ {0}
           /\ DOMAIN Chain[p] = 1..Len(Chain[p])
           /\ \A n \in DOMAIN Chain[p] : Chain[p][n] \in Keys
<1>1. Chain[p] \in Seq(Keys) /\ Len(Chain) \in Nat /\ DOMAIN Chain = 1..Len(Chain)
    BY ChatAssumption
<1> QED
    BY <1>1 DEF Rotating

(* The attempts leave the candidates and both counters alone. *)
LEMMA AttemptsKeepTurns ==
    ASSUME TypeOK, NEW r \in Requests, Step(r) \/ Fault(r), Faults \subseteq {"body"},
           ~ Begin(r), ~ NoneAvailable(r), ~ OneAvailable(r), ~ SeveralAvailable(r), ~ Pick(r),
           ~ NoCandidate(r), ~ StartAttempts(r)
    PROVE  /\ UNCHANGED <<cands, avail, load, rrSelect, rrProvider>>
           /\ pc[r] \in Attempting /\ pc'[r] \in Attempting \cup {"done"}
<1>1. CASE Acquire(r) \/ UpstreamAnswers(r) \/ UpstreamUnreachable(r)
    BY <1>1 DEF TypeOK, healthVars, resolveVars, Goto, Attempting, Acquire, UpstreamAnswers,
                UpstreamUnreachable, IncrInflight
<1>2. CASE RecordSuccess(r) \/ RecordRateLimit(r) \/ RecordAuthError(r)
    BY <1>2 DEF TypeOK, resolveVars, Goto, Attempting, AfterRecord, RecordSuccess,
                RecordRateLimit, RecordAuthError, ClearHealth, SetCooldown
<1>3. CASE RecordServerError(r) \/ RecordOther(r) \/ Expire(r) \/ Open(r)
    BY <1>3 DEF TypeOK, healthVars, resolveVars, Goto, Attempting, AfterRecord, RecordServerError,
                RecordOther, Expire, Open, IncrFailures, ExpireFailures, OpenCircuit
<1>4. CASE ReadBody(r) \/ Commit(r) \/ EndRelay(r) \/ Settle(r)
    BY <1>4 DEF TypeOK, healthVars, resolveVars, Goto, Attempting, ReadBody, Commit, EndRelay,
                Settle
<1>5. CASE Release(r) \/ Floor(r)
    BY <1>5 DEF TypeOK, resolveVars, Goto, Attempting, AfterRelease, AfterDecr, Release, Floor,
                DecrInflight, FloorInflight
<1>6. CASE RecordRefused(r) \/ Fault(r)
    BY <1>6 DEF TypeOK, healthVars, resolveVars, Goto, Attempting, RecordRefused, Fault,
                BodyBreaks, SecretUnreadable, RedisFails, Throw, Abandon
<1> QED
    BY <1>1, <1>2, <1>3, <1>4, <1>5, <1>6 DEF Step

LEMMA LoadOfOthersStays ==
    ASSUME TypeOK, NEW r \in Requests, Step(r) \/ Fault(r), Faults \subseteq {"body"}
    PROVE  \A q \in Requests \ {r} : load'[q] = load[q]
<1>1. CASE \/ Begin(r) \/ NoneAvailable(r) \/ OneAvailable(r) \/ SeveralAvailable(r) \/ Pick(r)
           \/ NoCandidate(r) \/ StartAttempts(r)
    BY <1>1 DEF TypeOK, resolveVars, Begin, NoneAvailable, OneAvailable, SeveralAvailable, Pick,
                NoCandidate, StartAttempts
<1> QED
    BY <1>1, AttemptsKeepTurns

LEMMA CandidatesOfOthersStay ==
    ASSUME TypeOK, NEW r \in Requests, Step(r) \/ Fault(r), Faults \subseteq {"body"},
           NEW q \in Requests \ {r}, Candidates(q)
    PROVE  Candidates(q)'
<1>1. load'[q] = load[q]
    BY LoadOfOthersStays
<1>2. pc'[q] = pc[q] /\ at'[q] = at[q] /\ cands'[q] = cands[q] /\ avail'[q] = avail[q]
    BY OthersStay DEF Frame
<1> QED
    BY <1>1, <1>2 DEF Candidates

LEMMA SetsFinite ==
    /\ \A k : IsFiniteSet(ChosenBy(k)) /\ Cardinality(ChosenBy(k)) \in Nat
    /\ \A i : IsFiniteSet(FirstTriedIn(i)) /\ Cardinality(FirstTriedIn(i)) \in Nat
<1>1. \A k : ChosenBy(k) \subseteq Requests
    BY DEF ChosenBy
<1>2. \A i : FirstTriedIn(i) \subseteq Requests
    BY DEF FirstTriedIn
<1> QED
    BY <1>1, <1>2, ChatAssumption, FS_Subset, FS_CardinalityType

(* A candidate that is appended adds its request to those its key was chosen by. *)
LEMMA ChosenAppend ==
    ASSUME TypeOK, NEW r \in Requests, NEW x \in Keys,
           cands' = [cands EXCEPT ![r] = Append(@, x)], NEW k
    PROVE  ChosenBy(k)' = IF k = x THEN ChosenBy(k) \cup {r} ELSE ChosenBy(k)
<1>1. cands[r] \in Seq(Keys) /\ cands'[r] = Append(cands[r], x)
    BY DEF TypeOK
<1>2. \A q \in Requests \ {r} : cands'[q] = cands[q]
    BY DEF TypeOK
<1>3. (\E i \in DOMAIN cands'[r] : cands'[r][i] = k)
      <=> (k = x \/ \E i \in DOMAIN cands[r] : cands[r][i] = k)
    BY <1>1
<1> QED
    BY <1>2, <1>3 DEF ChosenBy

LEMMA ChosenSame ==
    ASSUME cands' = cands, NEW k
    PROVE  ChosenBy(k)' = ChosenBy(k)
    BY DEF ChosenBy

LEMMA SpreadSame ==
    ASSUME NEW c, NEW d, NEW n, NEW len, Spread(c, n, len), \A i \in 1..len : d[i] = c[i]
    PROVE  Spread(d, n, len)
    BY DEF Spread

(* A request that is still resolving, before and after a step, is not yet counted. *)
LEMMA FirstTriedSame ==
    ASSUME TypeOK, NEW r \in Requests, Frame(r), NEW i,
           pc[r] \in {"start", "health", "pick", "resolved"},
           pc'[r] \in {"start", "health", "pick", "resolved"}
    PROVE  FirstTriedIn(i)' = FirstTriedIn(i)
    BY DEF Frame, FirstTriedIn

(* The pools are spread as before when no request begins its attempts. *)
LEMMA PoolTurnsSame ==
    ASSUME TypeOK, RotationInv, rrProvider' = rrProvider,
           \A i \in DOMAIN Chain : FirstTriedIn(i)' = FirstTriedIn(i)
    PROVE  (Len(Chain) > 1 => Spread(PoolTurns, rrProvider, Len(Chain)))'
<1> SUFFICES ASSUME Len(Chain) > 1 PROVE Spread(PoolTurns', rrProvider', Len(Chain))
    OBVIOUS
<1>1. \A i \in 1..Len(Chain) : PoolTurns'[i] = PoolTurns[i]
    BY ChatAssumption DEF PoolTurns
<1>2. Spread(PoolTurns, rrProvider, Len(Chain))
    BY DEF RotationInv
<1> QED
    BY <1>1, <1>2, SpreadSame

(* The keys are spread as before when none of a pool with several is chosen. *)
LEMMA KeyTurnsSame ==
    ASSUME TypeOK, RotationInv, Rotating, rrSelect' = rrSelect,
           \A p \in DOMAIN Chain : Len(Chain[p]) > 1 =>
              \A n \in DOMAIN Chain[p] : ChosenBy(Chain[p][n])' = ChosenBy(Chain[p][n])
    PROVE  \A p \in DOMAIN Chain :
              Len(Chain[p]) > 1 => Spread(KeyTurns(p)', rrSelect', Len(Chain[p]))
<1> SUFFICES ASSUME NEW p \in DOMAIN Chain, Len(Chain[p]) > 1
             PROVE  Spread(KeyTurns(p)', rrSelect', Len(Chain[p]))
    OBVIOUS
<1>1. \A i \in 1..Len(Chain[p]) : KeyTurns(p)'[i] = KeyTurns(p)[i]
    BY PoolsTyped DEF KeyTurns
<1>2. Spread(KeyTurns(p), rrSelect, Len(Chain[p]))
    BY DEF RotationInv
<1> QED
    BY <1>1, <1>2, SpreadSame

-----------------------------------------------------------------------------
(* One case per step of the resolution. *)

(* What the step of request r has to show. *)
Rotation(r) ==
    /\ Candidates(r)
    /\ \A p \in DOMAIN Chain : Len(Chain[p]) > 1 => Spread(KeyTurns(p), rrSelect, Len(Chain[p]))
    /\ Len(Chain) > 1 => Spread(PoolTurns, rrProvider, Len(Chain))

LEMMA CalmPositions ==
    ASSUME Calm, NEW p \in DOMAIN Chain
    PROVE  AvailablePositions(Chain[p]) = DOMAIN Chain[p]
    BY DEF Calm, AvailablePositions

LEMMA BeginRotation ==
    ASSUME IInv, RotationInv, Rotating, NEW r \in Requests, Begin(r)
    PROVE  Rotation(r)'
<1>1. TypeOK /\ Candidates(r)
    BY DEF IInv, RotationInv
<1>2. /\ pc[r] = "start" /\ pc'[r] = "health" /\ at'[r] = 1
      /\ UNCHANGED <<cands, rrSelect, rrProvider>>
    BY <1>1 DEF Rotating, TypeOK, Begin, Goto, healthVars, resolveVars
<1>3. Frame(r)
    BY <1>1, OthersStay DEF Step
<1>4. Candidates(r)'
    BY <1>1, <1>2 DEF Candidates, Resolving
<1>5. \A i \in DOMAIN Chain : FirstTriedIn(i)' = FirstTriedIn(i)
    BY <1>1, <1>2, <1>3, FirstTriedSame
<1>6. \A p \in DOMAIN Chain : \A n \in DOMAIN Chain[p] :
          ChosenBy(Chain[p][n])' = ChosenBy(Chain[p][n])
    BY <1>2, ChosenSame
<1> QED
    BY <1>1, <1>2, <1>4, <1>5, <1>6, PoolTurnsSame, KeyTurnsSame DEF Rotation

(* selectKey returns the only key of its pool. *)
LEMMA OneRotation ==
    ASSUME IInv, RotationInv, Rotating, Calm, NEW r \in Requests, OneAvailable(r)
    PROVE  Rotation(r)'
<1> DEFINE p == at[r]
<1>1. TypeOK /\ Phase(r) /\ Candidates(r) /\ pc[r] = "health"
    BY DEF IInv, RotationInv, OneAvailable
<1>2. p \in DOMAIN Chain /\ cands[r] \in Seq(Keys)
    BY <1>1 DEF TypeOK, Phase, Resolving
<1> HIDE DEF p
<1>3. PICK i \in DOMAIN Chain[p] :
          AvailablePositions(Chain[p]) = {i} /\ cands' = [cands EXCEPT ![r] = Append(@, Chain[p][i])]
    BY DEF OneAvailable, p
<1>4. Len(Chain[p]) = 1
  <2>1. DOMAIN Chain[p] = {i}
      BY <1>2, <1>3, CalmPositions
  <2>2. 1 \in DOMAIN Chain[p] /\ Len(Chain[p]) \in DOMAIN Chain[p]
      BY <1>2, PoolsTyped
  <2> QED
      BY <2>1, <2>2
<1>5. /\ UNCHANGED <<rrSelect, rrProvider>>
      /\ at'[r] = p + 1 /\ pc'[r] = (IF p < Len(Chain) THEN "health" ELSE "resolved")
    BY <1>1 DEF TypeOK, OneAvailable, NextPool, Goto, healthVars, p
<1>6. Chain[p][i] \in Keys /\ cands'[r] = Append(cands[r], Chain[p][i])
    BY <1>1, <1>2, <1>3, PoolsTyped DEF TypeOK
<1>7. Candidates(r)'
  <2>1. Len(cands[r]) = p - 1 /\ \A j \in DOMAIN cands[r] : cands[r][j] \in KeysOf(j)
      BY <1>1 DEF Candidates, Resolving, p
  <2>2. p \in Nat /\ p <= Len(Chain) /\ Len(Chain) \in Nat
      BY <1>2, PoolsTyped
  <2>3. Len(cands'[r]) = p /\ cands'[r][p] = Chain[p][i]
        /\ \A j \in DOMAIN cands[r] : cands'[r][j] = cands[r][j]
        /\ DOMAIN cands'[r] = DOMAIN cands[r] \cup {p}
    <3>1. PICK x \in Keys : x = Chain[p][i]
        BY <1>6
    <3>2. cands'[r] = Append(cands[r], x)
        BY <1>6, <3>1
    <3> QED
        BY <1>2, <2>1, <2>2, <3>1, <3>2
  <2>4. \A j \in DOMAIN cands'[r] : cands'[r][j] \in KeysOf(j)
      BY <2>1, <2>3 DEF KeysOf
  <2> QED
      BY <1>5, <2>2, <2>3, <2>4 DEF Candidates, Resolving
<1>8. \A q \in DOMAIN Chain : Len(Chain[q]) > 1 =>
          \A n \in DOMAIN Chain[q] : ChosenBy(Chain[q][n])' = ChosenBy(Chain[q][n])
  <2> SUFFICES ASSUME NEW q \in DOMAIN Chain, Len(Chain[q]) > 1, NEW n \in DOMAIN Chain[q]
               PROVE  ChosenBy(Chain[q][n])' = ChosenBy(Chain[q][n])
      OBVIOUS
  <2>1. Chain[q][n] # Chain[p][i]
    <3>1. q # p
      <4>1. ~ (1 > 1)
          OBVIOUS
      <4> QED
          BY <1>4, <4>1
    <3>2. Chain[q][n] = Chain[p][i] => q = p
        BY <1>2 DEF Rotating
    <3> QED
        BY <3>1, <3>2
  <2>2. PICK x \in Keys, k \in Keys : x = Chain[p][i] /\ k = Chain[q][n]
      BY <1>6, PoolsTyped
  <2>3. ChosenBy(k)' = IF k = x THEN ChosenBy(k) \cup {r} ELSE ChosenBy(k)
      BY <1>1, <1>3, <2>2, ChosenAppend
  <2> QED
      BY <2>1, <2>2, <2>3
<1>9. Frame(r)
    BY <1>1, OthersStay DEF Step
<1>10. \A j \in DOMAIN Chain : FirstTriedIn(j)' = FirstTriedIn(j)
    BY <1>1, <1>5, <1>9, FirstTriedSame
<1> QED
    BY <1>1, <1>5, <1>7, <1>8, <1>10, PoolTurnsSame, KeyTurnsSame DEF Rotation

(* selectKey has found several keys: all of them, as busy as one another. *)
LEMMA SeveralRotation ==
    ASSUME IInv, RotationInv, Rotating, Calm, NEW r \in Requests, SeveralAvailable(r)
    PROVE  Rotation(r)'
<1> DEFINE p == at[r]
<1>1. TypeOK /\ Phase(r) /\ Candidates(r) /\ pc[r] = "health"
    BY DEF IInv, RotationInv, SeveralAvailable
<1>2. p \in DOMAIN Chain
    BY <1>1 DEF Phase, Resolving
<1>3. /\ UNCHANGED <<at, cands, rrSelect, rrProvider>>
      /\ pc'[r] = "pick" /\ avail'[r] = AvailablePositions(Chain[p]) /\ load'[r] = inflight
      /\ Cardinality(AvailablePositions(Chain[p])) > 1
    BY <1>1 DEF TypeOK, SeveralAvailable, Goto, healthVars
<1> HIDE DEF p
<1>4. AvailablePositions(Chain[p]) = DOMAIN Chain[p] /\ Len(Chain[p]) > 1
  <2>1. AvailablePositions(Chain[p]) = 1..Len(Chain[p])
      BY <1>2, CalmPositions, PoolsTyped
  <2>2. Cardinality(1..Len(Chain[p])) = Len(Chain[p])
    <3>1. PICK n \in Nat \ {0} : n = Len(Chain[p])
        BY <1>2, PoolsTyped
    <3>2. Cardinality(1..n) = IF 1 > n THEN 0 ELSE n - 1 + 1
        BY FS_Interval
    <3> QED
        BY <3>1, <3>2
  <2> QED
      BY <1>2, <1>3, <2>1, <2>2, PoolsTyped
<1>5. Candidates(r)'
  <2>1. \A m, n \in DOMAIN Chain[p] : load'[r][Chain[p][m]] <= load'[r][Chain[p][n]] + TieSlack
      BY <1>2, <1>3 DEF Calm
  <2>2. at'[r] = p /\ cands'[r] = cands[r] /\ Len(cands[r]) = p - 1
        /\ \A j \in DOMAIN cands[r] : cands[r][j] \in KeysOf(j)
      BY <1>1, <1>3 DEF Candidates, Resolving, p
  <2> QED
      BY <1>3, <1>4, <2>1, <2>2 DEF Candidates, Resolving
<1>6. Frame(r)
    BY <1>1, OthersStay DEF Step
<1>7. \A i \in DOMAIN Chain : FirstTriedIn(i)' = FirstTriedIn(i)
    BY <1>1, <1>3, <1>6, FirstTriedSame
<1>8. \A q \in DOMAIN Chain : \A n \in DOMAIN Chain[q] :
          ChosenBy(Chain[q][n])' = ChosenBy(Chain[q][n])
    BY <1>3, ChosenSame
<1> QED
    BY <1>1, <1>3, <1>5, <1>7, <1>8, PoolTurnsSame, KeyTurnsSame DEF Rotation

(* The position that selectKey picks when all keys are available and alike: the *)
(* counter's turn.                                                              *)
LEMMA PickTakesTurn ==
    ASSUME Rotating, NEW p \in DOMAIN Chain, NEW busy, NEW n \in Nat,
           \A i, j \in DOMAIN Chain[p] : ~ (busy[Chain[p][i]] > busy[Chain[p][j]] + TieSlack),
           NEW j \in Picks(Chain[p], DOMAIN Chain[p], busy, n)
    PROVE  j \in DOMAIN Chain[p] /\ j = (n % Len(Chain[p])) + 1
<1> DEFINE positions == DOMAIN Chain[p]
           turn == {i \in positions : RankIn(i, positions) = n % Cardinality(positions)}
<1>1. \A t \in turn : ~ Overloaded(t, Chain[p], positions, busy)
    BY DEF Overloaded
<1>2. j \in turn
    BY <1>1 DEF Picks
<1>3. PICK len \in Nat \ {0} : len = Len(Chain[p]) /\ positions = 1..len
    BY PoolsTyped
<1>4. Cardinality(1..len) = len
  <2>1. Cardinality(1..len) = IF 1 > len THEN 0 ELSE len - 1 + 1
      BY FS_Interval
  <2> QED
      BY <2>1
<1>5. j \in 1..len /\ RankIn(j, 1..len) = n % len
    BY <1>2, <1>3, <1>4
<1>6. RankIn(j, 1..len) = j - 1 /\ n % len \in 0..(len - 1)
    BY <1>5, RankOfPosition
<1> QED
    BY <1>3, <1>5, <1>6

LEMMA PickRotation ==
    ASSUME IInv, RotationInv, Rotating, NEW r \in Requests, Pick(r)
    PROVE  Rotation(r)'
<1> DEFINE p == at[r]
<1>1. TypeOK /\ Phase(r) /\ Candidates(r) /\ pc[r] = "pick"
    BY DEF IInv, RotationInv, Pick
<1>2. /\ p \in DOMAIN Chain /\ cands[r] \in Seq(Keys) /\ load[r] \in [Keys -> Int]
      /\ rrSelect \in Nat
    BY <1>1 DEF TypeOK, HealthTypeOK, Phase, Resolving
<1>3. /\ rrSelect' = rrSelect + 1 /\ rrProvider' = rrProvider
      /\ at'[r] = p + 1 /\ pc'[r] = (IF p < Len(Chain) THEN "health" ELSE "resolved")
    BY <1>1 DEF TypeOK, Pick, IncrRoundRobin, NextPool, Goto
<1>4. /\ avail[r] = DOMAIN Chain[p] /\ Len(Chain[p]) > 1
      /\ \A m, n \in DOMAIN Chain[p] : load[r][Chain[p][m]] <= load[r][Chain[p][n]] + TieSlack
      /\ Len(cands[r]) = p - 1 /\ \A i \in DOMAIN cands[r] : cands[r][i] \in KeysOf(i)
    BY <1>1 DEF Candidates, Resolving
<1>5. PICK j \in Picks(Chain[p], avail[r], load[r], rrSelect') :
          cands' = [cands EXCEPT ![r] = Append(@, Chain[p][j])]
    BY DEF Pick
<1> HIDE DEF p
<1>6. j \in DOMAIN Chain[p] /\ j = ((rrSelect + 1) % Len(Chain[p])) + 1
  <2>1. \A m, n \in DOMAIN Chain[p] :
            ~ (load[r][Chain[p][m]] > load[r][Chain[p][n]] + TieSlack)
    <3> TAKE m, n \in DOMAIN Chain[p]
    <3>1. PICK x \in Int, y \in Int : x = load[r][Chain[p][m]] /\ y = load[r][Chain[p][n]]
        BY <1>2, PoolsTyped
    <3> QED
        BY <1>4, <3>1, KeyHealthAssumption
  <2>2. PICK n \in Nat : n = rrSelect + 1
      BY <1>2
  <2>3. j \in Picks(Chain[p], DOMAIN Chain[p], load[r], n)
      BY <1>3, <1>4, <1>5, <2>2
  <2> QED
      BY <1>2, <2>1, <2>2, <2>3, PickTakesTurn
<1>7. PICK x \in Keys : x = Chain[p][j] /\ cands' = [cands EXCEPT ![r] = Append(@, x)]
                        /\ cands'[r] = Append(cands[r], x)
    BY <1>1, <1>2, <1>5, <1>6, PoolsTyped DEF TypeOK
<1>8. Candidates(r)'
  <2>1. p \in Nat /\ p <= Len(Chain) /\ Len(Chain) \in Nat
      BY <1>2, PoolsTyped
  <2>2. Len(cands'[r]) = p /\ cands'[r][p] = x
        /\ \A i \in DOMAIN cands[r] : cands'[r][i] = cands[r][i]
        /\ DOMAIN cands'[r] = DOMAIN cands[r] \cup {p}
      BY <1>2, <1>4, <1>7, <2>1
  <2>3. \A i \in DOMAIN cands'[r] : cands'[r][i] \in KeysOf(i)
      BY <1>4, <1>6, <1>7, <2>2 DEF KeysOf
  <2> QED
      BY <1>3, <2>1, <2>2, <2>3 DEF Candidates, Resolving
<1>9. r \notin ChosenBy(x)
  <2>1. ASSUME NEW i \in DOMAIN cands[r], cands[r][i] = x PROVE FALSE
    <3>1. i \in 1..(p - 1) /\ i \in DOMAIN Chain
        BY <1>2, <1>4, PoolsTyped
    <3>2. PICK n \in DOMAIN Chain[i] : Chain[i][n] = x
        BY <1>4, <2>1 DEF KeysOf
    <3>3. i = p
        BY <1>2, <1>6, <1>7, <3>1, <3>2 DEF Rotating
    <3> QED
        BY <1>2, <3>1, <3>3, PoolsTyped
  <2> QED
      BY <2>1 DEF ChosenBy
<1>10. \A q \in DOMAIN Chain : Len(Chain[q]) > 1 =>
           Spread(KeyTurns(q)', rrSelect', Len(Chain[q]))
  <2> SUFFICES ASSUME NEW q \in DOMAIN Chain, Len(Chain[q]) > 1
               PROVE  Spread(KeyTurns(q)', rrSelect', Len(Chain[q]))
      OBVIOUS
  <2>1. q = p
      BY <1>2, <1>4 DEF Rotating
  <2>2. PICK len \in Nat \ {0} : len = Len(Chain[q]) /\ DOMAIN Chain[q] = 1..len
      BY PoolsTyped
  <2>3. \A i \in 1..len : KeyTurns(q)'[i] = KeyTurns(q)[i] + (IF i = j THEN 1 ELSE 0)
    <3> TAKE i \in 1..len
    <3>1. PICK k \in Keys : k = Chain[q][i] /\ (k = x <=> i = j)
      <4>1. PICK k \in Keys : k = Chain[q][i]
          BY <2>2, PoolsTyped
      <4>2. x = Chain[q][j] /\ j \in DOMAIN Chain[q] /\ i \in DOMAIN Chain[q]
          BY <1>6, <1>7, <2>1, <2>2
      <4>3. k = x => i = j
          BY <4>1, <4>2 DEF Rotating
      <4> QED
          BY <4>1, <4>2, <4>3
    <3>2. ChosenBy(k)' = IF k = x THEN ChosenBy(k) \cup {r} ELSE ChosenBy(k)
        BY <1>1, <1>7, ChosenAppend
    <3>3. Cardinality(ChosenBy(k)') = Cardinality(ChosenBy(k)) + (IF i = j THEN 1 ELSE 0)
      <4>1. CASE i = j
          BY <1>9, <3>1, <3>2, <4>1, SetsFinite, FS_AddElement
      <4>2. CASE i # j
          BY <3>1, <3>2, <4>2, SetsFinite
      <4> QED
          BY <4>1, <4>2
    <3>4. KeyTurns(q)'[i] = Cardinality(ChosenBy(k)') /\ KeyTurns(q)[i] = Cardinality(ChosenBy(k))
        BY <2>2, <3>1 DEF KeyTurns
    <3> QED
        BY <3>3, <3>4
  <2>4. Spread(KeyTurns(q), rrSelect, len)
      BY <2>2 DEF RotationInv
  <2>5. j \in 1..len /\ j = ((rrSelect + 1) % len) + 1
      BY <1>6, <2>1, <2>2
  <2>6. Spread(KeyTurns(q)', rrSelect + 1, len)
      BY <1>2, <2>3, <2>4, <2>5, SpreadNext
  <2> QED
      BY <1>3, <2>2, <2>6
<1>11. Frame(r)
    BY <1>1, OthersStay DEF Step
<1>12. \A i \in DOMAIN Chain : FirstTriedIn(i)' = FirstTriedIn(i)
    BY <1>1, <1>3, <1>11, FirstTriedSame
<1> QED
    BY <1>1, <1>3, <1>8, <1>10, <1>12, PoolTurnsSame DEF Rotation

(* The first candidate of a request is the counter's turn among the pools, and *)
(* its rotation keeps the keys it was given.                                   *)
LEMMA StartRotation ==
    ASSUME IInv, RotationInv, Rotating, NEW r \in Requests, StartAttempts(r)
    PROVE  Rotation(r)'
<1>1. TypeOK /\ Candidates(r) /\ pc[r] = "resolved" /\ pc'[r] = "acquire"
      /\ rrSelect' = rrSelect /\ Frame(r)
  <2>1. TypeOK /\ Candidates(r) /\ Frame(r)
      BY OthersStay DEF IInv, RotationInv, Step
  <2> QED
      BY <2>1 DEF TypeOK, StartAttempts, Goto, healthVars
<1>2. /\ cands[r] \in Seq(Keys) /\ Len(cands[r]) = Len(Chain) /\ rrProvider \in Nat
      /\ \A i \in DOMAIN cands[r] : cands[r][i] \in KeysOf(i)
    BY <1>1 DEF TypeOK, Candidates
<1>3. PICK len \in Nat \ {0} : len = Len(Chain) /\ DOMAIN Chain = 1..len /\ Len(cands[r]) = len
                               /\ DOMAIN cands[r] = 1..len
  <2>1. Len(Chain) \in Nat \ {0} /\ DOMAIN Chain = 1..Len(Chain)
      BY ChatAssumption DEF Rotating
  <2>2. DOMAIN cands[r] = 1..Len(cands[r])
      BY <1>2
  <2>3. Len(cands[r]) = Len(Chain)
      BY <1>2
  <2> QED
      BY <2>1, <2>2, <2>3
<1>4. Candidates(r)'
    BY <1>1 DEF Candidates, Resolving
<1>5. \/ /\ len > 1 /\ rrProvider' = rrProvider + 1
         /\ cands' = [cands EXCEPT ![r] = Rotated(@, rrProvider')]
      \/ len = 1 /\ UNCHANGED <<rrProvider, cands>>
    BY <1>2, <1>3 DEF StartAttempts, ApplyStrategy, Rotating
<1>6. \A k : ChosenBy(k)' = ChosenBy(k)
  <2>1. CASE cands' = cands
      BY <2>1, ChosenSame
  <2>2. CASE rrProvider' = rrProvider + 1 /\ cands' = [cands EXCEPT ![r] = Rotated(@, rrProvider')]
    <3>1. PICK s \in Seq(Keys), n \in Nat : s = cands[r] /\ n = rrProvider'
        BY <1>2, <2>2
    <3>2. Len(s) > 0
        BY <1>3, <3>1
    <3>3. cands'[r] = Rotated(s, n)
        BY <1>1, <2>2, <3>1 DEF TypeOK
    <3>4. \A k : (\E i \in DOMAIN Rotated(s, n) : Rotated(s, n)[i] = k)
                 <=> (\E i \in DOMAIN s : s[i] = k)
        BY <3>2, RotatedKeeps
    <3>5. \A k : (\E i \in DOMAIN cands'[r] : cands'[r][i] = k)
                 <=> (\E i \in DOMAIN cands[r] : cands[r][i] = k)
        BY <3>1, <3>3, <3>4
    <3>6. \A q \in Requests \ {r} : cands'[q] = cands[q]
        BY <1>1 DEF Frame
    <3> QED
        BY <3>5, <3>6 DEF ChosenBy
  <2> QED
      BY <1>5, <2>1, <2>2
<1>7. \A p \in DOMAIN Chain : Len(Chain[p]) > 1 => Spread(KeyTurns(p)', rrSelect', Len(Chain[p]))
    BY <1>1, <1>6, KeyTurnsSame
<1>8. ASSUME len > 1 PROVE Spread(PoolTurns', rrProvider', len)
  <2>1. rrProvider' = rrProvider + 1 /\ cands'[r] = Rotated(cands[r], rrProvider + 1)
      BY <1>1, <1>5, <1>8 DEF TypeOK
  <2>2. PICK n \in Nat, j \in 1..len : n = rrProvider + 1 /\ j = (n % len) + 1
    <3>1. PICK n \in Nat : n = rrProvider + 1
        BY <1>2
    <3>2. n % len \in 0..(len - 1)
        OBVIOUS
    <3> QED
        BY <3>1, <3>2
  <2>3. cands'[r][1] = cands[r][j]
    <3>1. 1 - 1 + n = n
        OBVIOUS
    <3> QED
        BY <1>3, <2>1, <2>2, <3>1 DEF Rotated
  <2>4. ASSUME NEW i \in 1..len
        PROVE  PoolTurns'[i] = PoolTurns[i] + (IF i = j THEN 1 ELSE 0)
    <3>1. cands'[r][1] \in KeysOf(i) <=> i = j
      <4>1. cands[r][j] \in KeysOf(j)
          BY <1>2, <1>3
      <4>2. cands[r][j] \in KeysOf(i) => i = j
          BY <1>3, <4>1 DEF KeysOf, Rotating
      <4> QED
          BY <2>3, <4>1, <4>2
    <3>2. FirstTriedIn(i)' = IF i = j THEN FirstTriedIn(i) \cup {r} ELSE FirstTriedIn(i)
        BY <1>1, <3>1 DEF FirstTriedIn, KeysOf, Frame
    <3>3. r \notin FirstTriedIn(i)
        BY <1>1 DEF FirstTriedIn
    <3>4. Cardinality(FirstTriedIn(i)') = Cardinality(FirstTriedIn(i)) + (IF i = j THEN 1 ELSE 0)
      <4>1. CASE i = j
          BY <3>2, <3>3, <4>1, SetsFinite, FS_AddElement
      <4>2. CASE i # j
          BY <3>2, <4>2, SetsFinite
      <4> QED
          BY <4>1, <4>2
    <3> QED
        BY <1>3, <3>4 DEF PoolTurns
  <2>5. Spread(PoolTurns, rrProvider, len)
      BY <1>3, <1>8 DEF RotationInv
  <2>6. j = ((rrProvider + 1) % len) + 1
      BY <2>2
  <2>7. Spread(PoolTurns', rrProvider + 1, len)
      BY <1>2, <2>4, <2>5, <2>6, SpreadNext
  <2> QED
      BY <2>1, <2>7
<1> QED
    BY <1>3, <1>4, <1>7, <1>8 DEF Rotation

LEMMA AttemptRotation ==
    ASSUME IInv, RotationInv, Rotating, NEW r \in Requests, Step(r) \/ Fault(r),
           ~ Begin(r), ~ NoneAvailable(r), ~ OneAvailable(r), ~ SeveralAvailable(r), ~ Pick(r),
           ~ NoCandidate(r), ~ StartAttempts(r)
    PROVE  Rotation(r)'
<1>1. TypeOK /\ Frame(r)
    BY OthersStay DEF IInv
<1>2. /\ UNCHANGED <<cands, rrSelect, rrProvider>>
      /\ pc[r] \in Attempting /\ pc'[r] \in Attempting \cup {"done"}
    BY <1>1, AttemptsKeepTurns DEF Rotating
<1>3. Candidates(r)'
    BY <1>2 DEF Candidates, Resolving, Attempting
<1>4. \A i \in DOMAIN Chain : FirstTriedIn(i)' = FirstTriedIn(i)
    BY <1>1, <1>2 DEF FirstTriedIn, Frame, Attempting
<1>5. \A p \in DOMAIN Chain : \A n \in DOMAIN Chain[p] :
          ChosenBy(Chain[p][n])' = ChosenBy(Chain[p][n])
    BY <1>2, ChosenSame
<1> QED
    BY <1>1, <1>2, <1>3, <1>4, <1>5, PoolTurnsSame, KeyTurnsSame DEF Rotation

LEMMA RequestRotation ==
    ASSUME IInv, RotationInv, Rotating, Calm, NEW r \in Requests, Step(r) \/ Fault(r)
    PROVE  RotationInv'
<1>1. Rotation(r)'
  <2>1. ~ NoneAvailable(r)
    <3>1. CASE pc[r] = "health"
      <4>1. at[r] \in DOMAIN Chain
          BY <3>1 DEF IInv, Phase, Resolving
      <4>2. 1 \in DOMAIN Chain[at[r]]
          BY <4>1, PoolsTyped
      <4> QED
          BY <4>1, <4>2, CalmPositions DEF NoneAvailable
    <3> QED
        BY <3>1 DEF NoneAvailable
  <2>2. ~ NoCandidate(r)
    <3>1. CASE pc[r] = "resolved"
      <4>1. cands[r] \in Seq(Keys) /\ Len(cands[r]) = Len(Chain)
          BY <3>1 DEF IInv, TypeOK, RotationInv, Candidates
      <4>2. Len(Chain) # 0
          BY ChatAssumption DEF Rotating
      <4> QED
          BY <4>1, <4>2 DEF NoCandidate
    <3> QED
        BY <3>1 DEF NoCandidate
  <2>3. CASE Begin(r)
      BY <2>3, BeginRotation
  <2>4. CASE OneAvailable(r)
      BY <2>4, OneRotation
  <2>5. CASE SeveralAvailable(r)
      BY <2>5, SeveralRotation
  <2>6. CASE Pick(r)
      BY <2>6, PickRotation
  <2>7. CASE StartAttempts(r)
      BY <2>7, StartRotation
  <2> QED
      BY <2>1, <2>2, <2>3, <2>4, <2>5, <2>6, <2>7, AttemptRotation
<1>2. \A q \in Requests \ {r} : Candidates(q)'
    BY CandidatesOfOthersStay DEF IInv, RotationInv, Rotating
<1> QED
    BY <1>1, <1>2 DEF Rotation, RotationInv

LEMMA RotationStep ==
    ASSUME Rotating
    PROVE  IInv /\ RotationInv /\ Calm /\ [Next]_vars => RotationInv'
<1> SUFFICES ASSUME IInv, RotationInv, Calm, [Next]_vars PROVE RotationInv'
    OBVIOUS
<1>1. CASE \E r \in Requests : Step(r) \/ Fault(r)
    BY <1>1, RequestRotation
<1>2. CASE Crash \/ RedisLost
    BY <1>2 DEF Crash, RedisLost, Rotating
<1>3. CASE TimePasses \/ UNCHANGED vars
  <2>1. UNCHANGED <<pc, at, cands, avail, load, rrSelect, rrProvider>>
      BY <1>3 DEF TimePasses, Tick, vars, requestVars, resolveVars, healthVars
  <2>2. \A r \in Requests : Candidates(r)'
      BY <2>1 DEF RotationInv, Candidates
  <2>3. (\A k : ChosenBy(k)' = ChosenBy(k)) /\ (\A i : FirstTriedIn(i)' = FirstTriedIn(i))
      BY <2>1 DEF ChosenBy, FirstTriedIn
  <2>4. TypeOK
      BY DEF IInv
  <2> QED
      BY <2>1, <2>2, <2>3, <2>4, PoolTurnsSame, KeyTurnsSame DEF RotationInv
<1> QED
    BY <1>1, <1>2, <1>3 DEF Next

LEMMA RotationInit ==
    ASSUME Rotating
    PROVE  Init => RotationInv
<1> SUFFICES ASSUME Init PROVE RotationInv
    OBVIOUS
<1>1. \A r \in Requests : pc[r] = "start" /\ cands[r] = <<>>
    BY DEF Init
<1>2. \A k : ChosenBy(k) = {}
    BY <1>1 DEF ChosenBy
<1>3. \A i : FirstTriedIn(i) = {}
    BY <1>1 DEF FirstTriedIn
<1>4. Cardinality({}) = 0
    BY FS_EmptySet
<1>5. \A r \in Requests : Candidates(r)
    BY <1>1 DEF Candidates, Resolving
<1>6. rrSelect = 0 /\ rrProvider = 0
    BY DEF Init, HealthInit
<1>7. ASSUME NEW len \in Nat, len > 1, NEW c, \A i \in 1..len : c[i] = 0
      PROVE  Spread(c, 0, len)
  <2>1. 0 % len = 0
      BY <1>7
  <2>2. \A i \in 1..len : c[i] = 0 + (IF 2 <= i /\ i <= (0 % len) + 1 THEN 1 ELSE 0)
      BY <1>7, <2>1
  <2> QED
      BY <2>2 DEF Spread
<1>8. ASSUME NEW p \in DOMAIN Chain, Len(Chain[p]) > 1
      PROVE  Spread(KeyTurns(p), 0, Len(Chain[p]))
  <2>1. \A i \in 1..Len(Chain[p]) : KeyTurns(p)[i] = 0
      BY <1>2, <1>4 DEF KeyTurns
  <2> QED
      BY <1>7, <1>8, <2>1, PoolsTyped
<1>9. ASSUME Len(Chain) > 1 PROVE Spread(PoolTurns, 0, Len(Chain))
  <2>1. \A i \in 1..Len(Chain) : PoolTurns[i] = 0
      BY <1>3, <1>4 DEF PoolTurns
  <2> QED
      BY <1>7, <1>9, <2>1, ChatAssumption
<1> QED
    BY <1>5, <1>6, <1>8, <1>9 DEF RotationInv

LEMMA RotationBalanced ==
    ASSUME Rotating
    PROVE  RotationInv => RotationIsFair
<1> SUFFICES ASSUME RotationInv PROVE RotationIsFair
    OBVIOUS
<1>1. ASSUME NEW p \in DOMAIN Chain, NEW m \in DOMAIN Chain[p], NEW n \in DOMAIN Chain[p]
      PROVE  Cardinality(ChosenBy(Chain[p][m])) <= Cardinality(ChosenBy(Chain[p][n])) + 1
  <2>1. PICK len \in Nat \ {0} : len = Len(Chain[p]) /\ DOMAIN Chain[p] = 1..len
      BY PoolsTyped
  <2>2. CASE len = 1
    <3>1. m = n
        BY <2>1, <2>2
    <3> QED
        BY <3>1, SetsFinite
  <2>3. CASE len > 1
    <3>1. Spread(KeyTurns(p), rrSelect, len)
        BY <2>1, <2>3 DEF RotationInv
    <3>2. KeyTurns(p)[m] <= KeyTurns(p)[n] + 1
        BY <2>1, <3>1, SpreadBalanced
    <3> QED
        BY <2>1, <3>2 DEF KeyTurns
  <2> QED
      BY <2>1, <2>2, <2>3
<1>2. ASSUME NEW i \in DOMAIN Chain, NEW j \in DOMAIN Chain
      PROVE  Cardinality(FirstTriedIn(i)) <= Cardinality(FirstTriedIn(j)) + 1
  <2>1. PICK len \in Nat \ {0} : len = Len(Chain) /\ DOMAIN Chain = 1..len
    <3>1. Len(Chain) \in Nat \ {0} /\ DOMAIN Chain = 1..Len(Chain)
        BY ChatAssumption DEF Rotating
    <3> QED
        BY <3>1
  <2>2. CASE len = 1
    <3>1. i = j
        BY <2>1, <2>2
    <3> QED
        BY <3>1, SetsFinite
  <2>3. CASE len > 1
    <3>1. Spread(PoolTurns, rrProvider, len)
        BY <2>1, <2>3 DEF RotationInv
    <3>2. PoolTurns[i] <= PoolTurns[j] + 1
        BY <2>1, <3>1, SpreadBalanced
    <3> QED
        BY <2>1, <3>2 DEF PoolTurns
  <2> QED
      BY <2>1, <2>2, <2>3
<1> QED
    BY <1>1, <1>2 DEF RotationIsFair, RoundRobinBalanced, ProvidersBalanced

(* selectKey and applyStrategy hand out the keys of a pool and the pools in turn,   *)
(* for any number of requests in any interleaving, as long as every key of the      *)
(* pools stays available and none gets so busy that it is passed over, no key is in *)
(* two pools, only one pool has several keys, and no failure ends a request between *)
(* drawing a turn and using it.                                                     *)
THEOREM KeysTakeTurns == ASSUME Rotating PROVE Spec /\ []Calm => []RotationIsFair
<1> QED
    BY InitIInv, NextIInv, RotationInit, RotationStep, RotationBalanced, PTL DEF Spec
=============================================================================
