-------------------------- MODULE AuthCacheProofs --------------------------
(***************************************************************************)
(* The staleness of the authentication cache is bounded, for any number of *)
(* keys, lookups and handlers, any TTL and any load time.                  *)
(***************************************************************************)
EXTENDS AuthCache, TLAPS

(* A version that is still current has never been replaced. *)
CurrentIsFresh ==
    \A k \in ApiKeys : \A v \in Versions : v >= version[k] => superseded[k][v] = 0

(* What an entry has of its TTL left, its version may have been stale before. *)
EntriesExpire ==
    \A k \in ApiKeys : ttl[k] > 0 => superseded[k][entry[k].version] + ttl[k] <= MaxStale

(* What a lookup is about to store was current when it read the database. *)
LoadsAreRecent ==
    \A l \in Lookups :
        step[l] = "store" => superseded[lookup[l]][found[l].version] <= held[l]

IInv == TypeOK /\ CurrentIsFresh /\ EntriesExpire /\ LoadsAreRecent

LEMMA InitIInv == Init => IInv
<1> SUFFICES ASSUME Init PROVE IInv
    OBVIOUS
<1> USE AuthCacheAssumption
<1>1. TypeOK
    BY DEF Init, TypeOK, FirstVersion, Record, Versions, MaxAge, MaxStale
<1>2. CurrentIsFresh /\ EntriesExpire /\ LoadsAreRecent
    BY DEF Init, CurrentIsFresh, EntriesExpire, LoadsAreRecent
<1> QED
    BY <1>1, <1>2 DEF IInv

(* What UPDATE and DELETE do to the record preserves the invariant. *)
LEMMA ChangeIInv ==
    ASSUME IInv, NEW a \in Admins, NEW b \in BOOLEAN, Change(target[a], b),
           NEW p \in {"start", "invalidate", "delete", "done"},
           admin' = [admin EXCEPT ![a] = p],
           UNCHANGED <<cacheVars, lookupVars, route, target>>
    PROVE  IInv'
<1> USE AuthCacheAssumption
<1>1. TypeOK'
    BY DEF IInv, TypeOK, Change, cacheVars, lookupVars, Versions
<1>2. CurrentIsFresh'
    BY DEF IInv, TypeOK, Change, CurrentIsFresh, Versions
<1>3. EntriesExpire' /\ LoadsAreRecent'
    BY DEF IInv, Change, EntriesExpire, LoadsAreRecent, cacheVars, lookupVars
<1> QED
    BY <1>1, <1>2, <1>3 DEF IInv

LEMMA NextIInv == IInv /\ [Next]_vars => IInv'
<1> SUFFICES ASSUME IInv, [Next]_vars PROVE IInv'
    OBVIOUS
<1> USE AuthCacheAssumption DEF IInv
<1>1. ASSUME NEW l \in Lookups, Hit(l) PROVE IInv'
    BY <1>1 DEF Hit, RenewedBy, TypeOK, CurrentIsFresh, EntriesExpire, LoadsAreRecent,
                dbVars, adminVars
<1>2. ASSUME NEW l \in Lookups, Miss(l) PROVE IInv'
    BY <1>2 DEF Miss, TypeOK, CurrentIsFresh, EntriesExpire, LoadsAreRecent,
                dbVars, cacheVars, adminVars
<1>3. ASSUME NEW l \in Lookups, Load(l) PROVE IInv'
  <2>1. TypeOK'
    BY <1>3 DEF Load, TypeOK, Record, dbVars, cacheVars, adminVars
  <2>2. CurrentIsFresh' /\ EntriesExpire'
    BY <1>3 DEF Load, CurrentIsFresh, EntriesExpire, dbVars, cacheVars
  <2>3. LoadsAreRecent'
    <3> SUFFICES ASSUME NEW m \in Lookups, step'[m] = "store"
                 PROVE  superseded[lookup[m]][found'[m].version] <= held'[m]
        BY <1>3 DEF Load, LoadsAreRecent, dbVars
    <3>1. CASE m = l
        <4>1. lookup' = lookup /\ lookup[l] \in ApiKeys /\ superseded' = superseded
            BY <1>3 DEF Load, TypeOK, dbVars
        <4>2. found'[l].version = version[lookup[l]] /\ held'[l] = 0
            BY <1>3 DEF Load, TypeOK
        <4>3. superseded[lookup[l]][version[lookup[l]]] = 0
            BY <4>1 DEF TypeOK, CurrentIsFresh, Versions
        <4> QED
            BY <3>1, <4>1, <4>2, <4>3
    <3>2. CASE m # l
        BY <1>3, <3>2 DEF Load, TypeOK, LoadsAreRecent
    <3> QED
        BY <3>1, <3>2
  <2> QED
    BY <2>1, <2>2, <2>3
<1>4. ASSUME NEW l \in Lookups, Store(l) PROVE IInv'
  <2>1. TypeOK' /\ CurrentIsFresh' /\ LoadsAreRecent'
    <3>1. TypeOK'
        <4>1. ttl' \in [ApiKeys -> 0..AuthTtl] /\ entry' \in [ApiKeys -> Record]
            <5>1. CASE Cached(lookup[l], found[l])
                BY <5>1 DEF Cached, TypeOK
            <5>2. CASE UNCHANGED cacheVars
                BY <5>2 DEF cacheVars, TypeOK
            <5> QED
                BY <1>4, <5>1, <5>2 DEF Store
        <4>2. step' \in [Lookups -> {"start", "load", "store", "done"}]
            BY <1>4 DEF Store, TypeOK
        <4> QED
            BY <1>4, <4>1, <4>2 DEF Store, TypeOK, dbVars, adminVars
    <3>2. CurrentIsFresh'
        BY <1>4 DEF Store, CurrentIsFresh, dbVars
    <3>3. LoadsAreRecent'
        BY <1>4 DEF Store, TypeOK, LoadsAreRecent, dbVars
    <3> QED
        BY <3>1, <3>2, <3>3
  <2>2. CASE UNCHANGED cacheVars
    <3>1. UNCHANGED <<ttl, entry, superseded>>
        BY <1>4, <2>2 DEF Store, dbVars, cacheVars
    <3> QED
        BY <2>1, <3>1 DEF EntriesExpire
  <2>3. CASE Cached(lookup[l], found[l])
    <3>1. superseded[lookup[l]][found[l].version] <= MaxLoad
        BY <1>4 DEF Store, LoadsAreRecent, TypeOK, Record, MaxAge, MaxStale
    <3> SUFFICES ASSUME NEW k \in ApiKeys, ttl'[k] > 0
                 PROVE  superseded[k][entry'[k].version] + ttl'[k] <= MaxStale
        BY <1>4, <2>1 DEF Store, EntriesExpire, dbVars
    <3>2. CASE k = lookup[l]
        BY <2>3, <3>1, <3>2 DEF Cached, TypeOK, Record, MaxAge, MaxStale
    <3>3. CASE k # lookup[l]
        BY <2>3, <3>3 DEF Cached, TypeOK, EntriesExpire
    <3> QED
        BY <3>2, <3>3
  <2> QED
    BY <1>4, <2>1, <2>2, <2>3 DEF Store
<1>5. ASSUME NEW l \in Lookups, NextRequest(l) PROVE IInv'
    BY <1>5 DEF NextRequest, TypeOK, CurrentIsFresh, EntriesExpire, LoadsAreRecent,
                dbVars, cacheVars, adminVars
<1>6. ASSUME NEW a \in Admins, Revoke(a) PROVE IInv'
    BY <1>6, ChangeIInv DEF Revoke
<1>7. ASSUME NEW a \in Admins, ManagementRevoke(a) PROVE IInv'
    BY <1>7, ChangeIInv DEF ManagementRevoke
<1>8. ASSUME NEW a \in Admins, PatchLimits(a) PROVE IInv'
    BY <1>8, ChangeIInv DEF PatchLimits, TypeOK
<1>9. ASSUME NEW a \in Admins, BeginDeleteUser(a) PROVE IInv'
    BY <1>9 DEF BeginDeleteUser, TypeOK, CurrentIsFresh, EntriesExpire, LoadsAreRecent,
                dbVars, cacheVars, lookupVars
<1>10. ASSUME NEW a \in Admins, Invalidate(a) PROVE IInv'
  <2>1. UNCHANGED <<dbVars, entry, lookupVars, route, target>>
    BY <1>10 DEF Invalidate
  <2>2. ttl' \in [ApiKeys -> 0..AuthTtl] /\ \A k \in ApiKeys : ttl'[k] \in {0, ttl[k]}
    <3>1. ttl' = ttl \/ ttl' = [ttl EXCEPT ![target[a]] = 0]
        BY <1>10 DEF Invalidate
    <3> QED
        BY <3>1 DEF TypeOK
  <2>3. admin' \in [Admins -> {"start", "invalidate", "delete", "done"}]
    BY <1>10 DEF Invalidate, TypeOK
  <2>4. TypeOK'
    BY <2>1, <2>2, <2>3 DEF TypeOK, dbVars, lookupVars
  <2>5. EntriesExpire'
    BY <2>1, <2>2 DEF EntriesExpire, dbVars
  <2>6. CurrentIsFresh' /\ LoadsAreRecent'
    BY <2>1 DEF CurrentIsFresh, LoadsAreRecent, dbVars, lookupVars
  <2> QED
    BY <2>4, <2>5, <2>6
<1>11. ASSUME NEW a \in Admins, DeleteUser(a) PROVE IInv'
    BY <1>11, ChangeIInv DEF DeleteUser
<1>12. ASSUME Tick PROVE IInv'
  <2>1. TypeOK'
    BY <1>12 DEF Tick, TypeOK, MaxAge, MaxStale, Versions, adminVars
  <2>2. CurrentIsFresh'
    BY <1>12 DEF Tick, TypeOK, CurrentIsFresh, Versions
  <2>3. EntriesExpire'
    <3> SUFFICES ASSUME NEW k \in ApiKeys, ttl'[k] > 0
                 PROVE  superseded'[k][entry[k].version] + ttl'[k] <= MaxStale
        BY <1>12 DEF Tick, EntriesExpire
    <3>1. ttl[k] > 0 /\ ttl'[k] = ttl[k] - 1
        BY <1>12 DEF Tick, TypeOK
    <3>2. entry[k].version \in Versions
        BY DEF TypeOK, Record
    <3>3. superseded'[k][entry[k].version] <= superseded[k][entry[k].version] + 1
        BY <1>12, <3>2 DEF Tick, TypeOK, MaxAge, MaxStale
    <3>4. superseded[k][entry[k].version] + ttl[k] <= MaxStale
        BY <3>1 DEF EntriesExpire
    <3> QED
        BY <3>1, <3>2, <3>3, <3>4, <2>1 DEF TypeOK, MaxAge, MaxStale
  <2>4. LoadsAreRecent'
    <3> SUFFICES ASSUME NEW l \in Lookups, step[l] = "store"
                 PROVE  superseded'[lookup[l]][found[l].version] <= held'[l]
        BY <1>12 DEF Tick, LoadsAreRecent
    <3>1. found[l].version \in Versions
        BY DEF TypeOK, Record
    <3>2. superseded'[lookup[l]][found[l].version] <= superseded[lookup[l]][found[l].version] + 1
        BY <1>12, <3>1 DEF Tick, TypeOK, MaxAge, MaxStale
    <3>3. held'[l] = held[l] + 1
        BY <1>12 DEF Tick
    <3> QED
        BY <3>1, <3>2, <3>3, <2>1 DEF LoadsAreRecent, TypeOK, MaxAge, MaxStale
  <2> QED
    BY <2>1, <2>2, <2>3, <2>4
<1>13. CASE UNCHANGED vars
    BY <1>13 DEF vars, dbVars, cacheVars, lookupVars, adminVars, TypeOK, CurrentIsFresh,
                 EntriesExpire, LoadsAreRecent
<1> QED
    BY <1>1, <1>2, <1>3, <1>4, <1>5, <1>6, <1>7, <1>8, <1>9, <1>10, <1>11, <1>12, <1>13
    DEF Next, LookupStep, AdminStep

(* Whatever the handlers and lookups do, the cache holds records of the      *)
(* loader, no older than its TTL and one load.                               *)
THEOREM Invariance == Spec => []IInv
    BY InitIInv, NextIInv, PTL DEF Spec

(* Type correctness of authApiKey's cache, its readers and its writers.       *)
THEOREM TypeCorrect == Spec => []TypeOK
    BY Invariance, PTL DEF IInv

(* The bound on stale authentication (v1.ts authApiKey) for every instance:   *)
(* no lookup ends with a version replaced more than MaxStale ago.             *)
THEOREM StalenessIsBounded == Spec => BoundedStaleness
<1> DEFINE Answered == \A l \in Lookups : step[l] # "done" /\ step'[l] = "done" =>
                          superseded[lookup[l]][found'[l].version] <= MaxStale
<1>1. IInv /\ [Next]_vars => [Answered]_vars
  <2> SUFFICES ASSUME IInv, Next, NEW l \in Lookups, step[l] # "done", step'[l] = "done"
               PROVE  superseded[lookup[l]][found'[l].version] <= MaxStale
      OBVIOUS
  <2> USE AuthCacheAssumption DEF IInv
  <2>1. Hit(l) \/ Store(l)
    <3>1. ASSUME NEW m \in Lookups, LookupStep(m) PROVE m = l /\ (Hit(l) \/ Store(l))
        BY <3>1 DEF LookupStep, Hit, Miss, Load, Store, NextRequest, TypeOK
    <3>2. ASSUME NEW a \in Admins, AdminStep(a) PROVE step' = step
        BY <3>2 DEF AdminStep, Revoke, ManagementRevoke, PatchLimits, BeginDeleteUser,
                    Invalidate, DeleteUser, lookupVars
    <3> QED
        BY <3>1, <3>2 DEF Next, Tick
  <2>2. CASE Hit(l)
    <3>1. found'[l] = entry[lookup[l]] /\ ttl[lookup[l]] > 0 /\ lookup[l] \in ApiKeys
        BY <2>2 DEF Hit, TypeOK
    <3> QED
        BY <3>1 DEF EntriesExpire, TypeOK, Record, MaxAge, MaxStale
  <2>3. CASE Store(l)
        BY <2>3 DEF Store, LoadsAreRecent, TypeOK, Record, MaxAge, MaxStale
  <2> QED
      BY <2>1, <2>2, <2>3
<1> QED
    BY <1>1, Invariance, PTL DEF Spec, BoundedStaleness
=============================================================================
