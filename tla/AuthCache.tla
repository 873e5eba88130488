----------------------------- MODULE AuthCache -----------------------------
(***************************************************************************)
(* The authentication cache of the proxy: authApiKey (routes/v1.ts) reads   *)
(* an API key through the Redis entry auth:<hash> (lib/cache.ts), while     *)
(* other handlers revoke keys, change their limits or delete their user.   *)
(*                                                                         *)
(* A record of api_keys is a version number and whether that version        *)
(* authenticates.  The steps of a handler are what lies between its awaits. *)
(***************************************************************************)
EXTENDS Integers

CONSTANTS
    ApiKeys,      \* API keys, all created
    Lookups,      \* requests of the proxy that authenticate
    Admins,       \* handlers that change a key
    Routes,       \* what these may do: a subset of RouteKinds
    AuthTtl,      \* CACHE_TTL_AUTH_S; 0 switches the cache off
    MaxLoad,      \* bound on the time from a database read to the SET it leads to
    MaxVersions,  \* bound on the changes of a key
    RedisFails    \* whether Redis commands may fail

RouteKinds == {"revoke", "mgmtRevoke", "patch", "deleteUser"}

ASSUME AuthCacheAssumption ==
    /\ Routes \subseteq RouteKinds
    /\ AuthTtl \in Nat
    /\ MaxLoad \in Nat
    /\ MaxVersions \in Nat \ {0}
    /\ RedisFails \in BOOLEAN

VARIABLES
    version,     \* api_keys: the current version of each record
    valid,       \* api_keys: whether the record is there and not revoked
    superseded,  \* how long ago each version was replaced, up to MaxAge
    entry,       \* auth:<hash>: the version cached, and whether it authenticates
    ttl,         \* time left of auth:<hash>, 0 when there is no entry
    step,        \* the await each lookup stands at
    lookup,      \* the key it looks up
    found,       \* the version it has read, and whether it authenticates
    held,        \* how long ago it read the database
    admin,       \* the await each admin handler stands at
    route,       \* what it does
    target       \* the key it changes

dbVars == <<version, valid, superseded>>
cacheVars == <<entry, ttl>>
lookupVars == <<step, lookup, found, held>>
adminVars == <<admin, route, target>>
vars == <<dbVars, cacheVars, lookupVars, adminVars>>

Versions == 1..MaxVersions
Record == [version : Versions, valid : BOOLEAN]
MaxStale == AuthTtl + MaxLoad
MaxAge == MaxStale + 1

(* Type invariant: cache entries and what lookups hold are records that the  *)
(* loader of authApiKey can return.                                          *)
TypeOK ==
    /\ version \in [ApiKeys -> Versions]
    /\ valid \in [ApiKeys -> BOOLEAN]
    /\ superseded \in [ApiKeys -> [Versions -> 0..MaxAge]]
    /\ entry \in [ApiKeys -> Record]
    /\ ttl \in [ApiKeys -> 0..AuthTtl]
    /\ step \in [Lookups -> {"start", "load", "store", "done"}]
    /\ lookup \in [Lookups -> ApiKeys]
    /\ found \in [Lookups -> Record]
    /\ held \in [Lookups -> 0..MaxLoad]
    /\ admin \in [Admins -> {"start", "invalidate", "delete", "done"}]
    /\ route \in [Admins -> RouteKinds]
    /\ target \in [Admins -> ApiKeys]

FirstVersion == [version |-> 1, valid |-> TRUE]

Init ==
    /\ version = [k \in ApiKeys |-> 1]
    /\ valid = [k \in ApiKeys |-> TRUE]
    /\ superseded = [k \in ApiKeys |-> [v \in Versions |-> 0]]
    /\ entry = [k \in ApiKeys |-> FirstVersion]
    /\ ttl = [k \in ApiKeys |-> 0]
    /\ step = [l \in Lookups |-> "start"]
    /\ lookup \in [Lookups -> ApiKeys]
    /\ found = [l \in Lookups |-> FirstVersion]
    /\ held = [l \in Lookups |-> 0]
    /\ admin = [a \in Admins |-> "start"]
    /\ route \in [Admins -> Routes]
    /\ target \in [Admins -> ApiKeys]

-----------------------------------------------------------------------------
(* cacheGetOrSet: GET, the loader's SELECT, SET with EX. *)

(* Mutants: a hit starts the TTL again, or adds to it. *)
RenewedBy_Hit(k) == ttl' = [ttl EXCEPT ![k] = AuthTtl]
RenewedBy_Extension(k) == ttl' = [ttl EXCEPT ![k] = @ + AuthTtl]
RenewedBy(k) == UNCHANGED ttl

Hit(l) ==
    /\ step[l] = "start"
    /\ ttl[lookup[l]] > 0
    /\ found' = [found EXCEPT ![l] = entry[lookup[l]]]
    /\ step' = [step EXCEPT ![l] = "done"]
    /\ RenewedBy(lookup[l])
    /\ UNCHANGED <<dbVars, entry, lookup, held, adminVars>>

(* No entry, or the error of GET is swallowed. *)
Miss(l) ==
    /\ step[l] = "start"
    /\ ttl[lookup[l]] = 0 \/ RedisFails
    /\ step' = [step EXCEPT ![l] = "load"]
    /\ UNCHANGED <<dbVars, cacheVars, lookup, found, held, adminVars>>

Load(l) ==
    /\ step[l] = "load"
    /\ found' = [found EXCEPT ![l] = [version |-> version[lookup[l]], valid |-> valid[lookup[l]]]]
    /\ held' = [held EXCEPT ![l] = 0]
    /\ step' = [step EXCEPT ![l] = "store"]
    /\ UNCHANGED <<dbVars, cacheVars, lookup, adminVars>>

Cached(k, record) ==
    /\ entry' = [entry EXCEPT ![k] = record]
    /\ ttl' = [ttl EXCEPT ![k] = AuthTtl]

(* cacheSet writes nothing when the TTL is 0, and swallows the error of SET. *)
Store(l) ==
    /\ step[l] = "store"
    /\ \/ AuthTtl > 0 /\ Cached(lookup[l], found[l])
       \/ (AuthTtl = 0 \/ RedisFails) /\ UNCHANGED cacheVars
    /\ step' = [step EXCEPT ![l] = "done"]
    /\ UNCHANGED <<dbVars, lookup, found, held, adminVars>>

(* The same client sends its next request, for any key. *)
NextRequest(l) ==
    /\ step[l] = "done"
    /\ step' = [step EXCEPT ![l] = "start"]
    /\ held' = [held EXCEPT ![l] = 0]
    /\ \E k \in ApiKeys : lookup' = [lookup EXCEPT ![l] = k]
    /\ UNCHANGED <<dbVars, cacheVars, found, adminVars>>

-----------------------------------------------------------------------------
(* The handlers that change a key. *)

(* UPDATE or DELETE: a new version, with what it says about authentication. *)
Change(k, authenticates) ==
    /\ version[k] < MaxVersions
    /\ version' = [version EXCEPT ![k] = @ + 1]
    /\ valid' = [valid EXCEPT ![k] = authenticates]
    /\ UNCHANGED superseded

(* DELETE /api/api-keys/:id sets revokedAt, then invalidates. *)
Revoke(a) ==
    /\ admin[a] = "start" /\ route[a] = "revoke"
    /\ Change(target[a], FALSE)
    /\ admin' = [admin EXCEPT ![a] = "invalidate"]
    /\ UNCHANGED <<cacheVars, lookupVars, route, target>>

(* DELETE /user-keys/:id of the management API only sets revokedAt. *)
ManagementRevoke(a) ==
    /\ admin[a] = "start" /\ route[a] = "mgmtRevoke"
    /\ Change(target[a], FALSE)
    /\ admin' = [admin EXCEPT ![a] = "done"]
    /\ UNCHANGED <<cacheVars, lookupVars, route, target>>

(* PATCH of the limits, in either API. *)
PatchLimits(a) ==
    /\ admin[a] = "start" /\ route[a] = "patch"
    /\ Change(target[a], valid[target[a]])
    /\ admin' = [admin EXCEPT ![a] = "done"]
    /\ UNCHANGED <<cacheVars, lookupVars, route, target>>

(* DELETE /api/users/:id flushes the entries of the user's keys first. *)
BeginDeleteUser(a) ==
    /\ admin[a] = "start" /\ route[a] = "deleteUser"
    /\ admin' = [admin EXCEPT ![a] = "invalidate"]
    /\ UNCHANGED <<dbVars, cacheVars, lookupVars, route, target>>

(* DEL auth:<hash>, whose error is swallowed. *)
Invalidate(a) ==
    /\ admin[a] = "invalidate"
    /\ \/ ttl' = [ttl EXCEPT ![target[a]] = 0]
       \/ RedisFails /\ UNCHANGED ttl
    /\ admin' = [admin EXCEPT ![a] = IF route[a] = "deleteUser" THEN "delete" ELSE "done"]
    /\ UNCHANGED <<dbVars, entry, lookupVars, route, target>>

DeleteUser(a) ==
    /\ admin[a] = "delete"
    /\ Change(target[a], FALSE)
    /\ admin' = [admin EXCEPT ![a] = "done"]
    /\ UNCHANGED <<cacheVars, lookupVars, route, target>>

-----------------------------------------------------------------------------
(* Time passes, but a lookup that has read the database sets the entry within *)
(* MaxLoad.                                                                   *)
Tick ==
    /\ \A l \in Lookups : step[l] = "store" => held[l] < MaxLoad
    /\ ttl' = [k \in ApiKeys |-> IF ttl[k] > 0 THEN ttl[k] - 1 ELSE 0]
    /\ held' = [l \in Lookups |-> IF step[l] = "store" THEN held[l] + 1 ELSE held[l]]
    /\ superseded' = [k \in ApiKeys |-> [v \in Versions |->
                         IF v < version[k] /\ superseded[k][v] < MaxAge
                         THEN superseded[k][v] + 1 ELSE superseded[k][v]]]
    /\ UNCHANGED <<version, valid, entry, step, lookup, found, adminVars>>

LookupStep(l) == Hit(l) \/ Miss(l) \/ Load(l) \/ Store(l) \/ NextRequest(l)

AdminStep(a) ==
    \/ Revoke(a) \/ ManagementRevoke(a) \/ PatchLimits(a)
    \/ BeginDeleteUser(a) \/ Invalidate(a) \/ DeleteUser(a)

Next ==
    \/ \E l \in Lookups : LookupStep(l)
    \/ \E a \in Admins : AdminStep(a)
    \/ Tick

Spec == Init /\ [][Next]_vars

(* The event loop and the clients of Redis and Postgres finish what a request *)
(* has begun; time passes.                                                    *)
Fairness ==
    /\ \A l \in Lookups : WF_vars(Load(l) \/ Store(l))
    /\ WF_vars(Tick)

FairSpec == Spec /\ Fairness

-----------------------------------------------------------------------------
(* Properties. *)

(* No request is authenticated by a version of the key that was replaced      *)
(* longer ago than the TTL and the time of one load, whatever route replaced  *)
(* it, in whatever order the commands came, and though invalidations fail.    *)
BoundedStaleness ==
    [][\A l \in Lookups : step[l] # "done" /\ step'[l] = "done" =>
          superseded[lookup[l]][found'[l].version] <= MaxStale]_vars

CachedValid(k) == ttl[k] > 0 /\ entry[k].valid

(* A key that was revoked, or whose user was deleted, is in the end rejected   *)
(* for good, also by the routes that do not invalidate.                       *)
RevocationTakesEffect ==
    \A k \in ApiKeys : ~ valid[k] ~> [](~ CachedValid(k))
=============================================================================
