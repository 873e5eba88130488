----------------------------- MODULE KeyHealth -----------------------------
(***************************************************************************)
(* The health state of the provider keys: what lib/key-health.ts keeps in  *)
(* Redis under pk:<id>:cooldown, :circuit, :failures and :inflight, and    *)
(* the counter rr:selectKey that every pool shares.                        *)
(*                                                                         *)
(* There is one operator per Redis COMMAND, because a command is what Redis *)
(* executes atomically; the handlers that issue several commands, with an  *)
(* await between them, are composed from these in ChatCompletions.         *)
(*                                                                         *)
(* A key with an expiry is represented by the time it has left.  Absent is *)
(* 0; NoTtl stands for a value that is stored without an expiry.           *)
(***************************************************************************)
EXTENDS Integers, FiniteSets, Sequences

CONSTANTS
    Keys,               \* provider keys
    FailureThreshold,   \* CIRCUIT_FAILURE_THRESHOLD
    CircuitWindow,      \* CIRCUIT_WINDOW_S
    CircuitOpenTtl,     \* CIRCUIT_OPEN_TTL_S
    CooldownTtl,        \* COOLDOWN_TTL_S
    AuthCooldownTtl,    \* the hour that a 401 or a 403 disables a key for
    TieSlack            \* how much busier than the least busy key a pick may be

ASSUME KeyHealthAssumption ==
    /\ FailureThreshold \in Nat \ {0}
    /\ CircuitWindow \in Nat \ {0}
    /\ CircuitOpenTtl \in Nat \ {0}
    /\ CooldownTtl \in Nat \ {0}
    /\ AuthCooldownTtl \in Nat \ {0}
    /\ TieSlack \in Nat

VARIABLES
    cooldown,     \* time left of pk:<id>:cooldown
    circuit,      \* time left of pk:<id>:circuit
    failures,     \* value of pk:<id>:failures, 0 when absent
    failuresTtl,  \* time left of pk:<id>:failures, or NoTtl
    inflight,     \* value of pk:<id>:inflight; it never expires
    rrSelect      \* value of rr:selectKey

healthVars == <<cooldown, circuit, failures, failuresTtl, inflight, rrSelect>>

NoTtl == -1

HealthTypeOK ==
    /\ cooldown \in [Keys -> Nat]
    /\ circuit \in [Keys -> Nat]
    /\ failures \in [Keys -> Nat]
    /\ failuresTtl \in [Keys -> Nat \cup {NoTtl}]
    /\ inflight \in [Keys -> Int]
    /\ rrSelect \in Nat

HealthInit ==
    /\ cooldown = [k \in Keys |-> 0]
    /\ circuit = [k \in Keys |-> 0]
    /\ failures = [k \in Keys |-> 0]
    /\ failuresTtl = [k \in Keys |-> 0]
    /\ inflight = [k \in Keys |-> 0]
    /\ rrSelect = 0

(* getKeyHealth(...).available: neither in cooldown nor circuit-open. *)
Available(k) == cooldown[k] = 0 /\ circuit[k] = 0

-----------------------------------------------------------------------------
(* The commands of incrInflight and decrInflight. *)

IncrInflight(k) ==
    /\ inflight' = [inflight EXCEPT ![k] = @ + 1]
    /\ UNCHANGED <<cooldown, circuit, failures, failuresTtl, rrSelect>>

FloorInflight(k) ==
    /\ inflight' = [inflight EXCEPT ![k] = 0]
    /\ UNCHANGED <<cooldown, circuit, failures, failuresTtl, rrSelect>>

(* Mutant: the last slot is never given back. *)
DecrInflight_KeepsLast(k) ==
    /\ inflight' = [inflight EXCEPT ![k] = IF @ > 1 THEN @ - 1 ELSE @]
    /\ UNCHANGED <<cooldown, circuit, failures, failuresTtl, rrSelect>>

DecrInflight(k) ==
    /\ inflight' = [inflight EXCEPT ![k] = @ - 1]
    /\ UNCHANGED <<cooldown, circuit, failures, failuresTtl, rrSelect>>

-----------------------------------------------------------------------------
(* The commands of recordSuccess and recordError. *)

(* Mutant: the failure counter is left alone. *)
ClearHealth_KeepsFailures(k) ==
    /\ cooldown' = [cooldown EXCEPT ![k] = 0]
    /\ circuit' = [circuit EXCEPT ![k] = 0]
    /\ UNCHANGED <<failures, failuresTtl, inflight, rrSelect>>

ClearHealth(k) ==
    /\ cooldown' = [cooldown EXCEPT ![k] = 0]
    /\ circuit' = [circuit EXCEPT ![k] = 0]
    /\ failures' = [failures EXCEPT ![k] = 0]
    /\ failuresTtl' = [failuresTtl EXCEPT ![k] = 0]
    /\ UNCHANGED <<inflight, rrSelect>>

(* SET with PX overwrites both the value and the time left. *)
SetCooldown(k, ttl) ==
    /\ cooldown' = [cooldown EXCEPT ![k] = ttl]
    /\ UNCHANGED <<circuit, failures, failuresTtl, inflight, rrSelect>>

(* INCR keeps the expiry of a counter that exists and gives none to a new one. *)
IncrFailures(k) ==
    /\ failures' = [failures EXCEPT ![k] = @ + 1]
    /\ failuresTtl' = [failuresTtl EXCEPT ![k] = IF failures[k] = 0 THEN NoTtl ELSE @]
    /\ UNCHANGED <<cooldown, circuit, inflight, rrSelect>>

(* Mutant: only the error that opens the circuit starts the window. *)
ExpireFailures_AtThreshold(k) ==
    /\ failuresTtl' = [failuresTtl EXCEPT ![k] =
                          IF failures[k] < FailureThreshold THEN @ ELSE CircuitWindow]
    /\ UNCHANGED <<cooldown, circuit, failures, inflight, rrSelect>>

(* EXPIRE starts the window again on every error; it does nothing when the  *)
(* counter has gone meanwhile.                                              *)
ExpireFailures(k) ==
    /\ failuresTtl' = [failuresTtl EXCEPT ![k] = IF failures[k] = 0 THEN @ ELSE CircuitWindow]
    /\ UNCHANGED <<cooldown, circuit, failures, inflight, rrSelect>>

(* Mutant: SET without EX. *)
OpenCircuit_NoExpiry(k) ==
    /\ circuit' = [circuit EXCEPT ![k] = NoTtl]
    /\ UNCHANGED <<cooldown, failures, failuresTtl, inflight, rrSelect>>

OpenCircuit(k) ==
    /\ circuit' = [circuit EXCEPT ![k] = CircuitOpenTtl]
    /\ UNCHANGED <<cooldown, failures, failuresTtl, inflight, rrSelect>>

-----------------------------------------------------------------------------
(* selectKey.  A pool is a sequence of keys; a handler has read which of its *)
(* positions were available and the inflight values, and owns the number idx *)
(* that INCR rr:selectKey returned.                                          *)

AvailablePositions(pool) == {i \in DOMAIN pool : Available(pool[i])}

(* Where i stands, counted from 0, in the filtered array `available`. *)
RankIn(i, avail) == Cardinality({j \in avail : j < i})

(* The first position with the least inflight: the sort is stable. *)
LeastLoaded(i, pool, avail, load) ==
    \A j \in avail : \/ load[pool[i]] < load[pool[j]]
                     \/ load[pool[i]] = load[pool[j]] /\ i <= j

Overloaded(i, pool, avail, load) ==
    \E j \in avail : load[pool[i]] > load[pool[j]] + TieSlack

(* The positions selectKey may return; there is exactly one. *)
Picks(pool, avail, load, idx) ==
    LET turn == {i \in avail : RankIn(i, avail) = idx % Cardinality(avail)}
    IN  {i \in avail : IF \E t \in turn : Overloaded(t, pool, avail, load)
                       THEN LeastLoaded(i, pool, avail, load)
                       ELSE i \in turn}

IncrRoundRobin_Read == UNCHANGED healthVars  \* mutant: GET in place of INCR

IncrRoundRobin ==
    /\ rrSelect' = rrSelect + 1
    /\ UNCHANGED <<cooldown, circuit, failures, failuresTtl, inflight>>

-----------------------------------------------------------------------------
(* Redis on its own. *)

(* Time passes while some expiry is running. *)
Tick ==
    LET left(t) == IF t > 0 THEN t - 1 ELSE t
    IN  /\ \E k \in Keys : cooldown[k] > 0 \/ circuit[k] > 0 \/ failuresTtl[k] > 0
        /\ cooldown' = [k \in Keys |-> left(cooldown[k])]
        /\ circuit' = [k \in Keys |-> left(circuit[k])]
        /\ failures' = [k \in Keys |-> IF failuresTtl[k] = 1 THEN 0 ELSE failures[k]]
        /\ failuresTtl' = [k \in Keys |-> left(failuresTtl[k])]
        /\ UNCHANGED <<inflight, rrSelect>>

(* Redis is lost and comes back empty: the cold start of the file's header. *)
Flush ==
    /\ cooldown' = [k \in Keys |-> 0]
    /\ circuit' = [k \in Keys |-> 0]
    /\ failures' = [k \in Keys |-> 0]
    /\ failuresTtl' = [k \in Keys |-> 0]
    /\ inflight' = [k \in Keys |-> 0]
    /\ rrSelect' = 0
=============================================================================
