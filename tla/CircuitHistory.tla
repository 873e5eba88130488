--------------------------- MODULE CircuitHistory ---------------------------
(***************************************************************************)
(* ChatCompletions with a history: for each key, how long ago each server  *)
(* error since its last success was recorded.  The circuit breaker keeps   *)
(* only a counter with an expiry; the history says what that counter is    *)
(* worth.                                                                  *)
(***************************************************************************)
EXTENDS ChatCompletions

VARIABLE errors  \* [Keys -> Seq(Nat)], oldest first

historyVars == <<vars, errors>>

HistoryInit == Init /\ errors = [k \in Keys |-> <<>>]

Older(ages) == [i \in DOMAIN ages |-> ages[i] + 1]

Observe ==
    errors' = [k \in Keys |->
        CASE TimePasses -> Older(errors[k])
          [] \E r \in Requests : RecordServerError(r) /\ Key(r) = k -> Append(errors[k], 0)
          [] \E r \in Requests : RecordSuccess(r) /\ Key(r) = k -> <<>>
          [] OTHER -> errors[k]]

HistoryNext == Next /\ Observe

HistorySafety == HistoryInit /\ [][HistoryNext]_historyVars

-----------------------------------------------------------------------------
(* The counter never claims more errors than were recorded since the key last *)
(* answered, in whatever order the commands of the requests and the expiries  *)
(* came: a recovered key starts from zero (recordSuccess).                    *)
FailuresSinceSuccess ==
    \A k \in Keys : failures[k] <= Len(errors[k])
=============================================================================
