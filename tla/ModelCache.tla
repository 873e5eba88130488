----------------------------- MODULE ModelCache -----------------------------
(***************************************************************************)
(* The cache through which the proxy reads the registry: resolveByModelId    *)
(* and GET /v1/models (routes/v1.ts) fill it, every handler that writes      *)
(* flushes it (lib/cache.ts), and nothing orders the two.                    *)
(*                                                                         *)
(* Composes with ModelRegistry: its handlers, whose flush is here a SCAN in  *)
(* batches, a DEL of each, and a DEL of the list.                            *)
(***************************************************************************)
EXTENDS ModelRegistry

CONSTANT Lookups    \* resolutions and listings of the proxy under way

Absent == [is |-> "absent"]
Unusable == [is |-> "unusable"]   \* SENTINEL of lib/cache.ts
TheList == "v1:models"

ASSUME CacheAssumption == TheList \notin Models

VARIABLES
    entry,    \* model:<id> for each id: what is cached, or Absent
    list,     \* v1:models: the models cached, or Absent
    overtaken,\* cache keys filled with what was read before a change, or whose DEL was lost
    priced,   \* cache keys there when an import wrote prices over what they hold
    get       \* the await each lookup stands at, and its locals

cache == <<entry, list, overtaken, priced>>
vars == <<registryVars, cache, get>>

(* What the loaders of resolveByModelId and of GET /v1/models return.  Mutant: null *)
(* is cached as it is, without the sentinel.                                       *)
Found == [is : {"found"}, row : Row, keyed : BOOLEAN]
Loaded_Null(row, isOn, hasKey) ==
    IF row.is = "model" /\ row.enabled /\ isOn THEN [is |-> "found", row |-> row, keyed |-> hasKey] ELSE NoRow
Loaded(row, isOn, hasKey) ==
    IF row.is = "model" /\ row.enabled /\ isOn THEN [is |-> "found", row |-> row, keyed |-> hasKey] ELSE Unusable
Current(m) ==
    IF IsRow(m) THEN Loaded(model[m], provider[model[m].provider] = "on", model[m].provider \in keyed)
    ELSE Unusable

(* The list shows id, display_name and context_window; row keeps equal ones apart. *)
ListedRow == [row : Models, id : Names, shown : Shown]
Listed ==
    {[row |-> m, id |-> model[m].name, shown |-> model[m].shown] :
        m \in {k \in Models : IsRow(k) /\ model[k].enabled /\ provider[model[k].provider] = "on"}}
Cached == {m \in Models : entry[m] # Absent}

(* Type invariant. *)
CacheTypeOK ==
    /\ entry \in [Models -> Found \cup {Absent, Unusable}]
    /\ list = Absent \/ list.models \subseteq ListedRow
    /\ overtaken \subseteq Models \cup {TheList}
    /\ priced \subseteq Models \cup {TheList}

Init ==
    /\ RegistryInit
    /\ entry = [m \in Models |-> Absent]
    /\ list = Absent
    /\ overtaken = {}
    /\ priced = {}
    /\ get = [l \in Lookups |-> Idle]

-----------------------------------------------------------------------------
(* deleteAllModelsByPattern. *)

(* Entries leave the cache, or are filled with what the database says. *)
Fresh(ids) == overtaken' = overtaken \ ids /\ priced' = priced \ ids

(* SCAN returns every key that is there from the first call to the last, and may *)
(* return others.  Mutant: only the first call is made.                          *)
Due_Never(a, batch) == {}
Due(a, batch) == (IF req[a].at = "flush" THEN Cached ELSE req[a].due) \ batch

Scan(a) ==
    /\ req[a].at = "flush" \/ (req[a].at = "scan" /\ req[a].due # {})
    /\ \E batch \in SUBSET Cached :
          Goto(a, [at |-> "del", batch |-> batch, due |-> Due(a, batch), next |-> req[a].next])
    /\ UNCHANGED <<db, cache, get>>

(* A key deleted or expired is not there from the first call to the last: the SCANs *)
(* under way end without it.                                                      *)
EndWithout(ids) ==
    [b \in Admins |-> IF req[b].at \in {"scan", "del"} THEN [req[b] EXCEPT !.due = @ \ ids] ELSE req[b]]

DeleteBatch(a) ==
    /\ req[a].at = "del"
    /\ LET batch == req[a].batch
       IN  /\ entry' = [m \in Models |-> IF m \in batch THEN Absent ELSE entry[m]]
           /\ Fresh(batch)
           /\ req' = [EndWithout(batch) EXCEPT
                         ![a] = [at |-> "scan", due |-> req[a].due \ batch, next |-> req[a].next]]
    /\ UNCHANGED <<db, list, get>>

(* The SCAN is over, or failed: DEL of the list. *)
Unlist(a) ==
    /\ req[a].at = "scan" /\ req[a].due = {}
    /\ list' = Absent
    /\ Fresh({TheList})
    /\ Goto(a, req[a].next)
    /\ UNCHANGED <<db, entry, get>>

(* A handler that is sure to delete the entry of m, or the list, before it ends. *)
Writes(a) == req[a].at \in {"next", "upsert", "scrape"}
WillDelete(a, m) ==
    \/ Writes(a) \/ req[a].at = "flush"
    \/ req[a].at = "scan" /\ m \in req[a].due
    \/ req[a].at = "del" /\ m \in req[a].batch \cup req[a].due
WillUnlist(a) == Writes(a) \/ req[a].at \in {"flush", "scan", "del"}

(* Stale entries, and the stale list, that a handler was to delete. *)
StaleList == list # Absent /\ list.models # Listed
EntriesOf(a) == {m \in Cached : entry[m] # Current(m) /\ WillDelete(a, m)}
ListOf(a) == IF StaleList /\ WillUnlist(a) THEN {TheList} ELSE {}

(* A query fails, and the handler with it, or its process: nothing more is deleted. *)
LoseFlush(a) ==
    /\ FailRequest(a)
    /\ overtaken' = overtaken \cup EntriesOf(a) \cup ListOf(a)
    /\ UNCHANGED <<entry, list, priced, get>>

(* A SCAN or a DEL of entries fails: the error is swallowed, the list is deleted next. *)
LoseScan(a) ==
    /\ req[a].at \in {"flush", "del"} \/ (req[a].at = "scan" /\ req[a].due # {})
    /\ overtaken' = overtaken \cup EntriesOf(a)
    /\ Goto(a, [at |-> "scan", due |-> {}, next |-> req[a].next])
    /\ UNCHANGED <<db, entry, list, priced, get>>

(* The DEL of the list fails, and its error is swallowed. *)
LoseUnlist(a) ==
    /\ req[a].at = "scan" /\ req[a].due = {}
    /\ overtaken' = overtaken \cup ListOf(a)
    /\ Goto(a, req[a].next)
    /\ UNCHANGED <<db, entry, list, priced, get>>

(* What an import writes after its flush; the list shows the context window. *)
PriceModels(a) ==
    /\ SetImportedPrices(a)
    /\ priced' = priced \cup {m \in Cached : model'[m] # model[m]}
                        \cup (IF list # Absent /\ Listed' # Listed THEN {TheList} ELSE {})
    /\ UNCHANGED <<entry, list, overtaken, get>>

-----------------------------------------------------------------------------
(* Lookups: GET, the SELECTs of the loader, SET. *)

Proceed(l, stage) == get' = [get EXCEPT ![l] = stage]
Store(l, m, found) == Proceed(l, [at |-> "store", id |-> m, found |-> found])

(* A miss; a hit changes nothing.  The SELECT of the model comes first. *)
LoadModel(l) ==
    /\ get[l] = Idle
    /\ \E m \in Models :
          /\ entry[m] = Absent
          /\ IF IsRow(m) /\ model[m].enabled THEN Proceed(l, [at |-> "provider", id |-> m, row |-> model[m]])
             ELSE Store(l, m, Loaded(model[m], FALSE, FALSE))
    /\ UNCHANGED <<registryVars, cache>>

LoadProvider(l) ==
    /\ get[l].at = "provider"
    /\ IF provider[get[l].row.provider] = "on" THEN Proceed(l, [get[l] EXCEPT !.at = "keys"])
       ELSE Store(l, get[l].id, Loaded(get[l].row, FALSE, FALSE))
    /\ UNCHANGED <<registryVars, cache>>

LoadKeys(l) ==
    /\ get[l].at = "keys"
    /\ Store(l, get[l].id, Loaded(get[l].row, TRUE, get[l].row.provider \in keyed))
    /\ UNCHANGED <<registryVars, cache>>

StoreEntry(l) ==
    /\ get[l].at = "store"
    /\ LET m == get[l].id
       IN  /\ entry' = [entry EXCEPT ![m] = get[l].found]
           /\ IF get[l].found = Current(m) THEN Fresh({m})
              ELSE overtaken' = overtaken \cup {m} /\ UNCHANGED priced
    /\ Proceed(l, Idle)
    /\ UNCHANGED <<registryVars, list>>

LoadList(l) ==
    /\ get[l] = Idle
    /\ list = Absent
    /\ Proceed(l, [at |-> "storeList", models |-> Listed])
    /\ UNCHANGED <<registryVars, cache>>

StoreList(l) ==
    /\ get[l].at = "storeList"
    /\ list' = [is |-> "list", models |-> get[l].models]
    /\ IF get[l].models = Listed THEN Fresh({TheList})
       ELSE overtaken' = overtaken \cup {TheList} /\ UNCHANGED priced
    /\ Proceed(l, Idle)
    /\ UNCHANGED <<registryVars, entry>>

ExpireEntry ==
    /\ \E m \in Cached :
          /\ entry' = [entry EXCEPT ![m] = Absent]
          /\ Fresh({m})
          /\ req' = EndWithout({m})
    /\ UNCHANGED <<db, list, get>>

ExpireList ==
    /\ list # Absent /\ list' = Absent /\ Fresh({TheList})
    /\ UNCHANGED <<registryVars, entry, get>>

AdminStep(a) ==
    \/ HandlerStep(a) /\ UNCHANGED <<cache, get>>
    \/ PriceModels(a) \/ LoseFlush(a)
    \/ Scan(a) \/ DeleteBatch(a) \/ Unlist(a) \/ LoseScan(a) \/ LoseUnlist(a)

LookupStep(l) ==
    LoadModel(l) \/ LoadProvider(l) \/ LoadKeys(l) \/ StoreEntry(l) \/ LoadList(l) \/ StoreList(l)

Next == (\E a \in Admins : AdminStep(a)) \/ (\E l \in Lookups : LookupStep(l)) \/ ExpireEntry \/ ExpireList

Spec == Init /\ [][Next]_vars

-----------------------------------------------------------------------------
(* Properties. *)

StaleModelsAreFlushed ==
    \A m \in Cached :
        entry[m] = Current(m) \/ m \in overtaken \/ m \in priced \/ \E a \in Admins : WillDelete(a, m)

StaleListIsFlushed ==
    StaleList => TheList \in overtaken \/ TheList \in priced \/ \E a \in Admins : WillUnlist(a)

(* Whatever handlers and flushes run side by side, a cached model that is not what   *)
(* the database says is about to be deleted, unless its reader was overtaken by the *)
(* change, its own DEL was lost, or an import wrote its price after the flush; and  *)
(* so is the list of GET /v1/models, with the names and context windows it shows,   *)
(* which is deleted last, also when the entries before it could not be.             *)
StaleEntriesAreFlushed == StaleModelsAreFlushed /\ StaleListIsFlushed
=============================================================================
