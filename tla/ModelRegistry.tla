---------------------------- MODULE ModelRegistry ----------------------------
(***************************************************************************)
(* Providers, their keys, models and routing rules: the handlers of the     *)
(* dashboard's routes (routes/providers.ts, routes/routing.ts), each a       *)
(* sequence of queries with the other handlers between them.                *)
(*                                                                         *)
(* No unique constraint spans the rows of models, nor the names of           *)
(* providers: a synchronisation or an import finds out by a SELECT whether  *)
(* it is to UPDATE or to INSERT.  Every handler that writes ends with a      *)
(* flush of the model cache, which module ModelCache details.                *)
(***************************************************************************)
EXTENDS FiniteSets, Integers

CONSTANTS
    Providers,  \* UUIDs of providers, all with one name
    Models,     \* UUIDs of models
    Names,      \* upstream ids
    Prices,     \* prices of a row
    Shown,      \* what GET /v1/models shows of a row: displayName and contextWindow
    Admins      \* handlers of the dashboard under way

NoRow == [is |-> "none"]
Gone == [is |-> "gone"]
NoRule == "no rule"
None == "none"

ASSUME RegistryAssumption ==
    /\ IsFiniteSet(Models)
    /\ IsFiniteSet(Admins)
    /\ None \notin Models

VARIABLES
    provider, \* providers: "none", "on", "off" or "gone"
    keyed,    \* provider_keys: the providers with an active key
    model,    \* models: the row of each id
    rule,     \* routing_rules: the primary model of an alias, or NoRule
    req       \* the await each handler stands at, and its locals

db == <<provider, keyed, model, rule>>
registryVars == <<db, req>>

Row == [is : {"model"}, provider : Providers, name : Names, enabled : BOOLEAN,
        shown : Shown, price : Prices]

IsRow(m) == model[m].is = "model"
Live(p) == provider[p] \in {"on", "off"}
RowsOf(p) == {m \in Models : IsRow(m) /\ model[m].provider = p}
Matches(p, n) == {m \in RowsOf(p) : model[m].name = n}

Idle == [at |-> "idle"]

(* Type invariant.  A model has an upstream id. *)
TypeOK ==
    /\ provider \in [Providers -> {"none", "on", "off", "gone"}]
    /\ keyed \subseteq Providers
    /\ model \in [Models -> Row \cup {NoRow, Gone}]
    /\ rule \in Models \cup {NoRule}

RegistryInit ==
    /\ provider = [p \in Providers |-> "none"]
    /\ keyed = {}
    /\ model = [m \in Models |-> NoRow]
    /\ rule = NoRule
    /\ req = [a \in Admins |-> Idle]

Goto(a, stage) == req' = [req EXCEPT ![a] = stage]

(* invalidateModelCache, and what the handler does after it. *)
FlushThen(stage) == [at |-> "flush", next |-> stage]
Flushes(a) == Goto(a, FlushThen(Idle))

-----------------------------------------------------------------------------
(* Providers and keys. *)

CreateProvider(a) ==
    /\ req[a] = Idle
    /\ \E p \in Providers, state \in {"on", "off"} :
          provider[p] = "none" /\ provider' = [provider EXCEPT ![p] = state]
    /\ Flushes(a)
    /\ UNCHANGED <<keyed, model, rule>>

PatchProvider(a) ==
    /\ req[a] = Idle
    /\ \E p \in Providers, state \in {"on", "off"} :
          Live(p) /\ provider' = [provider EXCEPT ![p] = state]
    /\ Flushes(a)
    /\ UNCHANGED <<keyed, model, rule>>

(* Keys and models go with the provider, rules with their primary model.  Mutant: *)
(* the rules stay.                                                                *)
RuleAfter_Kept(rows) == rule
RuleAfter(rows) == IF rule \in rows THEN NoRule ELSE rule

DeleteProvider(a) ==
    /\ req[a] = Idle
    /\ \E p \in Providers :
          /\ Live(p)
          /\ provider' = [provider EXCEPT ![p] = "gone"]
          /\ keyed' = keyed \ {p}
          /\ model' = [m \in Models |-> IF m \in RowsOf(p) THEN Gone ELSE model[m]]
          /\ rule' = RuleAfter(RowsOf(p))
    /\ Flushes(a)

(* SELECT of the provider. *)
BeginAddKey(a) ==
    /\ req[a] = Idle
    /\ \E p \in Providers : Live(p) /\ Goto(a, [at |-> "key", provider |-> p])
    /\ UNCHANGED db

(* A foreign key refuses a key or a model to a provider that is gone; the handler *)
(* fails with it.  Mutant: there is no foreign key.                               *)
Accepts_Any(p) == TRUE
Accepts(p) == Live(p)

AddKey(a) ==
    /\ req[a].at = "key"
    /\ LET p == req[a].provider
       IN  \/ Accepts(p) /\ keyed' = keyed \cup {p} /\ Flushes(a)
           \/ ~ Accepts(p) /\ Goto(a, Idle) /\ UNCHANGED keyed
    /\ UNCHANGED <<provider, model, rule>>

(* The last key of a provider. *)
DeleteKey(a) ==
    /\ req[a] = Idle
    /\ \E p \in keyed : keyed' = keyed \ {p}
    /\ Flushes(a)
    /\ UNCHANGED <<provider, model, rule>>

-----------------------------------------------------------------------------
(* Models: synchronisation and import share the loop over the names found. *)

(* The names left, and what follows the flush: nothing, or an import's prices. *)
Loop(p, todo, then) == [at |-> "next", provider |-> p, todo |-> todo, then |-> then]
ThenPrices == [at |-> "named"]
Imports(a) == req[a].then # Idle

(* SELECTs of the provider and of a key; then the upstream's list. *)
BeginSync(a) ==
    /\ req[a] = Idle
    /\ \E p \in keyed, todo \in SUBSET Names : Goto(a, Loop(p, todo, Idle))
    /\ UNCHANGED db

(* SELECT of the provider by its name. *)
BeginImport(a) ==
    /\ req[a] = Idle
    /\ \/ \E p \in Providers : Live(p) /\ Goto(a, [at |-> "import", provider |-> p])
       \/ (\A p \in Providers : ~ Live(p)) /\ Goto(a, [at |-> "import", provider |-> None])
    /\ UNCHANGED db

(* Models of the file without an upstream id are skipped.  Mutant: they are not. *)
Importable_Any == Names \cup {None}
Importable == Names

(* UPDATE of the provider found, or INSERT of a new one. *)
ImportProvider(a) ==
    /\ req[a].at = "import"
    /\ \E p \in Providers, state \in {"on", "off"}, todo \in SUBSET Importable :
          /\ IF req[a].provider = None THEN provider[p] = "none" ELSE p = req[a].provider
          /\ provider' = [provider EXCEPT ![p] = IF @ = "gone" THEN @ ELSE state]
          /\ Goto(a, Loop(p, todo, ThenPrices))
    /\ UNCHANGED <<keyed, model, rule>>

(* SELECT by provider and upstream id, LIMIT 1.  Mutant: it finds nothing. *)
Existing_Never(p, n) == {}
Existing(p, n) == Matches(p, n)

SelectModel(a) ==
    /\ req[a].at = "next"
    /\ LET p == req[a].provider
       IN  \E n \in req[a].todo :
             \E m \in IF Existing(p, n) = {} THEN {None} ELSE Existing(p, n) :
                Goto(a, [at |-> "upsert", provider |-> p, todo |-> req[a].todo \ {n}, name |-> n,
                         model |-> m, then |-> req[a].then])
    /\ UNCHANGED db

Returns(a) == Goto(a, Loop(req[a].provider, req[a].todo, req[a].then))

(* UPDATE of the row found, if it is still there; a synchronisation leaves enabled alone. *)
UpdateModel(a) ==
    /\ req[a].at = "upsert" /\ req[a].model # None
    /\ LET m == req[a].model
       IN  \/ \E enabled \in BOOLEAN, shown \in Shown, price \in Prices :
                /\ IsRow(m)
                /\ Imports(a) \/ enabled = model[m].enabled
                /\ model' = [model EXCEPT ![m].enabled = enabled, ![m].shown = shown, ![m].price = price]
           \/ ~ IsRow(m) /\ UNCHANGED model
    /\ Returns(a)
    /\ UNCHANGED <<provider, keyed, rule>>

InsertModel(a) ==
    /\ req[a].at = "upsert" /\ req[a].model = None
    /\ LET p == req[a].provider
       IN  \/ /\ Accepts(p)
              /\ \E m \in Models, enabled \in BOOLEAN, shown \in Shown, price \in Prices :
                    /\ model[m] = NoRow
                    /\ Imports(a) \/ enabled
                    /\ model' = [model EXCEPT ![m] = [is |-> "model", provider |-> p, name |-> req[a].name,
                                                      enabled |-> enabled, shown |-> shown, price |-> price]]
              /\ Returns(a)
           \/ ~ Accepts(p) /\ Goto(a, Idle) /\ UNCHANGED model
    /\ UNCHANGED <<provider, keyed, rule>>

EndLoop(a) ==
    /\ req[a].at = "next" /\ req[a].todo = {}
    /\ Goto(a, FlushThen(req[a].then))
    /\ UNCHANGED db

(* After its flush an import looks for the provider by its name once more ... *)
FindImported(a) ==
    /\ req[a].at = "named"
    /\ \/ \E p \in Providers : Live(p) /\ Goto(a, [at |-> "prices", provider |-> p])
       \/ Goto(a, Idle)
    /\ UNCHANGED db

(* ... and writes what it finds upstream, the context window with the prices, or the *)
(* prices of its own table, row by row.                                            *)
SetImportedPrices(a) ==
    /\ req[a].at = "prices"
    /\ \/ /\ \E n \in Names, shown \in Shown, price \in Prices :
             model' = [m \in Models |-> IF m \in Matches(req[a].provider, n)
                                        THEN [model[m] EXCEPT !.shown = shown, !.price = price] ELSE model[m]]
          /\ UNCHANGED req
       \/ /\ \E m \in RowsOf(req[a].provider), price \in Prices : model' = [model EXCEPT ![m].price = price]
          /\ UNCHANGED req
       \/ Goto(a, Idle) /\ UNCHANGED model
    /\ UNCHANGED <<provider, keyed, rule>>

(* scrape-prices: SELECT of all models, UPDATE of those that have a price. *)
BeginScrape(a) ==
    /\ req[a] = Idle
    /\ \E p \in Providers : Goto(a, [at |-> "scrape", todo |-> RowsOf(p)])
    /\ UNCHANGED db

Scrape(a) ==
    /\ req[a].at = "scrape"
    /\ \/ \E m \in req[a].todo, shown \in Shown, price \in Prices :
             /\ model' = [model EXCEPT ![m] = IF IsRow(m) THEN [@ EXCEPT !.shown = shown, !.price = price] ELSE @]
             /\ Goto(a, [req[a] EXCEPT !.todo = @ \ {m}])
       \/ Flushes(a) /\ UNCHANGED model
    /\ UNCHANGED <<provider, keyed, rule>>

(* PATCH of one model, by its id alone.  Mutant: without a flush. *)
PatchFlushes_Not(a) == UNCHANGED req
PatchFlushes(a) == Flushes(a)

PatchModel(a) ==
    /\ req[a] = Idle
    /\ \E m \in Models, enabled \in BOOLEAN, shown \in Shown, price \in Prices :
          /\ IsRow(m)
          /\ model' = [model EXCEPT ![m].enabled = enabled, ![m].shown = shown, ![m].price = price]
    /\ PatchFlushes(a)
    /\ UNCHANGED <<provider, keyed, rule>>

BulkEnable(a) ==
    /\ req[a] = Idle
    /\ \E p \in Providers, ids \in SUBSET Models \ {{}}, enabled \in BOOLEAN :
          model' = [m \in Models |-> IF m \in ids \cap RowsOf(p)
                                     THEN [model[m] EXCEPT !.enabled = enabled] ELSE model[m]]
    /\ Flushes(a)
    /\ UNCHANGED <<provider, keyed, rule>>

(* Routing rules: inserted once for an alias, for a primary model that exists, then *)
(* pointed at another, or deleted.                                                  *)
WriteRule(a) ==
    /\ req[a] = Idle
    /\ \/ \E m \in Models : IsRow(m) /\ rule' = m
       \/ rule # NoRule /\ rule' = NoRule
    /\ Flushes(a)
    /\ UNCHANGED <<provider, keyed, model>>

(* A query fails, and the handler with it: what it wrote stays. *)
FailRequest(a) ==
    /\ req[a] # Idle
    /\ Goto(a, Idle)
    /\ UNCHANGED db

(* deleteAllModelsByPattern, in one step. *)
Flush(a) ==
    /\ req[a].at = "flush"
    /\ Goto(a, req[a].next)
    /\ UNCHANGED db

HandlerStep(a) ==
    \/ CreateProvider(a) \/ PatchProvider(a) \/ DeleteProvider(a)
    \/ BeginAddKey(a) \/ AddKey(a) \/ DeleteKey(a)
    \/ BeginSync(a) \/ BeginImport(a) \/ ImportProvider(a)
    \/ SelectModel(a) \/ UpdateModel(a) \/ InsertModel(a) \/ EndLoop(a) \/ FindImported(a)
    \/ BeginScrape(a) \/ Scrape(a) \/ PatchModel(a) \/ BulkEnable(a) \/ WriteRule(a)

RegistryNext == \E a \in Admins : HandlerStep(a) \/ SetImportedPrices(a) \/ FailRequest(a) \/ Flush(a)

RegistrySpec == RegistryInit /\ [][RegistryNext]_registryVars

-----------------------------------------------------------------------------
(* Properties. *)

(* A provider has a model once for each handler that synchronised or imported it at *)
(* the same time, at most: once a row is there nobody adds another.                *)
DuplicatesBounded ==
    \A p \in Providers, n \in Names : Cardinality(Matches(p, n)) <= Cardinality(Admins)

(* Deleting a provider leaves no key, model or rule that refers to it, also when a  *)
(* synchronisation of it, or the addition of a key, is under way.                   *)
ReferencesHold ==
    /\ \A p \in keyed : Live(p)
    /\ \A m \in Models : IsRow(m) => Live(model[m].provider)
    /\ rule # NoRule => IsRow(rule)
=============================================================================
