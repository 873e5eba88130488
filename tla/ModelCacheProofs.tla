-------------------------- MODULE ModelCacheProofs --------------------------
(***************************************************************************)
(* The tables and the cache of models, for any number of providers, models,   *)
(* names, handlers and lookups.                                            *)
(*                                                                         *)
(* First the tables (ModelRegistry): nothing refers to a row that is gone,    *)
(* and a model has no more rows than there are handlers at work.  Both rest   *)
(* on the types of the locals.  The bound on rows is inductive once the       *)
(* handlers that are about to INSERT are counted with the rows.               *)
(*                                                                         *)
(* Then the cache (ModelCache), whose handlers take the same steps: what is   *)
(* stale in it is about to be deleted, but for the three exceptions that the  *)
(* property names.  As it stands the property is not inductive.  A             *)
(* synchronisation of a provider that was deleted fails at its next INSERT    *)
(* and flushes nothing, so it may not be counted on: Covers leaves it out.    *)
(* That it has nothing to flush follows from the tables (ReferencesHold): its *)
(* models are gone.                                                        *)
(***************************************************************************)
EXTENDS ModelCache, FiniteSetTheorems, TLAPS

Thens == {Idle, ThenPrices}
Stages ==
    Thens
        \cup [at : {"flush"}, next : Thens]
        \cup [at : {"key", "prices"}, provider : Providers]
        \cup [at : {"import"}, provider : Providers \cup {None}]
        \cup [at : {"next"}, provider : Providers, todo : SUBSET Names, then : Thens]
        \cup [at : {"upsert"}, provider : Providers, todo : SUBSET Names, name : Names,
              model : Models \cup {None}, then : Thens]
        \cup [at : {"scrape"}, todo : SUBSET Models]

ReqTypeOK == req \in [Admins -> Stages]

(* Handlers whose SELECT found no row of a name, and whose INSERT is still to come. *)
Inserts(q, p, n) == q.at = "upsert" /\ q.model = None /\ q.provider = p /\ q.name = n
Inserters(p, n) == {a \in Admins : Inserts(req[a], p, n)}
RowsAndInserters ==
    \A p \in Providers, n \in Names :
        Cardinality(Matches(p, n)) + Cardinality(Inserters(p, n)) <= Cardinality(Admins)

IInv == TypeOK /\ ReqTypeOK /\ ReferencesHold /\ RowsAndInserters

RegistryStep(a) == HandlerStep(a) \/ SetImportedPrices(a) \/ FailRequest(a) \/ Flush(a)

LEMMA StageFields ==
    ASSUME NEW q \in Stages
    PROVE  /\ q.at = "idle" => q = Idle
           /\ q.at = "flush" => q.next \in Thens
           /\ q.at \in {"key", "prices"} => q.provider \in Providers
           /\ q.at = "import" => q.provider \in Providers \cup {None}
           /\ q.at \in {"next", "upsert"} =>
                  q.provider \in Providers /\ q.todo \in SUBSET Names /\ q.then \in Thens
           /\ q.at = "upsert" => q.name \in Names /\ q.model \in Models \cup {None}
           /\ q.at = "scrape" => q.todo \in SUBSET Models /\ q = [at |-> "scrape", todo |-> q.todo]
BY DEF Stages, Thens, Idle, ThenPrices

LEMMA StagesBuilt ==
    ASSUME NEW p \in Providers, NEW todo \in SUBSET Names, NEW then \in Thens, NEW rows \in SUBSET Models
    PROVE  /\ Idle \in Stages /\ then \in Stages /\ FlushThen(then) \in Stages /\ FlushThen(Idle) \in Stages
           /\ [at |-> "key", provider |-> p] \in Stages
           /\ [at |-> "prices", provider |-> p] \in Stages
           /\ [at |-> "import", provider |-> p] \in Stages
           /\ [at |-> "import", provider |-> None] \in Stages
           /\ Loop(p, todo, then) \in Stages
           /\ [at |-> "scrape", todo |-> rows] \in Stages
BY DEF Stages, Thens, FlushThen, Loop

-----------------------------------------------------------------------------
(* What a step does to the tables. *)

(* Rows are written in place. *)
Rewrites ==
    /\ UNCHANGED <<provider, keyed, rule>>
    /\ model' \in [Models -> Row \cup {NoRow, Gone}]
    /\ \A m \in Models :
          /\ IsRow(m)' <=> IsRow(m)
          /\ IsRow(m) => model'[m].provider = model[m].provider /\ model'[m].name = model[m].name
          /\ ~ IsRow(m) => model'[m] = model[m]

(* A row stays with its provider until it is gone for good. *)
KeepsRows ==
    \A m \in Models :
        /\ model[m] = Gone => model'[m] = Gone
        /\ IsRow(m) => model'[m] = Gone \/ (IsRow(m)' /\ model'[m].provider = model[m].provider)

(* No row is added, nor given to another provider or name. *)
AddsNoRow ==
    \A m \in Models : IsRow(m)' =>
        IsRow(m) /\ model'[m].provider = model[m].provider /\ model'[m].name = model[m].name

LEMMA RowOrNot ==
    ASSUME NEW row \in Row \cup {NoRow, Gone}
    PROVE  row.is = "model" <=> row \in Row
BY DEF Row, NoRow, Gone

LEMMA RewritesHold ==
    ASSUME TypeOK, ReferencesHold, Rewrites
    PROVE  TypeOK' /\ ReferencesHold' /\ AddsNoRow /\ KeepsRows
BY DEF Rewrites, TypeOK, ReferencesHold, AddsNoRow, KeepsRows, Live, IsRow, Gone

(* A row after an UPDATE. *)
Same(old, new) == new \in Row /\ new.provider = old.provider /\ new.name = old.name

LEMMA RowUpdates ==
    \A row \in Row, enabled \in BOOLEAN :
        /\ Same(row, [row EXCEPT !.enabled = enabled])
        /\ \A price \in Prices : Same(row, [row EXCEPT !.price = price])
        /\ \A shown \in Shown, price \in Prices : Same(row, [row EXCEPT !.shown = shown, !.price = price])
BY DEF Row, Same

LEMMA RowsUpdated ==
    ASSUME TypeOK, UNCHANGED <<provider, keyed, rule>>, DOMAIN model' = Models,
           model' = [m \in Models |-> model'[m]],
           \A m \in Models : model'[m] = model[m] \/ (model[m] \in Row /\ Same(model[m], model'[m]))
    PROVE  Rewrites
<1>1. \A m \in Models : model'[m] \in Row \cup {NoRow, Gone}
    BY DEF TypeOK, Same
<1>2. model' \in [Models -> Row \cup {NoRow, Gone}]
    BY <1>1
<1>3. \A m \in Models : (IsRow(m) <=> model[m] \in Row) /\ (IsRow(m)' <=> model'[m] \in Row)
    BY <1>1, RowOrNot DEF TypeOK, IsRow
<1> QED
    BY <1>2, <1>3 DEF Rewrites, Same

(* The actions that write rows in place. *)
RewriteStep(a) ==
    UpdateModel(a) \/ SetImportedPrices(a) \/ Scrape(a) \/ PatchModel(a) \/ BulkEnable(a)

LEMMA RewriteSteps ==
    ASSUME TypeOK, NEW a \in Admins, req[a] \in Stages, RewriteStep(a)
    PROVE  Rewrites
<1>1. UNCHANGED <<provider, keyed, rule>>
    BY DEF RewriteStep, UpdateModel, SetImportedPrices, Scrape, PatchModel, BulkEnable
<1>2. \A m \in Models : IsRow(m) <=> model[m] \in Row
    BY RowOrNot DEF TypeOK, IsRow
<1>3. model = [m \in Models |-> model[m]]
    BY DEF TypeOK
<1>4. ASSUME DOMAIN model' = Models, model' = [m \in Models |-> model'[m]],
             \A m \in Models : model'[m] = model[m] \/ (model[m] \in Row /\ Same(model[m], model'[m]))
      PROVE  Rewrites
    BY <1>1, <1>4, RowsUpdated
<1>5. CASE UNCHANGED model
    BY <1>3, <1>4, <1>5
<1>6. ASSUME NEW m \in Models, NEW enabled \in BOOLEAN, NEW shown \in Shown, NEW price \in Prices, IsRow(m),
             model' = [model EXCEPT ![m].enabled = enabled, ![m].shown = shown, ![m].price = price]
      PROVE  Rewrites
  <2>1. model[m] \in Row
      BY <1>2, <1>6
  <2>2. model'[m] = [model[m] EXCEPT !.enabled = enabled, !.shown = shown, !.price = price]
      BY <1>3, <1>6
  <2>3. Same(model[m], model'[m])
      BY <2>1, <2>2 DEF Row, Same
  <2>4. DOMAIN model' = Models /\ \A k \in Models : k # m => model'[k] = model[k]
      BY <1>3, <1>6
  <2>5. model' = [k \in Models |-> model'[k]]
      BY <1>6, model \in [Models -> Row \cup {NoRow, Gone}] DEF TypeOK
  <2> QED
      BY <1>4, <2>1, <2>3, <2>4, <2>5
<1>7. CASE UpdateModel(a)
  <2> DEFINE m == req[a].model
             written == \E enabled \in BOOLEAN, shown \in Shown, price \in Prices :
                 IsRow(m) /\ model' = [model EXCEPT ![m].enabled = enabled, ![m].shown = shown, ![m].price = price]
  <2>1. m \in Models
      BY <1>7, StageFields DEF UpdateModel
  <2>2. written \/ UNCHANGED model
      BY <1>7 DEF UpdateModel
  <2>3. ASSUME written PROVE Rewrites
    <3>1. PICK enabled \in BOOLEAN, shown \in Shown, price \in Prices :
              IsRow(m) /\ model' = [model EXCEPT ![m].enabled = enabled, ![m].shown = shown, ![m].price = price]
        BY <2>3
    <3> HIDE DEF m
    <3> QED
        BY <1>6, <2>1, <3>1
  <2> QED
      BY <1>5, <2>2, <2>3
<1>8. CASE PatchModel(a)
    BY <1>6, <1>8 DEF PatchModel
<1>9. CASE SetImportedPrices(a)
  <2>1. CASE \E n \in Names, shown \in Shown, price \in Prices :
                model' = [m \in Models |-> IF m \in Matches(req[a].provider, n)
                                          THEN [model[m] EXCEPT !.shown = shown, !.price = price] ELSE model[m]]
    <3>1. PICK n \in Names, shown \in Shown, price \in Prices :
                model' = [m \in Models |-> IF m \in Matches(req[a].provider, n)
                                          THEN [model[m] EXCEPT !.shown = shown, !.price = price] ELSE model[m]]
        BY <2>1
    <3>2. \A m \in Matches(req[a].provider, n) : IsRow(m)
        BY DEF Matches, RowsOf
    <3> QED
        BY <1>2, <1>4, <3>1, <3>2, RowUpdates
  <2>2. CASE \E m \in RowsOf(req[a].provider), price \in Prices : model' = [model EXCEPT ![m].price = price]
    <3>1. PICK m \in RowsOf(req[a].provider), price \in Prices : model' = [model EXCEPT ![m].price = price]
        BY <2>2
    <3>2. m \in Models /\ IsRow(m)
        BY DEF RowsOf
    <3>3. model'[m] = [model[m] EXCEPT !.price = price]
        BY <1>3, <3>1, <3>2
    <3> QED
        BY <1>2, <1>3, <1>4, <3>1, <3>2, <3>3, RowUpdates
  <2> QED
      BY <1>5, <1>9, <2>1, <2>2 DEF SetImportedPrices
<1>10. CASE Scrape(a)
  <2>1. CASE UNCHANGED model
      BY <1>5, <2>1
  <2>2. CASE \E m \in req[a].todo, shown \in Shown, price \in Prices :
                model' = [model EXCEPT ![m] = IF IsRow(m) THEN [@ EXCEPT !.shown = shown, !.price = price] ELSE @]
    <3>1. PICK m \in req[a].todo, shown \in Shown, price \in Prices :
                model' = [model EXCEPT ![m] = IF IsRow(m) THEN [@ EXCEPT !.shown = shown, !.price = price] ELSE @]
        BY <2>2
    <3>2. m \in Models
        BY <1>10, StageFields DEF Scrape
    <3>3. model'[m] = IF IsRow(m) THEN [model[m] EXCEPT !.shown = shown, !.price = price] ELSE model[m]
        BY <1>3, <3>1, <3>2
    <3>4. model'[m] = model[m] \/ (model[m] \in Row /\ Same(model[m], model'[m]))
      <4>1. CASE ~ IsRow(m)
          BY <3>3, <4>1
      <4>2. CASE IsRow(m)
        <5>1. model[m] \in Row /\ model'[m] = [model[m] EXCEPT !.shown = shown, !.price = price]
            BY <1>2, <3>2, <3>3, <4>2
        <5> QED
            BY <5>1 DEF Row, Same
      <4> QED
          BY <4>1, <4>2
    <3> QED
        BY <1>3, <1>4, <3>1, <3>4
  <2> QED
      BY <1>10, <2>1, <2>2 DEF Scrape
<1>11. CASE BulkEnable(a)
  <2>1. PICK p \in Providers, ids \in SUBSET Models \ {{}}, enabled \in BOOLEAN :
            model' = [m \in Models |-> IF m \in ids \cap RowsOf(p)
                                       THEN [model[m] EXCEPT !.enabled = enabled] ELSE model[m]]
      BY <1>11 DEF BulkEnable
  <2>2. \A m \in RowsOf(p) : IsRow(m)
      BY DEF RowsOf
  <2> QED
      BY <1>2, <1>4, <2>1, <2>2, RowUpdates
<1> QED
    BY <1>7, <1>8, <1>9, <1>10, <1>11 DEF RewriteStep

(* The other actions: of providers, keys and rules, or on no table at all. *)
ShapeStep(a) ==
    \/ CreateProvider(a) \/ PatchProvider(a) \/ DeleteProvider(a) \/ AddKey(a) \/ DeleteKey(a)
    \/ ImportProvider(a) \/ WriteRule(a)
ReadStep(a) ==
    \/ BeginAddKey(a) \/ BeginSync(a) \/ BeginImport(a) \/ SelectModel(a) \/ EndLoop(a) \/ FindImported(a)
    \/ BeginScrape(a) \/ FailRequest(a) \/ Flush(a)

LEMMA ReadSteps ==
    ASSUME TypeOK, NEW a \in Admins, ReadStep(a)
    PROVE  Rewrites
<1>1. UNCHANGED <<provider, keyed, model, rule>>
    BY DEF ReadStep, BeginAddKey, BeginSync, BeginImport, SelectModel, EndLoop, FindImported, BeginScrape,
           FailRequest, Flush, db
<1> QED
    BY <1>1 DEF Rewrites, TypeOK, IsRow

LEMMA ShapeSteps ==
    ASSUME TypeOK, ReferencesHold, NEW a \in Admins, req[a] \in Stages, ShapeStep(a)
    PROVE  TypeOK' /\ ReferencesHold' /\ AddsNoRow /\ KeepsRows
<1> DEFINE States == {"none", "on", "off", "gone"}
<1>1. ASSUME provider' \in [Providers -> States], \A p \in Providers : Live(p) => Live(p)',
             UNCHANGED <<keyed, model, rule>>
      PROVE  TypeOK' /\ ReferencesHold' /\ AddsNoRow /\ KeepsRows
  <2>1. TypeOK' /\ AddsNoRow /\ KeepsRows
      BY <1>1 DEF TypeOK, AddsNoRow, KeepsRows, IsRow
  <2>2. \A m \in Models : IsRow(m) => model[m].provider \in Providers
      BY RowOrNot DEF TypeOK, IsRow, Row
  <2>3. \A p \in keyed' : Live(p)'
      BY <1>1 DEF TypeOK, ReferencesHold
  <2>4. \A m \in Models : IsRow(m)' => IsRow(m) /\ model'[m].provider = model[m].provider
      BY <1>1 DEF IsRow
  <2>5. rule' # NoRule => IsRow(rule)'
      BY <1>1 DEF ReferencesHold, IsRow
  <2> QED
      BY <1>1, <2>1, <2>2, <2>3, <2>4, <2>5 DEF ReferencesHold, Live
<1>2. CASE CreateProvider(a)
    BY <1>1, <1>2 DEF CreateProvider, TypeOK, Live
<1>3. CASE PatchProvider(a)
    BY <1>1, <1>3 DEF PatchProvider, TypeOK, Live
<1>4. CASE ImportProvider(a)
  <2>1. PICK p \in Providers, state \in {"on", "off"} :
            provider' = [provider EXCEPT ![p] = IF @ = "gone" THEN @ ELSE state]
      BY <1>4 DEF ImportProvider
  <2>2. UNCHANGED <<keyed, model, rule>>
      BY <1>4 DEF ImportProvider
  <2> QED
      BY <1>1, <2>1, <2>2 DEF TypeOK, Live
<1>5. CASE DeleteProvider(a)
  <2>1. PICK p \in Providers :
            /\ provider' = [provider EXCEPT ![p] = "gone"]
            /\ keyed' = keyed \ {p}
            /\ model' = [m \in Models |-> IF m \in RowsOf(p) THEN Gone ELSE model[m]]
            /\ rule' = RuleAfter(RowsOf(p))
      BY <1>5 DEF DeleteProvider
  <2>2. \A m \in Models : IF IsRow(m) /\ model[m].provider = p THEN model'[m] = Gone ELSE model'[m] = model[m]
      BY <2>1 DEF RowsOf
  <2>3. \A m \in Models : IsRow(m)' <=> IsRow(m) /\ model[m].provider # p
      BY <2>2 DEF IsRow, Gone
  <2>4. TypeOK' /\ AddsNoRow /\ KeepsRows
      BY <2>1, <2>2, <2>3 DEF TypeOK, AddsNoRow, KeepsRows, RuleAfter
  <2>5. \A q \in Providers : q # p => provider'[q] = provider[q]
      BY <2>1 DEF TypeOK
  <2>6. \A q \in keyed' : Live(q)'
      BY <2>1, <2>5 DEF TypeOK, ReferencesHold, Live
  <2>7. ASSUME NEW m \in Models, IsRow(m)' PROVE Live(model[m].provider)'
    <3>1. IsRow(m) /\ model[m].provider # p /\ model'[m] = model[m]
        BY <2>2, <2>3, <2>7
    <3>2. model[m].provider \in Providers
        BY <3>1, RowOrNot DEF TypeOK, IsRow, Row
    <3> QED
        BY <2>5, <3>1, <3>2 DEF ReferencesHold, Live
  <2>8. rule' # NoRule => IsRow(rule)'
    <3> SUFFICES ASSUME rule' # NoRule PROVE IsRow(rule)'
        OBVIOUS
    <3>1. rule' = rule /\ rule # NoRule /\ rule \notin RowsOf(p)
        BY <2>1 DEF RuleAfter
    <3>2. rule \in Models /\ IsRow(rule)
        BY <3>1 DEF ReferencesHold, TypeOK
    <3>3. IsRow(rule)'
        BY <2>3, <3>1, <3>2 DEF RowsOf
    <3> QED
        BY <3>3
  <2> QED
      BY <2>4, <2>6, <2>7, <2>8 DEF ReferencesHold, Live
<1>6. CASE AddKey(a)
  <2>1. req[a].provider \in Providers
      BY <1>6, StageFields DEF AddKey
  <2> QED
      BY <1>6, <2>1 DEF AddKey, Accepts, TypeOK, ReferencesHold, AddsNoRow, KeepsRows, Live, IsRow
<1>7. CASE DeleteKey(a)
    BY <1>7 DEF DeleteKey, TypeOK, ReferencesHold, AddsNoRow, KeepsRows, Live, IsRow
<1>8. CASE WriteRule(a)
    BY <1>8 DEF WriteRule, TypeOK, ReferencesHold, AddsNoRow, KeepsRows, Live, IsRow
<1> QED
    BY <1>2, <1>3, <1>4, <1>5, <1>6, <1>7, <1>8 DEF ShapeStep

(* An INSERT, which adds one row for its handler. *)
Inserted(a) ==
    \E m \in Models :
        /\ model[m] = NoRow
        /\ IsRow(m)' /\ model'[m].provider = req[a].provider /\ model'[m].name = req[a].name
        /\ \A k \in Models : k # m => model'[k] = model[k]

LEMMA InsertSteps ==
    ASSUME TypeOK, ReferencesHold, NEW a \in Admins, req[a] \in Stages, InsertModel(a)
    PROVE  TypeOK' /\ ReferencesHold' /\ KeepsRows /\ (AddsNoRow \/ (Inserted(a) /\ Returns(a)))
<1> DEFINE p == req[a].provider
           n == req[a].name
<1>1. p \in Providers /\ n \in Names /\ UNCHANGED <<provider, keyed, rule>>
    BY StageFields DEF InsertModel
<1>2. CASE UNCHANGED model
    BY <1>1, <1>2 DEF TypeOK, ReferencesHold, AddsNoRow, KeepsRows, Live, IsRow
<1>3. CASE ~ UNCHANGED model
  <2>1. Live(p) /\ Returns(a)
      BY <1>3 DEF InsertModel, Accepts
  <2>2. PICK m \in Models, enabled \in BOOLEAN, shown \in Shown, price \in Prices :
            /\ model[m] = NoRow
            /\ model' = [model EXCEPT ![m] = [is |-> "model", provider |-> p, name |-> n,
                                              enabled |-> enabled, shown |-> shown, price |-> price]]
      BY <1>3 DEF InsertModel
  <2>3. /\ model'[m] = [is |-> "model", provider |-> p, name |-> n, enabled |-> enabled,
                        shown |-> shown, price |-> price]
        /\ \A k \in Models : k # m => model'[k] = model[k]
      BY <2>2 DEF TypeOK
  <2>4. model'[m] \in Row
      BY <1>1, <2>3 DEF Row
  <2>5. TypeOK'
      BY <1>1, <2>2, <2>3, <2>4 DEF TypeOK
  <2>6. Inserted(a)
      BY <2>2, <2>3 DEF Inserted, IsRow
  <2>7. ReferencesHold'
    <3>1. \A k \in keyed' : Live(k)'
        BY <1>1 DEF ReferencesHold, Live
    <3>2. \A k \in Models : IsRow(k)' => Live(model[k].provider)'
        BY <1>1, <2>1, <2>3 DEF ReferencesHold, Live, IsRow
    <3>3. rule' # NoRule => IsRow(rule)'
        BY <1>1, <2>2, <2>3 DEF TypeOK, ReferencesHold, IsRow, NoRow
    <3> QED
        BY <3>1, <3>2, <3>3 DEF ReferencesHold
  <2>8. KeepsRows
      BY <2>2, <2>3 DEF KeepsRows, IsRow, NoRow, Gone
  <2> QED
      BY <2>1, <2>5, <2>6, <2>7, <2>8
<1> QED
    BY <1>2, <1>3

-----------------------------------------------------------------------------
(* What a step does to the handlers.  A handler is about to INSERT only after a *)
(* SELECT that found no row.                                                   *)

Moves(a, stage) ==
    /\ stage \in Stages
    /\ req' = [req EXCEPT ![a] = stage]
    /\ \A p \in Providers, n \in Names :
          Inserts(stage, p, n) => Inserts(req[a], p, n) \/ Matches(p, n) = {}
    /\ stage.at = "upsert" /\ stage.model # None =>
           stage = req[a] \/ (UNCHANGED model /\ stage.model \in RowsOf(stage.provider))

LEMMA Scraping ==
    ASSUME NEW a \in Admins, req[a] \in Stages, Scrape(a)
    PROVE  Flushes(a) \/ \E m \in req[a].todo : Goto(a, [at |-> "scrape", todo |-> req[a].todo \ {m}])
<1>1. req[a] = [at |-> "scrape", todo |-> req[a].todo]
    BY StageFields DEF Scrape
<1>2. Flushes(a) \/ \E m \in req[a].todo : Goto(a, [req[a] EXCEPT !.todo = @ \ {m}])
    BY DEF Scrape
<1>3. \A todo, m : [[at |-> "scrape", todo |-> todo] EXCEPT !.todo = @ \ {m}] = [at |-> "scrape", todo |-> todo \ {m}]
    OBVIOUS
<1>4. ASSUME NEW m PROVE [req[a] EXCEPT !.todo = @ \ {m}] = [at |-> "scrape", todo |-> req[a].todo \ {m}]
  <2> DEFINE q == req[a]
  <2>1. q = [at |-> "scrape", todo |-> q.todo]
      BY <1>1
  <2> HIDE DEF q
  <2>2. [q EXCEPT !.todo = @ \ {m}] = [at |-> "scrape", todo |-> q.todo \ {m}]
      BY <2>1, <1>3
  <2> QED
      BY <2>2 DEF q
<1> QED
    BY <1>2, <1>4

LEMMA Movements ==
    ASSUME TypeOK, NEW a \in Admins, req[a] \in Stages, req = [b \in Admins |-> req[b]], RegistryStep(a)
    PROVE  \E stage : Moves(a, stage)
<1>1. req[a] \in Stages
    OBVIOUS
<1>2. ASSUME NEW stage \in Stages, stage.at # "upsert", Goto(a, stage) PROVE \E s : Moves(a, s)
    BY <1>2 DEF Moves, Goto, Inserts
<1>3. CASE UNCHANGED req
  <2>1. Moves(a, req[a])
      BY <1>1, <1>3 DEF Moves
  <2> QED
      BY <2>1
<1>4. \A stage \in Thens : stage.at # "upsert" /\ stage \in Stages /\ FlushThen(stage) \in Stages
    BY DEF Thens, Idle, ThenPrices, FlushThen, Stages
<1>5. Idle \in Thens /\ ThenPrices \in Thens /\ Idle \in Stages
    BY DEF Thens, Stages
<1>6. Flushes(a) \/ Goto(a, Idle) => \E s : Moves(a, s)
    BY <1>2, <1>4, <1>5 DEF Flushes, FlushThen
<1>7. ASSUME NEW p \in Providers, NEW todo \in SUBSET Names, NEW then \in Thens, Goto(a, Loop(p, todo, then))
      PROVE  \E s : Moves(a, s)
  <2>1. Loop(p, todo, then) \in Stages /\ Loop(p, todo, then).at = "next"
      BY DEF Loop, Stages
  <2> QED
      BY <1>2, <1>7, <2>1
<1>8. CASE CreateProvider(a) \/ PatchProvider(a) \/ DeleteProvider(a) \/ AddKey(a) \/ DeleteKey(a)
           \/ WriteRule(a) \/ PatchModel(a) \/ BulkEnable(a) \/ FailRequest(a)
    BY <1>6, <1>8 DEF CreateProvider, PatchProvider, DeleteProvider, AddKey, DeleteKey, WriteRule, PatchModel,
                      PatchFlushes, BulkEnable, FailRequest
<1>9. CASE BeginAddKey(a) \/ FindImported(a)
  <2>1. \/ Goto(a, Idle)
        \/ \E p \in Providers, at \in {"key", "prices"} : Goto(a, [at |-> at, provider |-> p])
      BY <1>9 DEF BeginAddKey, FindImported
  <2>2. \A p \in Providers, at \in {"key", "prices"} : [at |-> at, provider |-> p] \in Stages
      BY DEF Stages
  <2> QED
      BY <1>2, <1>6, <2>1, <2>2
<1>10. CASE BeginImport(a)
  <2>1. \E p \in Providers \cup {None} : Goto(a, [at |-> "import", provider |-> p])
      BY <1>10 DEF BeginImport
  <2>2. \A p \in Providers \cup {None} : [at |-> "import", provider |-> p] \in Stages
      BY DEF Stages
  <2> QED
      BY <1>2, <2>1, <2>2
<1>11. CASE BeginSync(a)
    BY <1>5, <1>7, <1>11 DEF BeginSync, TypeOK
<1>12. CASE ImportProvider(a)
    BY <1>5, <1>7, <1>12 DEF ImportProvider, Importable
<1>13. CASE UpdateModel(a) \/ InsertModel(a)
  <2>1. req[a].at = "upsert" /\ (Returns(a) \/ Goto(a, Idle))
      BY <1>13 DEF UpdateModel, InsertModel
  <2>2. req[a].provider \in Providers /\ req[a].todo \in SUBSET Names /\ req[a].then \in Thens
      BY <1>1, <2>1, StageFields
  <2> QED
      BY <1>6, <1>7, <2>1, <2>2 DEF Returns
<1>14. CASE SelectModel(a)
  <2> DEFINE p == req[a].provider
             stage(n, m) == [at |-> "upsert", provider |-> p, todo |-> req[a].todo \ {n}, name |-> n,
                             model |-> m, then |-> req[a].then]
  <2>1. p \in Providers /\ req[a].todo \in SUBSET Names /\ req[a].then \in Thens
      BY <1>1, <1>14, StageFields DEF SelectModel
  <2>2. PICK n \in req[a].todo : \E m \in IF Existing(p, n) = {} THEN {None} ELSE Existing(p, n) : Goto(a, stage(n, m))
      BY <1>14 DEF SelectModel
  <2>3. PICK m \in IF Matches(p, n) = {} THEN {None} ELSE Matches(p, n) : Goto(a, stage(n, m))
      BY <2>2 DEF Existing
  <2>4. m \in Models \cup {None} /\ (m = None => Matches(p, n) = {}) /\ (m # None => m \in RowsOf(p))
      BY <2>3, RegistryAssumption DEF Matches, RowsOf
  <2>5. stage(n, m) \in Stages
      BY <2>1, <2>4 DEF Stages
  <2>6. UNCHANGED model
      BY <1>14 DEF SelectModel, db
  <2>7. Moves(a, stage(n, m))
      BY <2>3, <2>4, <2>5, <2>6 DEF Moves, Goto, Inserts
  <2> QED
      BY <2>7
<1>15. CASE EndLoop(a)
    BY <1>1, <1>2, <1>4, <1>15, StageFields DEF EndLoop, FlushThen
<1>16. CASE Flush(a)
    BY <1>1, <1>2, <1>4, <1>16, StageFields DEF Flush
<1>17. CASE SetImportedPrices(a)
    BY <1>3, <1>6, <1>17 DEF SetImportedPrices
<1>18. CASE BeginScrape(a)
  <2>1. \A p \in Providers : [at |-> "scrape", todo |-> RowsOf(p)] \in Stages
      BY DEF Stages, RowsOf
  <2> QED
      BY <1>2, <1>18, <2>1 DEF BeginScrape
<1>19. CASE Scrape(a)
  <2>1. req[a].todo \in SUBSET Models /\ req[a] = [at |-> "scrape", todo |-> req[a].todo]
      BY <1>1, <1>19, StageFields DEF Scrape
  <2>2. Flushes(a) \/ \E m \in req[a].todo : Goto(a, [at |-> "scrape", todo |-> req[a].todo \ {m}])
      BY <1>1, <1>19, Scraping
  <2>3. \A m \in req[a].todo : [at |-> "scrape", todo |-> req[a].todo \ {m}] \in Stages
      BY <2>1 DEF Stages
  <2> QED
      BY <1>2, <1>6, <2>2, <2>3
<1> QED
    BY <1>8, <1>9, <1>10, <1>11, <1>12, <1>13, <1>14, <1>15, <1>16, <1>17, <1>18, <1>19
    DEF RegistryStep, HandlerStep

-----------------------------------------------------------------------------
(* Counting rows and the handlers that are about to add one. *)

LEMMA Countable ==
    ASSUME NEW p, NEW n
    PROVE  /\ IsFiniteSet(Matches(p, n)) /\ IsFiniteSet(Inserters(p, n))
           /\ Cardinality(Matches(p, n)) \in Nat /\ Cardinality(Inserters(p, n)) \in Nat
           /\ Cardinality(Inserters(p, n)) <= Cardinality(Admins) /\ Cardinality(Admins) \in Nat
<1>1. Matches(p, n) \in SUBSET Models /\ Inserters(p, n) \in SUBSET Admins
    BY DEF Matches, RowsOf, Inserters
<1>2. IsFiniteSet(Matches(p, n)) /\ IsFiniteSet(Inserters(p, n))
    BY <1>1, FS_Subset, RegistryAssumption
<1>3. Cardinality(Inserters(p, n)) <= Cardinality(Admins)
    BY <1>1, FS_Subset, RegistryAssumption
<1> QED
    BY <1>2, <1>3, FS_CardinalityType, RegistryAssumption

LEMMA InsertersMove ==
    ASSUME ReqTypeOK, NEW a \in Admins, NEW stage, Moves(a, stage), NEW p \in Providers, NEW n \in Names,
           Matches(p, n) # {}
    PROVE  Inserters(p, n)' \subseteq Inserters(p, n)
BY DEF Moves, Inserters, ReqTypeOK

LEMMA CountAfter ==
    ASSUME ReqTypeOK, RowsAndInserters, NEW a \in Admins, NEW stage, Moves(a, stage),
           NEW p \in Providers, NEW n \in Names, Matches(p, n)' \subseteq Matches(p, n)
    PROVE  Cardinality(Matches(p, n)') + Cardinality(Inserters(p, n)') <= Cardinality(Admins)
<1>1. IsFiniteSet(Matches(p, n)) /\ IsFiniteSet(Inserters(p, n))
    BY Countable
<1>2. CASE Matches(p, n) = {}
  <2>1. Cardinality(Matches(p, n)') = 0
      BY <1>2, FS_EmptySet
  <2>2. Inserters(p, n)' \in SUBSET Admins
      BY DEF Inserters
  <2>3. Cardinality(Inserters(p, n)') <= Cardinality(Admins) /\ IsFiniteSet(Inserters(p, n)')
      BY <2>2, FS_Subset, RegistryAssumption
  <2>4. Cardinality(Inserters(p, n)') \in Nat
      BY <2>3, FS_CardinalityType
  <2> QED
      BY <2>1, <2>3, <2>4
<1>3. CASE Matches(p, n) # {}
  <2>1. Inserters(p, n)' \subseteq Inserters(p, n)
      BY <1>3, InsertersMove
  <2>2. /\ Cardinality(Inserters(p, n)') <= Cardinality(Inserters(p, n)) /\ IsFiniteSet(Inserters(p, n)')
        /\ Cardinality(Matches(p, n)') <= Cardinality(Matches(p, n)) /\ IsFiniteSet(Matches(p, n)')
      BY <1>1, <2>1, FS_Subset
  <2>3. Cardinality(Inserters(p, n)') \in Nat /\ Cardinality(Matches(p, n)') \in Nat
      BY <2>2, FS_CardinalityType
  <2> QED
      BY <2>2, <2>3, Countable DEF RowsAndInserters
<1> QED
    BY <1>2, <1>3

LEMMA CountStep ==
    ASSUME TypeOK, ReqTypeOK, RowsAndInserters, NEW a \in Admins, NEW stage, Moves(a, stage),
           AddsNoRow \/ (Inserted(a) /\ Returns(a) /\ req[a].at = "upsert" /\ req[a].model = None)
    PROVE  RowsAndInserters'
<1> SUFFICES ASSUME NEW p \in Providers, NEW n \in Names
             PROVE  Cardinality(Matches(p, n)') + Cardinality(Inserters(p, n)') <= Cardinality(Admins)
    BY DEF RowsAndInserters
<1>1. CASE AddsNoRow
  <2>1. Matches(p, n)' \subseteq Matches(p, n)
      BY <1>1 DEF AddsNoRow, Matches, RowsOf
  <2> QED
      BY <2>1, CountAfter
<1>2. CASE Inserted(a) /\ Returns(a) /\ req[a].at = "upsert" /\ req[a].model = None
  <2>1. PICK m \in Models :
            /\ model[m] = NoRow
            /\ IsRow(m)' /\ model'[m].provider = req[a].provider /\ model'[m].name = req[a].name
            /\ \A k \in Models : k # m => model'[k] = model[k]
      BY <1>2 DEF Inserted
  <2>2. CASE req[a].provider = p /\ req[a].name = n
    <3>1. Matches(p, n)' = Matches(p, n) \cup {m} /\ m \notin Matches(p, n)
        BY <2>1, <2>2 DEF Matches, RowsOf, IsRow, NoRow
    <3>2. a \in Inserters(p, n)
        BY <1>2, <2>2 DEF Inserters, Inserts
    <3>3. Inserters(p, n)' = Inserters(p, n) \ {a}
      <4>1. req'[a].at = "next" /\ \A b \in Admins : b # a => req'[b] = req[b]
          BY <1>2 DEF Returns, Goto, Loop, ReqTypeOK
      <4> QED
          BY <4>1 DEF Inserters, Inserts
    <3>4. Cardinality(Matches(p, n)') = Cardinality(Matches(p, n)) + 1
        BY <3>1, Countable, FS_AddElement
    <3>5. Cardinality(Inserters(p, n)') = Cardinality(Inserters(p, n)) - 1
        BY <3>2, <3>3, Countable, FS_RemoveElement
    <3> QED
        BY <3>4, <3>5, Countable DEF RowsAndInserters
  <2>3. CASE ~ (req[a].provider = p /\ req[a].name = n)
    <3>1. Matches(p, n)' \subseteq Matches(p, n)
        BY <2>1, <2>3 DEF Matches, RowsOf, IsRow
    <3> QED
        BY <3>1, CountAfter
  <2> QED
      BY <2>2, <2>3
<1> QED
    BY <1>1, <1>2

-----------------------------------------------------------------------------
LEMMA InitIInv == RegistryInit => IInv
<1> SUFFICES ASSUME RegistryInit PROVE IInv
    OBVIOUS
<1>1. TypeOK /\ ReqTypeOK
    BY DEF RegistryInit, TypeOK, ReqTypeOK, Stages, Thens
<1>2. ReferencesHold
    BY DEF RegistryInit, ReferencesHold, IsRow, NoRow
<1>3. ASSUME NEW p \in Providers, NEW n \in Names
      PROVE  Cardinality(Matches(p, n)) + Cardinality(Inserters(p, n)) <= Cardinality(Admins)
  <2>1. Matches(p, n) = {}
      BY DEF RegistryInit, Matches, RowsOf, IsRow, NoRow
  <2> QED
      BY <2>1, FS_EmptySet, Countable
<1> QED
    BY <1>1, <1>2, <1>3 DEF IInv, RowsAndInserters

LEMMA StepIInv ==
    ASSUME IInv, NEW a \in Admins, RegistryStep(a)
    PROVE  IInv'
<1>1. PICK stage : Moves(a, stage)
  <2>1. req[a] \in Stages /\ req = [b \in Admins |-> req[b]]
      BY DEF IInv, ReqTypeOK
  <2> QED
      BY <2>1, Movements DEF IInv
<1>2. ReqTypeOK'
    BY <1>1 DEF Moves, ReqTypeOK, IInv
<1>3. TypeOK' /\ ReferencesHold' /\ (AddsNoRow \/ (InsertModel(a) /\ Inserted(a) /\ Returns(a)))
  <2>1. RewriteStep(a) \/ ReadStep(a) \/ ShapeStep(a) \/ InsertModel(a)
      BY DEF RegistryStep, HandlerStep, RewriteStep, ReadStep, ShapeStep
  <2> QED
      BY <2>1, RewriteSteps, ReadSteps, RewritesHold, ShapeSteps, InsertSteps DEF IInv, ReqTypeOK
<1>4. RowsAndInserters'
    BY <1>1, <1>3, CountStep DEF IInv, InsertModel
<1> QED
    BY <1>2, <1>3, <1>4 DEF IInv

(* The inductive invariant of handlers and tables. *)
THEOREM Invariance == RegistrySpec => []IInv
<1>1. IInv /\ [RegistryNext]_registryVars => IInv'
  <2> SUFFICES ASSUME IInv, [RegistryNext]_registryVars PROVE IInv'
      OBVIOUS
  <2>1. CASE RegistryNext
      BY <2>1, StepIInv DEF RegistryNext, RegistryStep
  <2>2. CASE UNCHANGED registryVars
    <3>1. UNCHANGED <<provider, keyed, model, rule, req>>
        BY <2>2 DEF registryVars, db
    <3>2. TypeOK' /\ ReqTypeOK' /\ ReferencesHold'
        BY <3>1 DEF IInv, TypeOK, ReqTypeOK, ReferencesHold, IsRow, Live
    <3>3. \A p, n : Matches(p, n)' = Matches(p, n) /\ Inserters(p, n)' = Inserters(p, n)
        BY <3>1 DEF Matches, RowsOf, IsRow, Inserters, Inserts
    <3> QED
        BY <3>2, <3>3 DEF IInv, RowsAndInserters
  <2> QED
      BY <2>1, <2>2
<1> QED
    BY <1>1, InitIInv, PTL DEF RegistrySpec

(* Rows of providers, keys, models and rules are well formed. *)
THEOREM TypeCorrect == RegistrySpec => []TypeOK
<1>1. IInv => TypeOK
    BY DEF IInv
<1> QED
    BY <1>1, Invariance, PTL

(* A provider deleted while a synchronisation, an import or a new key is under way   *)
(* leaves no key or model behind, and no rule points at a model that is gone.        *)
THEOREM References == RegistrySpec => []ReferencesHold
<1>1. IInv => ReferencesHold
    BY DEF IInv
<1> QED
    BY <1>1, Invariance, PTL

(* SELECT, then INSERT, without a unique constraint: however many models, providers   *)
(* and names there are, a model has as many rows as there are handlers, at most.      *)
THEOREM Duplicates == RegistrySpec => []DuplicatesBounded
<1>1. IInv => DuplicatesBounded
    BY Countable DEF IInv, RowsAndInserters, DuplicatesBounded
<1> QED
    BY <1>1, Invariance, PTL

-----------------------------------------------------------------------------
(* The cache of models. *)

FlushStages ==
    [at : {"scan"}, due : SUBSET Models, next : Thens]
        \cup [at : {"del"}, batch : SUBSET Models, due : SUBSET Models, next : Thens]
CacheReqOK == req \in [Admins -> Stages \cup FlushStages]

GetStages ==
    {Idle}
        \cup [at : {"provider", "keys"}, id : Models, row : Row]
        \cup [at : {"store"}, id : Models, found : Found \cup {Unusable}]
        \cup [at : {"storeList"}, models : SUBSET ListedRow]
GetOK == get \in [Lookups -> GetStages]

(* The row that a handler is about to UPDATE is of its provider, while it is there. *)
FoundRow(q) ==
    q.at = "upsert" /\ q.model # None =>
        model[q.model] = Gone \/ (IsRow(q.model) /\ model[q.model].provider = q.provider)

(* A handler that will flush the cache, if it fails at no query. *)
Covers(q) == q.at \in {"flush", "scrape"} \/ (q.at \in {"next", "upsert"} /\ Live(q.provider))
Deletes(q, m) ==
    \/ Covers(q)
    \/ q.at = "scan" /\ m \in q.due
    \/ q.at = "del" /\ m \in q.batch \cup q.due
Unlists(q) == Covers(q) \/ q.at \in {"scan", "del"}

EntryFlushed(m) ==
    entry[m] = Current(m) \/ m \in overtaken \/ m \in priced \/ \E a \in Admins : Deletes(req[a], m)
EntriesFlushed == \A m \in Cached : EntryFlushed(m)
ListFlushed ==
    \/ list = Absent \/ list.models = Listed
    \/ TheList \in overtaken \/ TheList \in priced \/ \E a \in Admins : Unlists(req[a])

Typed == TypeOK /\ CacheReqOK /\ CacheTypeOK /\ GetOK
CacheIInv ==
    /\ Typed
    /\ ReferencesHold
    /\ \A a \in Admins : FoundRow(req[a])
    /\ EntriesFlushed
    /\ ListFlushed

LEMMA FlushedIsFlushed == EntriesFlushed /\ ListFlushed => StaleEntriesAreFlushed
BY DEF EntriesFlushed, EntryFlushed, ListFlushed, StaleEntriesAreFlushed, StaleModelsAreFlushed,
       StaleListIsFlushed, StaleList, Deletes, Unlists, Covers, WillDelete, WillUnlist, Writes

LEMMA FlushFields ==
    ASSUME NEW q \in Stages \cup FlushStages
    PROVE  /\ q.at \notin {"scan", "del"} => q \in Stages
           /\ q.at \in {"scan", "del"} => q \in FlushStages
           /\ q.at = "scan" => q.due \in SUBSET Models /\ q.next \in Thens
           /\ q.at = "del" => q.batch \in SUBSET Models /\ q.due \in SUBSET Models /\ q.next \in Thens
           /\ q.at = "flush" => q.next \in Thens
BY DEF Stages, FlushStages, Thens, Idle, ThenPrices

-----------------------------------------------------------------------------
(* A handler that moves. *)

LEMMA MovedTypes ==
    ASSUME CacheReqOK, NEW a \in Admins, NEW stage \in Stages \cup FlushStages,
           req' = [req EXCEPT ![a] = stage]
    PROVE  CacheReqOK' /\ req'[a] = stage /\ \A b \in Admins : b # a => req'[b] = req[b]
BY DEF CacheReqOK

LEMMA MovedRows ==
    ASSUME CacheReqOK, TypeOK, KeepsRows, NEW a \in Admins, NEW stage, Moves(a, stage),
           \A b \in Admins : FoundRow(req[b])
    PROVE  \A b \in Admins : FoundRow(req[b])'
<1> SUFFICES ASSUME NEW b \in Admins PROVE FoundRow(req[b])'
    OBVIOUS
<1> DEFINE stays(q) == q.at = "upsert" /\ q.model # None =>
               model'[q.model] = Gone \/ (model'[q.model].is = "model" /\ model'[q.model].provider = q.provider)
<1>1. ASSUME NEW q \in Stages, FoundRow(q) PROVE stays(q)
    BY <1>1, StageFields DEF FoundRow, KeepsRows, IsRow
<1>2. stays(req'[b])
  <2>1. CASE req'[b] = req[b]
    <3>1. req[b].at = "upsert" => req[b] \in Stages
        BY FlushFields DEF CacheReqOK
    <3> QED
        BY <1>1, <2>1, <3>1
  <2>2. CASE req'[b] # req[b]
    <3>1. b = a /\ req'[b] = stage
        BY <2>2 DEF CacheReqOK, Moves
    <3> QED
        BY <2>2, <3>1 DEF Moves, RowsOf, IsRow
  <2> QED
      BY <2>1, <2>2
<1> QED
    BY <1>2 DEF FoundRow, IsRow

(* The cache is left alone and the handler that moved flushes it. *)
LEMMA CoveredSteps ==
    ASSUME NEW a \in Admins, Covers(req[a])'
    PROVE  EntriesFlushed' /\ ListFlushed'
BY DEF EntriesFlushed, EntryFlushed, ListFlushed, Deletes, Unlists

(* Neither the cache nor the tables change, and the handler flushes as before. *)
LEMMA QuietSteps ==
    ASSUME CacheReqOK, EntriesFlushed, ListFlushed, UNCHANGED <<provider, keyed, model, rule>>,
           UNCHANGED <<entry, list, overtaken, priced>>,
           NEW a \in Admins, \A b \in Admins : b # a => req'[b] = req[b],
           \A m \in Models : Deletes(req[a], m) => Deletes(req[a], m)',
           Unlists(req[a]) => Unlists(req[a])'
    PROVE  EntriesFlushed' /\ ListFlushed'
<1>1. \A b \in Admins, m \in Models : Deletes(req[b], m) => Deletes(req[b], m)'
    BY DEF Deletes, Covers, Live
<1>2. \A b \in Admins : Unlists(req[b]) => Unlists(req[b])'
    BY DEF Unlists, Covers, Live
<1>3. Listed' = Listed /\ Cached' = Cached /\ \A m \in Models : Current(m)' = Current(m)
    BY DEF Listed, Cached, Current, IsRow
<1>4. EntriesFlushed'
    BY <1>1, <1>3 DEF EntriesFlushed, EntryFlushed, Cached
<1>5. ListFlushed'
    BY <1>2, <1>3 DEF ListFlushed
<1> QED
    BY <1>4, <1>5

(* A handler that changes the tables flushes the cache afterwards. *)
LEMMA HandlersFlush ==
    ASSUME CacheIInv, NEW a \in Admins, req[a] \in Stages, HandlerStep(a), UNCHANGED cache,
           \A b \in Admins : b # a => req'[b] = req[b]
    PROVE  EntriesFlushed' /\ ListFlushed'
<1>1. UNCHANGED <<entry, list, overtaken, priced>> /\ CacheReqOK /\ TypeOK /\ EntriesFlushed /\ ListFlushed
    BY DEF cache, CacheIInv, Typed
<1>2. \A stage : Goto(a, stage) => req'[a] = stage
    BY <1>1 DEF Goto, CacheReqOK
<1>3. Covers(req[a])' => EntriesFlushed' /\ ListFlushed'
    BY CoveredSteps
<1>4. Flushes(a) \/ Goto(a, FlushThen(req[a].then)) => Covers(req[a])'
    BY <1>2 DEF Flushes, FlushThen, Covers
<1>5. ASSUME NEW p \in Providers, NEW todo, NEW then, Goto(a, Loop(p, todo, then)), Live(p)'
      PROVE  Covers(req[a])'
    BY <1>2, <1>5 DEF Loop, Covers, Live
<1>6. ASSUME UNCHANGED <<provider, keyed, model, rule>>, Covers(req[a]) => Covers(req[a])',
             req[a].at \notin {"scan", "del"}
      PROVE  EntriesFlushed' /\ ListFlushed'
  <2>1. /\ \A m \in Models : Deletes(req[a], m) => Deletes(req[a], m)'
        /\ Unlists(req[a]) => Unlists(req[a])'
      BY <1>6 DEF Deletes, Unlists
  <2> QED
      BY <1>1, <1>6, <2>1, QuietSteps
<1>7. CASE CreateProvider(a) \/ PatchProvider(a) \/ DeleteProvider(a) \/ DeleteKey(a) \/ PatchModel(a)
           \/ BulkEnable(a) \/ WriteRule(a) \/ EndLoop(a)
    BY <1>3, <1>4, <1>7 DEF CreateProvider, PatchProvider, DeleteProvider, DeleteKey, PatchModel, PatchFlushes,
                            BulkEnable, WriteRule, EndLoop
<1>8. CASE BeginScrape(a) \/ Scrape(a)
  <2>1. Covers(req[a])'
    <3>1. CASE BeginScrape(a)
        BY <1>2, <3>1 DEF BeginScrape, Covers
    <3>2. CASE Scrape(a)
      <4>1. Flushes(a) \/ \E m \in req[a].todo : Goto(a, [at |-> "scrape", todo |-> req[a].todo \ {m}])
          BY <3>2, Scraping
      <4>2. ASSUME NEW m, Goto(a, [at |-> "scrape", todo |-> req[a].todo \ {m}]) PROVE Covers(req[a])'
        <5>1. req'[a] = [at |-> "scrape", todo |-> req[a].todo \ {m}]
            BY <1>2, <4>2
        <5> QED
            BY <5>1 DEF Covers
      <4> QED
          BY <1>4, <4>1, <4>2
    <3> QED
        BY <1>8, <3>1, <3>2
  <2> QED
      BY <1>3, <2>1
<1>9. CASE BeginAddKey(a) \/ BeginSync(a) \/ BeginImport(a) \/ FindImported(a)
  <2>1. UNCHANGED <<provider, keyed, model, rule>> /\ req[a].at \in {"idle", "named"}
      BY <1>9 DEF BeginAddKey, BeginSync, BeginImport, FindImported, Idle, db
  <2> QED
      BY <1>6, <2>1 DEF Covers
<1>10. CASE AddKey(a)
  <2>1. CASE Flushes(a)
      BY <1>3, <1>4, <2>1
  <2>2. CASE ~ Flushes(a)
    <3>1. UNCHANGED <<provider, keyed, model, rule>> /\ req[a].at = "key"
        BY <1>10, <2>2 DEF AddKey
    <3> QED
        BY <1>6, <3>1 DEF Covers
  <2> QED
      BY <2>1, <2>2
<1>11. CASE ImportProvider(a)
  <2>1. PICK p \in Providers, state \in {"on", "off"}, todo \in SUBSET Importable :
            /\ provider' = [provider EXCEPT ![p] = IF @ = "gone" THEN @ ELSE state]
            /\ Goto(a, Loop(p, todo, ThenPrices))
      BY <1>11 DEF ImportProvider
  <2>2. CASE provider[p] = "gone"
    <3>1. UNCHANGED <<provider, keyed, model, rule>> /\ req[a].at = "import"
        BY <1>1, <1>11, <2>1, <2>2 DEF ImportProvider, TypeOK
    <3> QED
        BY <1>6, <3>1 DEF Covers
  <2>3. CASE provider[p] # "gone"
    <3>1. Live(p)'
        BY <1>1, <2>1, <2>3 DEF TypeOK, Live
    <3> QED
        BY <1>3, <1>5, <2>1, <3>1
  <2> QED
      BY <2>2, <2>3
<1>12. CASE SelectModel(a)
  <2>1. UNCHANGED <<provider, keyed, model, rule>> /\ req[a].at = "next"
      BY <1>12 DEF SelectModel, db
  <2>2. req'[a].at = "upsert" /\ req'[a].provider = req[a].provider
      BY <1>2, <1>12 DEF SelectModel
  <2> QED
      BY <1>6, <2>1, <2>2 DEF Covers, Live
<1>13. CASE UpdateModel(a)
  <2>1. /\ req[a].at = "upsert" /\ req[a].model # None /\ UNCHANGED <<provider, keyed, rule>>
        /\ req[a].provider \in Providers
        /\ req'[a].at = "next" /\ req'[a].provider = req[a].provider
    <3>1. req[a].at = "upsert" /\ req[a].model # None /\ UNCHANGED <<provider, keyed, rule>> /\ Returns(a)
        BY <1>13 DEF UpdateModel
    <3> QED
        BY <1>2, <3>1, StageFields DEF Returns, Loop
  <2>2. CASE IsRow(req[a].model)
    <3>1. req[a].model \in Models /\ model[req[a].model].provider = req[a].provider
        BY <2>1, <2>2, StageFields DEF CacheIInv, FoundRow, IsRow, Gone
    <3>2. Covers(req[a])'
        BY <2>1, <2>2, <3>1 DEF CacheIInv, ReferencesHold, Covers, Live
    <3> QED
        BY <1>3, <3>2
  <2>3. CASE ~ IsRow(req[a].model)
    <3>1. UNCHANGED model
        BY <1>13, <2>3 DEF UpdateModel
    <3> QED
        BY <1>6, <2>1, <3>1 DEF Covers, Live
  <2> QED
      BY <2>2, <2>3
<1>14. CASE InsertModel(a)
  <2>1. req[a].at = "upsert" /\ UNCHANGED <<provider, keyed, rule>> /\ req[a].provider \in Providers
      BY <1>14, StageFields DEF InsertModel
  <2>2. CASE Live(req[a].provider)
    <3>1. Returns(a) /\ Live(req[a].provider) /\ provider' = provider
        BY <1>14, <2>1, <2>2 DEF InsertModel, Accepts
    <3>2. req'[a].at = "next" /\ req'[a].provider = req[a].provider
        BY <1>2, <3>1 DEF Returns, Loop
    <3>3. Covers(req[a])'
        BY <3>1, <3>2 DEF Covers, Live
    <3> QED
        BY <1>3, <3>3
  <2>3. CASE ~ Live(req[a].provider)
    <3>1. UNCHANGED model
        BY <1>14, <2>3 DEF InsertModel, Accepts
    <3> QED
        BY <1>6, <2>1, <2>3, <3>1 DEF Covers
  <2> QED
      BY <2>2, <2>3
<1> QED
    BY <1>7, <1>8, <1>9, <1>10, <1>11, <1>12, <1>13, <1>14 DEF HandlerStep

(* What a step of the registry keeps, whatever becomes of the cache. *)
LEMMA RegistryKeeps ==
    ASSUME CacheIInv, NEW a \in Admins, req[a] \in Stages, RegistryStep(a)
    PROVE  /\ TypeOK' /\ ReferencesHold' /\ CacheReqOK'
           /\ \A b \in Admins : FoundRow(req[b])'
           /\ \A b \in Admins : b # a => req'[b] = req[b]
<1>1. TypeOK' /\ ReferencesHold' /\ KeepsRows
  <2>1. RewriteStep(a) \/ ReadStep(a) \/ ShapeStep(a) \/ InsertModel(a)
      BY DEF RegistryStep, HandlerStep, RewriteStep, ReadStep, ShapeStep
  <2> QED
      BY <2>1, RewriteSteps, ReadSteps, RewritesHold, ShapeSteps, InsertSteps DEF CacheIInv, Typed
<1>2. PICK stage : Moves(a, stage)
  <2>1. req = [b \in Admins |-> req[b]]
      BY DEF CacheIInv, Typed, CacheReqOK
  <2> QED
      BY <2>1, Movements DEF CacheIInv, Typed
<1>3. CacheReqOK' /\ \A b \in Admins : b # a => req'[b] = req[b]
    BY <1>2, MovedTypes DEF Moves, CacheIInv, Typed
<1>4. \A b \in Admins : FoundRow(req[b])'
    BY <1>1, <1>2, MovedRows DEF CacheIInv, Typed
<1> QED
    BY <1>1, <1>3, <1>4

LEMMA HandlerSteps ==
    ASSUME CacheIInv, NEW a \in Admins, HandlerStep(a), UNCHANGED <<cache, get>>
    PROVE  CacheIInv'
<1>1. req[a] \in Stages
  <2>1. req[a].at \notin {"scan", "del"}
    <3>1. CASE \/ CreateProvider(a) \/ PatchProvider(a) \/ DeleteProvider(a) \/ BeginAddKey(a) \/ DeleteKey(a)
               \/ BeginSync(a) \/ BeginImport(a) \/ BeginScrape(a) \/ PatchModel(a) \/ BulkEnable(a) \/ WriteRule(a)
      <4>1. req[a] = Idle
          BY <3>1 DEF CreateProvider, PatchProvider, DeleteProvider, BeginAddKey, DeleteKey, BeginSync, BeginImport,
                      BeginScrape, PatchModel, BulkEnable, WriteRule
      <4> QED
          BY <4>1 DEF Idle
    <3>2. CASE AddKey(a) \/ ImportProvider(a) \/ SelectModel(a) \/ EndLoop(a) \/ FindImported(a)
        BY <3>2 DEF AddKey, ImportProvider, SelectModel, EndLoop, FindImported
    <3>3. CASE UpdateModel(a) \/ InsertModel(a) \/ Scrape(a)
        BY <3>3 DEF UpdateModel, InsertModel, Scrape
    <3> QED
        BY <3>1, <3>2, <3>3 DEF HandlerStep
  <2> QED
      BY <2>1, FlushFields DEF CacheIInv, Typed, CacheReqOK
<1>2. /\ TypeOK' /\ ReferencesHold' /\ CacheReqOK'
      /\ \A b \in Admins : FoundRow(req[b])'
      /\ \A b \in Admins : b # a => req'[b] = req[b]
    BY <1>1, RegistryKeeps DEF RegistryStep
<1>3. EntriesFlushed' /\ ListFlushed'
    BY <1>1, <1>2, HandlersFlush
<1>4. CacheTypeOK' /\ GetOK'
    BY DEF cache, CacheIInv, Typed, CacheTypeOK, GetOK
<1> QED
    BY <1>2, <1>3, <1>4 DEF CacheIInv, Typed

LEMMA PriceSteps ==
    ASSUME CacheIInv, NEW a \in Admins, PriceModels(a)
    PROVE  CacheIInv'
<1>1. /\ SetImportedPrices(a) /\ req[a].at = "prices" /\ UNCHANGED <<entry, list, overtaken, get>>
      /\ priced' = priced \cup {m \in Cached : model'[m] # model[m]}
                          \cup (IF list # Absent /\ Listed' # Listed THEN {TheList} ELSE {})
    BY DEF PriceModels, SetImportedPrices
<1>2. req[a] \in Stages
    BY <1>1, FlushFields DEF CacheIInv, Typed, CacheReqOK
<1>3. /\ TypeOK' /\ ReferencesHold' /\ CacheReqOK'
      /\ \A b \in Admins : FoundRow(req[b])'
      /\ \A b \in Admins : b # a => req'[b] = req[b]
    BY <1>1, <1>2, RegistryKeeps DEF RegistryStep
<1>4. UNCHANGED <<provider, keyed>>
    BY <1>1 DEF SetImportedPrices
<1>5. ~ Covers(req[a]) /\ (\A m : ~ Deletes(req[a], m)) /\ ~ Unlists(req[a])
    BY <1>1 DEF Covers, Deletes, Unlists
<1>6. \A b \in Admins : /\ \A m \in Models : Deletes(req[b], m) => Deletes(req[b], m)'
                        /\ Unlists(req[b]) => Unlists(req[b])'
    BY <1>3, <1>4, <1>5 DEF Deletes, Unlists, Covers, Live
<1>7. EntriesFlushed'
  <2> SUFFICES ASSUME NEW m \in Cached PROVE EntryFlushed(m)'
      BY <1>1 DEF EntriesFlushed, Cached
  <2>1. m \in Models /\ EntryFlushed(m)
      BY DEF CacheIInv, EntriesFlushed, Cached
  <2>2. CASE model'[m] # model[m]
      BY <1>1, <2>2 DEF EntryFlushed
  <2>3. CASE model'[m] = model[m]
    <3>1. Current(m)' = Current(m)
        BY <1>4, <2>3 DEF Current, IsRow
    <3> QED
        BY <1>1, <1>6, <2>1, <3>1 DEF EntryFlushed
  <2> QED
      BY <2>2, <2>3
<1>8. list # Absent => Listed' = Listed \/ TheList \in priced'
    BY <1>1
<1>9. ListFlushed'
    BY <1>1, <1>6, <1>8 DEF CacheIInv, ListFlushed
<1>10. CacheTypeOK' /\ GetOK'
    BY <1>1 DEF CacheIInv, Typed, CacheTypeOK, GetOK, Cached
<1> QED
    BY <1>3, <1>7, <1>9, <1>10 DEF CacheIInv, Typed

(* A handler that only moves: the tables stay as they are. *)
LEMMA PlainMoves ==
    ASSUME CacheIInv, NEW a \in Admins, NEW stage \in Stages \cup FlushStages, stage.at # "upsert",
           req' = [req EXCEPT ![a] = stage], UNCHANGED <<provider, keyed, model, rule>>
    PROVE  /\ TypeOK' /\ ReferencesHold' /\ CacheReqOK'
           /\ \A b \in Admins : FoundRow(req[b])'
           /\ req'[a] = stage /\ \A b \in Admins : b # a => req'[b] = req[b]
<1>1. TypeOK' /\ ReferencesHold'
    BY DEF CacheIInv, Typed, TypeOK, ReferencesHold, Live, IsRow
<1>2. CacheReqOK' /\ req'[a] = stage /\ \A b \in Admins : b # a => req'[b] = req[b]
    BY MovedTypes DEF CacheIInv, Typed
<1>3. \A b \in Admins : FoundRow(req[b])'
    BY <1>2 DEF CacheIInv, FoundRow, IsRow
<1> QED
    BY <1>1, <1>2, <1>3

(* What the cache says of itself when the tables stay as they are. *)
LEMMA SameTables ==
    ASSUME UNCHANGED <<provider, keyed, model, rule>>
    PROVE  Listed' = Listed /\ \A m : Current(m)' = Current(m)
BY DEF Listed, Current, IsRow

-----------------------------------------------------------------------------
(* The flush, and what may go wrong with it. *)

(* A handler that does not go on leaves overtaken what it was to delete and no longer will. *)
LEMMA Losses ==
    ASSUME CacheIInv, NEW a \in Admins, NEW stage \in Stages \cup FlushStages, stage.at # "upsert",
           req' = [req EXCEPT ![a] = stage],
           UNCHANGED <<provider, keyed, model, rule, entry, list, priced, get>>,
           overtaken' = overtaken \cup EntriesOf(a) \/ overtaken' = overtaken \cup EntriesOf(a) \cup ListOf(a),
           ListOf(a) \subseteq overtaken' \/ Unlists(req[a])'
    PROVE  CacheIInv'
<1>1. /\ TypeOK' /\ ReferencesHold' /\ CacheReqOK'
      /\ \A b \in Admins : FoundRow(req[b])'
      /\ \A b \in Admins : b # a => req'[b] = req[b]
    BY PlainMoves
<1>2. CacheTypeOK' /\ GetOK'
    BY DEF CacheIInv, Typed, CacheTypeOK, GetOK, EntriesOf, ListOf, Cached
<1>3. Cached' = Cached /\ Listed' = Listed /\ \A m : Current(m)' = Current(m)
    BY SameTables DEF Cached
<1>4. \A b \in Admins : b # a => /\ \A m : Deletes(req[b], m) => Deletes(req[b], m)'
                                 /\ Unlists(req[b]) => Unlists(req[b])'
    BY <1>1 DEF Deletes, Unlists, Covers, Live
<1>5. \A m : Deletes(req[a], m) => WillDelete(a, m)
    BY DEF Deletes, Covers, WillDelete, Writes
<1>6. Unlists(req[a]) => WillUnlist(a)
    BY DEF Unlists, Covers, WillUnlist, Writes
<1>7. EntriesFlushed'
  <2> SUFFICES ASSUME NEW m \in Cached PROVE EntryFlushed(m)'
      BY <1>3 DEF EntriesFlushed
  <2>1. EntryFlushed(m)
      BY DEF CacheIInv, EntriesFlushed
  <2>2. CASE entry[m] = Current(m) \/ m \in overtaken \/ m \in priced
      BY <1>3, <2>2 DEF EntryFlushed
  <2>3. CASE \E b \in Admins : b # a /\ Deletes(req[b], m)
      BY <1>4, <2>3 DEF EntryFlushed
  <2>4. CASE entry[m] # Current(m) /\ Deletes(req[a], m)
    <3>1. m \in EntriesOf(a)
        BY <1>5, <2>4 DEF EntriesOf
    <3> QED
        BY <3>1 DEF EntryFlushed
  <2> QED
      BY <2>1, <2>2, <2>3, <2>4 DEF EntryFlushed
<1>8. ListFlushed'
  <2>1. ListFlushed
      BY DEF CacheIInv
  <2>2. CASE list = Absent \/ list.models = Listed \/ TheList \in overtaken \/ TheList \in priced
      BY <1>3, <2>2 DEF ListFlushed
  <2>3. CASE \E b \in Admins : b # a /\ Unlists(req[b])
      BY <1>4, <2>3 DEF ListFlushed
  <2>4. CASE list # Absent /\ list.models # Listed /\ Unlists(req[a])
    <3>1. ListOf(a) = {TheList}
        BY <1>6, <2>4 DEF ListOf, StaleList
    <3> QED
        BY <3>1 DEF ListFlushed
  <2> QED
      BY <2>1, <2>2, <2>3, <2>4 DEF ListFlushed
<1> QED
    BY <1>1, <1>2, <1>7, <1>8 DEF CacheIInv, Typed

LEMMA LostFlushes ==
    ASSUME CacheIInv, NEW a \in Admins, LoseFlush(a) \/ LoseScan(a) \/ LoseUnlist(a)
    PROVE  CacheIInv'
<1>1. UNCHANGED <<provider, keyed, model, rule, entry, list, priced, get>>
    BY DEF LoseFlush, LoseScan, LoseUnlist, FailRequest, db
<1>2. CASE LoseFlush(a)
  <2>1. Idle \in Stages /\ Idle.at # "upsert"
      BY DEF Stages, Thens, Idle
  <2>2. req' = [req EXCEPT ![a] = Idle] /\ overtaken' = overtaken \cup EntriesOf(a) \cup ListOf(a)
      BY <1>2 DEF LoseFlush, FailRequest, Goto
  <2> QED
      BY <1>1, <2>1, <2>2, Losses
<1>3. CASE LoseScan(a)
  <2> DEFINE stage == [at |-> "scan", due |-> {}, next |-> req[a].next]
  <2>1. req[a].next \in Thens
      BY <1>3, FlushFields DEF LoseScan, CacheIInv, Typed, CacheReqOK
  <2>2. stage \in Stages \cup FlushStages /\ stage.at # "upsert"
      BY <2>1 DEF FlushStages
  <2>3. req' = [req EXCEPT ![a] = stage] /\ overtaken' = overtaken \cup EntriesOf(a)
      BY <1>3 DEF LoseScan, Goto
  <2>4. Unlists(req[a])'
      BY <2>3 DEF Unlists, CacheIInv, Typed, CacheReqOK
  <2> HIDE DEF stage
  <2> QED
      BY <1>1, <2>2, <2>3, <2>4, Losses
<1>4. CASE LoseUnlist(a)
  <2>1. /\ req[a].at = "scan" /\ req[a].due = {}
        /\ req' = [req EXCEPT ![a] = req[a].next] /\ overtaken' = overtaken \cup ListOf(a)
      BY <1>4 DEF LoseUnlist, Goto
  <2>2. req[a].next \in Stages \cup FlushStages /\ req[a].next.at # "upsert"
      BY <2>1, FlushFields DEF CacheIInv, Typed, CacheReqOK, Stages, Thens, Idle, ThenPrices
  <2>3. EntriesOf(a) = {}
      BY <2>1 DEF EntriesOf, WillDelete, Writes
  <2> QED
      BY <1>1, <2>1, <2>2, <2>3, Losses
<1> QED
    BY <1>2, <1>3, <1>4

LEMMA Scans ==
    ASSUME CacheIInv, NEW a \in Admins, Scan(a)
    PROVE  CacheIInv'
<1>1. UNCHANGED <<provider, keyed, model, rule, entry, list, overtaken, priced, get>>
    BY DEF Scan, db, cache
<1>2. PICK batch \in SUBSET Cached :
          req' = [req EXCEPT ![a] = [at |-> "del", batch |-> batch, due |-> Due(a, batch), next |-> req[a].next]]
    BY DEF Scan, Goto
<1> DEFINE stage == [at |-> "del", batch |-> batch, due |-> Due(a, batch), next |-> req[a].next]
<1>3. /\ req[a].at \in {"flush", "scan"} /\ req[a].next \in Thens
      /\ Due(a, batch) \in SUBSET Models /\ batch \in SUBSET Models
  <2>1. req[a].at \in {"flush", "scan"}
      BY DEF Scan
  <2>2. req[a].at = "scan" => req[a].due \in SUBSET Models
      BY FlushFields DEF CacheIInv, Typed, CacheReqOK
  <2>3. req[a].next \in Thens
      BY <2>1, FlushFields DEF CacheIInv, Typed, CacheReqOK
  <2> QED
      BY <2>1, <2>2, <2>3 DEF Due, Cached
<1>4. stage \in Stages \cup FlushStages /\ stage.at # "upsert"
    BY <1>3 DEF FlushStages
<1>5. /\ TypeOK' /\ ReferencesHold' /\ CacheReqOK'
      /\ \A b \in Admins : FoundRow(req[b])'
      /\ req'[a] = stage /\ \A b \in Admins : b # a => req'[b] = req[b]
    BY <1>1, <1>2, <1>4, PlainMoves
<1>6. CacheTypeOK' /\ GetOK'
    BY <1>1 DEF CacheIInv, Typed, CacheTypeOK, GetOK, Cached
<1>7. Cached' = Cached /\ Listed' = Listed /\ \A m : Current(m)' = Current(m)
    BY <1>1, SameTables DEF Cached
<1>8. \A m \in Cached : Deletes(req[a], m) => Deletes(req[a], m)'
    BY <1>3, <1>5 DEF Deletes, Covers, Due
<1>9. \A b \in Admins : b # a => /\ \A m : Deletes(req[b], m) <=> Deletes(req[b], m)'
                                 /\ Unlists(req[b]) <=> Unlists(req[b])'
    BY <1>1, <1>5 DEF Deletes, Unlists, Covers, Live
<1>10. EntriesFlushed'
    BY <1>1, <1>7, <1>8, <1>9 DEF CacheIInv, EntriesFlushed, EntryFlushed
<1>11. Unlists(req[a])'
    BY <1>5 DEF Unlists
<1>12. ListFlushed'
    BY <1>11 DEF ListFlushed
<1> QED
    BY <1>5, <1>6, <1>10, <1>12 DEF CacheIInv, Typed

(* A flush without keys that are gone: it is still the flush of the others. *)
LEMMA EndsWithout ==
    ASSUME CacheReqOK, NEW ids, NEW b \in Admins
    PROVE  /\ EndWithout(ids)[b] \in Stages \cup FlushStages
           /\ req[b].at \notin {"scan", "del"} => EndWithout(ids)[b] = req[b]
           /\ req[b].at \in {"scan", "del"} => /\ EndWithout(ids)[b].at = req[b].at
                                              /\ EndWithout(ids)[b].due = req[b].due \ ids
                                              /\ (req[b].at = "del" => EndWithout(ids)[b].batch = req[b].batch)
<1>1. CASE req[b].at \notin {"scan", "del"}
    BY <1>1 DEF EndWithout, CacheReqOK
<1>2. CASE req[b].at \in {"scan", "del"}
  <2>1. EndWithout(ids)[b] = [req[b] EXCEPT !.due = @ \ ids]
      BY <1>2 DEF EndWithout
  <2>2. req[b] \in FlushStages
      BY <1>2, FlushFields DEF CacheReqOK
  <2> QED
      BY <1>2, <2>1, <2>2 DEF FlushStages
<1> QED
    BY <1>1, <1>2

(* The SCAN that goes on after the DEL of a batch, or a SCAN without keys that are gone. *)
GoesOn(b, ids) ==
    \/ req'[b] = EndWithout(ids)[b]
    \/ /\ req[b].at = "del" /\ req[b].batch \subseteq ids
       /\ req'[b] = [at |-> "scan", due |-> req[b].due \ ids, next |-> req[b].next]

(* Entries that are deleted, or expire, are gone for every flush under way. *)
LEMMA EntriesGo ==
    ASSUME CacheIInv, NEW ids \in SUBSET Models,
           UNCHANGED <<provider, keyed, model, rule, list, get>>,
           entry' = [m \in Models |-> IF m \in ids THEN Absent ELSE entry[m]],
           overtaken' = overtaken \ ids, priced' = priced \ ids,
           req' = [b \in Admins |-> req'[b]], \A b \in Admins : GoesOn(b, ids)
    PROVE  CacheIInv'
<1>1. CacheReqOK
    BY DEF CacheIInv, Typed
<1>2. ASSUME NEW b \in Admins
      PROVE  /\ req'[b] \in Stages \cup FlushStages
             /\ req'[b] = req[b] \/ req'[b].at \in {"scan", "del"}
             /\ \A m \in Models \ ids : Deletes(req[b], m) => Deletes(req[b], m)'
             /\ Unlists(req[b]) => Unlists(req[b])'
  <2>1. CASE req[b].at \notin {"scan", "del"}
    <3>1. req'[b] = req[b] /\ req[b] \in Stages \cup FlushStages
        BY <1>1, <2>1, EndsWithout DEF GoesOn, CacheReqOK
    <3> QED
        BY <3>1 DEF Deletes, Unlists, Covers, Live
  <2>2. CASE req[b].at \in {"scan", "del"} /\ req'[b] = EndWithout(ids)[b]
    <3>1. /\ req'[b] \in Stages \cup FlushStages
          /\ req'[b].at = req[b].at /\ req'[b].due = req[b].due \ ids
          /\ req[b].at = "del" => req'[b].batch = req[b].batch
        BY <1>1, <2>2, EndsWithout
    <3>2. \A m \in Models \ ids : Deletes(req[b], m) => Deletes(req[b], m)'
        BY <2>2, <3>1 DEF Deletes, Covers
    <3>3. Unlists(req[b])'
        BY <2>2, <3>1 DEF Unlists
    <3> QED
        BY <2>2, <3>1, <3>2, <3>3
  <2>3. CASE /\ req[b].at = "del" /\ req[b].batch \subseteq ids
             /\ req'[b] = [at |-> "scan", due |-> req[b].due \ ids, next |-> req[b].next]
    <3>1. req[b].due \in SUBSET Models /\ req[b].next \in Thens
        BY <1>1, <2>3, FlushFields DEF CacheReqOK
    <3>2. req'[b] \in Stages \cup FlushStages
        BY <2>3, <3>1 DEF FlushStages
    <3> QED
        BY <2>3, <3>2 DEF Deletes, Unlists, Covers
  <2> QED
      BY <2>1, <2>2, <2>3 DEF GoesOn
<1>3. CacheReqOK'
    BY <1>2 DEF CacheReqOK
<1>4. TypeOK' /\ ReferencesHold'
    BY DEF CacheIInv, Typed, TypeOK, ReferencesHold, Live, IsRow
<1>5. \A b \in Admins : FoundRow(req[b])'
    BY <1>2 DEF CacheIInv, FoundRow, IsRow
<1>6. CacheTypeOK' /\ GetOK'
    BY DEF CacheIInv, Typed, CacheTypeOK, GetOK
<1>7. Listed' = Listed /\ \A m : Current(m)' = Current(m)
    BY SameTables
<1>8. EntriesFlushed'
  <2> SUFFICES ASSUME NEW m \in Models, m \in Cached, m \notin ids PROVE EntryFlushed(m)'
      BY DEF EntriesFlushed, Cached
  <2>1. EntryFlushed(m) /\ entry'[m] = entry[m]
      BY DEF CacheIInv, EntriesFlushed
  <2> QED
      BY <1>2, <1>7, <2>1 DEF EntryFlushed
<1>9. TheList \notin ids
    BY CacheAssumption
<1>10. ListFlushed'
    BY <1>2, <1>7, <1>9 DEF CacheIInv, ListFlushed
<1> QED
    BY <1>3, <1>4, <1>5, <1>6, <1>8, <1>10 DEF CacheIInv, Typed

LEMMA BatchDeletes ==
    ASSUME CacheIInv, NEW a \in Admins, DeleteBatch(a)
    PROVE  CacheIInv'
<1> DEFINE batch == req[a].batch
<1>1. /\ req[a].at = "del" /\ UNCHANGED <<provider, keyed, model, rule, list, get>>
      /\ entry' = [m \in Models |-> IF m \in batch THEN Absent ELSE entry[m]]
      /\ overtaken' = overtaken \ batch /\ priced' = priced \ batch
      /\ req' = [EndWithout(batch) EXCEPT
                    ![a] = [at |-> "scan", due |-> req[a].due \ batch, next |-> req[a].next]]
    BY DEF DeleteBatch, Fresh, db
<1>2. batch \in SUBSET Models
    BY <1>1, FlushFields DEF CacheIInv, Typed, CacheReqOK
<1>3. DOMAIN EndWithout(batch) = Admins /\ EndWithout(batch) = [b \in Admins |-> EndWithout(batch)[b]]
    BY DEF EndWithout
<1>4. req' = [b \in Admins |-> req'[b]] /\ \A b \in Admins : GoesOn(b, batch)
    BY <1>1, <1>3 DEF GoesOn
<1> HIDE DEF batch
<1> QED
    BY <1>1, <1>2, <1>4, EntriesGo

LEMMA ListDeletes ==
    ASSUME CacheIInv, NEW a \in Admins, Unlist(a)
    PROVE  CacheIInv'
<1>1. /\ req[a].at = "scan" /\ req[a].due = {} /\ UNCHANGED <<provider, keyed, model, rule, entry, get>>
      /\ list' = Absent
      /\ overtaken' = overtaken \ {TheList} /\ priced' = priced \ {TheList}
      /\ req' = [req EXCEPT ![a] = req[a].next]
    BY DEF Unlist, Fresh, Goto, db
<1>2. req[a].next \in Stages \cup FlushStages /\ req[a].next.at # "upsert"
    BY <1>1, FlushFields DEF CacheIInv, Typed, CacheReqOK, Stages, Thens, Idle, ThenPrices
<1>3. /\ TypeOK' /\ ReferencesHold' /\ CacheReqOK'
      /\ \A b \in Admins : FoundRow(req[b])'
      /\ \A b \in Admins : b # a => req'[b] = req[b]
    BY <1>1, <1>2, PlainMoves
<1>4. CacheTypeOK' /\ GetOK'
    BY <1>1 DEF CacheIInv, Typed, CacheTypeOK, GetOK
<1>5. Cached' = Cached /\ \A m : Current(m)' = Current(m)
    BY <1>1, SameTables DEF Cached
<1>6. \A b \in Admins, m \in Models : Deletes(req[b], m) => Deletes(req[b], m)'
    BY <1>1, <1>3 DEF Deletes, Covers, Live
<1>7. EntriesFlushed'
  <2> SUFFICES ASSUME NEW m \in Cached PROVE EntryFlushed(m)'
      BY <1>5 DEF EntriesFlushed
  <2>1. m \in Models /\ m # TheList /\ EntryFlushed(m)
      BY CacheAssumption DEF CacheIInv, EntriesFlushed, Cached
  <2> QED
      BY <1>1, <1>5, <1>6, <2>1 DEF EntryFlushed
<1>8. ListFlushed'
    BY <1>1 DEF ListFlushed
<1> QED
    BY <1>3, <1>4, <1>7, <1>8 DEF CacheIInv, Typed

-----------------------------------------------------------------------------
(* Lookups and expiry: what they put into the cache is current or marked. *)

LEMMA CacheMoves ==
    ASSUME CacheIInv, UNCHANGED registryVars, CacheTypeOK', GetOK',
           \A m \in Models :
               \/ entry'[m] = entry[m] /\ (m \in overtaken => m \in overtaken') /\ (m \in priced => m \in priced')
               \/ entry'[m] = Absent
               \/ entry'[m] = Current(m)
               \/ m \in overtaken',
           \/ /\ list' = list
              /\ (TheList \in overtaken => TheList \in overtaken') /\ (TheList \in priced => TheList \in priced')
           \/ list' = Absent
           \/ list'.models = Listed
           \/ TheList \in overtaken'
    PROVE  CacheIInv'
<1>1. UNCHANGED <<provider, keyed, model, rule, req>>
    BY DEF registryVars, db
<1>2. TypeOK' /\ CacheReqOK' /\ ReferencesHold' /\ \A b \in Admins : FoundRow(req[b])'
    BY <1>1 DEF CacheIInv, Typed, TypeOK, CacheReqOK, ReferencesHold, FoundRow, Live, IsRow
<1>3. Listed' = Listed /\ \A m : Current(m)' = Current(m)
    BY <1>1, SameTables
<1>4. \A b \in Admins : (\A m : Deletes(req[b], m)' <=> Deletes(req[b], m)) /\ (Unlists(req[b])' <=> Unlists(req[b]))
    BY <1>1 DEF Deletes, Unlists, Covers, Live
<1>5. EntriesFlushed'
  <2> SUFFICES ASSUME NEW m \in Models, entry'[m] # Absent PROVE EntryFlushed(m)'
      BY DEF EntriesFlushed, Cached
  <2>1. entry[m] # Absent => EntryFlushed(m)
      BY DEF CacheIInv, EntriesFlushed, Cached
  <2> QED
      BY <1>3, <1>4, <2>1 DEF EntryFlushed
<1>6. ListFlushed'
    BY <1>3, <1>4 DEF CacheIInv, ListFlushed
<1> QED
    BY <1>2, <1>5, <1>6 DEF CacheIInv, Typed

LEMMA GetFields ==
    ASSUME NEW g \in GetStages
    PROVE  /\ g.at \in {"provider", "keys"} => g.id \in Models /\ g.row \in Row
                                               /\ g = [at |-> g.at, id |-> g.id, row |-> g.row]
           /\ g.at = "store" => g.id \in Models /\ g.found \in Found \cup {Unusable}
           /\ g.at = "storeList" => g.models \in SUBSET ListedRow
BY DEF GetStages, Idle

LEMMA LoadedIsFound ==
    ASSUME NEW row, row.is = "model" => row \in Row, NEW isOn \in BOOLEAN, NEW hasKey \in BOOLEAN
    PROVE  Loaded(row, isOn, hasKey) \in Found \cup {Unusable}
BY DEF Loaded, Found

LEMMA ListedRows ==
    ASSUME \A m \in Models : IsRow(m) => model[m] \in Row
    PROVE  Listed \in SUBSET ListedRow
BY DEF Listed, ListedRow, Row

(* The loads of a lookup. *)
LEMMA Loads ==
    ASSUME CacheIInv, NEW l \in Lookups, LoadModel(l) \/ LoadProvider(l) \/ LoadKeys(l) \/ LoadList(l)
    PROVE  CacheIInv'
<1>1. UNCHANGED registryVars /\ UNCHANGED <<entry, list, overtaken, priced>>
    BY DEF LoadModel, LoadProvider, LoadKeys, LoadList, cache
<1>2. CacheTypeOK'
    BY <1>1 DEF CacheIInv, Typed, CacheTypeOK
<1>3. \A m \in Models : IsRow(m) => model[m] \in Row
    BY RowOrNot DEF CacheIInv, Typed, TypeOK, IsRow
<1>4. get \in [Lookups -> GetStages] /\ get[l] \in GetStages
    BY DEF CacheIInv, Typed, GetOK
<1>5. \A stage \in GetStages : Proceed(l, stage) => GetOK'
    BY <1>4 DEF Proceed, GetOK
<1>6. ASSUME NEW m \in Models, NEW found \in Found \cup {Unusable}, Store(l, m, found) PROVE GetOK'
  <2>1. [at |-> "store", id |-> m, found |-> found] \in GetStages
      BY DEF GetStages
  <2> QED
      BY <1>5, <1>6, <2>1 DEF Store
<1>7. GetOK'
  <2>1. CASE LoadModel(l)
    <3>1. PICK m \in Models :
              \/ IsRow(m) /\ Proceed(l, [at |-> "provider", id |-> m, row |-> model[m]])
              \/ Store(l, m, Loaded(model[m], FALSE, FALSE))
        BY <2>1 DEF LoadModel
    <3>2. IsRow(m) => [at |-> "provider", id |-> m, row |-> model[m]] \in GetStages
        BY <1>3 DEF GetStages
    <3>3. Loaded(model[m], FALSE, FALSE) \in Found \cup {Unusable}
        BY <1>3, LoadedIsFound DEF IsRow
    <3> QED
        BY <1>5, <1>6, <3>1, <3>2, <3>3
  <2>2. CASE LoadProvider(l)
    <3>1. /\ get[l].id \in Models /\ get[l].row \in Row
          /\ get[l] = [at |-> "provider", id |-> get[l].id, row |-> get[l].row]
        BY <1>4, <2>2, GetFields DEF LoadProvider
    <3>2. \/ Proceed(l, [get[l] EXCEPT !.at = "keys"])
          \/ Store(l, get[l].id, Loaded(get[l].row, FALSE, FALSE))
        BY <2>2 DEF LoadProvider
    <3>3. [get[l] EXCEPT !.at = "keys"] \in GetStages
        BY <3>1 DEF GetStages
    <3>4. Loaded(get[l].row, FALSE, FALSE) \in Found \cup {Unusable}
        BY <3>1, LoadedIsFound
    <3> QED
        BY <1>5, <1>6, <3>1, <3>2, <3>3, <3>4
  <2>3. CASE LoadKeys(l)
    <3>1. get[l].id \in Models /\ get[l].row \in Row
        BY <1>4, <2>3, GetFields DEF LoadKeys
    <3>2. (get[l].row.provider \in keyed) \in BOOLEAN
        OBVIOUS
    <3>3. Loaded(get[l].row, TRUE, get[l].row.provider \in keyed) \in Found \cup {Unusable}
        BY <3>1, <3>2, LoadedIsFound
    <3> QED
        BY <1>6, <2>3, <3>1, <3>3 DEF LoadKeys
  <2>4. CASE LoadList(l)
    <3>1. [at |-> "storeList", models |-> Listed] \in GetStages
        BY <1>3, ListedRows DEF GetStages
    <3> QED
        BY <1>5, <2>4, <3>1 DEF LoadList
  <2> QED
      BY <2>1, <2>2, <2>3, <2>4
<1> QED
    BY <1>1, <1>2, <1>7, CacheMoves

LEMMA Stores ==
    ASSUME CacheIInv, NEW l \in Lookups, StoreEntry(l) \/ StoreList(l)
    PROVE  CacheIInv'
<1>1. get \in [Lookups -> GetStages] /\ get[l] \in GetStages /\ CacheTypeOK
    BY DEF CacheIInv, Typed, GetOK
<1>2. UNCHANGED registryVars /\ get' = [get EXCEPT ![l] = Idle]
    BY DEF StoreEntry, StoreList, Proceed
<1>3. GetOK'
    BY <1>1, <1>2 DEF GetOK, GetStages
<1>4. CASE StoreEntry(l)
  <2> DEFINE m == get[l].id
  <2>1. m \in Models /\ get[l].found \in Found \cup {Unusable} /\ m # TheList
      BY <1>1, <1>4, GetFields, CacheAssumption DEF StoreEntry
  <2>2. /\ entry' = [entry EXCEPT ![m] = get[l].found] /\ list' = list
        /\ \/ get[l].found = Current(m) /\ overtaken' = overtaken \ {m} /\ priced' = priced \ {m}
           \/ overtaken' = overtaken \cup {m} /\ priced' = priced
      BY <1>4 DEF StoreEntry, Fresh
  <2>3. CacheTypeOK'
      BY <1>1, <2>1, <2>2 DEF CacheTypeOK
  <2>4. entry'[m] = get[l].found /\ \A k \in Models : k # m => entry'[k] = entry[k]
      BY <1>1, <2>1, <2>2 DEF CacheTypeOK
  <2>5. \A k \in Models :
            \/ entry'[k] = entry[k] /\ (k \in overtaken => k \in overtaken') /\ (k \in priced => k \in priced')
            \/ entry'[k] = Current(k)
            \/ k \in overtaken'
      BY <2>2, <2>4
  <2>6. /\ list' = list
        /\ (TheList \in overtaken => TheList \in overtaken') /\ (TheList \in priced => TheList \in priced')
      BY <2>1, <2>2
  <2> QED
      BY <1>2, <1>3, <2>3, <2>5, <2>6, CacheMoves
<1>5. CASE StoreList(l)
  <2>1. get[l].models \in SUBSET ListedRow
      BY <1>1, <1>5, GetFields DEF StoreList
  <2>2. /\ list' = [is |-> "list", models |-> get[l].models] /\ entry' = entry
        /\ \/ get[l].models = Listed /\ overtaken' = overtaken \ {TheList} /\ priced' = priced \ {TheList}
           \/ overtaken' = overtaken \cup {TheList} /\ priced' = priced
      BY <1>5 DEF StoreList, Fresh
  <2>3. CacheTypeOK'
      BY <1>1, <2>1, <2>2 DEF CacheTypeOK
  <2>4. \A k \in Models : (k \in overtaken => k \in overtaken') /\ (k \in priced => k \in priced')
      BY <2>2, CacheAssumption
  <2>5. list'.models = Listed \/ TheList \in overtaken'
      BY <2>2
  <2> QED
      BY <1>2, <1>3, <2>2, <2>3, <2>4, <2>5, CacheMoves
<1> QED
    BY <1>4, <1>5

LEMMA Expiry ==
    ASSUME CacheIInv, ExpireEntry \/ ExpireList
    PROVE  CacheIInv'
<1>1. CacheTypeOK /\ UNCHANGED get
    BY DEF ExpireEntry, ExpireList, CacheIInv, Typed
<1>2. GetOK'
    BY <1>1 DEF CacheIInv, Typed, GetOK
<1>3. CASE ExpireEntry
  <2>1. PICK m \in Cached : /\ entry' = [entry EXCEPT ![m] = Absent] /\ list' = list
                           /\ overtaken' = overtaken \ {m} /\ priced' = priced \ {m}
                           /\ req' = EndWithout({m})
      BY <1>3 DEF ExpireEntry, Fresh
  <2>2. {m} \in SUBSET Models /\ UNCHANGED <<provider, keyed, model, rule>>
      BY <1>3 DEF Cached, ExpireEntry, db
  <2>3. entry' = [k \in Models |-> IF k \in {m} THEN Absent ELSE entry[k]]
      BY <1>1, <2>1, <2>2 DEF CacheTypeOK
  <2>4. req' = [b \in Admins |-> req'[b]] /\ \A b \in Admins : GoesOn(b, {m})
      BY <2>1 DEF EndWithout, GoesOn
  <2> QED
      BY <1>1, <2>1, <2>2, <2>3, <2>4, EntriesGo
<1>4. CASE ExpireList
  <2>1. /\ list' = Absent /\ entry' = entry /\ overtaken' = overtaken \ {TheList} /\ priced' = priced \ {TheList}
        /\ UNCHANGED registryVars
      BY <1>4 DEF ExpireList, Fresh
  <2>2. CacheTypeOK'
      BY <1>1, <2>1 DEF CacheTypeOK
  <2>3. \A k \in Models : (k \in overtaken => k \in overtaken') /\ (k \in priced => k \in priced')
      BY <2>1, CacheAssumption
  <2> QED
      BY <1>2, <2>1, <2>2, <2>3, CacheMoves
<1> QED
    BY <1>3, <1>4

-----------------------------------------------------------------------------
LEMMA InitCacheIInv == Init => CacheIInv
<1> SUFFICES ASSUME Init PROVE CacheIInv
    OBVIOUS
<1>1. TypeOK /\ ReferencesHold /\ req = [a \in Admins |-> Idle]
    BY InitIInv DEF Init, IInv, RegistryInit
<1>2. CacheReqOK /\ \A a \in Admins : FoundRow(req[a])
    BY <1>1 DEF CacheReqOK, FoundRow, Stages, Thens, Idle
<1>3. CacheTypeOK /\ GetOK
    BY DEF Init, CacheTypeOK, GetOK, GetStages
<1>4. EntriesFlushed /\ ListFlushed
    BY DEF Init, EntriesFlushed, ListFlushed, Cached
<1> QED
    BY <1>1, <1>2, <1>3, <1>4 DEF CacheIInv, Typed

(* The inductive invariant of the cache and of those who fill and flush it. *)
THEOREM CacheInvariance == Spec => []CacheIInv
<1>1. CacheIInv /\ [Next]_vars => CacheIInv'
  <2> SUFFICES ASSUME CacheIInv, [Next]_vars PROVE CacheIInv'
      OBVIOUS
  <2>1. CASE \E a \in Admins : AdminStep(a)
      BY <2>1, HandlerSteps, PriceSteps, LostFlushes, Scans, BatchDeletes, ListDeletes DEF AdminStep
  <2>2. CASE \E l \in Lookups : LookupStep(l)
      BY <2>2, Loads, Stores DEF LookupStep
  <2>3. CASE ExpireEntry \/ ExpireList
      BY <2>3, Expiry
  <2>4. CASE UNCHANGED vars
    <3>1. UNCHANGED registryVars /\ UNCHANGED <<entry, list, overtaken, priced, get>>
        BY <2>4 DEF vars, cache
    <3>2. CacheTypeOK' /\ GetOK'
        BY <3>1 DEF CacheIInv, Typed, CacheTypeOK, GetOK
    <3> QED
        BY <3>1, <3>2, CacheMoves DEF CacheIInv
  <2> QED
      BY <2>1, <2>2, <2>3, <2>4 DEF Next
<1> QED
    BY <1>1, InitCacheIInv, PTL DEF Spec

(* What is cached is well formed: a model with its key, or the sentinel. *)
THEOREM CacheTypes == Spec => []CacheTypeOK
<1>1. CacheIInv => CacheTypeOK
    BY DEF CacheIInv, Typed
<1> QED
    BY <1>1, CacheInvariance, PTL

(* However many models, handlers and lookups there are, a stale entry and a stale   *)
(* list are about to be deleted, or are of the kinds that the property names: a       *)
(* reader overtaken by a change, a lost DEL, an import's price (lib/cache.ts).       *)
THEOREM StaleFlushed == Spec => []StaleEntriesAreFlushed
<1>1. CacheIInv => StaleEntriesAreFlushed
    BY FlushedIsFlushed DEF CacheIInv
<1> QED
    BY <1>1, CacheInvariance, PTL
=============================================================================
