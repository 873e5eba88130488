# Verification of Baishui

TLA+ specifications of Baishui, the self-hosted proxy in front of LLM providers,
with TLC model checks of small instances and TLAPS proofs for all instances.
Paths without a directory are below `apps/server/src/`.

## 1. The system

One Node process (or several, started alike) serves `/v1/*`, the management and
dashboard APIs, and keeps two kinds of state: PostgreSQL is durable, Redis holds
what the hot path needs. Handlers are `async` functions on one event loop, so what
lies between two `await`s is one step, and everything in Redis or PostgreSQL may
change during an `await`. The state in Redis outlives the process; the usage queue
does not.

| Component (code) | State it keeps | Operations | Talks to |
|---|---|---|---|
| Chat handler (`routes/v1.ts:335-463`) | locals of a request | resolve a model to candidates, try them in turn, relay a stream | key health, strategies, model cache, usage log, limits |
| Key health (`lib/key-health.ts`) | Redis `pk:<id>:cooldown`, `:circuit`, `:failures`, `:inflight`, `rr:selectKey` | getKeyHealth, incr/decrInflight, selectKey, recordSuccess, recordError | Redis |
| Strategies (`lib/load-balancing.ts`) | Redis `strategy:<model>`, `rr:provider:<model>` | set/getStrategy, applyStrategy | Redis |
| Usage log (`lib/usage-buffer.ts`) | queue, flushing, counters, `request_logs` | append, flush (timer or full batch), close, stats | PostgreSQL |
| API key authentication (`routes/v1.ts:125-161`, `lib/cache.ts`) | Redis `auth:<hash>`, table `api_keys` | authApiKey through cacheGetOrSet; create, patch, revoke; delete user | Redis, PostgreSQL |
| Limits of an API key (`routes/v1.ts:47-122`) | Redis `rl:`, `tk:`, `cs:` | enforceKeyLimits, incrementDailyCounters | Redis |
| Per-IP limit, HTTP middleware (`lib/middleware.ts`) | Redis counter per address and window | one fixed-window counter | Redis |
| Model resolution and cache (`routes/v1.ts:181-250`, `routes/routing.ts`, `lib/cache.ts`) | Redis `model:<id>`, `v1:models`, tables `models`, `routing_rules` | resolveModel, resolveByModelId, rule CRUD, flush by SCAN | Redis, PostgreSQL |
| Providers, keys, models (`routes/providers.ts`, `lib/pricing-table.ts`) | tables `providers`, `provider_keys`, `models` | CRUD, sync, import, price scraping | upstreams, PostgreSQL, model cache |
| Accounts (`lib/auth.ts`, `routes/{auth,users,setup}.ts`, `packages/db/src/bootstrap.ts`) | tables `users`, `sessions`, `oauth_accounts` | bootstrap owner, setup wizard, login, OAuth, sliding sessions, user CRUD | PostgreSQL |
| Management API (`routes/management.ts`, `routes/api-keys.ts`) | tables `management_keys`, `api_keys` | keys with scopes; key CRUD | PostgreSQL, auth cache |
| Adapters (`lib/adapters/*`) | none but a context per stream | translate calls, answers and stream chunks | chat handler |
| Crypto (`packages/crypto`) | key ring | encrypt, decrypt by kid | chat handler, providers |
| Dashboard, reports, health, config, logger | none | read only | – |

### What is hard here

* *Interleaving.* `selectKey` reads every key's health, then increments a shared
  counter; `decrInflight` decrements, then floors; `recordError` counts, then sets an
  expiry, then opens the circuit. Other requests run in between.
* *Partial failure.* A command, a `decrypt`, a body or an odd `Retry-After` may throw
  in the middle of an attempt, between taking a slot and giving it back.
* *Crash and loss.* Slots counted in Redis outlive the process that took them; Redis
  may come back empty under requests that hold slots.
* *Staleness.* Candidates are chosen before the first attempt; the auth cache is
  filled by readers that raced with a revocation; several routes never invalidate.
* *Delivery.* A failed INSERT of usage rows may have been executed all the same.
* *Time.* Cooldowns, circuits, windows, minutes and days expire between any two steps.

`PROJECT.json` lists each hazard at its line, with the properties that would catch it.

### What makes each component correct

* Chat and key health: slots are counted exactly, given back, and never taken to be
  more than they are; every candidate is tried before an error is returned; every
  attempt is logged; failures are counted since the last success only and expire; no
  key stays out of rotation; keys and providers get their turn; requests finish.
* Usage log: no row twice, every row accounted for, the queue drains.
* Authentication: a record is used for a bounded time after it was replaced; a revoked
  key is in the end rejected for good.
* Limits: no minute lets more through than the limit; the daily limit is overshot only
  by what was under way.
* Accounts: at most one owner, who stays the owner; the wizard locks itself for good;
  every admin has an owner above; a deleted user has no session left.
* Credentials: a session that is used lives, one that is not expires, and neither a
  session that was logged out nor a revoked management key comes back.
* Registry and its cache: a provider has a model at most once per handler that may insert
  it; nothing refers to a row that is gone; a stale record is about to be flushed.
* Relay: the client gets the translated events in order and once, however the network
  cuts them; the tokens of an intact stream are all counted; a stream whose client reads gives
  its slot back and is logged once, unless Redis refuses.

## 2. The modules

Every module models the code line by line of control; `PROJECT.json` maps each
definition to the lines it stands for.

* **KeyHealth** – the Redis state of `lib/key-health.ts`, one operator per *command*
  (a command is what Redis executes atomically): `IncrInflight`, `DecrInflight`,
  `FloorInflight`, `ClearHealth` (the DEL of recordSuccess), `SetCooldown`,
  `IncrFailures`, `ExpireFailures`, `OpenCircuit`, and `Picks`, the choice of selectKey.
  An expiry is the time left, counted down by `Tick`.
* **ChatCompletions** EXTENDS KeyHealth – the handler as one process per request. `pc`
  is the await a request stands at; one action per stretch between awaits (`Begin`,
  `OneAvailable`/`SeveralAvailable`/`Pick` for resolution, `StartAttempts` with
  applyStrategy, `Acquire`, `UpstreamAnswers`/`UpstreamUnreachable`, `Record...`,
  `Expire`, `Open`, `ReadBody`, `Commit`/`EndRelay` for a stream, `Release`, `Floor`,
  `Settle`) and one per way out of it (`RecordRefused`, `BodyBreaks`,
  `SecretUnreadable`, `RedisFails`, `Crash`), plus `RedisLost` and `TimePasses`.
  `Faults` says which of them an instance admits. `holds` is the only history variable:
  the key whose slot the request has taken and not given back.
* **CircuitHistory** EXTENDS ChatCompletions – the ages of the server errors since a
  key's last success, to say what the failure counter is worth.
* **EventStream** – the abstract stream: messages are seen in order, each once, from the
  first on.
* **StreamRelay** – `streamSSE` with `normalizeStreamChunk` of both adapters, between an
  upstream that writes lines and a network that cuts them. A line is two pieces, the
  second with its newline, so that a chunk may end inside a line; `Read` takes any number
  of pieces, `Translate` one line, `WriteSSE` one message, for which the client must have room
  (`Stall`, `Resume`). `RelayFails` is a read or a translation that throws. The finally block is two
  steps, `GiveSlotBack` (the DECR) and `LogUsage`, and `RedisRefuses` ends it before either; `slot` is
  whether the stream still counts in `pk:<id>:inflight`. `Break`, the signal or a reset, may come also
  after the upstream has closed, while chunks are unread. It implements `EventStream` with
  `seen <- out` and `sent` the translation of the lines written.
* **AtMostOnceLog** – the abstract usage log: accepted rows are pending, and are written
  at most once or lost.
* **UsageBuffer** – `UsageBuffer` with the database side of its INSERT. `inDb` holds
  INSERTs sent and not yet executed, so that one reported as failed may be executed
  afterwards, also after the next. It implements `AtMostOnceLog` with
  `pending <- Range(queue) \cup InFlight`, `written <- table`.
* **AuthCache** – `authApiKey` as GET, SELECT, SET, against the routes that change a key,
  each with the order of its UPDATE or DELETE and its DEL, if it has one.
* **RateLimits** – `enforceKeyLimits` and `incrementDailyCounters` for one API key, command
  by command, against a clock that crosses minutes and a midnight.
* **ModelRegistry** – providers, their keys, models and routing rules: every route of
  `routes/providers.ts` and `routes/routing.ts` that writes, query by query. A handler is a
  record in `req`: the query it stands at and the locals it goes on with. Foreign keys,
  cascades and the upserts without a unique constraint are what PostgreSQL does.
* **ModelCache** EXTENDS ModelRegistry – composes the registry with the cache of the proxy: `model:<id>`
  filled by the three queries of resolveByModelId, `v1:models` by one, against the flush of
  `lib/cache.ts`, which SCANs a batch, deletes it, and goes on, and deletes the list last. The list
  holds what `GET /v1/models` shows of each row: its upstream id, name and context window. A SCAN or DEL
  that fails is swallowed and the list is deleted all the same (`LoseScan`); its own DEL may fail
  (`LoseUnlist`); a handler that fails before its flush deletes nothing (`LoseFlush`). A key that is
  deleted or expires leaves every SCAN under way (`EndWithout`).
  `overtaken` and `priced` are history: which of the entries and the list were filled with what was
  read before a change or were to be deleted and were not, and which were made stale by the price pass of
  an import, after its flush.
* **Accounts** – the users: the owner a server inserts at start-up, the wizard, password and
  GitHub logins, linking, and the administration of users. A handler reads the role of
  its user once and acts on it queries later.
* **Credentials** – the life of a session (token, row, cookie, slide) in days, and of
  management keys that create and revoke each other.
* **MCChat, MCCircuit, MCUsage, MCAuth, MCRateLimits, MCAccounts, MCCredentials, MCRegistry,
  MCModelCache, MCStream** – instances: pools, headers, addresses, symmetry.
* **ChatCompletionsProofs** (with CircuitHistory), **StreamRelayProofs, UsageBufferProofs,
  AuthCacheProofs, RateLimitsProofs, AccountsProofs, CredentialsProofs, ModelCacheProofs** (with
  ModelRegistry) – the theorems about the module each is named for, and their proofs.

Definitions whose names have a suffix after an underscore (`DecrInflight_KeepsLast`) are
wrong variants of the definition below them; each is a plausible slip that some property
must catch.

### Abstractions

* Redis `null` (no `REDIS_URL`) is left out: all of key health is then switched off.
* The MGETs of one selectKey are one step: they are sent in one burst on one connection.
* A rejected command is taken not to have been executed, and no command is executed twice.
* The resolution chain (pools of keys in the order of providers), and the strategy of the
  model, are constants of an instance; resolution by rule or UUID is the instance
  `RoundRobin = FALSE`. The reason of a failed resolution is 404 when nothing matches, else 503.
* The relay of a stream is one step of ChatCompletions and the whole of StreamRelay. There, an upstream
  keeps to its protocol (message_start first, nothing after the end), except that any line
  may be junk (no JSON) or, from Anthropic, odd: JSON of another shape, which normalizeStreamChunk throws
  at; the OpenAI adapter passes both on. A client that goes away is one that reads on, since
  `writeSSE` does not throw for it and waits no longer.
  An answer without a body to a streamed call is left out of ChatCompletions.
* A row of the usage log is the number of its append; `totalFlushes` and `lastFlushAt` are left out.
* A user has one key in AuthCache; two keys of a user are two targets of two handlers.
* RateLimits: a command is executed in the second in which it is sent; a request is over
  only when its counters are written, so `Requests` bounds those under way. A rejected
  INCR leaves no trace and is not a step. A rejected command of the counters ends the process
  (its promise is not awaited, and Node ends on unhandled rejections): that is `Crash`.
* ModelRegistry: all providers share one name, since only those can be mixed up by an
  import; an import file holds one provider; one alias of routing rules. What a synchronisation
  overwrites of a model is two opaque values, its prices and what is shown of it (`displayName` and
  `contextWindow`); an import's price pass writes both when the upstream reports prices (381-384), and
  prices alone from the table (396). `raw`, which nothing reads, and how `pricing-table.ts` reads prices
  out of an answer, are left out. Of the order of the cached list nothing is said.
* Accounts: sessions are counted per user, their expiry is the matter of Credentials; the
  state and PKCE cookies of OAuth, `audit_log`, `lastLoginAt` and `forcePasswordChange` (which
  is only shown) are left out. UUIDs are drawn once, but for the sentinel of the bootstrap.
* Credentials: one admin with one browser; time passes in days.

## 3. The runs

| Run | Module, configuration | States | What it shows |
|---|---|---|---|
| chat_safety | MCCircuit, ChatSafety.cfg | 2.2 M | without faults: exact slots, no slot after an answer, every candidate tried, one row per attempt, failure counters expire and count failures since the last success |
| chat_liveness | MCChat, ChatLiveness.cfg | 0.55 M | with every fault, a Redis lost at any time among them: never overcounts but for the slots of requests that failed, requests finish, keys recover |
| chat_rotation | MCChat, ChatRotation.cfg | 0.63 M | keys of a pool and providers get their turn to within one |
| stream_relay | MCStream, StreamRelay.cfg | 2.5 M | events in order and once (implements EventStream), tokens accounted for, every stream whose client reads on settled once, however it is cut, broken or malformed, unless Redis refuses |
| usage_log | MCUsage, UsageLog.cfg | 0.17 M | rows once, accounted for, drained; implements AtMostOnceLog |
| auth_staleness | MCAuth, AuthStaleness.cfg | 0.6 M | staleness is bounded by TTL and one load; revocation takes effect in the end |
| rate_limits | MCRateLimits, RateLimits.cfg | 3.3 M | limit per clock minute; bounded overshoot of the daily limit |
| registry | MCRegistry, Registry.cfg | 0.3 M | duplicates are bounded by the handlers that race; no reference to what is gone |
| model_cache | MCModelCache, ModelCache.cfg | 3.7 M | a model or list that is stale in the cache is about to be flushed, but for three named cases |
| accounts | MCAccounts, Accounts.cfg | 0.56 M | one owner, who stays; admins have an owner; the wizard stays locked |
| credentials | MCCredentials, Credentials.cfg | 1.1 M | used sessions stay, idle ones expire, ended credentials stay ended |
| session_slide | MCCredentials, SessionSlide.cfg | violation | the cookie of a session in use runs out (`lib/auth.ts:67`) |

**Bounds.** Two requests show every race of two awaits; three are used where a property compares counts.
The pools of chat_safety are `<<k1>>, <<k2, k1>>`: one key reached through two pools, a pool with a
choice, and a fail-over; chat_liveness has two pools of one key, so that all faults fit in one run.
Thresholds and expiries are 1 to 3 instead of 5 and 60 to 3600, so that they are reached and run out
within a request. `TieSlack` is 0 where the tie-break of selectKey is to occur and 9 where only the
rotation is looked at. Codes are one of each class the handler tells apart, where the run is about
answers at all. A stream has four lines: an Anthropic one is opened, reports tokens, is ended and has
room for one line that means nothing or is malformed; a client may stall at every write; token counts are 0, which the code takes for "not reported", and
1. The usage run has a queue of three, batches of two and six rows: a full queue, a refused flush and
overlapping INSERTs all happen. The auth run has two lookups and two handlers on one key: a lookup only
touches its own key, so a second key adds nothing. Rate limits: a minute is 2 s, a day two minutes, the
clock starts at any second of the day and crosses midnight; four requests reach each of the three
limits, and the overshoot stated is attained. The registry has two providers (one deleted or shadowed by
the name of the other), two handlers and three models, so that a duplicate and an unrelated row exist
side by side; the bound on duplicates is attained. The cache has one provider and one model row,
since an entry depends on its own model alone; two names, so that a synchronisation finds the one and
fails to insert the other when its provider is deleted; two values of what is shown, which tell a
stale list and a stale entry alike, and so one price; two handlers and a lookup. Accounts has two servers, two requests, three ids (the sentinel,
and two drawn), two addresses of which one is `ADMIN_EMAIL` and the other may log in by GitHub; a user
has at most one session. Credentials has two sessions and two keys, each minted by the other or by the
session; a TTL of 4 days, a slide window of 2, and an UPDATE up to 1 day late.

**Deadlock.** A run that stops when all its requests are answered, its ids drawn, or its stream
settled says `CHECK_DEADLOCK FALSE`; the usage buffer stops when closed or crashed.

**Fairness.** A request under way is driven on: the event loop runs every handler whose
promise is settled, a Redis command settles within `maxRetriesPerRequest`, and the upstream
call with its body within the 120 s of its AbortSignal; hence weak fairness of
`Live(r) /\ Step(r)`. A request that has not arrived need not arrive, and no fault need
happen. Time passes (`TimePasses`, `Tick`). For the relay: weak fairness of `RelayStep`
and of `Break`, which is that same signal; the upstream need do nothing, and neither need the client: a
write is a step of the relay only while the client has room, nothing in the code ends the wait for it
(`routes/v1.ts:447`), and StreamsAreSettled is about clients that read from some time on. RequestsFinish
of chat_liveness, where a whole relay is the step `EndRelay`, takes the client to be one that reads. For the usage
log: the interval timer fires, the driver settles every promise, and PostgreSQL executes or
gives up every INSERT. For authentication: a lookup that has missed finishes; handlers that
revoke need not even start. Registry, cache, accounts and credentials have safety properties only.

## 4. The proofs

All for any finite set of requests or handlers, and any keys, pools, thresholds, codes, providers,
models, users, lines, limits. Assumptions on constants are the named `ASSUME`s of the modules. Every
type invariant, safety invariant, action property and refinement of section 3 is a theorem; the
inductive invariants were checked by TLC on the runs' instances before they were proved.

* **ChatCompletionsProofs.** The inductive invariant is the conjunction of the type invariant;
  `Phase(r)`, what each program point implies (the candidate index is in range while
  attempting, and `holds` is the candidate's key exactly between Acquire and Release);
  `Slots` and `Counters`. `InflightMatchesHolders` alone is not inductive: that `Release`
  lowers the counter of the key the request holds needs `Phase`, and that the floor is never reached
  without a loss of Redis needs `pc # "floor"`. From it follow `TypeCorrect`;
  `SlotsNeverOvercounted` with no assumption on the faults; `SlotsExact` when Redis is not
  lost (`NoLoss`); `NegativeIsTransient` and `FailureCountersExpire` when no command fails
  and nothing crashes (`Undisturbed`); `SlotsAreGivenBack`, `EveryCandidateIsTried` and
  `EveryAttemptIsLogged` when nothing makes the handler throw (`Orderly`). These
  assumptions are needed: without `Orderly` a refused `PX` leaks a slot (section 5).
  - *The failure history* (`FailuresCounted`, whatever fails): `FailuresSinceSuccess` is inductive
    together with the invariant above, which says that the steps `Observe` tells apart exclude each
    other and are the only ones that raise a counter; every other step keeps a counter or clears it.
  - *The rotations* (`KeysTakeTurns`). `RotationInv` says that the requests a pool's keys were chosen
    for, and the requests that began with each pool, are spread as `n` draws over `len` turns are: q
    each, and one more for the turns of the last round (`Spread`). It needs `Candidates`: while a request
    resolves, its i-th candidate is a key of the i-th pool; at "pick" it has read every key of the pool as
    available and none as overloaded. The steps rest on lemmas about `%` (the next turn, and that a
    rotation reaches every position, so that it loses no candidate). `Rotating`, the assumption on the
    constants, is what the property needs: pools that are not empty and share no key, only one of them
    with several keys (they all draw from `rr:selectKey`, section 5), round_robin when there
    are several, and no fault but a broken body. `[]Calm` is the condition that the keys of the pools are
    available and none is passed over for its load; both hold in the run chat_rotation, where TLC checked
    them as invariants.
* **StreamRelayProofs.** The invariant places the relay: there is a `d` such that the first d lines
  have been translated, and what they say is with the client or about to be written and counted; the
  lines after them are in `todo`; and the pieces after those are, in order, the buffer and the wire
  (`Position`). A stream that a malformed line ended keeps that line at the head of `todo`. The property
  alone says nothing of a stream under way, and without `d` nothing relates a
  buffered half of a line to what was counted. `FlattenSeq` is recursive, but as a function on sequences:
  that it is defined on every sequence and appends is shown by induction over a set of naturals
  (`WFMin` of the library, which takes a set and no operator). Theorems: `TypeCorrect`,
  `StreamsAccounted`, and `RelayImplementsStream`, the step simulation of EventStream.
* **UsageBufferProofs.** Invariant: types with the bound on the queue, no batch without a flush, the
  account of the rows, and `Distinct`: queue, INSERTs under way and table hold disjoint sets of rows
  without repetition. From it: `RowsAreAccountedFor`, `RowsAreNotRepeated`, and `BufferImplementsLog`,
  the step simulation of AtMostOnceLog.
* **AuthCacheProofs.** Invariant: the age of a cached record plus the time its entry has left is
  at most `AuthTtl + MaxLoad`, and likewise for a record a lookup has read and not yet
  stored. From it `StalenessIsBounded`, an action property.
* **RateLimitsProofs.** Minutes: the counter of a minute that lasts counts the requests admitted in it
  and those that wait for a later check, and cannot expire before the minute is over; admitted and
  waiting together are at most the limit, also after the counter is gone, since no request of an older
  minute arrives (`MinuteInv`). That EXPIRE may come late, or twice, or never, is in these bounds. Days:
  until the last second of the day the token counter is what was used, and lasts until then, whenever
  its EXPIRE was computed; later days have none; what is used and what is committed stay within the bound
  (`DayInv`). In the last second the counter may be gone already (its seconds are whole ones), and neither
  the property nor the invariant says anything about that second. Theorems: `TypeCorrect`, `RequestsLimited`,
  `TokensLimited`.
* **AccountsProofs.** Invariant: `DataInv`, what holds of the tables (`IdsAreDrawn`: a user has an
  id that was drawn, and the sentinel is only ever the owner's; one owner; admins only under an
  owner; no session of a user who is gone), `ServerInv`, what a stage of start-up says of the tables, and
  `Relies`, what a request may still rely on of what it read queries ago. One owner is not
  inductive: two bootstraps that both saw no user meet at the unique `ADMIN_EMAIL`, two wizards
  at the primary key of the sentinel, and a bootstrap never meets a wizard, since a server that
  is set up unattended is up only when there is a user. No PATCH makes an owner, by the roles
  the route grants. `Safe` says once what any step may do to the tables; every action is
  shown to be `Safe`, and `DataInv` and the action properties follow from that. Theorems:
  `TypeCorrect`, `OneOwner`, `AdminsAreOwned`, `OwnerStays`, `SetupLocked`, `DeletedLoggedOut`.
* **CredentialsProofs.** `UsedSessionsStay` is not inductive: time may pass between a lookup and its
  slide. The invariant adds that what a session has left and how long it has been unused are together
  at most the TTL (`TimeLeft`), and that a lookup which is about to slide had found its row alive, an
  UPDATE's delay ago at most (`SlidesAreRecent`). Theorems: `TypeCorrect`, `SessionsStay`, and the action
  properties `IdleExpire` and `EndedStayEnded`. A session is not the id of a management key
  (`BySession \notin Keys`, in the assumption of the module).
* **ModelCacheProofs.** Of the registry: the types of the handlers' locals, `ReferencesHold`, and that for
  each provider and name the rows plus the handlers about to INSERT one are at most the handlers that
  may have raced (`RowsAndInserters`): a handler that found no row counts already. Theorems, of the
  specification of ModelRegistry: `TypeCorrect`, `References`, `Duplicates`. Of the cache: the handlers'
  steps are those of the registry, so that invariant carries over. The new parts are `FoundRow` (a
  handler that goes on with a row acts on that row) and `Covers`: which entries the handlers under way
  are going to delete, from where they stand. A synchronisation whose provider was deleted fails at its
  INSERT and flushes nothing, so it is not counted on; the handler that deleted the provider is. The
  list is covered in the same way (`ListFlushed`): what any handler's write does to a listed row, its
  own flush is still to delete, but for the price pass. The steps that lose something (`Losses`), and
  those that take entries away (`EntriesGo`), are one lemma each. Theorems: `CacheTypes`, `StaleFlushed`.

Only model-checked: liveness (RequestsFinish, KeysRecover, QueueDrains, RevocationTakesEffect,
StreamsAreSettled), which is out of what TLAPS proves, and that sessions in use end nevertheless, which
is a counterexample (session_slide). `NegativeIsTransient` and `DeletedLoggedOut` are proved and have
no run of their own.

## 5. Known divergences

Found by the run session_slide:

* `lib/auth.ts:67` "sliding session - single update when near expiry": the row slides, the
  cookie does not; its `maxAge` is set at the login (105), and after it the browser drops a
  session that is used every day.

Found by violation runs of the same modules, whose properties are not kept because nothing is left to
ask of them; each is short enough to replay by hand:

* `routes/v1.ts:393`: recordError throws on a `Retry-After` of 0 or of a date (`PX 0`, `PX NaN`), and
  the slot taken before is never given back; `key-health.test.ts:55` "incrInflight then
  decrInflight nets to zero".
* `lib/key-health.ts:77`: the DEL of a late recordSuccess lifts the cooldown of a 401;
  `:95` "long cooldown (1h) so it's effectively disabled".
* `lib/key-health.ts:63`: one counter `rr:selectKey` for all pools, so a request that resolves through
  two pools of two keys always picks the same key of each; `:49` "round-robin among healthy keys".
* `lib/key-health.ts:101`: EXPIRE after every INCR restarts the window, and errors further apart than 60 s
  in all open the circuit; `:9-10` "open after 5 errors", "...within 60s".
* `routes/api-keys.ts:86`: the SET of a lookup that read before the UPDATE arrives after the DEL;
  `:84-85` "so the revoked key stops working immediately".

Found by reading, or with instances of the same modules that are not kept:

* `routes/v1.ts:341-342` "Only return an error to the client if ALL candidates fail": a body that
  breaks or cannot be normalised (397, 407) throws out of the loop with candidates left,
  without a row and with the slot kept.
* `lib/key-health.ts:50` "Keys in cooldown or circuit-open are skipped": only when candidates
  are chosen; by the time a later candidate is tried (`routes/v1.ts:373`) its key may be in cooldown.
* `lib/usage-buffer.ts:7` "drop oldest": append drops the row that arrives (51-57).
* `lib/usage-buffer.ts:86` "drain on shutdown": close() writes one batch, or none when a
  flush is under way; and nothing calls close(). One row whose key was deleted fails the
  INSERT of its whole batch by its foreign key.
* `routes/users.ts:120-123` flushes the auth entries before the DELETE, so a lookup between the
  two caches a deleted user's key.
* `routes/v1.ts:49` and `lib/middleware.ts:4` speak of a sliding minute; the window is the clock minute.
* `routes/v1.ts:50` "TTL until midnight": the seconds are computed (120) before two awaits, and a
  midnight in between gives the new day's cost counter what was left of the old day.
* `routes/setup.ts:11-13`: a GitHub login before the setup creates a member, and from then on the
  wizard answers 403 although there is no owner. Two servers with different `ADMIN_EMAIL`s, or a
  server with one and a wizard that uses another, can each insert an owner.
* `routes/management.ts:17` "auth: mgmt key OR admin session"; the middleware below it takes only keys.
  Viewers can neither read `/me` nor change their password; a linked GitHub account is not
  looked up at a login, which goes by its address.
* `routes/providers.ts:49-51` "Called after any provider/key/model mutation": the price pass of an
  import writes (381, 396) after the only flush (361): usage is charged with the old prices, and
  `GET /v1/models`, which shows the context window that pass also writes (383), is stale, until the TTL.
  An audit row that cannot be written (103) keeps a
  handler from its flush. Synchronisations and imports at the same time duplicate models and providers.
  A synchronisation overwrites names and prices that were edited. The fallback chain of a rule keeps the
  ids of deleted models: it is jsonb without a foreign key.
* Rows of expired sessions are never deleted.
* `routes/v1.ts:451-452`: the finally block of a stream awaits decrInflight first. When Redis refuses it,
  the row and the counters of a stream that was served are skipped, and the slot may stay counted.
* `routes/v1.ts:447`: a client that stops reading, without closing, holds its stream, slot and upstream
  connection: the write has no timeout, and the signal of the fetch (381) ends reads only.
* `lib/adapters/anthropic.ts:93-120`: an event of another shape (null, no message, no delta) throws and
  ends the stream; the OpenAI adapter (64-73) passes such a chunk on.
* Streams: OpenAI's `[DONE]` is relayed twice; an "error" event of Anthropic is dropped; a stream that
  breaks is logged with status 200; a base URL that ends in `/v1` gets another `/v1`.

## 6. Not modelled

The dashboard (`routes/home.ts`), read-only reports, health checks, configuration, logging,
load test, containers and CI, generated SQL and the table of prices have no state that
steps change. Encryption is a pure wrapper: that decrypt may throw is in ChatCompletions.
The translation of whole requests and answers by the adapters is a change of shape without state. The
limit per address (`lib/middleware.ts`) is the counter of RateLimits with one INCR and one EXPIRE.
Changing the strategy of a model is one SET that no other state depends on, creating an API key
one INSERT; neither is an action. A Redis that restores an older snapshot, and a command executed
twice after a reconnect, are not modelled: what the counters are worth then is not
stated anywhere in the code.

## 7. What is left

1. **LoadBalancing** – strategies that change while requests run; composes with ChatCompletions.
2. **RedisSnapshots** – a Redis restored to an older state, and commands executed twice after a
   reconnect, under ChatCompletions.
3. The limit per address, as an instance of the counter of RateLimits.
4. Proofs: of what 1 to 3 will state; and which of `Orderly`, `Undisturbed` and `Rotating` can be
   weakened, fault by fault. Liveness stays with TLC.
