----------------------------- MODULE Credentials -----------------------------
(***************************************************************************)
(* What a request to the dashboard or the management API shows to be let    *)
(* in: the cookie of a sliding session (lib/auth.ts) or a management key     *)
(* (routes/management.ts).  Both are looked up in PostgreSQL every time.     *)
(*                                                                         *)
(* The user is an admin, with one browser.  Time is counted in days; a       *)
(* lookup is two queries, and other requests come in between.               *)
(***************************************************************************)
EXTENDS Integers

CONSTANTS
    Tokens,    \* session tokens, each drawn once
    Ttl,       \* SESSION_TTL_MS, also maxAge of the cookie
    SlideAt,   \* SESSION_SLIDE_MS
    MaxDelay,  \* bound on the time from the SELECT of a lookup to its UPDATE
    Keys,      \* management keys, each created once
    Requests   \* requests under way at a time

Nobody == "nobody"
BySession == "session"

ASSUME CredentialsAssumption ==
    /\ Ttl \in Nat /\ SlideAt \in Nat /\ MaxDelay \in Nat
    /\ SlideAt + MaxDelay <= Ttl
    /\ BySession \notin Keys

VARIABLES
    row,     \* sessions: "none", "there" or, once deleted, "gone"
    left,    \* sessions: the time to expiresAt of each row, 0 when it is past
    cookie,  \* the token in the browser's cookie, or Nobody
    maxAge,  \* the time that cookie has left
    unused,  \* how long ago each session was created or let a request in
    key,     \* management_keys: "none", "live" or "revoked"
    mayMint, \* management_keys: whether the scopes include "keys"
    mintedBy,\* the credential each management key was created with
    req      \* the await each request stands at, and its locals

sessionVars == <<row, left, unused>>
browserVars == <<cookie, maxAge>>
keyVars == <<key, mayMint, mintedBy>>
vars == <<sessionVars, browserVars, keyVars, req>>

Idle == [at |-> "idle"]
Stages ==
    {Idle}
        \cup [at : {"lookup", "logout", "issued"}, token : Tokens]
        \cup [at : {"slide"}, token : Tokens, held : 0..MaxDelay]
        \cup [at : {"mint"}, by : Keys \cup {BySession}]
        \cup [at : {"revoke"}, by : Keys, target : Keys]

(* Type invariant. *)
TypeOK ==
    /\ row \in [Tokens -> {"none", "there", "gone"}]
    /\ left \in [Tokens -> 0..Ttl]
    /\ cookie \in Tokens \cup {Nobody}
    /\ maxAge \in 0..Ttl
    /\ unused \in [Tokens -> 0..(Ttl + MaxDelay)]
    /\ key \in [Keys -> {"none", "live", "revoked"}]
    /\ mayMint \in [Keys -> BOOLEAN]
    /\ mintedBy \in [Keys -> Keys \cup {BySession, Nobody}]
    /\ req \in [Requests -> Stages]

Init ==
    /\ row = [t \in Tokens |-> "none"]
    /\ left = [t \in Tokens |-> 0]
    /\ cookie = Nobody
    /\ maxAge = 0
    /\ unused = [t \in Tokens |-> 0]
    /\ key = [k \in Keys |-> "none"]
    /\ mayMint = [k \in Keys |-> FALSE]
    /\ mintedBy = [k \in Keys |-> Nobody]
    /\ req = [r \in Requests |-> Idle]

Goto(r, stage) == req' = [req EXCEPT ![r] = stage]
Ends(r) == Goto(r, Idle)

-----------------------------------------------------------------------------
(* Sessions. *)

(* createSession; the cookie comes with the answer. *)
CreateSession(r) ==
    /\ req[r] = Idle
    /\ \E t \in Tokens :
          /\ row[t] = "none"
          /\ row' = [row EXCEPT ![t] = "there"]
          /\ left' = [left EXCEPT ![t] = Ttl]
          /\ Goto(r, [at |-> "issued", token |-> t])
    /\ UNCHANGED <<unused, browserVars, keyVars>>

SetSessionCookie(r) ==
    /\ req[r].at = "issued"
    /\ cookie' = req[r].token
    /\ maxAge' = Ttl
    /\ Ends(r)
    /\ UNCHANGED <<sessionVars, keyVars>>

(* The browser sends its cookie with a request that requireRole guards. *)
Send(r) ==
    /\ req[r] = Idle
    /\ cookie # Nobody
    /\ \E stage \in {"lookup", "logout"} : Goto(r, [at |-> stage, token |-> cookie])
    /\ UNCHANGED <<sessionVars, browserVars, keyVars>>

(* WHERE token_hash = ... AND expires_at > now.  Mutant: expired rows count, too. *)
Found_Ever(t) == row[t] = "there"
Found(t) == row[t] = "there" /\ left[t] > 0

(* Mutant: the session is renewed only after it has expired. *)
NearExpiry_Late(t) == left[t] < 0
NearExpiry(t) == left[t] < SlideAt

(* The handler runs.  Of those behind a session only the one that creates a  *)
(* management key matters here.                                              *)
LetIn(r, t) ==
    /\ unused' = [unused EXCEPT ![t] = 0]
    /\ Ends(r) \/ Goto(r, [at |-> "mint", by |-> BySession])

Lookup(r) ==
    /\ req[r].at = "lookup"
    /\ LET t == req[r].token
       IN  \/ /\ Found(t) /\ NearExpiry(t)
              /\ Goto(r, [at |-> "slide", token |-> t, held |-> 0])
              /\ UNCHANGED unused
           \/ Found(t) /\ ~ NearExpiry(t) /\ LetIn(r, t)
           \/ ~ Found(t) /\ Ends(r) /\ UNCHANGED unused
    /\ UNCHANGED <<row, left, browserVars, keyVars>>

(* UPDATE ... WHERE id: expiresAt counts from before the SELECT, and a row that *)
(* was deleted meanwhile stays deleted.  Mutants: the row is inserted again; the  *)
(* TTL is added to what is left.                                                 *)
Slid_Added(t, delay) ==
    /\ left' = [left EXCEPT ![t] = IF row[t] = "there" THEN @ + Ttl ELSE @]
    /\ UNCHANGED row
Slid_Upsert(t, delay) ==
    /\ row' = [row EXCEPT ![t] = "there"]
    /\ left' = [left EXCEPT ![t] = Ttl - delay]
Slid(t, delay) ==
    /\ left' = [left EXCEPT ![t] = IF row[t] = "there" THEN Ttl - delay ELSE @]
    /\ UNCHANGED row

Slide(r) ==
    /\ req[r].at = "slide"
    /\ Slid(req[r].token, req[r].held)
    /\ LetIn(r, req[r].token)
    /\ UNCHANGED <<browserVars, keyVars>>

(* destroySession; the answer clears the cookie. *)
Logout(r) ==
    /\ req[r].at = "logout"
    /\ row' = [row EXCEPT ![req[r].token] = "gone"]
    /\ cookie' = Nobody
    /\ maxAge' = 0
    /\ Ends(r)
    /\ UNCHANGED <<left, unused, keyVars>>

-----------------------------------------------------------------------------
(* Management keys. *)

(* requireManagementKey.  Mutant: revokedAt is not looked at. *)
Accepts_Revoked(k) == key[k] # "none" /\ mayMint[k]
Accepts(k) == key[k] = "live" /\ mayMint[k]

ShowKey(r) ==
    /\ req[r] = Idle
    /\ \E k \in Keys :
          /\ Accepts(k)
          /\ \/ Goto(r, [at |-> "mint", by |-> k])
             \/ \E target \in Keys : Goto(r, [at |-> "revoke", by |-> k, target |-> target])
    /\ UNCHANGED <<sessionVars, browserVars, keyVars>>

(* POST /keys inserts a key with the scopes of the body. *)
Mint(r) ==
    /\ req[r].at = "mint"
    /\ \E k \in Keys, scoped \in BOOLEAN :
          /\ key[k] = "none"
          /\ key' = [key EXCEPT ![k] = "live"]
          /\ mayMint' = [mayMint EXCEPT ![k] = scoped]
          /\ mintedBy' = [mintedBy EXCEPT ![k] = req[r].by]
    /\ Ends(r)
    /\ UNCHANGED <<sessionVars, browserVars>>

(* DELETE /keys/:id sets revokedAt, which nothing unsets. *)
Revoke(r) ==
    /\ req[r].at = "revoke"
    /\ key' = [key EXCEPT ![req[r].target] = IF @ = "none" THEN @ ELSE "revoked"]
    /\ Ends(r)
    /\ UNCHANGED <<sessionVars, browserVars, mayMint, mintedBy>>

-----------------------------------------------------------------------------
(* A query fails, the server dies, or its answer is lost. *)
Abandon(r) ==
    /\ req[r] # Idle
    /\ Ends(r)
    /\ UNCHANGED <<sessionVars, browserVars, keyVars>>

Less(n) == IF n > 0 THEN n - 1 ELSE 0

(* A day passes; the browser drops a cookie whose maxAge is over. *)
Tick ==
    /\ \A r \in Requests : req[r].at = "slide" => req[r].held < MaxDelay
    /\ left' = [t \in Tokens |-> Less(left[t])]
    /\ unused' = [t \in Tokens |-> IF row[t] = "there" /\ unused[t] < Ttl + MaxDelay THEN unused[t] + 1 ELSE unused[t]]
    /\ maxAge' = Less(maxAge)
    /\ cookie' = IF maxAge > 1 THEN cookie ELSE Nobody
    /\ req' = [r \in Requests |->
                 IF req[r].at = "slide" THEN [req[r] EXCEPT !.held = @ + 1] ELSE req[r]]
    /\ UNCHANGED <<row, keyVars>>

RequestStep(r) ==
    \/ CreateSession(r) \/ SetSessionCookie(r) \/ Send(r) \/ Lookup(r) \/ Slide(r) \/ Logout(r)
    \/ ShowKey(r) \/ Mint(r) \/ Revoke(r) \/ Abandon(r)

Next == Tick \/ \E r \in Requests : RequestStep(r)

Spec == Init /\ [][Next]_vars

-----------------------------------------------------------------------------
(* Properties. *)

Sliding(t) == \E r \in Requests : req[r].at = "slide" /\ req[r].token = t

(* A session that nobody uses for its TTL (SESSION_TTL_MS) lets nobody in, however  *)
(* lookups, their delayed updates and logouts overlap.                             *)
IdleSessionsExpire ==
    [][\A t \in Tokens : unused'[t] < unused[t] => unused[t] < Ttl + MaxDelay]_vars

(* A session that is used at least once in every slide window never expires in    *)
(* the database: what let a request in has SESSION_SLIDE_MS left, in spite of a    *)
(* delayed update.                                                               *)
UsedSessionsStay ==
    \A t \in Tokens : row[t] = "there" => left[t] + unused[t] >= SlideAt

UnderWay(k) == \E r \in Requests : req[r].at \in {"mint", "revoke"} /\ req[r].by = k

(* A session that was logged out is not brought back by a lookup that found it       *)
(* before and updates its row afterwards (lib/auth.ts:69-72); and a management key   *)
(* that was revoked, unlike an API key, is dead at once: but for the requests it had *)
(* let in before, it creates and revokes no key any more.                           *)
EndedCredentialsStayEnded ==
    [][/\ \A t \in Tokens : row[t] = "gone" => row'[t] = "gone"
       /\ \A k \in Keys : key[k] = "revoked" /\ ~ UnderWay(k) => key'[k] = "revoked" /\ ~ UnderWay(k)']_vars

(* "sliding session - single update when near expiry, no refresh-token table"     *)
(* (lib/auth.ts:67): a browser drops the cookie of a session that is not deleted   *)
(* only when it has not been used within the slide window.                       *)
ActiveUsersStayLoggedIn ==
    [][cookie # Nobody /\ cookie' = Nobody /\ row'[cookie] = "there" => unused[cookie] >= SlideAt]_vars
=============================================================================
