-------------------------- MODULE CredentialsProofs --------------------------
(***************************************************************************)
(* Sessions and management keys of Credentials, for any number of tokens,   *)
(* keys and requests, and any TTL that leaves room for the slide window and  *)
(* a delayed UPDATE.                                                        *)
(***************************************************************************)
EXTENDS Credentials, TLAPS

(* A row that is not inserted yet is unused, and one that still lets requests in *)
(* was last used so long ago that the two add up to no more than the TTL.       *)
TimeLeft ==
    \A t \in Tokens :
        /\ row[t] = "none" => unused[t] = 0
        /\ left[t] > 0 => left[t] + unused[t] <= Ttl

(* A lookup that is about to slide had found its row alive. *)
SlidesAreRecent ==
    \A r \in Requests : req[r].at = "slide" => unused[req[r].token] < Ttl + req[r].held

IInv == TypeOK /\ UsedSessionsStay /\ TimeLeft /\ SlidesAreRecent

-----------------------------------------------------------------------------
(* Stages and their fields. *)

LEMMA StageFields ==
    ASSUME NEW q \in Stages
    PROVE  /\ q.at \in {"idle", "lookup", "logout", "issued", "slide", "mint", "revoke"}
           /\ q.at = "idle" <=> q = Idle
           /\ q.at \in {"lookup", "logout", "issued", "slide"} => q.token \in Tokens
           /\ q.at = "slide" =>
                  q.held \in 0..MaxDelay /\ q = [at |-> "slide", token |-> q.token, held |-> q.held]
           /\ q.at = "mint" => q.by \in Keys \cup {BySession}
           /\ q.at = "revoke" => q.by \in Keys /\ q.target \in Keys
BY DEF Stages, Idle

LEMMA StagesBuilt ==
    ASSUME NEW t \in Tokens, NEW k \in Keys, NEW l \in Keys, NEW d \in 0..MaxDelay
    PROVE  /\ Idle \in Stages
           /\ \A at \in {"lookup", "logout", "issued"} : [at |-> at, token |-> t] \in Stages
           /\ [at |-> "slide", token |-> t, held |-> d] \in Stages
           /\ [at |-> "mint", by |-> k] \in Stages
           /\ [at |-> "mint", by |-> BySession] \in Stages
           /\ [at |-> "revoke", by |-> k, target |-> l] \in Stages
BY DEF Stages

-----------------------------------------------------------------------------
(* The invariant. *)

LEMMA InitIInv == Init => IInv
<1> SUFFICES ASSUME Init PROVE IInv
    OBVIOUS
<1> USE CredentialsAssumption DEF Init
<1>1. TypeOK
    BY DEF TypeOK, Stages
<1>2. UsedSessionsStay /\ TimeLeft /\ SlidesAreRecent
    BY DEF UsedSessionsStay, TimeLeft, SlidesAreRecent, Idle
<1> QED
    BY <1>1, <1>2 DEF IInv

(* Steps that leave the sessions alone, and start no slide. *)
LEMMA KeptSessions ==
    ASSUME IInv, UNCHANGED sessionVars,
           cookie' \in Tokens \cup {Nobody}, maxAge' \in 0..Ttl,
           key' \in [Keys -> {"none", "live", "revoked"}],
           mayMint' \in [Keys -> BOOLEAN],
           mintedBy' \in [Keys -> Keys \cup {BySession, Nobody}],
           NEW r \in Requests, NEW q \in Stages, q.at # "slide", Goto(r, q)
    PROVE  IInv'
<1> USE CredentialsAssumption DEF sessionVars, Goto
<1>1. TypeOK'
    BY DEF IInv, TypeOK
<1>2. UsedSessionsStay' /\ TimeLeft'
    BY DEF IInv, UsedSessionsStay, TimeLeft
<1>3. SlidesAreRecent'
    BY DEF IInv, TypeOK, SlidesAreRecent
<1> QED
    BY <1>1, <1>2, <1>3 DEF IInv

LEMMA CreateSessionIInv ==
    ASSUME IInv, NEW r \in Requests, CreateSession(r)
    PROVE  IInv'
<1> USE CredentialsAssumption
<1>1. PICK t \in Tokens :
          /\ row[t] = "none"
          /\ row' = [row EXCEPT ![t] = "there"]
          /\ left' = [left EXCEPT ![t] = Ttl]
          /\ req' = [req EXCEPT ![r] = [at |-> "issued", token |-> t]]
    BY DEF CreateSession, Goto
<1>2. UNCHANGED <<unused, cookie, maxAge, key, mayMint, mintedBy>>
    BY DEF CreateSession, browserVars, keyVars
<1>3. [at |-> "issued", token |-> t] \in Stages
    BY StagesBuilt DEF Stages
<1>4. TypeOK'
    BY <1>1, <1>2, <1>3 DEF IInv, TypeOK
<1>5. UsedSessionsStay' /\ TimeLeft'
    BY <1>1, <1>2 DEF IInv, TypeOK, UsedSessionsStay, TimeLeft
<1>6. SlidesAreRecent'
    BY <1>1, <1>2 DEF IInv, TypeOK, SlidesAreRecent
<1> QED
    BY <1>4, <1>5, <1>6 DEF IInv

(* A lookup that lets its request in resets unused of a row that may be gone, or has *)
(* SlideAt left.                                                                  *)
LEMMA LetInIInv ==
    ASSUME IInv, NEW r \in Requests, NEW t \in Tokens,
           Ttl > 0, LetIn(r, t),
           UNCHANGED <<row, browserVars, keyVars>>,
           left' \in [Tokens -> 0..Ttl],
           \A u \in Tokens : u # t => left'[u] = left[u],
           row[t] = "there" => left'[t] >= SlideAt
    PROVE  IInv'
<1> USE CredentialsAssumption
<1>1. PICK q \in Stages : q.at # "slide" /\ req' = [req EXCEPT ![r] = q]
    <2>1. Idle \in Stages /\ Idle.at # "slide"
        BY DEF Stages, Idle
    <2>2. [at |-> "mint", by |-> BySession] \in Stages
        BY DEF Stages
    <2> QED
        BY <2>1, <2>2 DEF LetIn, Ends, Goto
<1>2. unused' = [unused EXCEPT ![t] = 0] /\ UNCHANGED <<row, cookie, maxAge, key, mayMint, mintedBy>>
    BY DEF LetIn, browserVars, keyVars
<1>3. TypeOK'
    BY <1>1, <1>2 DEF IInv, TypeOK
<1>4. UsedSessionsStay' /\ TimeLeft'
    BY <1>2 DEF IInv, TypeOK, UsedSessionsStay, TimeLeft
<1>5. SlidesAreRecent'
    <2> SUFFICES ASSUME NEW s \in Requests, req'[s].at = "slide"
                 PROVE  unused'[req'[s].token] < Ttl + req'[s].held
        BY DEF SlidesAreRecent
    <2>1. req'[s] = req[s] /\ req[s] \in Stages
        BY <1>1 DEF IInv, TypeOK
    <2>2. req[s].token \in Tokens /\ req[s].held \in Nat
        BY <2>1, StageFields
    <2> QED
        BY <1>2, <2>1, <2>2 DEF IInv, TypeOK, SlidesAreRecent
<1> QED
    BY <1>3, <1>4, <1>5 DEF IInv

LEMMA LookupIInv ==
    ASSUME IInv, NEW r \in Requests, Lookup(r)
    PROVE  IInv'
<1> USE CredentialsAssumption
<1> DEFINE t == req[r].token
<1>1. req[r] \in Stages /\ req[r].at = "lookup" /\ UNCHANGED <<row, left, browserVars, keyVars>>
    BY DEF Lookup, IInv, TypeOK
<1>2. t \in Tokens
    BY <1>1, StageFields
<1>3. CASE Found(t) /\ NearExpiry(t) /\ Goto(r, [at |-> "slide", token |-> t, held |-> 0]) /\ UNCHANGED unused
  <2>1. [at |-> "slide", token |-> t, held |-> 0] \in Stages
      BY <1>2, StagesBuilt DEF Stages
  <2>2. TypeOK'
      BY <1>1, <1>3, <2>1 DEF IInv, TypeOK, Goto, browserVars, keyVars
  <2>3. UsedSessionsStay' /\ TimeLeft'
      BY <1>1, <1>3 DEF IInv, UsedSessionsStay, TimeLeft
  <2>4. unused[t] < Ttl
      BY <1>2, <1>3 DEF Found, IInv, TypeOK, TimeLeft
  <2>5. SlidesAreRecent'
      BY <1>2, <1>3, <2>4 DEF IInv, TypeOK, SlidesAreRecent, Goto
  <2> QED
      BY <2>2, <2>3, <2>5 DEF IInv
<1>4. CASE Found(t) /\ ~ NearExpiry(t) /\ LetIn(r, t)
  <2>1. Ttl > 0 /\ left[t] >= SlideAt /\ left \in [Tokens -> 0..Ttl]
      BY <1>2, <1>4 DEF Found, NearExpiry, IInv, TypeOK
  <2> QED
      BY <1>1, <1>2, <1>4, <2>1, LetInIInv
<1>5. CASE ~ Found(t) /\ Ends(r) /\ UNCHANGED unused
  <2>1. Idle \in Stages /\ Idle.at # "slide"
      BY DEF Stages, Idle
  <2> QED
      BY <1>1, <1>5, <2>1, KeptSessions DEF Ends, sessionVars, browserVars, keyVars, IInv, TypeOK
<1> QED
    BY <1>3, <1>4, <1>5 DEF Lookup

LEMMA SlideIInv ==
    ASSUME IInv, NEW r \in Requests, Slide(r)
    PROVE  IInv'
<1> USE CredentialsAssumption
<1> DEFINE t == req[r].token
<1>1. req[r] \in Stages /\ req[r].at = "slide"
    BY DEF Slide, IInv, TypeOK
<1>2. t \in Tokens /\ req[r].held \in 0..MaxDelay
    BY <1>1, StageFields
<1>3. /\ left' = [left EXCEPT ![t] = IF row[t] = "there" THEN Ttl - req[r].held ELSE @]
      /\ LetIn(r, t) /\ UNCHANGED <<row, browserVars, keyVars>>
    BY DEF Slide, Slid
<1>4. left' \in [Tokens -> 0..Ttl] /\ (row[t] = "there" => left'[t] >= SlideAt)
    BY <1>2, <1>3 DEF IInv, TypeOK
<1>5. CASE Ttl > 0
    BY <1>2, <1>3, <1>4, <1>5, LetInIInv DEF IInv, TypeOK
<1>6. CASE Ttl = 0
    BY <1>1, <1>2, <1>6 DEF IInv, TypeOK, SlidesAreRecent
<1> QED
    BY <1>5, <1>6

LEMMA LogoutIInv ==
    ASSUME IInv, NEW r \in Requests, Logout(r)
    PROVE  IInv'
<1> USE CredentialsAssumption
<1>1. req[r] \in Stages /\ req[r].at = "logout" /\ req[r].token \in Tokens
    BY StageFields DEF Logout, IInv, TypeOK
<1>2. /\ row' = [row EXCEPT ![req[r].token] = "gone"] /\ cookie' = Nobody /\ maxAge' = 0
      /\ req' = [req EXCEPT ![r] = Idle]
      /\ UNCHANGED <<left, unused, key, mayMint, mintedBy>>
    BY DEF Logout, Ends, Goto, keyVars
<1>3. Idle \in Stages /\ Idle.at # "slide"
    BY DEF Stages, Idle
<1>4. TypeOK'
    BY <1>1, <1>2, <1>3 DEF IInv, TypeOK
<1>5. UsedSessionsStay' /\ TimeLeft'
    BY <1>1, <1>2 DEF IInv, TypeOK, UsedSessionsStay, TimeLeft
<1>6. SlidesAreRecent'
    BY <1>2, <1>3 DEF IInv, TypeOK, SlidesAreRecent
<1> QED
    BY <1>4, <1>5, <1>6 DEF IInv

(* Requests that touch no session row: the cookie, the keys, and requests that end. *)
LEMMA OtherIInv ==
    ASSUME IInv, NEW r \in Requests,
           SetSessionCookie(r) \/ Send(r) \/ ShowKey(r) \/ Mint(r) \/ Revoke(r) \/ Abandon(r)
    PROVE  IInv'
<1> USE CredentialsAssumption
<1>1. req[r] \in Stages /\ Idle \in Stages /\ Idle.at # "slide"
    BY DEF IInv, TypeOK, Stages, Idle
<1>2. CASE SetSessionCookie(r)
  <2>1. req[r].token \in Tokens
      BY <1>1, <1>2, StageFields DEF SetSessionCookie
  <2> QED
      BY <1>1, <1>2, <2>1, KeptSessions DEF SetSessionCookie, Ends, keyVars, IInv, TypeOK
<1>3. CASE Send(r)
  <2>1. PICK stage \in {"lookup", "logout"} : Goto(r, [at |-> stage, token |-> cookie])
      BY <1>3 DEF Send
  <2>2. [at |-> stage, token |-> cookie] \in Stages
      BY <1>3 DEF Send, IInv, TypeOK, Stages
  <2> QED
      BY <1>3, <2>1, <2>2, KeptSessions DEF Send, browserVars, keyVars, IInv, TypeOK
<1>4. CASE ShowKey(r)
  <2>1. PICK k \in Keys :
            \/ Goto(r, [at |-> "mint", by |-> k])
            \/ \E target \in Keys : Goto(r, [at |-> "revoke", by |-> k, target |-> target])
      BY <1>4 DEF ShowKey
  <2>2. \E q \in Stages : q.at # "slide" /\ Goto(r, q)
    <3>1. [at |-> "mint", by |-> k] \in Stages
        BY DEF Stages
    <3>2. \A target \in Keys : [at |-> "revoke", by |-> k, target |-> target] \in Stages
        BY DEF Stages
    <3> QED
        BY <2>1, <3>1, <3>2
  <2> QED
      BY <1>4, <2>2, KeptSessions DEF ShowKey, browserVars, keyVars, IInv, TypeOK
<1>5. CASE Mint(r)
  <2>1. req[r].by \in Keys \cup {BySession}
      BY <1>1, <1>5, StageFields DEF Mint
  <2>2. PICK k \in Keys, scoped \in BOOLEAN :
            /\ key' = [key EXCEPT ![k] = "live"]
            /\ mayMint' = [mayMint EXCEPT ![k] = scoped]
            /\ mintedBy' = [mintedBy EXCEPT ![k] = req[r].by]
      BY <1>5 DEF Mint
  <2>3. /\ key' \in [Keys -> {"none", "live", "revoked"}]
        /\ mintedBy' \in [Keys -> Keys \cup {BySession, Nobody}]
      BY <2>1, <2>2 DEF IInv, TypeOK
  <2>4. mayMint' \in [Keys -> BOOLEAN]
      BY <2>2 DEF IInv, TypeOK
  <2> QED
      BY <1>1, <1>5, <2>3, <2>4, KeptSessions DEF Mint, Ends, browserVars, IInv, TypeOK
<1>6. CASE Revoke(r)
  <2>1. key' \in [Keys -> {"none", "live", "revoked"}]
      BY <1>6 DEF Revoke, IInv, TypeOK
  <2> QED
      BY <1>1, <1>6, <2>1, KeptSessions DEF Revoke, Ends, browserVars, IInv, TypeOK
<1>7. CASE Abandon(r)
    BY <1>1, <1>7, KeptSessions DEF Abandon, Ends, browserVars, keyVars, IInv, TypeOK
<1> QED
    BY <1>2, <1>3, <1>4, <1>5, <1>6, <1>7

LEMMA TickIInv ==
    ASSUME IInv, Tick
    PROVE  IInv'
<1> USE CredentialsAssumption
<1>1. ASSUME NEW r \in Requests
      PROVE  /\ req'[r] \in Stages
             /\ req'[r].at = "slide" =>
                    req[r].at = "slide" /\ req'[r].token = req[r].token /\ req'[r].held = req[r].held + 1
  <2>1. req[r] \in Stages
      BY DEF IInv, TypeOK
  <2>2. CASE req[r].at = "slide"
    <3>1. req[r].token \in Tokens /\ req[r].held \in 0..MaxDelay /\ req[r].held < MaxDelay
        BY <2>1, <2>2, StageFields DEF Tick
    <3>2. req'[r] = [at |-> "slide", token |-> req[r].token, held |-> req[r].held + 1]
        BY <2>1, <2>2, StageFields DEF Tick
    <3> QED
        BY <2>2, <3>1, <3>2, StagesBuilt DEF Stages
  <2>3. CASE req[r].at # "slide"
      BY <2>1, <2>3 DEF Tick
  <2> QED
      BY <2>2, <2>3
<1>2. TypeOK'
  <2>1. req' \in [Requests -> Stages]
      BY <1>1 DEF Tick
  <2>2. UNCHANGED <<row, key, mayMint, mintedBy>>
      BY DEF Tick, keyVars
  <2>3. left' \in [Tokens -> 0..Ttl] /\ unused' \in [Tokens -> 0..(Ttl + MaxDelay)] /\ maxAge' \in 0..Ttl
      BY DEF Tick, Less, IInv, TypeOK
  <2>4. cookie' \in Tokens \cup {Nobody}
      BY DEF Tick, IInv, TypeOK
  <2> QED
      BY <2>1, <2>2, <2>3, <2>4 DEF IInv, TypeOK
<1>3. UsedSessionsStay' /\ TimeLeft'
    BY DEF Tick, Less, IInv, TypeOK, UsedSessionsStay, TimeLeft
<1>4. SlidesAreRecent'
  <2> SUFFICES ASSUME NEW r \in Requests, req'[r].at = "slide"
               PROVE  unused'[req'[r].token] < Ttl + req'[r].held
      BY DEF SlidesAreRecent
  <2>1. req[r] \in Stages /\ req[r].at = "slide" /\ req'[r].token = req[r].token /\ req'[r].held = req[r].held + 1
      BY <1>1 DEF IInv, TypeOK
  <2>2. req[r].token \in Tokens /\ req[r].held \in Nat
      BY <2>1, StageFields
  <2>3. unused'[req[r].token] <= unused[req[r].token] + 1
      BY <2>2 DEF Tick, IInv, TypeOK
  <2>4. unused'[req[r].token] \in Nat /\ unused[req[r].token] \in Nat
      BY <1>2, <2>2 DEF IInv, TypeOK
  <2> QED
      BY <2>1, <2>2, <2>3, <2>4 DEF IInv, SlidesAreRecent
<1> QED
    BY <1>2, <1>3, <1>4 DEF IInv

LEMMA NextIInv == IInv /\ [Next]_vars => IInv'
<1> SUFFICES ASSUME IInv, [Next]_vars PROVE IInv'
    OBVIOUS
<1>1. ASSUME NEW r \in Requests, RequestStep(r) PROVE IInv'
    BY <1>1, CreateSessionIInv, LookupIInv, SlideIInv, LogoutIInv, OtherIInv DEF RequestStep
<1>2. CASE UNCHANGED vars
    BY <1>2 DEF vars, sessionVars, browserVars, keyVars, IInv, TypeOK, UsedSessionsStay, TimeLeft, SlidesAreRecent
<1> QED
    BY <1>1, <1>2, TickIInv DEF Next

-----------------------------------------------------------------------------
(* The theorems. *)

(* The invariant from which the others follow. *)
THEOREM Invariance == Spec => []IInv
    BY InitIInv, NextIInv, PTL DEF Spec

(* Type correctness of sessions, cookies, management keys and requests. *)
THEOREM TypeCorrect == Spec => []TypeOK
    BY Invariance, PTL DEF IInv

(* A session that lets somebody in has the slide window left (lib/auth.ts:69-72). *)
THEOREM SessionsStay == Spec => []UsedSessionsStay
    BY Invariance, PTL DEF IInv

(* Nobody is let in by a session that was idle for the TTL and the delay of one     *)
(* UPDATE (lib/auth.ts:60-72).                                                   *)
THEOREM IdleExpire == Spec => IdleSessionsExpire
<1> DEFINE Expired == \A t \in Tokens : unused'[t] < unused[t] => unused[t] < Ttl + MaxDelay
<1>1. IInv /\ [Next]_vars => [Expired]_vars
  <2> SUFFICES ASSUME IInv, Next, NEW t \in Tokens, unused'[t] < unused[t]
               PROVE  unused[t] < Ttl + MaxDelay
      OBVIOUS
  <2> USE CredentialsAssumption
  <2>1. CASE Tick
      BY <2>1 DEF Tick, IInv, TypeOK
  <2>2. ASSUME NEW r \in Requests, RequestStep(r)
        PROVE  unused[t] < Ttl + MaxDelay
    <3>1. req[r] \in Stages /\ unused \in [Tokens -> Nat]
        BY DEF IInv, TypeOK
    <3>2. CASE Lookup(r)
      <4>1. req[r].token \in Tokens
          BY <3>1, <3>2, StageFields DEF Lookup
      <4>2. t = req[r].token /\ Found(t)
          BY <3>1, <3>2, <4>1 DEF Lookup, LetIn
      <4> QED
          BY <3>1, <4>2 DEF Found, IInv, TypeOK, TimeLeft
    <3>3. CASE Slide(r)
      <4>1. req[r].token \in Tokens /\ req[r].held \in 0..MaxDelay
          BY <3>1, <3>3, StageFields DEF Slide
      <4>2. t = req[r].token
          BY <3>1, <3>3, <4>1 DEF Slide, LetIn
      <4> QED
          BY <3>1, <3>3, <4>1, <4>2 DEF Slide, IInv, SlidesAreRecent
    <3>4. CASE ~ Lookup(r) /\ ~ Slide(r)
      <4>1. unused' = unused
          BY <2>2, <3>4 DEF RequestStep, CreateSession, SetSessionCookie, Send, Logout, ShowKey, Mint, Revoke,
                            Abandon, sessionVars
      <4> QED
          BY <3>1, <4>1
    <3> QED
        BY <3>2, <3>3, <3>4
  <2> QED
      BY <2>1, <2>2 DEF Next
<1> QED
    BY <1>1, Invariance, PTL DEF Spec, IdleSessionsExpire

(* A session that was logged out is not brought back, and a revoked management key   *)
(* lets no more requests in (lib/auth.ts:69-72, routes/management.ts:56-68).          *)
THEOREM EndedStayEnded == Spec => EndedCredentialsStayEnded
<1> DEFINE SessionsEnd == \A t \in Tokens : row[t] = "gone" => row'[t] = "gone"
           KeysEnd == \A k \in Keys : key[k] = "revoked" /\ ~ UnderWay(k) =>
                          key'[k] = "revoked" /\ ~ UnderWay(k)'
<1>1. IInv /\ Next => SessionsEnd
  <2> SUFFICES ASSUME IInv, Next, NEW t \in Tokens, row[t] = "gone"
               PROVE  row'[t] = "gone"
      OBVIOUS
  <2> QED
      BY DEF Next, RequestStep, Tick, CreateSession, SetSessionCookie, Send, Lookup, Slide, Slid, Logout,
             ShowKey, Mint, Revoke, Abandon, sessionVars, IInv, TypeOK
<1>2. IInv /\ Next => KeysEnd
  <2> SUFFICES ASSUME IInv, Next, NEW k \in Keys, key[k] = "revoked", ~ UnderWay(k)
               PROVE  key'[k] = "revoked" /\ ~ UnderWay(k)'
      OBVIOUS
  <2>1. key'[k] = "revoked"
      BY DEF Next, RequestStep, Tick, CreateSession, SetSessionCookie, Send, Lookup, Slide, Logout,
             ShowKey, Mint, Revoke, Abandon, keyVars, IInv, TypeOK
  <2>2. ASSUME NEW s \in Requests, req'[s].at \in {"mint", "revoke"}, req'[s].by = k
        PROVE  FALSE
    <3>1. req'[s] # req[s]
        BY <2>2 DEF UnderWay
    <3>2. req \in [Requests -> Stages]
        BY DEF IInv, TypeOK
    <3>3. CASE Tick
        BY <2>2, <3>1, <3>2, <3>3 DEF Tick
    <3>4. ASSUME NEW r \in Requests, RequestStep(r)
          PROVE  FALSE
      <4>1. \/ Ends(r) \/ CreateSession(r) \/ Send(r) \/ ShowKey(r)
            \/ \E t, d : Goto(r, [at |-> "slide", token |-> t, held |-> d])
            \/ Goto(r, [at |-> "mint", by |-> BySession])
          BY <3>4 DEF RequestStep, SetSessionCookie, Lookup, Slide, LetIn, Logout, Mint, Revoke, Abandon
      <4>2. r = s
          BY <3>1, <3>2, <4>1 DEF Ends, Goto, CreateSession, Send, ShowKey
      <4>3. ShowKey(r)
          BY <2>2, <3>2, <4>1, <4>2, CredentialsAssumption DEF Ends, Goto, CreateSession, Send, Idle
      <4> QED
          BY <2>2, <3>2, <4>2, <4>3 DEF ShowKey, Accepts, Goto
    <3> QED
        BY <3>3, <3>4 DEF Next
  <2> QED
      BY <2>1, <2>2 DEF UnderWay
<1>3. IInv /\ [Next]_vars => [SessionsEnd /\ KeysEnd]_vars
    BY <1>1, <1>2
<1> QED
    BY <1>3, Invariance, PTL DEF Spec, EndedCredentialsStayEnded
=============================================================================
