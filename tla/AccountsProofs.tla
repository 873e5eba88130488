--------------------------- MODULE AccountsProofs ---------------------------
(***************************************************************************)
(* The owner of Accounts, for any number of servers, requests, users and    *)
(* addresses: there is one at most and it stays, every admin has one above,  *)
(* and the setup wizard stays locked.                                      *)
(*                                                                         *)
(* The proof first says what an action may do to the database (Safe, which   *)
(* every effect of an action implies), then that a request or a server that  *)
(* stands still keeps what it knows across a Safe step.                     *)
(***************************************************************************)
EXTENDS Accounts, TLAPS

(* Ids are drawn once, and the sentinel is only ever the owner's. *)
IdsAreDrawn ==
    /\ \A u \in Ids : Exists(u) => u \in drawn
    /\ Sentinel \in drawn => users[Sentinel].role = "owner"

DataInv == IdsAreDrawn /\ AtMostOneOwner /\ AdminsHaveOwner /\ DeletedUsersAreLoggedOut

(* A server inserts an owner only when there is none, or none but its own, whose *)
(* address then is taken; one that is up unattended has seen a user.            *)
OwnOwner == \A v \in Owners : users[v].email = AdminEmail
ServerInv(s) ==
    /\ boot[s] = "insert" => unattended /\ OwnOwner
    /\ boot[s] = "up" /\ unattended => ~ NoUsers

(* What a request has found out and still relies on. *)
Relies(q) ==
    /\ q # Idle /\ unattended => ~ NoUsers
    /\ q.at = "setup" => ~ unattended /\ Owners \subseteq {Sentinel}
    /\ q.at \in {"administer", "create", "update", "delete"} => Owners # {}
    /\ q.at = "update" => q.user \in drawn /\ (users[q.user].role = "owner" => q.role = Unchanged)
    /\ q.at = "delete" => q.user \in drawn /\ users[q.user].role # "owner"

IInv ==
    /\ TypeOK
    /\ DataInv
    /\ \A s \in Servers : ServerInv(s)
    /\ \A r \in Requests : Relies(req[r])

(* What no step may do to the database.  A new owner has a new id, and it is the *)
(* sentinel unless servers set up unattended.                                   *)
NewOwner(u) == u \notin drawn /\ (u = Sentinel \/ unattended)
Safe ==
    /\ \A u \in Owners : u \in Owners' /\ users'[u].email = users[u].email
    /\ \A u \in Owners' : u \in Owners \/ NewOwner(u)
    /\ drawn \subseteq drawn'
    /\ NoUsers' => NoUsers

-----------------------------------------------------------------------------
(* Stages and their fields. *)

LEMMA StageFields ==
    ASSUME NEW q \in Stages
    PROVE  /\ q.at \in {"idle", "session", "rehash", "change", "administer", "delete", "oauth", "link",
                        "register", "setup", "create", "update"}
           /\ q.at = "idle" => q = Idle
           /\ q.at \in {"session", "rehash", "change", "administer", "delete"} =>
                  q.user \in Ids /\ q = [at |-> q.at, user |-> q.user]
           /\ q.at \in {"oauth", "link"} => q.user \in Ids /\ q.acct \in Accts
           /\ q.at = "register" => q.acct \in Accts
           /\ q.at = "setup" => q.mail \in Emails
           /\ q.at = "create" => q.mail \in Emails /\ q.role \in Granted
           /\ q.at = "update" => q.user \in Ids /\ q.role \in Granted \cup {Unchanged}
BY DEF Stages, Idle

LEMMA StagesBuilt ==
    ASSUME NEW u \in Ids, NEW g \in Accts, NEW e \in Emails
    PROVE  /\ Idle \in Stages
           /\ \A at \in {"session", "rehash", "change", "administer", "delete"} :
                  [at |-> at, user |-> u] \in Stages
           /\ [at |-> "oauth", user |-> u, acct |-> g] \in Stages
           /\ [at |-> "link", user |-> u, acct |-> g] \in Stages
           /\ [at |-> "register", acct |-> g] \in Stages
           /\ [at |-> "setup", mail |-> e] \in Stages
           /\ \A role \in Granted : [at |-> "create", mail |-> e, role |-> role] \in Stages
           /\ \A role \in Granted \cup {Unchanged} : [at |-> "update", user |-> u, role |-> role] \in Stages
BY DEF Stages

-----------------------------------------------------------------------------
(* What the effects of actions do to the database. *)

LEMMA KeptUsers ==
    ASSUME TypeOK, DataInv, UNCHANGED <<users, drawn, unattended>>,
           \A u \in Ids : sessions'[u] > 0 => Exists(u),
           \A g \in Accts : \A u \in links'[g] : Exists(u)
    PROVE  Safe /\ DataInv'
BY DEF DataInv, IdsAreDrawn, AtMostOneOwner, AdminsHaveOwner, DeletedUsersAreLoggedOut, Safe,
       Owners, Exists, NoUsers

LEMMA KeptDb ==
    ASSUME TypeOK, DataInv, UNCHANGED db, UNCHANGED unattended
    PROVE  Safe /\ DataInv'
<1>1. UNCHANGED <<users, sessions, links, drawn>>
    BY DEF db
<1> QED
    BY <1>1, KeptUsers DEF DataInv, DeletedUsersAreLoggedOut

LEMMA GrantedInsert ==
    ASSUME TypeOK, DataInv, UNCHANGED unattended,
           NEW u \in Ids, Fresh(u), NEW e \in Emails, NEW role \in Granted, NEW hashed \in BOOLEAN,
           role = "member" \/ Owners # {},
           Inserted(u, e, role, hashed)
    PROVE  Safe /\ DataInv' /\ Owners' = Owners
<1>1. /\ users' = [users EXCEPT ![u] = [role |-> role, email |-> e, password |-> hashed]]
      /\ drawn' = drawn \cup {u} /\ sessions' = sessions /\ links' = links
    BY DEF Inserted
<1>2. u \notin drawn /\ u # Sentinel /\ ~ Exists(u) /\ users[u].role # "owner"
    BY DEF Fresh, DataInv, IdsAreDrawn, Exists
<1>3. users'[u].role = role /\ role \in {"member", "admin", "viewer"}
    BY <1>1 DEF TypeOK, Granted
<1>4. \A v \in Ids : v # u => users'[v] = users[v]
    BY <1>1 DEF TypeOK
<1>5. Owners' = Owners
    BY <1>2, <1>3, <1>4 DEF Owners
<1>6. \A v \in Ids : Exists(v)' <=> Exists(v) \/ v = u
    BY <1>2, <1>3, <1>4 DEF Exists
<1>7. Safe
    BY <1>1, <1>2, <1>4, <1>5, <1>6 DEF Safe, NoUsers, Owners
<1>8. IdsAreDrawn'
    BY <1>1, <1>2, <1>4, <1>6, AccountsAssumption DEF DataInv, IdsAreDrawn
<1>9. AtMostOneOwner' /\ AdminsHaveOwner'
    BY <1>3, <1>4, <1>5 DEF DataInv, AtMostOneOwner, AdminsHaveOwner
<1>10. DeletedUsersAreLoggedOut'
    BY <1>1, <1>6 DEF TypeOK, DataInv, DeletedUsersAreLoggedOut
<1> QED
    BY <1>5, <1>7, <1>8, <1>9, <1>10 DEF DataInv

LEMMA OwnerInsert ==
    ASSUME TypeOK, DataInv, UNCHANGED unattended,
           NEW u \in Ids, u \notin drawn, NewOwner(u), Owners = {},
           NEW e \in Emails, NEW hashed \in BOOLEAN,
           Inserted(u, e, "owner", hashed)
    PROVE  Safe /\ DataInv' /\ Owners' = {u} /\ users'[u].email = e
<1>1. /\ users' = [users EXCEPT ![u] = [role |-> "owner", email |-> e, password |-> hashed]]
      /\ drawn' = drawn \cup {u} /\ sessions' = sessions /\ links' = links
    BY DEF Inserted
<1>2. ~ Exists(u)
    BY DEF DataInv, IdsAreDrawn
<1>3. users'[u].role = "owner" /\ users'[u].email = e
    BY <1>1 DEF TypeOK
<1>4. \A v \in Ids : v # u => users'[v] = users[v]
    BY <1>1 DEF TypeOK
<1>5. Owners' = {u}
    BY <1>3, <1>4 DEF Owners
<1>6. \A v \in Ids : Exists(v)' <=> Exists(v) \/ v = u
    BY <1>3, <1>4 DEF Exists
<1>7. Safe
    BY <1>1, <1>5, <1>6 DEF Safe, NoUsers
<1>8. IdsAreDrawn'
    BY <1>1, <1>3, <1>4, <1>6, AccountsAssumption DEF DataInv, IdsAreDrawn
<1>9. AtMostOneOwner' /\ AdminsHaveOwner'
    BY <1>5 DEF AtMostOneOwner, AdminsHaveOwner
<1>10. DeletedUsersAreLoggedOut'
    BY <1>1, <1>6 DEF TypeOK, DataInv, DeletedUsersAreLoggedOut
<1> QED
    BY <1>3, <1>5, <1>7, <1>8, <1>9, <1>10 DEF DataInv

LEMMA UserDelete ==
    ASSUME TypeOK, DataInv, UNCHANGED unattended,
           NEW u \in Ids, u \in drawn, users[u].role # "owner", Owners # {},
           Deleted(u)
    PROVE  Safe /\ DataInv' /\ Owners' = Owners
<1>1. /\ users' = [users EXCEPT ![u] = NoRow]
      /\ sessions' = [sessions EXCEPT ![u] = 0]
      /\ links' = [g \in Accts |-> links[g] \ {u}]
      /\ drawn' = drawn
    BY DEF Deleted
<1>2. users'[u].role = "none" /\ \A v \in Ids : v # u => users'[v] = users[v]
    BY <1>1 DEF TypeOK, NoRow
<1>3. Owners' = Owners
    BY <1>2 DEF Owners
<1>4. \A v \in Ids : Exists(v)' <=> Exists(v) /\ v # u
    BY <1>2 DEF Exists
<1>5. Safe
  <2>1. PICK o \in Ids : users[o].role = "owner"
      BY DEF Owners
  <2>2. Exists(o)'
      BY <1>4, <2>1 DEF Exists
  <2> QED
      BY <1>1, <1>2, <1>3, <2>2 DEF Safe, NoUsers, Owners
<1>6. IdsAreDrawn'
    BY <1>1, <1>2, <1>4, AccountsAssumption DEF DataInv, IdsAreDrawn
<1>7. AtMostOneOwner' /\ AdminsHaveOwner'
    BY <1>2, <1>3 DEF DataInv, AtMostOneOwner, AdminsHaveOwner
<1>8. DeletedUsersAreLoggedOut'
    BY <1>1, <1>4 DEF TypeOK, DataInv, DeletedUsersAreLoggedOut
<1> QED
    BY <1>3, <1>5, <1>6, <1>7, <1>8 DEF DataInv

LEMMA RoleUpdate ==
    ASSUME TypeOK, DataInv, UNCHANGED unattended,
           NEW u \in Ids, NEW role \in Granted \cup {Unchanged}, Owners # {},
           users[u].role = "owner" => role = Unchanged,
           users' = [users EXCEPT ![u].role = NewRole(u, role)],
           UNCHANGED <<sessions, links, drawn>>
    PROVE  users' \in [Ids -> Row] /\ Safe /\ DataInv' /\ Owners' = Owners
<1>1. /\ NewRole(u, role) \in Roles \cup {"none"}
      /\ NewRole(u, role) = "owner" <=> users[u].role = "owner"
      /\ NewRole(u, role) = "none" <=> users[u].role = "none"
    BY DEF TypeOK, Row, NewRole, Exists, Granted, Roles, Unchanged
<1>2. users' \in [Ids -> Row] /\ users'[u].role = NewRole(u, role) /\ users'[u].email = users[u].email
    BY <1>1 DEF TypeOK, Row
<1>3. \A v \in Ids : v # u => users'[v] = users[v]
    BY DEF TypeOK
<1>4. Owners' = Owners /\ \A v \in Ids : users'[v].email = users[v].email
    BY <1>1, <1>2, <1>3 DEF Owners
<1>5. \A v \in Ids : Exists(v)' <=> Exists(v)
    BY <1>1, <1>2, <1>3 DEF Exists
<1>6. Safe
    BY <1>4, <1>5 DEF Safe, NoUsers, Owners
<1>7. IdsAreDrawn'
    BY <1>1, <1>2, <1>3, <1>5, AccountsAssumption DEF DataInv, IdsAreDrawn
<1>8. AtMostOneOwner' /\ AdminsHaveOwner'
    BY <1>4 DEF DataInv, AtMostOneOwner, AdminsHaveOwner
<1>9. DeletedUsersAreLoggedOut'
    BY <1>5 DEF TypeOK, DataInv, DeletedUsersAreLoggedOut
<1> QED
    BY <1>2, <1>4, <1>6, <1>7, <1>8, <1>9 DEF DataInv

LEMMA PasswordUpdate ==
    ASSUME TypeOK, DataInv, UNCHANGED unattended,
           NEW u \in Ids,
           users' = [users EXCEPT ![u].password = @ \/ Exists(u)],
           UNCHANGED <<sessions, links, drawn>>
    PROVE  users' \in [Ids -> Row] /\ Safe /\ DataInv' /\ Owners' = Owners
<1>1. users' \in [Ids -> Row]
  <2>1. (users[u].password \/ Exists(u)) \in BOOLEAN
      OBVIOUS
  <2> QED
      BY <2>1 DEF TypeOK, Row
<1>2. \A v \in Ids : users'[v].role = users[v].role /\ users'[v].email = users[v].email
    BY DEF TypeOK, Row
<1>3. Owners' = Owners
    BY <1>2 DEF Owners
<1>4. \A v \in Ids : Exists(v)' <=> Exists(v)
    BY <1>2 DEF Exists
<1>5. Safe
    BY <1>2, <1>3, <1>4 DEF Safe, NoUsers, Owners
<1>6. IdsAreDrawn' /\ AtMostOneOwner' /\ AdminsHaveOwner'
    BY <1>2, <1>3, <1>4, AccountsAssumption DEF DataInv, IdsAreDrawn, AtMostOneOwner, AdminsHaveOwner
<1>7. DeletedUsersAreLoggedOut'
    BY <1>4 DEF TypeOK, DataInv, DeletedUsersAreLoggedOut
<1> QED
    BY <1>1, <1>3, <1>5, <1>6, <1>7 DEF DataInv

-----------------------------------------------------------------------------
(* Who stands still keeps what it knows. *)

LEMMA WaitingRequests ==
    ASSUME TypeOK, DataInv, Safe, UNCHANGED unattended, NEW q \in Stages, Relies(q)
    PROVE  Relies(q)'
<1>1. /\ q # Idle /\ unattended => ~ NoUsers'
      /\ q.at = "setup" => ~ unattended /\ Owners' \subseteq {Sentinel}
      /\ q.at \in {"administer", "create", "update", "delete"} => Owners' # {}
    BY DEF Relies, Safe, NewOwner
<1>2. q.at \in {"update", "delete"} => q.user \in Ids
    BY StageFields
<1>3. \A u \in Ids : u \in drawn /\ users'[u].role = "owner" => users[u].role = "owner"
    BY DEF Safe, NewOwner, Owners
<1>4. \A u \in Ids : u \in drawn => u \in drawn'
    BY DEF Safe
<1>5. q.at = "update" => q.user \in drawn' /\ (users'[q.user].role = "owner" => q.role = Unchanged)
    BY <1>2, <1>3, <1>4 DEF Relies
<1>6. q.at = "delete" => q.user \in drawn' /\ users'[q.user].role # "owner"
    BY <1>2, <1>3, <1>4 DEF Relies
<1> QED
    BY <1>1, <1>5, <1>6 DEF Relies

(* A new owner has the address of the servers, when they set up. *)
OwnersOfServers == \A u \in Owners' : u \in Owners \/ ~ unattended \/ users'[u].email = AdminEmail

LEMMA WaitingServers ==
    ASSUME TypeOK, DataInv, Safe, UNCHANGED unattended,
           OwnersOfServers,
           NEW s \in Servers, ServerInv(s), UNCHANGED boot[s]
    PROVE  ServerInv(s)'
<1>1. boot[s] = "up" /\ unattended => ~ NoUsers'
    BY DEF ServerInv, Safe
<1>2. boot[s] = "insert" => unattended /\ OwnOwner'
    BY DEF ServerInv, OwnOwner, OwnersOfServers, Safe
<1> QED
    BY <1>1, <1>2 DEF ServerInv

DbTypeOK ==
    /\ users \in [Ids -> Row]
    /\ sessions \in [Ids -> 0..MaxSessions]
    /\ links \in [Accts -> SUBSET Ids]
    /\ drawn \subseteq Ids

LEMMA RequestMoves ==
    ASSUME IInv, UNCHANGED servers, DbTypeOK', Safe, DataInv', OwnersOfServers,
           NEW r \in Requests, NEW stage \in Stages, Goto(r, stage), Relies(stage)'
    PROVE  IInv'
<1>1. UNCHANGED <<unattended, boot>> /\ req' = [req EXCEPT ![r] = stage]
    BY DEF servers, Goto
<1>2. TypeOK'
    BY <1>1 DEF IInv, TypeOK, DbTypeOK
<1>3. \A s \in Servers : ServerInv(s)'
    BY <1>1, WaitingServers DEF IInv
<1>4. ASSUME NEW p \in Requests PROVE Relies(req[p])'
  <2>1. CASE p = r
      BY <1>1, <2>1 DEF IInv, TypeOK
  <2>2. CASE p # r
    <3>1. req'[p] = req[p] /\ req[p] \in Stages /\ Relies(req[p])
        BY <1>1, <2>2 DEF IInv, TypeOK
    <3> DEFINE q == req[p]
    <3>2. req'[p] = q
        BY <3>1
    <3> QED
        BY <1>1, <3>1, WaitingRequests DEF IInv, Relies
  <2> QED
      BY <2>1, <2>2
<1> QED
    BY <1>2, <1>3, <1>4 DEF IInv

(* A request that ends, or that has found out nothing the invariant speaks of. *)
LEMMA ForgetsAll ==
    ASSUME NEW stage, stage.at \notin {"setup", "administer", "create", "update", "delete"},
           stage = Idle \/ (unattended => ~ NoUsers)
    PROVE  Relies(stage)
BY DEF Relies

(* An action of a request that leaves the database alone. *)
LEMMA RequestReads ==
    ASSUME IInv, UNCHANGED <<db, servers>>,
           NEW r \in Requests, NEW stage \in Stages, Goto(r, stage), Relies(stage)
    PROVE  IInv'
<1>1. UNCHANGED <<users, sessions, links, drawn, unattended, boot>>
    BY DEF db, servers
<1>2. DbTypeOK' /\ Safe /\ DataInv'
    BY <1>1, KeptDb DEF IInv, TypeOK, DbTypeOK
<1>3. OwnersOfServers /\ Relies(stage)'
    BY <1>1 DEF OwnersOfServers, Owners, Relies, NoUsers, Exists
<1> QED
    BY <1>2, <1>3, RequestMoves

(* Who is served knows that there are users when servers set up unattended. *)
LEMMA ServedKnows ==
    ASSUME IInv, NEW r \in Requests, Arrives(r) \/ req[r] # Idle
    PROVE  unattended => ~ NoUsers
BY DEF IInv, Arrives, Relies, ServerInv

(* Who may administer has an owner above. *)
LEMMA AdministratorsHaveOwner ==
    ASSUME IInv, NEW u \in Ids, May(u, {"admin"})
    PROVE  Owners # {}
BY DEF IInv, DataInv, AdminsHaveOwner, May, Owners
-----------------------------------------------------------------------------
(* The invariant is inductive. *)

LEMMA InitIInv == Init => IInv
<1> SUFFICES ASSUME Init PROVE IInv
    OBVIOUS
<1>1. TypeOK
    BY AccountsAssumption, StagesBuilt DEF Init, TypeOK, Row, NoRow, Stages
<1>2. \A u \in Ids : ~ Exists(u)
    BY DEF Init, Exists, NoRow
<1>3. DataInv
    BY <1>2 DEF Init, DataInv, IdsAreDrawn, AtMostOneOwner, AdminsHaveOwner, DeletedUsersAreLoggedOut,
                Owners, Exists, NoRow
<1>4. \A s \in Servers : ServerInv(s)
    BY DEF Init, ServerInv
<1>5. \A r \in Requests : Relies(req[r])
    BY DEF Init, Relies, Idle
<1> QED
    BY <1>1, <1>3, <1>4, <1>5 DEF IInv

LEMMA ServerSteps ==
    ASSUME IInv, NEW s \in Servers, ServerStep(s)
    PROVE  IInv' /\ Safe
<1>1. UNCHANGED <<unattended, req>> /\ boot' \in [Servers -> {"down", "insert", "up"}]
    BY DEF IInv, TypeOK, ServerStep, Start, InsertOwner, Stop
<1>2. \A p \in Servers : p # s => boot'[p] = boot[p]
    BY DEF IInv, TypeOK, ServerStep, Start, InsertOwner, Stop
<1>3. ASSUME DbTypeOK', Safe, DataInv', OwnersOfServers, ServerInv(s)'
      PROVE  IInv' /\ Safe
  <2>1. TypeOK'
      BY <1>1, <1>3 DEF IInv, TypeOK, DbTypeOK
  <2>2. \A p \in Servers : ServerInv(p)'
      BY <1>1, <1>2, <1>3, WaitingServers DEF IInv
  <2>3. ASSUME NEW r \in Requests PROVE Relies(req[r])'
    <3> DEFINE q == req[r]
    <3>1. req'[r] = q /\ q \in Stages /\ Relies(q)
        BY <1>1 DEF IInv, TypeOK
    <3> QED
        BY <1>1, <1>3, <3>1, WaitingRequests DEF IInv, Relies
  <2> QED
      BY <1>3, <2>1, <2>2, <2>3 DEF IInv
<1>4. ASSUME UNCHANGED db, ServerInv(s)' PROVE IInv' /\ Safe
  <2>1. UNCHANGED <<users, sessions, links, drawn>>
      BY <1>4 DEF db
  <2>2. DbTypeOK' /\ Safe /\ DataInv' /\ OwnersOfServers
      BY <1>1, <1>4, <2>1, KeptDb DEF IInv, TypeOK, DbTypeOK, OwnersOfServers, Owners
  <2> QED
      BY <1>3, <1>4, <2>2
<1>5. CASE Start(s)
  <2>1. UNCHANGED db /\ boot' = [boot EXCEPT ![s] = IF Bootstraps THEN "insert" ELSE "up"]
      BY <1>5 DEF Start
  <2>2. UNCHANGED <<users, unattended>> /\ boot'[s] = IF Bootstraps THEN "insert" ELSE "up"
      BY <1>1, <2>1 DEF db, IInv, TypeOK
  <2>3. ServerInv(s)'
      BY <2>2 DEF ServerInv, OwnOwner, Owners, Bootstraps, NoUsers, Exists
  <2> QED
      BY <1>4, <2>1, <2>3
<1>6. CASE InsertOwner(s)
  <2>1. boot'[s] = "up" /\ unattended /\ OwnOwner
      BY <1>6 DEF InsertOwner, IInv, TypeOK, ServerInv
  <2>2. CASE Taken(AdminEmail) /\ UNCHANGED db
    <3>1. ~ NoUsers'
        BY <2>2 DEF Taken, NoUsers, Exists, db
    <3>2. ServerInv(s)'
        BY <2>1, <3>1 DEF ServerInv
    <3> QED
        BY <1>4, <2>2, <3>2
  <2>3. CASE /\ ~ Taken(AdminEmail)
             /\ \E u \in Ids, hashed \in BOOLEAN : Fresh(u) /\ Inserted(u, AdminEmail, "owner", hashed)
    <3>1. PICK u \in Ids, hashed \in BOOLEAN : Fresh(u) /\ Inserted(u, AdminEmail, "owner", hashed)
        BY <2>3
    <3>2. u \notin drawn /\ NewOwner(u)
        BY <2>1, <3>1 DEF Fresh, NewOwner
    <3>3. Owners = {}
        BY <2>1, <2>3 DEF OwnOwner, Owners, Taken, Exists
    <3>4. Safe /\ DataInv' /\ Owners' = {u} /\ users'[u].email = AdminEmail
        BY <1>1, <3>1, <3>2, <3>3, AccountsAssumption, OwnerInsert DEF IInv
    <3>5. DbTypeOK' /\ OwnersOfServers
        BY <3>1, <3>4, AccountsAssumption DEF IInv, TypeOK, DbTypeOK, OwnersOfServers, Inserted, Row, Roles
    <3>6. ServerInv(s)'
        BY <2>1, <3>4 DEF ServerInv, NoUsers, Owners, Exists
    <3> QED
        BY <1>3, <3>4, <3>5, <3>6
  <2> QED
      BY <1>6, <2>2, <2>3 DEF InsertOwner
<1>7. CASE Stop(s)
  <2>1. UNCHANGED db /\ boot'[s] = "down"
      BY <1>7 DEF Stop, IInv, TypeOK
  <2> QED
      BY <1>4, <2>1 DEF ServerInv
<1> QED
    BY <1>5, <1>6, <1>7 DEF ServerStep

LEMMA ReconfigureStep ==
    ASSUME IInv, Reconfigure
    PROVE  IInv'
<1>1. UNCHANGED <<users, sessions, links, drawn, boot, req>> /\ unattended' \in BOOLEAN
    BY DEF Reconfigure, db, IInv, TypeOK
<1>2. TypeOK' /\ DataInv'
    BY <1>1 DEF IInv, TypeOK, DataInv, IdsAreDrawn, AtMostOneOwner, AdminsHaveOwner,
                DeletedUsersAreLoggedOut, Owners, Exists
<1>3. \A s \in Servers : ServerInv(s)'
    BY <1>1 DEF Reconfigure, ServerInv
<1>4. \A r \in Requests : Relies(req[r])'
    BY <1>1 DEF Reconfigure, Relies, Idle
<1> QED
    BY <1>2, <1>3, <1>4 DEF IInv

(* The actions of a request that leave the database alone. *)
ReadStep(r) ==
    \/ Setup(r) \/ Login(r) \/ Callback(r) \/ BeginLink(r) \/ BeginChangePassword(r) \/ CheckPassword(r)
    \/ BeginCreate(r) \/ BeginAdminister(r) \/ ReadToPatch(r) \/ ReadToDelete(r) \/ Abandon(r)

LEMMA ReadSteps ==
    ASSUME IInv, NEW r \in Requests, ReadStep(r)
    PROVE  IInv' /\ Safe
<1>1. UNCHANGED <<db, servers>>
    BY DEF ReadStep, Setup, Login, Callback, BeginLink, BeginChangePassword, CheckPassword, BeginCreate,
           BeginAdminister, ReadToPatch, ReadToDelete, Abandon
<1>2. Safe
    BY <1>1, KeptDb DEF IInv, servers
<1>3. unattended => ~ NoUsers
    <2>1. Arrives(r) \/ req[r] # Idle
        BY DEF ReadStep, Setup, Login, Callback, BeginLink, BeginChangePassword, CheckPassword, BeginCreate,
               BeginAdminister, ReadToPatch, ReadToDelete, Abandon, Idle
    <2> QED
        BY <2>1, ServedKnows
<1>4. \A stage \in Stages : Goto(r, stage) /\ Relies(stage) => IInv'
    BY <1>1, RequestReads
<1>5. Ends(r) => IInv'
    BY <1>4, StagesBuilt, ForgetsAll DEF Ends, Idle, Stages
<1>6. CASE Setup(r)
  <2>1. NoUsers /\ Owners = {}
      BY <1>6 DEF Setup, NoUsers, Exists, Owners
  <2>2. PICK e \in Emails : Goto(r, [at |-> "setup", mail |-> e])
      BY <1>6 DEF Setup
  <2>3. [at |-> "setup", mail |-> e] \in Stages /\ Relies([at |-> "setup", mail |-> e])
      BY <1>3, <2>1 DEF Stages, Relies
  <2> QED
      BY <1>2, <1>4, <2>2, <2>3
<1>7. CASE Login(r)
  <2>1. PICK u \in Ids : Goto(r, [at |-> "session", user |-> u])
      BY <1>7 DEF Login
  <2>2. [at |-> "session", user |-> u] \in Stages /\ Relies([at |-> "session", user |-> u])
      BY <1>3 DEF Stages, Relies
  <2> QED
      BY <1>2, <1>4, <2>1, <2>2
<1>8. CASE Callback(r)
  <2>1. PICK g \in Accts :
           \/ \E u \in Ids : Goto(r, [at |-> "oauth", user |-> u, acct |-> g])
           \/ Goto(r, [at |-> "register", acct |-> g])
      BY <1>8 DEF Callback
  <2>2. /\ [at |-> "register", acct |-> g] \in Stages /\ Relies([at |-> "register", acct |-> g])
        /\ \A u \in Ids : /\ [at |-> "oauth", user |-> u, acct |-> g] \in Stages
                          /\ Relies([at |-> "oauth", user |-> u, acct |-> g])
      BY <1>3 DEF Stages, Relies
  <2> QED
      BY <1>2, <1>4, <2>1, <2>2
<1>9. CASE BeginLink(r)
  <2>1. PICK u \in Ids, g \in Accts : Goto(r, [at |-> "link", user |-> u, acct |-> g])
      BY <1>9 DEF BeginLink
  <2>2. [at |-> "link", user |-> u, acct |-> g] \in Stages /\ Relies([at |-> "link", user |-> u, acct |-> g])
      BY <1>3 DEF Stages, Relies
  <2> QED
      BY <1>2, <1>4, <2>1, <2>2
<1>10. CASE BeginChangePassword(r)
  <2>1. PICK u \in Ids : Goto(r, [at |-> "rehash", user |-> u])
      BY <1>10 DEF BeginChangePassword
  <2>2. [at |-> "rehash", user |-> u] \in Stages /\ Relies([at |-> "rehash", user |-> u])
      BY <1>3 DEF Stages, Relies
  <2> QED
      BY <1>2, <1>4, <2>1, <2>2
<1>11. CASE CheckPassword(r)
  <2> DEFINE stage == [req[r] EXCEPT !.at = "change"]
  <2>1. req[r] \in Stages /\ req[r].at = "rehash"
      BY <1>11 DEF CheckPassword, IInv, TypeOK
  <2>2. stage \in Stages /\ stage.at = "change"
      BY <2>1, StageFields DEF Stages
  <2>3. Relies(stage)
      BY <1>3, <2>2, ForgetsAll
  <2>4. Goto(r, stage) \/ Ends(r)
      BY <1>11 DEF CheckPassword
  <2> QED
      BY <1>2, <1>4, <1>5, <2>2, <2>3, <2>4
<1>12. CASE BeginCreate(r)
  <2>1. Owners # {}
      BY <1>12, AdministratorsHaveOwner DEF BeginCreate
  <2>2. PICK e \in Emails, g \in Granted : Goto(r, [at |-> "create", mail |-> e, role |-> g])
      BY <1>12 DEF BeginCreate
  <2>3. [at |-> "create", mail |-> e, role |-> g] \in Stages /\ Relies([at |-> "create", mail |-> e, role |-> g])
      BY <1>3, <2>1 DEF Stages, Relies
  <2> QED
      BY <1>2, <1>4, <2>2, <2>3
<1>13. CASE BeginAdminister(r)
  <2>1. PICK u \in Ids : May(u, {"admin"}) /\ Goto(r, [at |-> "administer", user |-> u])
      BY <1>13 DEF BeginAdminister
  <2>2. [at |-> "administer", user |-> u] \in Stages /\ Relies([at |-> "administer", user |-> u])
      BY <1>3, <2>1, AdministratorsHaveOwner DEF Stages, Relies
  <2> QED
      BY <1>2, <1>4, <2>1, <2>2
<1>14. CASE ReadToPatch(r)
  <2>1. Owners # {}
      BY <1>14 DEF ReadToPatch, IInv, Relies
  <2>2. PICK u \in Ids, role \in Granted \cup {Unchanged} :
           IF Patchable(u, role) THEN Goto(r, [at |-> "update", user |-> u, role |-> role]) ELSE Ends(r)
      BY <1>14 DEF ReadToPatch
  <2> DEFINE stage == [at |-> "update", user |-> u, role |-> role]
  <2>3. stage \in Stages
      BY StagesBuilt, AccountsAssumption DEF Stages
  <2>4. Patchable(u, role) => Relies(stage)
      BY <1>3, <2>1 DEF Patchable, Relies, IInv, DataInv, IdsAreDrawn
  <2> QED
      BY <1>2, <1>4, <1>5, <2>2, <2>3, <2>4
<1>15. CASE ReadToDelete(r)
  <2>1. Owners # {}
      BY <1>15 DEF ReadToDelete, IInv, Relies
  <2>2. PICK u \in Ids :
           IF Deletable(u, req[r].user) THEN Goto(r, [at |-> "delete", user |-> u]) ELSE Ends(r)
      BY <1>15 DEF ReadToDelete
  <2> DEFINE stage == [at |-> "delete", user |-> u]
  <2>3. stage \in Stages
      BY DEF Stages
  <2>4. Deletable(u, req[r].user) => Relies(stage)
      BY <1>3, <2>1 DEF Deletable, Relies, IInv, DataInv, IdsAreDrawn
  <2> QED
      BY <1>2, <1>4, <1>5, <2>2, <2>3, <2>4
<1>16. CASE Abandon(r)
    BY <1>2, <1>5, <1>16 DEF Abandon
<1> QED
    BY <1>6, <1>7, <1>8, <1>9, <1>10, <1>11, <1>12, <1>13, <1>14, <1>15, <1>16 DEF ReadStep

(* The actions of a request that write. *)
WriteStep(r) ==
    \/ SetupInsert(r) \/ CreateSession(r) \/ Register(r) \/ Link(r)
    \/ ChangePassword(r) \/ CreateUser(r) \/ UpdateUser(r) \/ DeleteUser(r)

LEMMA WriteSteps ==
    ASSUME IInv, NEW r \in Requests, WriteStep(r)
    PROVE  IInv' /\ Safe
<1> DEFINE q == req[r]
<1>1. UNCHANGED servers /\ UNCHANGED <<unattended, boot>>
    BY DEF WriteStep, SetupInsert, CreateSession, Register, Link, ChangePassword, CreateUser, UpdateUser,
           DeleteUser, servers
<1>2. q \in Stages /\ Relies(q) /\ q # Idle /\ TypeOK /\ DataInv
  <2>1. q.at # "idle"
      BY DEF WriteStep, SetupInsert, CreateSession, Register, Link, ChangePassword, CreateUser, UpdateUser,
             DeleteUser
  <2> QED
      BY <2>1 DEF IInv, TypeOK, Idle
<1>3. unattended => ~ NoUsers
    BY <1>2, ServedKnows
<1>4. ASSUME DbTypeOK', Safe, DataInv', OwnersOfServers, NEW stage \in Stages, Goto(r, stage),
             stage.at \in {"idle", "session", "oauth"}
      PROVE  IInv' /\ Safe
  <2>1. Relies(stage)'
      BY <1>1, <1>3, <1>4 DEF Relies, Safe
  <2> QED
      BY <1>1, <1>4, <2>1, RequestMoves
<1>5. Idle \in Stages /\ Idle.at = "idle"
    BY DEF Stages, Idle
<1>6. Owners' = Owners => OwnersOfServers
    BY DEF OwnersOfServers
<1>7. UNCHANGED db => DbTypeOK' /\ Safe /\ DataInv' /\ OwnersOfServers
    BY <1>1, <1>2, KeptDb DEF db, TypeOK, DbTypeOK, OwnersOfServers, Owners
<1>8. CASE SetupInsert(r)
  <2>1. CASE UNCHANGED db /\ Ends(r)
      BY <1>4, <1>5, <1>7, <2>1 DEF Ends
  <2>2. CASE /\ ~ Exists(Sentinel) /\ Inserted(Sentinel, q.mail, "owner", TRUE)
             /\ Goto(r, [at |-> "session", user |-> Sentinel])
    <3>1. ~ unattended /\ Owners \subseteq {Sentinel} /\ q.mail \in Emails
        BY <1>2, <1>8, StageFields DEF SetupInsert, Relies
    <3>2. Owners = {} /\ Sentinel \notin drawn /\ Sentinel \in Ids
        BY <1>2, <2>2, <3>1, AccountsAssumption DEF Owners, Exists, DataInv, IdsAreDrawn
    <3>3. Safe /\ DataInv'
        BY <1>1, <1>2, <2>2, <3>1, <3>2, OwnerInsert DEF NewOwner
    <3>4. DbTypeOK' /\ OwnersOfServers
        BY <1>2, <2>2, <3>1, <3>2 DEF TypeOK, DbTypeOK, OwnersOfServers, Inserted, Row, Roles
    <3>5. [at |-> "session", user |-> Sentinel] \in Stages
        BY <3>2 DEF Stages
    <3> QED
        BY <1>4, <2>2, <3>3, <3>4, <3>5
  <2> QED
      BY <1>8, <2>1, <2>2 DEF SetupInsert, IsSetupId
<1>9. CASE CreateSession(r)
  <2>1. UNCHANGED <<users, links, drawn>> /\ Ends(r) /\ q.user \in Ids
      BY <1>2, <1>9, StageFields DEF CreateSession
  <2>2. /\ sessions' \in [Ids -> 0..MaxSessions]
        /\ \A u \in Ids : sessions'[u] > 0 => Exists(u)
      BY <1>2, <1>9, <2>1, AccountsAssumption
      DEF CreateSession, Admits, TypeOK, DataInv, DeletedUsersAreLoggedOut
  <2>3. Safe /\ DataInv'
      BY <1>1, <1>2, <2>1, <2>2, KeptUsers DEF DataInv, DeletedUsersAreLoggedOut
  <2>4. DbTypeOK' /\ OwnersOfServers
      BY <1>2, <2>1, <2>2 DEF TypeOK, DbTypeOK, OwnersOfServers, Owners
  <2> QED
      BY <1>4, <1>5, <2>1, <2>3, <2>4 DEF Ends
<1>10. CASE Register(r)
  <2>1. q.acct \in Accts /\ PrimaryEmail[q.acct] \in Emails
      BY <1>2, <1>10, StageFields, AccountsAssumption DEF Register
  <2>2. CASE UNCHANGED db /\ Ends(r)
      BY <1>4, <1>5, <1>7, <2>2 DEF Ends
  <2>3. CASE \E u \in Ids : /\ Fresh(u) /\ Inserted(u, PrimaryEmail[q.acct], OAuthRole, FALSE)
                            /\ Goto(r, [at |-> "oauth", user |-> u, acct |-> q.acct])
    <3>1. PICK u \in Ids : /\ Fresh(u) /\ Inserted(u, PrimaryEmail[q.acct], OAuthRole, FALSE)
                           /\ Goto(r, [at |-> "oauth", user |-> u, acct |-> q.acct])
        BY <2>3
    <3>2. Safe /\ DataInv' /\ Owners' = Owners
        BY <1>1, <1>2, <2>1, <3>1, GrantedInsert DEF OAuthRole, Granted
    <3>3. DbTypeOK'
        BY <1>2, <2>1, <3>1 DEF TypeOK, DbTypeOK, Inserted, Row, Roles, Granted, OAuthRole
    <3>4. [at |-> "oauth", user |-> u, acct |-> q.acct] \in Stages
        BY <2>1 DEF Stages
    <3> QED
        BY <1>4, <1>6, <3>1, <3>2, <3>3, <3>4
  <2> QED
      BY <1>10, <2>2, <2>3 DEF Register
<1>11. CASE Link(r)
  <2>1. UNCHANGED <<users, sessions, drawn>> /\ q.user \in Ids /\ q.acct \in Accts
      BY <1>2, <1>11, StageFields DEF Link
  <2>2. /\ links' \in [Accts -> SUBSET Ids]
        /\ \A g \in Accts : \A u \in links'[g] : Exists(u)
      BY <1>2, <1>11, <2>1 DEF Link, TypeOK, DataInv, DeletedUsersAreLoggedOut
  <2>3. Safe /\ DataInv'
      BY <1>1, <1>2, <2>1, <2>2, KeptUsers DEF DataInv, DeletedUsersAreLoggedOut
  <2>4. DbTypeOK' /\ OwnersOfServers
      BY <1>2, <2>1, <2>2 DEF TypeOK, DbTypeOK, OwnersOfServers, Owners
  <2>5. Goto(r, [at |-> "session", user |-> q.user]) \/ Goto(r, Idle)
      BY <1>11 DEF Link, Ends
  <2>6. [at |-> "session", user |-> q.user] \in Stages
      BY <2>1 DEF Stages
  <2> QED
      BY <1>4, <1>5, <2>3, <2>4, <2>5, <2>6
<1>12. CASE ChangePassword(r)
  <2>1. /\ q.user \in Ids
        /\ users' = [users EXCEPT ![q.user].password = @ \/ Exists(q.user)]
        /\ UNCHANGED <<sessions, links, drawn>> /\ Ends(r)
      BY <1>2, <1>12, StageFields DEF ChangePassword
  <2>2. users' \in [Ids -> Row] /\ Safe /\ DataInv' /\ Owners' = Owners
      BY <1>1, <1>2, <2>1, PasswordUpdate
  <2>3. DbTypeOK'
      BY <1>2, <2>1, <2>2 DEF TypeOK, DbTypeOK
  <2> QED
      BY <1>4, <1>5, <1>6, <2>1, <2>2, <2>3 DEF Ends
<1>13. CASE CreateUser(r)
  <2>1. Ends(r) /\ q.mail \in Emails /\ q.role \in Granted /\ Owners # {}
      BY <1>2, <1>13, StageFields DEF CreateUser, Relies
  <2>2. CASE UNCHANGED db
      BY <1>4, <1>5, <1>7, <2>1, <2>2 DEF Ends
  <2>3. CASE \E u \in Ids : Fresh(u) /\ Inserted(u, q.mail, q.role, TRUE)
    <3>1. PICK u \in Ids : Fresh(u) /\ Inserted(u, q.mail, q.role, TRUE)
        BY <2>3
    <3>2. Safe /\ DataInv' /\ Owners' = Owners
        BY <1>1, <1>2, <2>1, <3>1, GrantedInsert
    <3>3. DbTypeOK'
        BY <1>2, <2>1, <3>1 DEF TypeOK, DbTypeOK, Inserted, Row, Roles
    <3> QED
        BY <1>4, <1>5, <1>6, <2>1, <3>2, <3>3 DEF Ends
  <2> QED
      BY <1>13, <2>2, <2>3 DEF CreateUser
<1>14. CASE UpdateUser(r)
  <2>1. /\ q.user \in Ids /\ q.role \in Granted \cup {Unchanged} /\ Owners # {}
        /\ users[q.user].role = "owner" => q.role = Unchanged
        /\ users' = [users EXCEPT ![q.user].role = NewRole(q.user, q.role)]
        /\ UNCHANGED <<sessions, links, drawn>> /\ Ends(r)
      BY <1>2, <1>14, StageFields DEF UpdateUser, Relies
  <2>2. users' \in [Ids -> Row] /\ Safe /\ DataInv' /\ Owners' = Owners
      BY <1>1, <1>2, <2>1, RoleUpdate
  <2>3. DbTypeOK'
      BY <1>2, <2>1, <2>2 DEF TypeOK, DbTypeOK
  <2> QED
      BY <1>4, <1>5, <1>6, <2>1, <2>2, <2>3 DEF Ends
<1>15. CASE DeleteUser(r)
  <2>1. /\ q.user \in Ids /\ q.user \in drawn /\ users[q.user].role # "owner" /\ Owners # {}
        /\ Deleted(q.user) /\ Ends(r)
      BY <1>2, <1>15, StageFields DEF DeleteUser, Relies
  <2>2. Safe /\ DataInv' /\ Owners' = Owners
      BY <1>1, <1>2, <2>1, UserDelete
  <2>3. DbTypeOK'
      BY <1>2, <2>1, AccountsAssumption DEF TypeOK, DbTypeOK, Deleted, NoRow, Row
  <2> QED
      BY <1>4, <1>5, <1>6, <2>1, <2>2, <2>3 DEF Ends
<1> QED
    BY <1>8, <1>9, <1>10, <1>11, <1>12, <1>13, <1>14, <1>15 DEF WriteStep

(* Logging out and unlinking are one statement, made by a request that is not kept. *)
LEMMA SingleStatements ==
    ASSUME IInv, NEW r \in Requests, Logout(r) \/ Unlink(r)
    PROVE  IInv' /\ Safe
<1>1. UNCHANGED <<users, drawn, unattended, boot, req>> /\ TypeOK /\ DataInv
    BY DEF Logout, Unlink, servers, IInv
<1>2. /\ sessions' \in [Ids -> 0..MaxSessions] /\ links' \in [Accts -> SUBSET Ids]
      /\ \A u \in Ids : sessions'[u] > 0 => Exists(u)
      /\ \A g \in Accts : \A u \in links'[g] : Exists(u)
  <2>1. CASE Logout(r)
      BY <1>1, <2>1, AccountsAssumption DEF Logout, TypeOK, DataInv, DeletedUsersAreLoggedOut
  <2>2. CASE Unlink(r)
      BY <1>1, <2>2 DEF Unlink, TypeOK, DataInv, DeletedUsersAreLoggedOut
  <2> QED
      BY <2>1, <2>2
<1>3. Safe /\ DataInv'
    BY <1>1, <1>2, KeptUsers
<1>4. TypeOK'
    BY <1>1, <1>2 DEF TypeOK
<1>5. \A s \in Servers : ServerInv(s)'
    BY <1>1 DEF IInv, ServerInv, OwnOwner, Owners, NoUsers, Exists
<1>6. \A p \in Requests : Relies(req[p])'
    BY <1>1 DEF IInv, Relies, Owners, NoUsers, Exists
<1> QED
    BY <1>3, <1>4, <1>5, <1>6 DEF IInv

(* Every step keeps the invariant, and all but a change of the environment, which *)
(* leaves users alone, are Safe.                                                 *)
LEMMA NextIInv ==
    ASSUME IInv, [Next]_vars
    PROVE  IInv' /\ (Safe \/ UNCHANGED users)
<1>1. CASE \E s \in Servers : ServerStep(s)
    BY <1>1, ServerSteps
<1>2. CASE Reconfigure
    BY <1>2, ReconfigureStep DEF Reconfigure, db
<1>3. ASSUME NEW r \in Requests, RequestStep(r) PROVE IInv' /\ Safe
  <2>1. ReadStep(r) \/ WriteStep(r) \/ Logout(r) \/ Unlink(r)
      BY <1>3 DEF RequestStep, ReadStep, WriteStep
  <2> QED
      BY <2>1, ReadSteps, WriteSteps, SingleStatements
<1>4. CASE UNCHANGED vars
  <2>1. UNCHANGED <<users, sessions, links, drawn, unattended, boot, req>>
      BY <1>4 DEF vars, db, servers
  <2>2. TypeOK' /\ DataInv'
      BY <2>1 DEF IInv, TypeOK, DataInv, IdsAreDrawn, AtMostOneOwner, AdminsHaveOwner,
                  DeletedUsersAreLoggedOut, Owners, Exists
  <2>3. \A s \in Servers : ServerInv(s)'
      BY <2>1 DEF IInv, ServerInv, OwnOwner, Owners, NoUsers, Exists
  <2>4. \A p \in Requests : Relies(req[p])'
      BY <2>1 DEF IInv, Relies, Owners, NoUsers, Exists
  <2> QED
      BY <2>1, <2>2, <2>3, <2>4 DEF IInv
<1> QED
    BY <1>1, <1>2, <1>3, <1>4 DEF Next

-----------------------------------------------------------------------------
(* What holds of every instance. *)

(* The inductive invariant: what the tables say of each other, and what every    *)
(* server and request under way still relies on.                                *)
THEOREM Invariance == Spec => []IInv
<1>1. IInv /\ [Next]_vars => IInv'
    BY NextIInv
<1> QED
    BY <1>1, InitIInv, PTL DEF Spec

(* Every row, session, link and stage of a handler is well formed. *)
THEOREM TypeCorrect == Spec => []TypeOK
<1>1. IInv => TypeOK
    BY DEF IInv
<1> QED
    BY <1>1, Invariance, PTL

(* However many servers start and wizards run at a time, whatever stops half-way:  *)
(* there is one owner at most.                                                    *)
THEOREM OneOwner == Spec => []AtMostOneOwner
<1>1. IInv => AtMostOneOwner
    BY DEF IInv, DataInv
<1> QED
    BY <1>1, Invariance, PTL

(* An admin or a viewer exists only under an owner (routes/users.ts). *)
THEOREM AdminsAreOwned == Spec => []AdminsHaveOwner
<1>1. IInv => AdminsHaveOwner
    BY DEF IInv, DataInv
<1> QED
    BY <1>1, Invariance, PTL

(* The sessions and links of a deleted user go, and none is added afterwards by a  *)
(* login or a link that was under way.                                            *)
THEOREM DeletedLoggedOut == Spec => []DeletedUsersAreLoggedOut
<1>1. IInv => DeletedUsersAreLoggedOut
    BY DEF IInv, DataInv
<1> QED
    BY <1>1, Invariance, PTL

(* No interleaving of administrators demotes or deletes the owner. *)
THEOREM OwnerStays == Spec => OwnerIsPermanent
<1>1. IInv /\ [Next]_vars => [\A u \in Owners : u \in Owners']_vars
  <2> SUFFICES ASSUME IInv, [Next]_vars PROVE \A u \in Owners : u \in Owners'
      OBVIOUS
  <2>1. CASE Safe
      BY <2>1 DEF Safe
  <2>2. CASE UNCHANGED users
      BY <2>2 DEF Owners
  <2> QED
      BY <2>1, <2>2, NextIInv
<1> QED
    BY <1>1, Invariance, PTL DEF Spec, OwnerIsPermanent

(* Once there is a user there always is one: the wizard, which asks for an empty   *)
(* table, never opens again.                                                      *)
THEOREM SetupLocked == Spec => SetupStaysLocked
<1>1. IInv /\ [Next]_vars => [NoUsers' => NoUsers]_vars
  <2> SUFFICES ASSUME IInv, [Next]_vars PROVE NoUsers' => NoUsers
      OBVIOUS
  <2>1. CASE Safe
      BY <2>1 DEF Safe
  <2>2. CASE UNCHANGED users
      BY <2>2 DEF NoUsers, Exists
  <2> QED
      BY <2>1, <2>2, NextIInv
<1> QED
    BY <1>1, Invariance, PTL DEF Spec, SetupStaysLocked
=============================================================================
