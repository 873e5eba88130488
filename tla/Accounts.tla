------------------------------ MODULE Accounts ------------------------------
(***************************************************************************)
(* The users of Baishui: the owner that a server inserts when it starts     *)
(* (lib/runtime.ts, packages/db/src/bootstrap.ts) or that the setup wizard  *)
(* creates (routes/setup.ts), password and GitHub logins (routes/auth.ts),  *)
(* and the administration of users (routes/users.ts).                       *)
(*                                                                         *)
(* A handler is a process; what lies between two of its queries is a step.  *)
(* Sessions are counted per user; their expiry is the matter of Credentials. *)
(***************************************************************************)
EXTENDS Integers

CONSTANTS
    Servers,      \* processes that share the database
    AdminEmail,   \* ADMIN_EMAIL, the same on every server
    Requests,     \* requests under way at a time
    Ids,          \* the UUIDs of users, the sentinel among them
    Sentinel,     \* 00000000-0000-0000-0000-000000000001
    Emails,       \* addresses, in lower case
    Accts,        \* GitHub accounts
    PrimaryEmail, \* their verified primary address
    Allowed,      \* addresses that OAUTH_ALLOWED_EMAIL_DOMAINS admits
    MaxSessions   \* bound on the sessions of a user

ASSUME AccountsAssumption ==
    /\ Sentinel \in Ids
    /\ AdminEmail \in Emails
    /\ PrimaryEmail \in [Accts -> Emails]
    /\ Allowed \subseteq Emails
    /\ MaxSessions \in Nat

Granted == {"member", "admin", "viewer"}
Roles == Granted \cup {"owner"}
Unchanged == "unchanged"  \* the role of a PATCH without one
NoRow == [role |-> "none", email |-> AdminEmail, password |-> FALSE]

VARIABLES
    users,       \* users: the row of each id, and whether its passwordHash is set
    sessions,    \* sessions: how many of them each user has
    links,       \* oauth_accounts: the user each GitHub account is linked to, if any
    drawn,       \* UUIDs drawn so far
    unattended,  \* whether ALLOW_UNATTENDED_SETUP and its credentials are set
    boot,        \* the stage of start-up of each server
    req          \* the await each request stands at, and the locals it goes on with

db == <<users, sessions, links, drawn>>
servers == <<unattended, boot>>
vars == <<db, servers, req>>

Exists(u) == users[u].role # "none"
Owners == {u \in Ids : users[u].role = "owner"}
NoUsers == \A u \in Ids : ~ Exists(u)
Taken(e) == \E u \in Ids : Exists(u) /\ users[u].email = e

Row == [role : Roles \cup {"none"}, email : Emails, password : BOOLEAN]

Idle == [at |-> "idle"]
Stages ==
    {Idle}
        \cup [at : {"session", "rehash", "change", "administer", "delete"}, user : Ids]
        \cup [at : {"oauth", "link"}, user : Ids, acct : Accts]
        \cup [at : {"register"}, acct : Accts]
        \cup [at : {"setup"}, mail : Emails]
        \cup [at : {"create"}, mail : Emails, role : Granted]
        \cup [at : {"update"}, user : Ids, role : Granted \cup {Unchanged}]

(* Type invariant. *)
TypeOK ==
    /\ users \in [Ids -> Row]
    /\ sessions \in [Ids -> 0..MaxSessions]
    /\ links \in [Accts -> SUBSET Ids]
    /\ drawn \subseteq Ids
    /\ unattended \in BOOLEAN
    /\ boot \in [Servers -> {"down", "insert", "up"}]
    /\ req \in [Requests -> Stages]

Init ==
    /\ users = [u \in Ids |-> NoRow]
    /\ sessions = [u \in Ids |-> 0]
    /\ links = [g \in Accts |-> {}]
    /\ drawn = {}
    /\ unattended \in BOOLEAN
    /\ boot = [s \in Servers |-> "down"]
    /\ req = [r \in Requests |-> Idle]

-----------------------------------------------------------------------------
(* The table users.  INSERT draws a UUID that no row ever had. *)

Fresh(u) == u \in Ids \ (drawn \cup {Sentinel})

Inserted(u, e, role, hashed) ==
    /\ users' = [users EXCEPT ![u] = [role |-> role, email |-> e, password |-> hashed]]
    /\ drawn' = drawn \cup {u}
    /\ UNCHANGED <<sessions, links>>

(* A DELETE takes the sessions and links of the user with it (ON DELETE CASCADE). *)
Deleted(u) ==
    /\ users' = [users EXCEPT ![u] = NoRow]
    /\ sessions' = [sessions EXCEPT ![u] = 0]
    /\ links' = [g \in Accts |-> links[g] \ {u}]
    /\ UNCHANGED drawn

Goto(r, stage) == req' = [req EXCEPT ![r] = stage]
Ends(r) == Goto(r, Idle)

-----------------------------------------------------------------------------
(* Start-up of a server. *)

(* initRuntime, and the SELECT of ensureOwnerUser.  Mutant: no SELECT. *)
Bootstraps_Always == unattended
Bootstraps == unattended /\ NoUsers

Start(s) ==
    /\ boot[s] = "down"
    /\ boot' = [boot EXCEPT ![s] = IF Bootstraps THEN "insert" ELSE "up"]
    /\ UNCHANGED <<db, unattended, req>>

(* INSERT ... ON CONFLICT (email) DO NOTHING; argon2 may be unavailable. *)
InsertOwner(s) ==
    /\ boot[s] = "insert"
    /\ \/ Taken(AdminEmail) /\ UNCHANGED db
       \/ /\ ~ Taken(AdminEmail)
          /\ \E u \in Ids, hashed \in BOOLEAN : Fresh(u) /\ Inserted(u, AdminEmail, "owner", hashed)
    /\ boot' = [boot EXCEPT ![s] = "up"]
    /\ UNCHANGED <<unattended, req>>

Stop(s) ==
    /\ boot[s] # "down"
    /\ boot' = [boot EXCEPT ![s] = "down"]
    /\ UNCHANGED <<db, unattended, req>>

(* The environment changes while the whole system is down. *)
Reconfigure ==
    /\ \A s \in Servers : boot[s] = "down"
    /\ \A r \in Requests : req[r] = Idle
    /\ unattended' = ~ unattended
    /\ UNCHANGED <<db, boot, req>>

Arrives(r) == req[r] = Idle /\ \E s \in Servers : boot[s] = "up"

(* A handler does not go on: a query failed, or its server died. *)
Abandon(r) ==
    /\ req[r] # Idle
    /\ Ends(r)
    /\ UNCHANGED <<db, servers>>

-----------------------------------------------------------------------------
(* Setup wizard: one statement, whose snapshot may be older than its INSERT. *)

(* WHERE NOT EXISTS (SELECT 1 FROM users) *)
Setup(r) ==
    /\ Arrives(r)
    /\ NoUsers
    /\ \E e \in Emails : Goto(r, [at |-> "setup", mail |-> e])
    /\ UNCHANGED <<db, servers>>

(* The row is keyed on the sentinel.  Mutant: it gets a UUID of its own. *)
IsSetupId_Random(u) == Fresh(u)
IsSetupId(u) == u = Sentinel

(* ON CONFLICT (id) DO NOTHING; an address that is taken makes the statement fail. *)
SetupInsert(r) ==
    /\ req[r].at = "setup"
    /\ \E u \in Ids :
          /\ IsSetupId(u)
          /\ \/ /\ ~ Exists(u) /\ ~ Taken(req[r].mail)
                /\ Inserted(u, req[r].mail, "owner", TRUE)
                /\ Goto(r, [at |-> "session", user |-> u])
             \/ /\ Exists(u) \/ Taken(req[r].mail)
                /\ Ends(r)
                /\ UNCHANGED db
    /\ UNCHANGED servers

-----------------------------------------------------------------------------
(* Logins. *)

(* SELECT by address, and the password verified. *)
Login(r) ==
    /\ Arrives(r)
    /\ \E u \in Ids :
          /\ Exists(u) /\ users[u].password
          /\ Goto(r, [at |-> "session", user |-> u])
    /\ UNCHANGED <<db, servers>>

(* createSession: the foreign key refuses a user that is gone.  Mutant: it does not. *)
Admits_Anyone(u) == TRUE
Admits(u) == Exists(u)

CreateSession(r) ==
    /\ req[r].at = "session"
    /\ LET u == req[r].user
       IN  \/ /\ Admits(u) /\ sessions[u] < MaxSessions
              /\ sessions' = [sessions EXCEPT ![u] = @ + 1]
           \/ ~ Admits(u) /\ UNCHANGED sessions
    /\ Ends(r)
    /\ UNCHANGED <<users, links, drawn, servers>>

Logout(r) ==
    /\ Arrives(r)
    /\ \E u \in Ids :
          /\ sessions[u] > 0
          /\ sessions' = [sessions EXCEPT ![u] = @ - 1]
    /\ UNCHANGED <<users, links, drawn, servers, req>>

(* The callback of GitHub, once the code is exchanged: SELECT by address. *)
Callback(r) ==
    /\ Arrives(r)
    /\ \E g \in Accts :
          /\ PrimaryEmail[g] \in Allowed
          /\ \/ \E u \in Ids :
                   /\ Exists(u) /\ users[u].email = PrimaryEmail[g]
                   /\ Goto(r, [at |-> "oauth", user |-> u, acct |-> g])
             \/ /\ ~ Taken(PrimaryEmail[g])
                /\ Goto(r, [at |-> "register", acct |-> g])
    /\ UNCHANGED <<db, servers>>

(* Mutant: GitHub users are admins. *)
OAuthRole_Admin == "admin"
OAuthRole == "member"

(* INSERT of the user, which fails when another request was first with the address. *)
Register(r) ==
    /\ req[r].at = "register"
    /\ LET g == req[r].acct
       IN  \/ /\ ~ Taken(PrimaryEmail[g])
              /\ \E u \in Ids :
                    /\ Fresh(u) /\ Inserted(u, PrimaryEmail[g], OAuthRole, FALSE)
                    /\ Goto(r, [at |-> "oauth", user |-> u, acct |-> g])
           \/ /\ Taken(PrimaryEmail[g])
              /\ Ends(r)
              /\ UNCHANGED db
    /\ UNCHANGED servers

(* INSERT INTO oauth_accounts ... ON CONFLICT DO NOTHING, refused to a user that is    *)
(* gone; on the way to the session of a login, or for a user who is logged in.         *)
Link(r) ==
    /\ req[r].at \in {"oauth", "link"}
    /\ LET u == req[r].user
           g == req[r].acct
       IN  \/ /\ Exists(u)
              /\ links' = [links EXCEPT ![g] = IF @ = {} THEN {u} ELSE @]
              /\ IF req[r].at = "oauth" THEN Goto(r, [at |-> "session", user |-> u]) ELSE Ends(r)
           \/ /\ ~ Exists(u)
              /\ Ends(r)
              /\ UNCHANGED links
    /\ UNCHANGED <<users, sessions, drawn, servers>>

-----------------------------------------------------------------------------
(* Handlers behind requireRole, which reads session and role once, at the start. *)

May(u, allowed) == sessions[u] > 0 /\ users[u].role \in allowed \cup {"owner"}

BeginLink(r) ==
    /\ Arrives(r)
    /\ \E u \in Ids, g \in Accts :
          May(u, {"member", "admin"}) /\ Goto(r, [at |-> "link", user |-> u, acct |-> g])
    /\ UNCHANGED <<db, servers>>

Unlink(r) ==
    /\ Arrives(r)
    /\ \E u \in Ids :
          /\ May(u, {"member", "admin"})
          /\ links' = [g \in Accts |-> links[g] \ {u}]
    /\ UNCHANGED <<users, sessions, drawn, servers, req>>

BeginChangePassword(r) ==
    /\ Arrives(r)
    /\ \E u \in Ids : May(u, {"member", "admin"}) /\ Goto(r, [at |-> "rehash", user |-> u])
    /\ UNCHANGED <<db, servers>>

(* SELECT of the user, the old password verified if there is one, the new one hashed. *)
CheckPassword(r) ==
    /\ req[r].at = "rehash"
    /\ IF Exists(req[r].user) THEN Goto(r, [req[r] EXCEPT !.at = "change"]) ELSE Ends(r)
    /\ UNCHANGED <<db, servers>>

(* UPDATE ... WHERE id changes nothing when the row is gone. *)
ChangePassword(r) ==
    /\ req[r].at = "change"
    /\ LET u == req[r].user
       IN  users' = [users EXCEPT ![u].password = @ \/ Exists(u)]
    /\ Ends(r)
    /\ UNCHANGED <<sessions, links, drawn, servers>>

BeginCreate(r) ==
    /\ Arrives(r)
    /\ \E u \in Ids : May(u, {"admin"})
    /\ \E e \in Emails, g \in Granted : Goto(r, [at |-> "create", mail |-> e, role |-> g])
    /\ UNCHANGED <<db, servers>>

CreateUser(r) ==
    /\ req[r].at = "create"
    /\ \/ Taken(req[r].mail) /\ UNCHANGED db
       \/ /\ ~ Taken(req[r].mail)
          /\ \E u \in Ids : Fresh(u) /\ Inserted(u, req[r].mail, req[r].role, TRUE)
    /\ Ends(r)
    /\ UNCHANGED servers

(* PATCH or DELETE of a user, by another or the same. *)
BeginAdminister(r) ==
    /\ Arrives(r)
    /\ \E u \in Ids : May(u, {"admin"}) /\ Goto(r, [at |-> "administer", user |-> u])
    /\ UNCHANGED <<db, servers>>

(* The owner keeps the role.  Mutant: a PATCH may give the owner another one. *)
Patchable_Anyone(u, role) == Exists(u)
Patchable(u, role) == Exists(u) /\ (users[u].role = "owner" => role = Unchanged)

ReadToPatch(r) ==
    /\ req[r].at = "administer"
    /\ \E u \in Ids, role \in Granted \cup {Unchanged} :
          IF Patchable(u, role) THEN Goto(r, [at |-> "update", user |-> u, role |-> role]) ELSE Ends(r)
    /\ UNCHANGED <<db, servers>>

(* Only what the body has is set.  Mutant: the role is set in any case. *)
NewRole_Always(u, role) == IF Exists(u) THEN role ELSE users[u].role
NewRole(u, role) == IF Exists(u) /\ role # Unchanged THEN role ELSE users[u].role

UpdateUser(r) ==
    /\ req[r].at = "update"
    /\ LET u == req[r].user
       IN  users' = [users EXCEPT ![u].role = NewRole(u, req[r].role)]
    /\ Ends(r)
    /\ UNCHANGED <<sessions, links, drawn, servers>>

(* Not oneself, and not the owner.  Mutant: the owner, too. *)
Deletable_Anyone(u, by) == u # by /\ Exists(u)
Deletable(u, by) == u # by /\ Exists(u) /\ users[u].role # "owner"

ReadToDelete(r) ==
    /\ req[r].at = "administer"
    /\ \E u \in Ids :
          IF Deletable(u, req[r].user) THEN Goto(r, [at |-> "delete", user |-> u]) ELSE Ends(r)
    /\ UNCHANGED <<db, servers>>

DeleteUser(r) ==
    /\ req[r].at = "delete"
    /\ Deleted(req[r].user)
    /\ Ends(r)
    /\ UNCHANGED servers

-----------------------------------------------------------------------------
ServerStep(s) == Start(s) \/ InsertOwner(s) \/ Stop(s)

RequestStep(r) ==
    \/ Setup(r) \/ SetupInsert(r)
    \/ Login(r) \/ CreateSession(r) \/ Logout(r)
    \/ Callback(r) \/ Register(r) \/ Link(r) \/ BeginLink(r) \/ Unlink(r)
    \/ BeginChangePassword(r) \/ CheckPassword(r) \/ ChangePassword(r)
    \/ BeginCreate(r) \/ CreateUser(r)
    \/ BeginAdminister(r) \/ ReadToPatch(r) \/ UpdateUser(r)
    \/ ReadToDelete(r) \/ DeleteUser(r)
    \/ Abandon(r)

Next ==
    \/ \E s \in Servers : ServerStep(s)
    \/ Reconfigure
    \/ \E r \in Requests : RequestStep(r)

Spec == Init /\ [][Next]_vars

-----------------------------------------------------------------------------
(* Properties. *)

(* However wizards and starting servers race, they create one owner: "Race-safe:  *)
(* atomically inserts the owner only if zero users exist" (routes/setup.ts), and    *)
(* "Insert the bootstrap owner if no users exist. Idempotent." (bootstrap.ts).      *)
AtMostOneOwner == \A u, v \in Owners : u = v

(* "owner role is immutable": no handler that checked a role before demotes or       *)
(* deletes the owner when it writes.                                                 *)
OwnerIsPermanent == [][\A u \in Owners : u \in Owners']_vars

(* Every admin and viewer has an owner above: the right to administer comes from      *)
(* the owner, directly or along a chain of admins, though GitHub users come without.  *)
AdminsHaveOwner == (\E u \in Ids : users[u].role \in {"admin", "viewer"}) => Owners # {}

(* The wizard "self-locks after first use": once there is a user the table never       *)
(* becomes empty again, though admins may delete each other.                          *)
SetupStaysLocked == [][NoUsers' => NoUsers]_vars

(* A login under way while its user is deleted leaves no session behind, nor a link.  *)
DeletedUsersAreLoggedOut ==
    /\ \A u \in Ids : sessions[u] > 0 => Exists(u)
    /\ \A g \in Accts : \A u \in links[g] : Exists(u)
=============================================================================
