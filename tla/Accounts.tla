------------------------------ MODULE Accounts ------------------------------
(***************************************************************************)
(* Who may do what: the users and settings tables, the endpoints that      *)
(* change them (api/routes/auth.py, api/routes/admin.py), the checks in    *)
(* front of those (core/auth.py), the account an API process makes when it *)
(* starts, and the audit rows of all of these (core/audit.py).             *)
(*                                                                         *)
(* Handlers run concurrently, in the threads of several API processes.  A  *)
(* handler reads and writes in separate statements and commits several     *)
(* times.  A token proves a name and nothing else: role and is_active are  *)
(* read from the database by every request.  Of passwords only matters     *)
(* whether one is right.                                                   *)
(***************************************************************************)
EXTENDS Naturals, Sequences, FiniteSets

CONSTANTS
  Reqs,            \* requests, and starts of API processes
  Names,           \* user names, which stand for user ids, too
  Values,          \* values of settings
  Requests,        \* what clients may send
  Tables,          \* the users tables a behaviour may start from
  MaxFaults        \* bound on crashes and database errors in a behaviour

VARIABLES
  req,             \* the request
  pc,              \* where its handler is
  users,           \* committed rows of the users table
  settings,        \* committed rows of the settings table
  audit,           \* requests with a committed row of audit_logs, in their order
  tokens,          \* names that have been given a token
  row,             \* the row of users that a handler has read and will change
  keys,            \* the settings that a handler has still to write
  found,           \* what its SELECT for the next of them returned
  raced,           \* history: what two handlers were changing at once
  faults           \* crashes and database errors so far

localVars == <<row, keys, found>>
vars == <<req, pc, users, settings, audit, tokens, localVars, raced, faults>>

None == "none"

Roles == {"admin", "analyst"}
Active == {"yes", "no"}
Ack == "authorization_ack"
ALLOWED_SETTINGS == {"max_upload_bytes", "max_artifact_preview_bytes"}
Settings == ALLOWED_SETTINGS \cup {Ack}

\* A row of users; "by" is the request that made it and is kept for the properties.
User == [role : Roles, is_active : Active, by : Reqs \cup {None}]
NoUser == [role |-> None, is_active |-> None, by |-> None]
NoKey == [key |-> None, exists |-> FALSE]

\* What the body of a request says of a user, None where it says nothing.
Body(roles, active) == [role : roles, is_active : active]
Fields == {"role", "is_active"}

Request ==
  [cmd : {"bootstrap", "startup"}, name : Names]
    \cup [cmd : {"token"}, name : Names, password : {"right", "wrong"}]
    \cup [cmd : {"logout"}, actor : Names]
    \cup [cmd : {"ack"}, values : [{Ack} -> Values]]
    \cup [cmd : {"create_user"}, actor : Names, name : Names,
          body : Body(Roles \cup {"viewer"}, Active)]
    \cup [cmd : {"update_user"}, actor : Names, name : Names,
          body : Body(Roles \cup {"viewer", None}, Active \cup {None})]
    \cup [cmd : {"reset_password"}, actor : Names, name : Names, body : Body({None}, {None})]
    \cup [cmd : {"settings"}, actor : Names,
          values : UNION {[K -> Values] : K \in SUBSET Settings}]

ASSUME RequestsAssumption == Requests \subseteq Request
ASSUME TablesAssumption ==
  Tables \subseteq [Names -> {u \in User : u.by = None} \cup {NoUser}]
ASSUME NoneAssumption == None \notin Reqs \cup Values
ASSUME MaxFaultsAssumption == MaxFaults \in Nat

Founding(r) == req[r].cmd \in {"bootstrap", "startup"}
OnUser(r) == req[r].cmd \in {"create_user", "update_user", "reset_password"}
OnSettings(r) == req[r].cmd = "settings"

End == {"done", "refused", "failed"}
Pc == {"new", "allowed", "write", "insert", "merge", "store", "file", "audit"} \cup End

TypeOK ==
  /\ req \in [Reqs -> Requests]
  /\ pc \in [Reqs -> Pc]
  /\ users \in [Names -> User \cup {NoUser}]
  /\ settings \in [Settings -> Values \cup {None}]
  /\ audit \in Seq(Reqs)
  /\ tokens \subseteq {n \in Names : users[n] # NoUser}
  /\ row \in [Reqs -> User \cup {NoUser}]
  /\ \A r \in Reqs : pc[r] = "write" => row[r] # NoUser
  /\ keys \in [Reqs -> SUBSET Settings]
  /\ \A r \in Reqs : pc[r] \in {"merge", "store"} => keys[r] # {}
  /\ found \in [Reqs -> {NoKey} \cup [key : Settings, exists : BOOLEAN]]
  /\ raced \subseteq Names \cup Settings \cup {"founding"}
  /\ faults \in 0..MaxFaults

\* A new database, or one that has been in use: everybody may hold a token.
Init ==
  /\ req \in [Reqs -> Requests]
  /\ pc = [r \in Reqs |-> "new"]
  /\ users \in Tables
  /\ settings \in {[k \in Settings |-> IF k = Ack THEN v ELSE None] :
                     v \in Values \cup {None}}
  /\ audit = <<>>
  /\ tokens = {n \in Names : users[n] # NoUser}
  /\ row = [r \in Reqs |-> NoUser]
  /\ keys = [r \in Reqs |-> {}]
  /\ found = [r \in Reqs |-> NoKey]
  /\ raced = {}
  /\ faults = 0

Fault ==
  /\ faults < MaxFaults
  /\ faults' = faults + 1

Goto(r, from, to) ==
  /\ pc[r] = from
  /\ pc' = [pc EXCEPT ![r] = to]
  /\ UNCHANGED req

\* Mark x as raced if other handlers are in the middle of changing it.
Race(x, others) == raced' = IF others = {} THEN raced ELSE raced \cup {x}

-----------------------------------------------------------------------------
(* The checks in front of the endpoints.                                    *)

IsActive(n) == users[n].is_active = "yes"
IsAdmin(n) == IsActive(n) /\ users[n].role = "admin"

\* Mutant: the router forgets ack_dependency.
Admitted_NoAck(r) == IsAdmin(req[r].actor)

\* ack_dependency and require_roles("admin"), which reads the user's row.
Admitted(r) == settings[Ack] # None /\ IsAdmin(req[r].actor)

\* The token may have expired.
Authorize(r) ==
  /\ OnUser(r) \/ OnSettings(r)
  /\ req[r].actor \in tokens
  /\ \/ Admitted(r) /\ Goto(r, "new", "allowed")
     \/ Goto(r, "new", "refused")
  /\ UNCHANGED <<users, settings, audit, tokens, localVars, raced, faults>>

\* POST /auth/logout: any active user; the token stays valid.
Logout(r) ==
  /\ req[r].cmd = "logout"
  /\ req[r].actor \in tokens
  /\ Goto(r, "new", IF IsActive(req[r].actor) THEN "audit" ELSE "refused")
  /\ UNCHANGED <<users, settings, audit, tokens, localVars, raced, faults>>

\* login_for_access_token: is_active is not looked at.
CheckPassword(r) ==
  /\ req[r].cmd = "token"
  /\ Goto(r, "new",
       IF users[req[r].name] # NoUser /\ req[r].password = "right"
       THEN "audit" ELSE "refused")
  /\ UNCHANGED <<users, settings, audit, tokens, localVars, raced, faults>>

-----------------------------------------------------------------------------
(* The users table.                                                         *)

\* Mutant: only users that can log in and administer are counted.
NoUsersYet_CountsAdmins == \A n \in Names : ~IsAdmin(n)

NoUsersYet == \A n \in Names : users[n] = NoUser

\* Mutant: the users are not counted.
CountUsers_Never(r) ==
  /\ Founding(r)
  /\ Goto(r, "new", "insert")
  /\ Race("founding", {q \in Reqs : Founding(q) /\ pc[q] = "insert"})
  /\ UNCHANGED <<users, settings, audit, tokens, localVars, faults>>

\* bootstrap_admin and ensure_bootstrap_admin: the count.
CountUsers(r) ==
  /\ Founding(r)
  /\ Goto(r, "new", IF NoUsersYet THEN "insert" ELSE "refused")
  /\ IF NoUsersYet
     THEN Race("founding", {q \in Reqs : Founding(q) /\ pc[q] = "insert"})
     ELSE UNCHANGED raced
  /\ UNCHANGED <<users, settings, audit, tokens, localVars, faults>>

\* create_user: the role, then the name.
CheckName(r) ==
  /\ req[r].cmd = "create_user"
  /\ Goto(r, "allowed",
       IF req[r].body.role \in Roles /\ users[req[r].name] = NoUser
       THEN "insert" ELSE "refused")
  /\ UNCHANGED <<users, settings, audit, tokens, localVars, raced, faults>>

NewUser(r) ==
  [role |-> IF Founding(r) THEN "admin" ELSE req[r].body.role,
   is_active |-> IF Founding(r) THEN "yes" ELSE req[r].body.is_active,
   by |-> r]

\* session.add and commit.  The name is UNIQUE: a second row is an IntegrityError,
\* which fails the request, or the start of the process.
InsertUser(r) ==
  /\ pc[r] = "insert"
  /\ IF users[req[r].name] # NoUser
     THEN Goto(r, "insert", "failed") /\ UNCHANGED users
     ELSE /\ Goto(r, "insert", IF req[r].cmd = "startup" THEN "done" ELSE "audit")
          /\ users' = [users EXCEPT ![req[r].name] = NewUser(r)]
  /\ UNCHANGED <<settings, audit, tokens, localVars, raced, faults>>

\* Requests that are between reading the row of n and auditing its change.
Changing(n) ==
  {r \in Reqs :
     req[r].cmd = "update_user" /\ req[r].name = n /\ pc[r] \in {"write", "audit"}}

\* update_user and reset_password: session.get.
ReadRow(r) ==
  /\ req[r].cmd \in {"update_user", "reset_password"}
  /\ Goto(r, "allowed",
       IF req[r].body.role = "viewer" \/ users[req[r].name] = NoUser
       THEN "refused" ELSE "write")
  /\ row' = [row EXCEPT ![r] = users[req[r].name]]
  /\ IF req[r].cmd = "update_user"
     THEN Race(req[r].name, Changing(req[r].name))
     ELSE UNCHANGED raced
  /\ UNCHANGED <<users, settings, audit, tokens, keys, found, faults>>

\* "changed": what the request asks for and the row it has read does not have.
Changed(r) ==
  {f \in Fields : req[r].body[f] # None /\ req[r].body[f] # row[r][f]}

\* The UPDATE names the changed columns only.
Update(u, r) ==
  [role |-> IF "role" \in Changed(r) THEN req[r].body.role ELSE u.role,
   is_active |-> IF "is_active" \in Changed(r) THEN req[r].body.is_active ELSE u.is_active,
   by |-> u.by]

\* Mutant: all columns of the row that was read are written back.
WriteRow_All(r) ==
  /\ pc[r] = "write"
  /\ Goto(r, "write",
       IF req[r].cmd = "update_user" /\ Changed(r) = {} THEN "done" ELSE "audit")
  /\ users' = [users EXCEPT ![req[r].name] = Update(row[r], r)]
  /\ UNCHANGED <<settings, audit, tokens, localVars, raced, faults>>

\* Without a change nothing is committed and nothing audited; a new password is.
WriteRow(r) ==
  /\ pc[r] = "write"
  /\ Goto(r, "write",
       IF req[r].cmd = "update_user" /\ Changed(r) = {} THEN "done" ELSE "audit")
  /\ users' = [users EXCEPT ![req[r].name] = Update(@, r)]
  /\ UNCHANGED <<settings, audit, tokens, localVars, raced, faults>>

-----------------------------------------------------------------------------
(* The settings table.                                                      *)

Setting(k) ==
  {r \in Reqs :
     OnSettings(r) /\ k \in DOMAIN req[r].values /\ pc[r] \in {"merge", "store", "audit"}}

\* update_admin_settings, line 196: a key that is not allowed refuses all of them.
BeginSettings(r) ==
  LET wanted == DOMAIN req[r].values
      known == wanted \subseteq ALLOWED_SETTINGS
  IN  /\ OnSettings(r)
      /\ Goto(r, "allowed",
           IF ~known THEN "refused" ELSE IF wanted = {} THEN "audit" ELSE "merge")
      /\ keys' = IF known THEN [keys EXCEPT ![r] = wanted] ELSE keys
      /\ raced' = raced \cup {k \in wanted : Setting(k) # {}}
      /\ UNCHANGED <<users, settings, audit, tokens, row, found, faults>>

\* POST /auth/ack, which anybody may send.
BeginAck(r) ==
  /\ req[r].cmd = "ack"
  /\ Goto(r, "new", "merge")
  /\ keys' = [keys EXCEPT ![r] = {Ack}]
  /\ UNCHANGED <<users, settings, audit, tokens, row, found, raced, faults>>

\* set_setting: session.merge selects the row ...
MergeSetting(r) ==
  /\ Goto(r, "merge", "store")
  /\ \E k \in keys[r] :
       found' = [found EXCEPT ![r] = [key |-> k, exists |-> settings[k] # None]]
  /\ UNCHANGED <<users, settings, audit, tokens, row, keys, raced, faults>>

AfterSettings(r) == IF req[r].cmd = "ack" THEN "file" ELSE "audit"

\* ... and the commit inserts or updates it.  Two first inserts of a key collide.
StoreSetting(r) ==
  LET k == found[r].key
  IN  /\ pc[r] = "store"
      /\ keys' = [keys EXCEPT ![r] = @ \ {k}]
      /\ IF ~found[r].exists /\ settings[k] # None
         THEN Goto(r, "store", "failed") /\ UNCHANGED settings
         ELSE /\ Goto(r, "store", IF keys'[r] = {} THEN AfterSettings(r) ELSE "merge")
              /\ settings' = [settings EXCEPT ![k] = req[r].values[k]]
      /\ UNCHANGED <<users, audit, tokens, row, found, raced, faults>>

\* authorization.txt, which nothing reads.
WriteAckFile(r) ==
  /\ Goto(r, "file", "done")
  /\ UNCHANGED <<users, settings, audit, tokens, localVars, raced, faults>>

-----------------------------------------------------------------------------
(* The audit row, in a transaction of its own, and the answer.              *)

GiveToken(r) ==
  tokens' = IF req[r].cmd = "token" THEN tokens \cup {req[r].name} ELSE tokens

AuditRow(r) ==
  /\ Goto(r, "audit", "done")
  /\ audit' = Append(audit, r)
  /\ GiveToken(r)
  /\ UNCHANGED <<users, settings, localVars, raced, faults>>

\* "except Exception: pass".
AuditFails(r) ==
  /\ Fault
  /\ Goto(r, "audit", "done")
  /\ GiveToken(r)
  /\ UNCHANGED <<users, settings, audit, localVars, raced>>

\* The database refuses a statement, or the process dies.
RequestFails(r) ==
  /\ Fault
  /\ \E from \in Pc \ ({"new"} \cup End) : Goto(r, from, "failed")
  /\ UNCHANGED <<users, settings, audit, tokens, localVars, raced>>

-----------------------------------------------------------------------------
Step(r) ==
  \/ Authorize(r) \/ Logout(r) \/ CheckPassword(r)
  \/ CountUsers(r) \/ CheckName(r) \/ InsertUser(r) \/ ReadRow(r) \/ WriteRow(r)
  \/ BeginSettings(r) \/ BeginAck(r) \/ MergeSetting(r) \/ StoreSetting(r)
  \/ WriteAckFile(r) \/ AuditRow(r) \/ AuditFails(r) \/ RequestFails(r)

Next == \E r \in Reqs : Step(r)

Spec == Init /\ [][Next]_vars

-----------------------------------------------------------------------------
\* Users exist, none of them is an active admin, and no request that was let in
\* before this came about is still on its way.
LockedOut ==
  /\ \E n \in Names : users[n] # NoUser
  /\ \A n \in Names : ~IsAdmin(n)
  /\ \A r \in Reqs :
       pc[r] \in {"new"} \cup End \/ req[r].cmd \in {"token", "logout", "ack"}

\* Admins come from admins.  Nothing keeps the last active admin from demoting or
\* deactivating himself (admin.py:115), and after that neither the bootstrap
\* endpoint nor a restart, nor a token from better times, makes another one.
LockoutIsPermanent == [][LockedOut => LockedOut']_vars

\* The bootstrap endpoint and the starting processes make at most one account
\* between them, unless two of them count the users before either inserts: then
\* both make their admin if the names differ.
OneFounder ==
  "founding" \notin raced =>
    \A r, q \in Reqs, m, n \in Names :
      users[m].by = r /\ users[n].by = q /\ Founding(r) /\ Founding(q) => m = n

\* Before the legal acknowledgement is in the database the admin API changes
\* nothing: no user loses or gains rights, and no setting is set.
NothingBeforeAck ==
  [][settings[Ack] = None =>
       /\ \A n \in Names : users[n] # NoUser => users'[n] = users[n]
       /\ \A k \in ALLOWED_SETTINGS : settings'[k] = settings[k]]_vars

\* The places in the audit log of the changes of a column of a user's row.
Changes(n, f) ==
  {i \in 1..Len(audit) :
     LET r == audit[i]
     IN  req[r].cmd = "update_user" /\ req[r].name = n /\ f \in Changed(r)}

\* The places of the requests that set a setting.
SetAudited(k) ==
  {i \in 1..Len(audit) : OnSettings(audit[i]) /\ k \in DOMAIN req[audit[i]].values}

Latest(i, places) == i \in places /\ \A j \in places : j <= i

\* A request that collides with another at one of its keys leaves those that it has
\* set before as they are, and no audit row.
HalfSet(k) ==
  \E r \in Reqs : OnSettings(r) /\ k \in DOMAIN req[r].values /\ pc[r] = "failed"

\* Without faults, and while no two changes of it overlap, the audit log tells the
\* history of a user's rights and of a setting.  Each row about a user starts from
\* what the one before it left, and the last one, from which none is on its way,
\* left what is in the table; the last request that is audited for a setting has
\* set it, and so for all its keys, unless one was half set.
AuditTells ==
  faults = 0 =>
    /\ \A n \in Names \ raced, f \in Fields :
         /\ \A i, j \in Changes(n, f) :
              Latest(i, Changes(n, f) \cap 1..(j - 1)) =>
                row[audit[j]][f] = req[audit[i]].body[f]
         /\ Changing(n) = {} =>
              \A i \in Changes(n, f) :
                Latest(i, Changes(n, f)) => users[n][f] = req[audit[i]].body[f]
    /\ \A k \in ALLOWED_SETTINGS \ raced :
         Setting(k) = {} /\ ~HalfSet(k) =>
           \A i \in SetAudited(k) :
             Latest(i, SetAudited(k)) => settings[k] = req[audit[i]].values[k]
=============================================================================
