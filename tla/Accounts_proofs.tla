--------------------------- MODULE Accounts_proofs ---------------------------
(***************************************************************************)
(* Proofs about Accounts, for any requests, names, values and tables:      *)
(*                                                                         *)
(*   AccountsTypeCorrect  Spec => []TypeOK                                 *)
(*   OneFirstAdmin        Spec => []OneFounder                             *)
(*   AcknowledgedFirst    Spec => NothingBeforeAck                         *)
(*   LockedOutForGood     Spec => LockoutIsPermanent                       *)
(*   AuditsTell           Spec => []AuditTells                             *)
(***************************************************************************)
EXTENDS Accounts, SequenceTheorems, TLAPS

\* What a handler has found out on its way to where it is.
Positions ==
  \A r \in Reqs :
    /\ pc[r] = "allowed" => OnUser(r) \/ OnSettings(r)
    /\ pc[r] = "insert" =>
         Founding(r) \/ (req[r].cmd = "create_user" /\ req[r].body.role \in Roles)
    /\ pc[r] = "write" =>
         /\ req[r].cmd = "reset_password"
              \/ (req[r].cmd = "update_user" /\ req[r].body.role # "viewer")
         /\ users[req[r].name] # NoUser
    /\ pc[r] \in {"merge", "store"} =>
         /\ req[r].cmd = "ack" \/ OnSettings(r)
         /\ keys[r] \subseteq DOMAIN req[r].values
         /\ OnSettings(r) => keys[r] \subseteq ALLOWED_SETTINGS
    /\ pc[r] = "store" => found[r].key \in keys[r]
    /\ pc[r] = "audit" /\ req[r].cmd = "token" => users[req[r].name] # NoUser

\* The requests that have to pass the checks of the admin API.
Passed(r) == (OnUser(r) \/ OnSettings(r)) /\ pc[r] \notin {"new"} \cup End

\* They pass only after the acknowledgement, which nobody takes back.
AckedFirst == \A r \in Reqs : Passed(r) => settings[Ack] # None

\* Unless two have counted at once, one of those that found no users is about to
\* make an account, or one of them has made one.
FoundedOnce ==
  "founding" \notin raced =>
    /\ \A r, q \in Reqs :
         Founding(r) /\ Founding(q) /\ pc[r] = "insert" /\ pc[q] = "insert" => r = q
    /\ \A r, q \in Reqs, n \in Names :
         Founding(r) /\ Founding(q) /\ pc[r] = "insert" => users[n].by # q
    /\ OneFounder

AccountsInv == TypeOK /\ Positions /\ AckedFirst /\ FoundedOnce

-----------------------------------------------------------------------------
\* Requests are well-formed.
LEMMA RequestFields ==
  ASSUME req \in [Reqs -> Requests], NEW r \in Reqs
  PROVE  /\ Founding(r) \/ req[r].cmd = "token" \/ OnUser(r) => req[r].name \in Names
         /\ OnUser(r) \/ OnSettings(r) \/ req[r].cmd = "logout" => req[r].actor \in Names
         /\ req[r].cmd = "create_user" =>
              req[r].body.role \in Roles \cup {"viewer"} /\ req[r].body.is_active \in Active
         /\ req[r].cmd = "update_user" =>
              /\ req[r].body.role \in Roles \cup {"viewer", None}
              /\ req[r].body.is_active \in Active \cup {None}
         /\ req[r].cmd = "reset_password" =>
              req[r].body.role = None /\ req[r].body.is_active = None
         /\ req[r].cmd = "ack" =>
              DOMAIN req[r].values = {Ack} /\ req[r].values[Ack] \in Values
         /\ OnSettings(r) =>
              /\ DOMAIN req[r].values \subseteq Settings
              /\ \A k \in DOMAIN req[r].values : req[r].values[k] \in Values
<1>1. req[r] \in Request
  BY RequestsAssumption
<1> QED BY <1>1 DEF Request, Body, Founding, OnUser, OnSettings, Settings, Ack

\* A database that has been in use has the invariant.
LEMMA AccountsStart == Init => AccountsInv
<1> SUFFICES ASSUME Init PROVE AccountsInv
  OBVIOUS
<1>1. \A n \in Names : users[n] \in User \cup {NoUser} /\ users[n].by = None
  BY TablesAssumption DEF Init, User, NoUser
<1>2. TypeOK
  BY <1>1, TablesAssumption, MaxFaultsAssumption DEF Init, TypeOK, Pc, Settings, ALLOWED_SETTINGS, Ack
<1>3. OneFounder
  BY <1>1, NoneAssumption DEF Init, OneFounder
<1> QED
  BY <1>2, <1>3 DEF Init, AccountsInv, Positions, AckedFirst, Passed, FoundedOnce, End

\* An update leaves a user, of the same maker, and does not touch what is no user.
LEMMA UpdatedUser ==
  ASSUME TypeOK, Positions, NEW r \in Reqs, pc[r] = "write", NEW n \in Names, users[n] # NoUser
  PROVE  Update(users[n], r) \in User /\ Update(users[n], r).by = users[n].by
<1>1. users[n] \in User
  BY DEF TypeOK
<1>2. /\ "role" \in Changed(r) => req[r].body.role \in Roles
      /\ "is_active" \in Changed(r) => req[r].body.is_active \in Active
  BY RequestFields DEF TypeOK, Positions, Changed
<1> QED BY <1>1, <1>2 DEF Update, User

\* Nobody has None for a role.
LEMMA NoUserIsNone == NoUser \notin User
BY DEF NoUser, User, Roles, None

\* The variables keep their types.
LEMMA TypesStay == AccountsInv /\ [Next]_vars => TypeOK'
<1> SUFFICES ASSUME AccountsInv, [Next]_vars PROVE TypeOK'
  OBVIOUS
<1> USE DEF AccountsInv, Goto, localVars, OnUser, OnSettings, Founding, Pc, End,
    Settings, ALLOWED_SETTINGS, Ack, TypeOK
<1>1. ASSUME NEW r \in Reqs, Authorize(r) PROVE TypeOK'
  BY RequestFields, <1>1 DEF Authorize, Admitted, IsAdmin, IsActive
<1>2. ASSUME NEW r \in Reqs, Logout(r) PROVE TypeOK'
  BY RequestFields, <1>2 DEF Logout, IsActive
<1>3. ASSUME NEW r \in Reqs, CheckPassword(r) PROVE TypeOK'
  BY RequestFields, <1>3 DEF CheckPassword
<1>4. ASSUME NEW r \in Reqs, CountUsers(r) PROVE TypeOK'
  BY RequestFields, <1>4 DEF CountUsers, NoUsersYet, Race
<1>5. ASSUME NEW r \in Reqs, CheckName(r) PROVE TypeOK'
  BY RequestFields, <1>5 DEF CheckName
<1>6. ASSUME NEW r \in Reqs, InsertUser(r) PROVE TypeOK'
  BY RequestFields, <1>6 DEF InsertUser, NewUser, Positions, User, NoUser, Roles,
      Active
<1>7. ASSUME NEW r \in Reqs, ReadRow(r) PROVE TypeOK'
  BY RequestFields, <1>7 DEF ReadRow, Race, User, NoUser
<1>8. ASSUME NEW r \in Reqs, WriteRow(r) PROVE TypeOK'
  <2>1. /\ pc[r] = "write" /\ users[req[r].name] # NoUser /\ req[r].name \in Names
        /\ users' = [users EXCEPT ![req[r].name] = Update(@, r)]
    BY RequestFields, <1>8 DEF WriteRow, Positions
  <2>2. \A n \in Names :
          \/ users'[n] = users[n]
          \/ /\ users[n] # NoUser
             /\ users'[n] \in User /\ users'[n] # NoUser /\ users'[n].by = users[n].by
    BY <2>1, UpdatedUser, NoUserIsNone
  <2> QED BY <2>1, <2>2, RequestFields, <1>8 DEF WriteRow
<1>9. ASSUME NEW r \in Reqs, BeginSettings(r) PROVE TypeOK'
  BY RequestFields, <1>9 DEF BeginSettings
<1>10. ASSUME NEW r \in Reqs, BeginAck(r) PROVE TypeOK'
  BY RequestFields, <1>10 DEF BeginAck
<1>11. ASSUME NEW r \in Reqs, MergeSetting(r) PROVE TypeOK'
  BY RequestFields, <1>11 DEF MergeSetting, NoKey
<1>12. ASSUME NEW r \in Reqs, StoreSetting(r) PROVE TypeOK'
  BY RequestFields, <1>12 DEF StoreSetting, AfterSettings, Positions
<1>13. ASSUME NEW r \in Reqs, WriteAckFile(r) PROVE TypeOK'
  BY RequestFields, <1>13 DEF WriteAckFile
<1>14. ASSUME NEW r \in Reqs, AuditRow(r) PROVE TypeOK'
  BY RequestFields, <1>14 DEF AuditRow, GiveToken, Positions
<1>15. ASSUME NEW r \in Reqs, AuditFails(r) PROVE TypeOK'
  BY RequestFields, <1>15, MaxFaultsAssumption DEF AuditFails, Fault, GiveToken,
      Positions
<1>16. ASSUME NEW r \in Reqs, RequestFails(r) PROVE TypeOK'
  BY RequestFields, <1>16, MaxFaultsAssumption DEF RequestFails, Fault
<1>17. CASE UNCHANGED vars
  BY RequestFields, <1>17 DEF vars
<1> QED BY <1>1, <1>2, <1>3, <1>4, <1>5, <1>6, <1>7, <1>8, <1>9, <1>10, <1>11,
     <1>12, <1>13, <1>14, <1>15, <1>16, <1>17 DEF Next, Step

\* Handlers find out more and more, and nobody deletes a user.
LEMMA PositionsStay == AccountsInv /\ [Next]_vars => Positions'
<1> SUFFICES ASSUME AccountsInv, [Next]_vars PROVE Positions'
  OBVIOUS
<1> USE DEF AccountsInv, Goto, localVars, OnUser, OnSettings, Founding, Pc, End,
    Settings, ALLOWED_SETTINGS, Ack, TypeOK, Positions
<1>1. ASSUME NEW r \in Reqs, Authorize(r) PROVE Positions'
  BY RequestFields, <1>1 DEF Authorize, Admitted, IsAdmin, IsActive
<1>2. ASSUME NEW r \in Reqs, Logout(r) PROVE Positions'
  BY RequestFields, <1>2 DEF Logout, IsActive
<1>3. ASSUME NEW r \in Reqs, CheckPassword(r) PROVE Positions'
  BY RequestFields, <1>3 DEF CheckPassword
<1>4. ASSUME NEW r \in Reqs, CountUsers(r) PROVE Positions'
  BY RequestFields, <1>4 DEF CountUsers, NoUsersYet, Race
<1>5. ASSUME NEW r \in Reqs, CheckName(r) PROVE Positions'
  BY RequestFields, <1>5 DEF CheckName
<1>6. ASSUME NEW r \in Reqs, InsertUser(r) PROVE Positions'
  BY RequestFields, <1>6 DEF InsertUser, NewUser, User, NoUser
<1>7. ASSUME NEW r \in Reqs, ReadRow(r) PROVE Positions'
  BY RequestFields, <1>7 DEF ReadRow, Race
<1>8. ASSUME NEW r \in Reqs, WriteRow(r) PROVE Positions'
  <2>1. /\ pc[r] = "write" /\ users[req[r].name] # NoUser /\ req[r].name \in Names
        /\ users' = [users EXCEPT ![req[r].name] = Update(@, r)]
    BY RequestFields, <1>8 DEF WriteRow, Positions
  <2>2. \A n \in Names :
          \/ users'[n] = users[n]
          \/ /\ users[n] # NoUser
             /\ users'[n] \in User /\ users'[n] # NoUser /\ users'[n].by = users[n].by
    BY <2>1, UpdatedUser, NoUserIsNone
  <2> QED BY <2>1, <2>2, RequestFields, <1>8 DEF WriteRow
<1>9. ASSUME NEW r \in Reqs, BeginSettings(r) PROVE Positions'
  BY RequestFields, <1>9 DEF BeginSettings
<1>10. ASSUME NEW r \in Reqs, BeginAck(r) PROVE Positions'
  BY RequestFields, <1>10 DEF BeginAck
<1>11. ASSUME NEW r \in Reqs, MergeSetting(r) PROVE Positions'
  BY RequestFields, <1>11 DEF MergeSetting
<1>12. ASSUME NEW r \in Reqs, StoreSetting(r) PROVE Positions'
  BY RequestFields, <1>12 DEF StoreSetting, AfterSettings
<1>13. ASSUME NEW r \in Reqs, WriteAckFile(r) PROVE Positions'
  BY RequestFields, <1>13 DEF WriteAckFile
<1>14. ASSUME NEW r \in Reqs, AuditRow(r) PROVE Positions'
  BY RequestFields, <1>14 DEF AuditRow, GiveToken
<1>15. ASSUME NEW r \in Reqs, AuditFails(r) PROVE Positions'
  BY RequestFields, <1>15 DEF AuditFails, Fault, GiveToken
<1>16. ASSUME NEW r \in Reqs, RequestFails(r) PROVE Positions'
  BY RequestFields, <1>16 DEF RequestFails, Fault
<1>17. CASE UNCHANGED vars
  BY RequestFields, <1>17 DEF vars
<1> QED BY <1>1, <1>2, <1>3, <1>4, <1>5, <1>6, <1>7, <1>8, <1>9, <1>10, <1>11,
     <1>12, <1>13, <1>14, <1>15, <1>16, <1>17 DEF Next, Step

\* Nobody takes the acknowledgement back.
LEMMA AckStays == AccountsInv /\ [Next]_vars => AckedFirst'
<1> SUFFICES ASSUME AccountsInv, [Next]_vars PROVE AckedFirst'
  OBVIOUS
<1> USE DEF AccountsInv, Goto, localVars, OnUser, OnSettings, Founding, Pc, End,
    Settings, ALLOWED_SETTINGS, Ack, TypeOK, AckedFirst, Passed
<1>1. ASSUME NEW r \in Reqs, Authorize(r) PROVE AckedFirst'
  BY RequestFields, <1>1 DEF Authorize, Admitted, IsAdmin, IsActive
<1>2. ASSUME NEW r \in Reqs, Logout(r) PROVE AckedFirst'
  BY RequestFields, <1>2 DEF Logout, IsActive
<1>3. ASSUME NEW r \in Reqs, CheckPassword(r) PROVE AckedFirst'
  BY RequestFields, <1>3 DEF CheckPassword
<1>4. ASSUME NEW r \in Reqs, CountUsers(r) PROVE AckedFirst'
  BY RequestFields, <1>4 DEF CountUsers, NoUsersYet, Race
<1>5. ASSUME NEW r \in Reqs, CheckName(r) PROVE AckedFirst'
  BY RequestFields, <1>5 DEF CheckName
<1>6. ASSUME NEW r \in Reqs, InsertUser(r) PROVE AckedFirst'
  BY RequestFields, <1>6 DEF InsertUser, NewUser
<1>7. ASSUME NEW r \in Reqs, ReadRow(r) PROVE AckedFirst'
  BY RequestFields, <1>7 DEF ReadRow, Race
<1>8. ASSUME NEW r \in Reqs, WriteRow(r) PROVE AckedFirst'
  BY RequestFields, <1>8 DEF WriteRow
<1>9. ASSUME NEW r \in Reqs, BeginSettings(r) PROVE AckedFirst'
  BY RequestFields, <1>9 DEF BeginSettings
<1>10. ASSUME NEW r \in Reqs, BeginAck(r) PROVE AckedFirst'
  BY RequestFields, <1>10 DEF BeginAck
<1>11. ASSUME NEW r \in Reqs, MergeSetting(r) PROVE AckedFirst'
  BY RequestFields, <1>11 DEF MergeSetting
<1>12. ASSUME NEW r \in Reqs, StoreSetting(r) PROVE AckedFirst'
  BY RequestFields, <1>12, NoneAssumption DEF StoreSetting, AfterSettings, Positions
<1>13. ASSUME NEW r \in Reqs, WriteAckFile(r) PROVE AckedFirst'
  BY RequestFields, <1>13 DEF WriteAckFile
<1>14. ASSUME NEW r \in Reqs, AuditRow(r) PROVE AckedFirst'
  BY RequestFields, <1>14 DEF AuditRow, GiveToken
<1>15. ASSUME NEW r \in Reqs, AuditFails(r) PROVE AckedFirst'
  BY RequestFields, <1>15 DEF AuditFails, Fault, GiveToken
<1>16. ASSUME NEW r \in Reqs, RequestFails(r) PROVE AckedFirst'
  BY RequestFields, <1>16 DEF RequestFails, Fault
<1>17. CASE UNCHANGED vars
  BY RequestFields, <1>17 DEF vars
<1> QED BY <1>1, <1>2, <1>3, <1>4, <1>5, <1>6, <1>7, <1>8, <1>9, <1>10, <1>11,
     <1>12, <1>13, <1>14, <1>15, <1>16, <1>17 DEF Next, Step

\* Who counts no users is alone with that, or raced.
LEMMA FoundedStays == AccountsInv /\ [Next]_vars => FoundedOnce'
<1> SUFFICES ASSUME AccountsInv, [Next]_vars PROVE FoundedOnce'
  OBVIOUS
<1> USE DEF AccountsInv, Goto, localVars, OnUser, OnSettings, Founding, Pc, End,
    Settings, ALLOWED_SETTINGS, Ack, TypeOK, FoundedOnce, OneFounder
<1>1. ASSUME NEW r \in Reqs, Authorize(r) PROVE FoundedOnce'
  <2>1. \A q \in Reqs : pc'[q] = "insert" => pc[q] = "insert"
    BY <1>1 DEF Authorize
  <2> QED BY <2>1, <1>1 DEF Authorize
<1>2. ASSUME NEW r \in Reqs, Logout(r) PROVE FoundedOnce'
  BY RequestFields, NoneAssumption, <1>2 DEF Logout, IsActive
<1>3. ASSUME NEW r \in Reqs, CheckPassword(r) PROVE FoundedOnce'
  BY RequestFields, NoneAssumption, <1>3 DEF CheckPassword
<1>4. ASSUME NEW r \in Reqs, CountUsers(r) PROVE FoundedOnce'
  BY RequestFields, NoneAssumption, <1>4 DEF CountUsers, NoUsersYet, Race, NoUser
<1>5. ASSUME NEW r \in Reqs, CheckName(r) PROVE FoundedOnce'
  BY RequestFields, NoneAssumption, <1>5 DEF CheckName
<1>6. ASSUME NEW r \in Reqs, InsertUser(r) PROVE FoundedOnce'
  <2>1. CASE users[req[r].name] # NoUser
    BY <2>1, RequestFields, <1>6 DEF InsertUser
  <2>2. CASE users[req[r].name] = NoUser
    <3> DEFINE n == req[r].name
    <3>1. /\ n \in Names /\ users' = [users EXCEPT ![n] = NewUser(r)]
          /\ req' = req /\ raced' = raced /\ pc[r] = "insert"
          /\ \A q \in Reqs : pc'[q] = "insert" => q # r /\ pc[q] = "insert"
      BY <2>2, RequestFields, <1>6 DEF InsertUser, Positions
    <3>2. users'[n].by = r /\ \A m \in Names \ {n} : users'[m] = users[m]
      BY <3>1 DEF NewUser
    <3>3. CASE ~Founding(r)
      BY <3>1, <3>2, <3>3
    <3>4. CASE Founding(r)
      BY <3>1, <3>2, <3>4
    <3> QED BY <3>3, <3>4
  <2> QED BY <2>1, <2>2
<1>7. ASSUME NEW r \in Reqs, ReadRow(r) PROVE FoundedOnce'
  BY RequestFields, NoneAssumption, <1>7 DEF ReadRow, Race
<1>8. ASSUME NEW r \in Reqs, WriteRow(r) PROVE FoundedOnce'
  <2>1. /\ pc[r] = "write" /\ users[req[r].name] # NoUser /\ req[r].name \in Names
        /\ users' = [users EXCEPT ![req[r].name] = Update(@, r)]
    BY RequestFields, <1>8 DEF WriteRow, Positions
  <2>2. \A n \in Names :
          \/ users'[n] = users[n]
          \/ /\ users[n] # NoUser
             /\ users'[n] \in User /\ users'[n] # NoUser /\ users'[n].by = users[n].by
    BY <2>1, UpdatedUser, NoUserIsNone
  <2> QED BY <2>1, <2>2, RequestFields, <1>8 DEF WriteRow
<1>9. ASSUME NEW r \in Reqs, BeginSettings(r) PROVE FoundedOnce'
  BY RequestFields, NoneAssumption, <1>9 DEF BeginSettings
<1>10. ASSUME NEW r \in Reqs, BeginAck(r) PROVE FoundedOnce'
  BY RequestFields, NoneAssumption, <1>10 DEF BeginAck
<1>11. ASSUME NEW r \in Reqs, MergeSetting(r) PROVE FoundedOnce'
  BY RequestFields, NoneAssumption, <1>11 DEF MergeSetting
<1>12. ASSUME NEW r \in Reqs, StoreSetting(r) PROVE FoundedOnce'
  BY RequestFields, NoneAssumption, <1>12 DEF StoreSetting, AfterSettings
<1>13. ASSUME NEW r \in Reqs, WriteAckFile(r) PROVE FoundedOnce'
  BY RequestFields, NoneAssumption, <1>13 DEF WriteAckFile
<1>14. ASSUME NEW r \in Reqs, AuditRow(r) PROVE FoundedOnce'
  BY RequestFields, NoneAssumption, <1>14 DEF AuditRow, GiveToken
<1>15. ASSUME NEW r \in Reqs, AuditFails(r) PROVE FoundedOnce'
  BY RequestFields, NoneAssumption, <1>15 DEF AuditFails, Fault, GiveToken
<1>16. ASSUME NEW r \in Reqs, RequestFails(r) PROVE FoundedOnce'
  BY RequestFields, NoneAssumption, <1>16 DEF RequestFails, Fault
<1>17. CASE UNCHANGED vars
  BY RequestFields, NoneAssumption, <1>17 DEF vars
<1> QED BY <1>1, <1>2, <1>3, <1>4, <1>5, <1>6, <1>7, <1>8, <1>9, <1>10, <1>11,
     <1>12, <1>13, <1>14, <1>15, <1>16, <1>17 DEF Next, Step

-----------------------------------------------------------------------------
LEMMA AccountsInvariance == Spec => []AccountsInv
<1>1. AccountsInv /\ [Next]_vars => AccountsInv'
  BY TypesStay, PositionsStay, AckStays, FoundedStays DEF AccountsInv
<1> QED BY AccountsStart, <1>1, PTL DEF Spec

\* The variables of Accounts keep their types; in particular a column of a user's row
\* is always one that the endpoints check for.
THEOREM AccountsTypeCorrect == Spec => []TypeOK
<1>1. AccountsInv => TypeOK
  BY DEF AccountsInv
<1> QED BY AccountsInvariance, <1>1, PTL

\* Bootstrap requests and starting processes, however many, make at most one account,
\* unless two of them count the users before either inserts.
THEOREM OneFirstAdmin == Spec => []OneFounder
<1>1. AccountsInv => OneFounder
  BY DEF AccountsInv, FoundedOnce, OneFounder
<1> QED BY AccountsInvariance, <1>1, PTL

\* Before the acknowledgement the admin API changes nothing, because who has passed
\* its checks has seen the acknowledgement, and it is still there.
THEOREM AcknowledgedFirst == Spec => NothingBeforeAck
<1> DEFINE Unchanged ==
      /\ \A n \in Names : users[n] # NoUser => users'[n] = users[n]
      /\ \A k \in ALLOWED_SETTINGS : settings'[k] = settings[k]
<1>1. ASSUME AccountsInv, [Next]_vars, settings[Ack] = None PROVE Unchanged
  <2> USE DEF AccountsInv, TypeOK
  <2>1. \A r \in Reqs : ~Passed(r)
    BY <1>1 DEF AckedFirst
  <2>2. CASE UNCHANGED <<users, settings>>
    BY <2>2
  <2>3. ASSUME NEW r \in Reqs, InsertUser(r) PROVE Unchanged
    BY <1>1, <2>3 DEF InsertUser
  <2>4. ASSUME NEW r \in Reqs, WriteRow(r) PROVE Unchanged
    BY <1>1, <2>1, <2>4 DEF WriteRow, Positions, Passed, OnUser, End
  <2>5. ASSUME NEW r \in Reqs, StoreSetting(r) PROVE Unchanged
    <3>1. ~OnSettings(r) /\ pc[r] = "store"
      BY <1>1, <2>1, <2>5 DEF StoreSetting, Passed, End
    <3>2. found[r].key = Ack
      BY <3>1, <1>1, RequestFields DEF Positions
    <3> QED BY <1>1, <3>2, <2>5 DEF StoreSetting, Settings, Ack, ALLOWED_SETTINGS
  <2> QED
    BY <1>1, <2>2, <2>3, <2>4, <2>5
    DEF Next, Step, vars, localVars, Authorize, Logout, CheckPassword, CountUsers,
        CheckName, ReadRow, BeginSettings, BeginAck, MergeSetting, WriteAckFile, AuditRow,
        AuditFails, RequestFails
<1>2. AccountsInv /\ [Next]_vars => [settings[Ack] = None => Unchanged]_vars
  BY <1>1
<1> QED BY AccountsInvariance, <1>2, PTL DEF Spec, NothingBeforeAck

\* An invariant and the state of being locked out.
LockedInv == AccountsInv /\ LockedOut

\* Where there are users and no admin, nobody gets past the checks.
LEMMA LockoutStays == LockedInv /\ [Next]_vars => LockedOut'
<1> SUFFICES ASSUME LockedInv, [Next]_vars PROVE LockedOut'
  OBVIOUS
<1> USE DEF AccountsInv, Goto, localVars, OnUser, OnSettings, Founding, Pc, End,
    Settings, ALLOWED_SETTINGS, Ack, TypeOK, LockedOut, IsAdmin, IsActive, LockedInv
<1>1. ASSUME NEW r \in Reqs, Authorize(r) PROVE LockedOut'
  BY RequestFields, <1>1 DEF Authorize, Admitted, IsAdmin, IsActive
<1>2. ASSUME NEW r \in Reqs, Logout(r) PROVE LockedOut'
  BY RequestFields, <1>2 DEF Logout, IsActive
<1>3. ASSUME NEW r \in Reqs, CheckPassword(r) PROVE LockedOut'
  BY RequestFields, <1>3 DEF CheckPassword
<1>4. ASSUME NEW r \in Reqs, CountUsers(r) PROVE LockedOut'
  BY RequestFields, <1>4 DEF CountUsers, NoUsersYet, Race
<1>5. ASSUME NEW r \in Reqs, CheckName(r) PROVE LockedOut'
  BY RequestFields, <1>5 DEF CheckName
<1>6. ASSUME NEW r \in Reqs, InsertUser(r) PROVE LockedOut'
  BY RequestFields, <1>6 DEF InsertUser, NewUser, Positions
<1>7. ASSUME NEW r \in Reqs, ReadRow(r) PROVE LockedOut'
  BY RequestFields, <1>7 DEF ReadRow, Race
<1>8. ASSUME NEW r \in Reqs, WriteRow(r) PROVE LockedOut'
  BY RequestFields, <1>8 DEF WriteRow, Positions
<1>9. ASSUME NEW r \in Reqs, BeginSettings(r) PROVE LockedOut'
  BY RequestFields, <1>9 DEF BeginSettings, Positions
<1>10. ASSUME NEW r \in Reqs, BeginAck(r) PROVE LockedOut'
  BY RequestFields, <1>10 DEF BeginAck
<1>11. ASSUME NEW r \in Reqs, MergeSetting(r) PROVE LockedOut'
  BY RequestFields, <1>11 DEF MergeSetting
<1>12. ASSUME NEW r \in Reqs, StoreSetting(r) PROVE LockedOut'
  BY RequestFields, <1>12 DEF StoreSetting, AfterSettings, Positions
<1>13. ASSUME NEW r \in Reqs, WriteAckFile(r) PROVE LockedOut'
  BY RequestFields, <1>13 DEF WriteAckFile
<1>14. ASSUME NEW r \in Reqs, AuditRow(r) PROVE LockedOut'
  BY RequestFields, <1>14 DEF AuditRow, GiveToken
<1>15. ASSUME NEW r \in Reqs, AuditFails(r) PROVE LockedOut'
  BY RequestFields, <1>15 DEF AuditFails, Fault, GiveToken
<1>16. ASSUME NEW r \in Reqs, RequestFails(r) PROVE LockedOut'
  BY RequestFields, <1>16 DEF RequestFails, Fault
<1>17. CASE UNCHANGED vars
  BY RequestFields, <1>17 DEF vars
<1> QED BY <1>1, <1>2, <1>3, <1>4, <1>5, <1>6, <1>7, <1>8, <1>9, <1>10, <1>11,
     <1>12, <1>13, <1>14, <1>15, <1>16, <1>17 DEF Next, Step

\* Nothing under the program's control makes an admin where there is none: not the
\* bootstrap, not a restart, not a request that is still on its way.
THEOREM LockedOutForGood == Spec => LockoutIsPermanent
<1>1. AccountsInv /\ [Next]_vars => [LockedOut => LockedOut']_vars
  BY LockoutStays DEF LockedInv
<1> QED BY AccountsInvariance, <1>1, PTL DEF Spec, LockoutIsPermanent
-----------------------------------------------------------------------------
\* An entry of the audit log is of a handler that is done.
AuditedIsDone == \A i \in 1..Len(audit) : audit[i] \in Reqs /\ pc[audit[i]] = "done"

\* Who changes a user has read its row, and the row is still there; who audits
\* settings has set them all.
RowsWereRead ==
  /\ \A r \in Reqs :
       /\ row[r] # NoUser /\ OnUser(r) => users[req[r].name] # NoUser
       /\ req[r].cmd = "update_user" /\ pc[r] = "audit" => row[r] # NoUser
       /\ OnSettings(r) /\ pc[r] = "audit" => keys[r] = {}
  /\ \A i \in 1..Len(audit) :
       req[audit[i]].cmd = "update_user" => row[audit[i]] # NoUser

\* What the audit log says of a column of a user, and what the one who is changing
\* the user started from.
ColumnTold(n, f) ==
  /\ \A i, j \in Changes(n, f) :
       Latest(i, Changes(n, f) \cap 1..(j - 1)) =>
         row[audit[j]][f] = req[audit[i]].body[f]
  /\ \A i \in Changes(n, f) :
       Latest(i, Changes(n, f)) =>
         /\ Changing(n) = {} => users[n][f] = req[audit[i]].body[f]
         /\ \A r \in Changing(n) : row[r][f] = req[audit[i]].body[f]

\* Alone, a change finds the row as it was read and leaves it as was asked.
Undisturbed(n) ==
  /\ \A q, r \in Changing(n) : q = r
  /\ \A r \in Changing(n) :
       /\ pc[r] = "write" => row[r] = users[n]
       /\ pc[r] = "audit" =>
            \A f \in Fields :
              users[n][f] = IF f \in Changed(r) THEN req[r].body[f] ELSE row[r][f]

UsersTold ==
  faults = 0 =>
    \A n \in Names \ raced : Undisturbed(n) /\ \A f \in Fields : ColumnTold(n, f)

\* A request that sets a key alone finds it as it has left it.
KeyTold(k) ==
  /\ \A q, r \in Setting(k) : q = r
  /\ \A r \in Setting(k) : k \notin keys[r] => settings[k] = req[r].values[k]
  /\ Setting(k) = {} /\ ~HalfSet(k) =>
       \A i \in SetAudited(k) :
         Latest(i, SetAudited(k)) => settings[k] = req[audit[i]].values[k]

SettingsTold == faults = 0 => \A k \in ALLOWED_SETTINGS \ raced : KeyTold(k)

AuditInv == AuditedIsDone /\ RowsWereRead /\ UsersTold /\ SettingsTold

LEMMA AuditStart == Init => AuditInv
<1> SUFFICES ASSUME Init PROVE AuditInv
  OBVIOUS
<1>1. 1..Len(audit) = {}
  BY EmptySeq DEF Init
<1>2. pc = [r \in Reqs |-> "new"] /\ row = [r \in Reqs |-> NoUser]
  BY DEF Init
<1>3. AuditedIsDone /\ RowsWereRead
  BY <1>1, <1>2 DEF AuditedIsDone, RowsWereRead
<1>4. \A n, f : Changing(n) = {} /\ Changes(n, f) = {}
  BY <1>1, <1>2 DEF Changing, Changes
<1>5. \A k : Setting(k) = {} /\ SetAudited(k) = {}
  BY <1>1, <1>2 DEF Setting, SetAudited
<1> QED
  BY <1>3, <1>4, <1>5 DEF AuditInv, UsersTold, Undisturbed, ColumnTold, SettingsTold, KeyTold

\* Every step keeps requests, and what was raced or has failed.
LEMMA Lasting ==
  ASSUME TypeOK, [Next]_vars
  PROVE  /\ req' = req /\ raced \subseteq raced' /\ (faults' = 0 => faults = 0)
         /\ \A r \in Reqs : pc[r] \in End => pc'[r] = pc[r]
         /\ faults' = 0 \/ faults' = faults \/ faults' \in Nat \ {0}
<1> DEFINE Goal ==
      /\ req' = req /\ raced \subseteq raced' /\ (faults' = 0 => faults = 0)
      /\ \A r \in Reqs : pc[r] \in End => pc'[r] = pc[r]
      /\ faults' = 0 \/ faults' = faults \/ faults' \in Nat \ {0}
<1>0. pc \in [Reqs -> Pc] /\ faults \in 0..MaxFaults
  BY DEF TypeOK
<1> USE DEF Goto, Race, End
<1>1. ASSUME NEW r \in Reqs, Authorize(r) PROVE Goal
  BY <1>1, <1>0, MaxFaultsAssumption DEF Authorize
<1>2. ASSUME NEW r \in Reqs, Logout(r) PROVE Goal
  BY <1>2, <1>0, MaxFaultsAssumption DEF Logout
<1>3. ASSUME NEW r \in Reqs, CheckPassword(r) PROVE Goal
  BY <1>3, <1>0, MaxFaultsAssumption DEF CheckPassword
<1>4. ASSUME NEW r \in Reqs, CountUsers(r) PROVE Goal
  BY <1>4, <1>0, MaxFaultsAssumption DEF CountUsers
<1>5. ASSUME NEW r \in Reqs, CheckName(r) PROVE Goal
  BY <1>5, <1>0, MaxFaultsAssumption DEF CheckName
<1>6. ASSUME NEW r \in Reqs, InsertUser(r) PROVE Goal
  BY <1>6, <1>0, MaxFaultsAssumption DEF InsertUser
<1>7. ASSUME NEW r \in Reqs, ReadRow(r) PROVE Goal
  BY <1>7, <1>0, MaxFaultsAssumption DEF ReadRow
<1>8. ASSUME NEW r \in Reqs, WriteRow(r) PROVE Goal
  BY <1>8, <1>0, MaxFaultsAssumption DEF WriteRow
<1>9. ASSUME NEW r \in Reqs, BeginSettings(r) PROVE Goal
  BY <1>9, <1>0, MaxFaultsAssumption DEF BeginSettings
<1>10. ASSUME NEW r \in Reqs, BeginAck(r) PROVE Goal
  BY <1>10, <1>0, MaxFaultsAssumption DEF BeginAck
<1>11. ASSUME NEW r \in Reqs, MergeSetting(r) PROVE Goal
  BY <1>11, <1>0, MaxFaultsAssumption DEF MergeSetting
<1>12. ASSUME NEW r \in Reqs, StoreSetting(r) PROVE Goal
  BY <1>12, <1>0, MaxFaultsAssumption DEF StoreSetting
<1>13. ASSUME NEW r \in Reqs, WriteAckFile(r) PROVE Goal
  BY <1>13, <1>0, MaxFaultsAssumption DEF WriteAckFile
<1>14. ASSUME NEW r \in Reqs, AuditRow(r) PROVE Goal
  BY <1>14, <1>0, MaxFaultsAssumption DEF AuditRow
<1>15. ASSUME NEW r \in Reqs, AuditFails(r) PROVE Goal
  BY <1>15, <1>0, MaxFaultsAssumption DEF AuditFails, Fault
<1>16. ASSUME NEW r \in Reqs, RequestFails(r) PROVE Goal
  BY <1>16, <1>0, MaxFaultsAssumption DEF RequestFails, Fault
<1>17. CASE UNCHANGED vars
  BY <1>17, <1>0, MaxFaultsAssumption DEF vars
<1> QED BY <1>1, <1>2, <1>3, <1>4, <1>5, <1>6, <1>7, <1>8, <1>9, <1>10, <1>11,
     <1>12, <1>13, <1>14, <1>15, <1>16, <1>17 DEF Next, Step

\* The log grows by one entry, or stays.
LEMMA Appended ==
  ASSUME audit \in Seq(Reqs), NEW r \in Reqs, audit' = Append(audit, r)
  PROVE  /\ Len(audit) \in Nat /\ Len(audit') = Len(audit) + 1
         /\ audit'[Len(audit) + 1] = r
         /\ \A i \in 1..Len(audit) : audit'[i] = audit[i] /\ i # Len(audit) + 1
         /\ 1..Len(audit') = 1..Len(audit) \cup {Len(audit) + 1}
<1>1. Len(audit) \in Nat
  BY LenProperties
<1>2. Len(audit') = Len(audit) + 1
  BY AppendProperties
<1>3. \A i \in 1..Len(audit) : audit'[i] = audit[i]
  BY AppendProperties
<1>4. audit'[Len(audit) + 1] = r
  BY AppendProperties
<1> QED BY <1>1, <1>2, <1>3, <1>4

LEMMA AuditedIsDoneKept == AccountsInv /\ AuditInv /\ [Next]_vars => AuditedIsDone'
<1> SUFFICES ASSUME AccountsInv, AuditInv, [Next]_vars PROVE AuditedIsDone'
  OBVIOUS
<1>0. TypeOK /\ AuditedIsDone
  BY DEF AccountsInv, AuditInv
<1>1. \A r \in Reqs : pc[r] = "done" => pc'[r] = "done"
  BY <1>0, Lasting DEF End
<1>2. CASE audit' = audit
  BY <1>0, <1>1, <1>2 DEF AuditedIsDone
<1>3. ASSUME NEW r \in Reqs, AuditRow(r) PROVE AuditedIsDone'
  <2>1. audit' = Append(audit, r) /\ pc'[r] = "done"
    BY <1>0, <1>3 DEF AuditRow, Goto, TypeOK
  <2> QED BY <1>0, <1>1, <2>1, Appended DEF AuditedIsDone, TypeOK
<1> QED
  BY <1>2, <1>3
  DEF Next, Step, vars, Authorize, Logout, CheckPassword, CountUsers, CheckName,
      InsertUser, ReadRow, WriteRow, BeginSettings, BeginAck, MergeSetting, StoreSetting,
      WriteAckFile, AuditFails, RequestFails


\* Rows are read by handlers that were allowed, and nobody deletes a user.
LEMMA RowsAreRead ==
  ASSUME AccountsInv, [Next]_vars
  PROVE  /\ \A n \in Names : users[n] # NoUser => users'[n] # NoUser
         /\ \A q \in Reqs :
              \/ row'[q] = row[q]
              \/ /\ pc[q] = "allowed" /\ OnUser(q)
                 /\ row'[q] = users[req[q].name]
<1> DEFINE Goal ==
      /\ \A n \in Names : users[n] # NoUser => users'[n] # NoUser
      /\ \A q \in Reqs :
           \/ row'[q] = row[q]
           \/ /\ pc[q] = "allowed" /\ OnUser(q)
              /\ row'[q] = users[req[q].name]
<1> USE DEF AccountsInv, Goto, localVars, TypeOK
<1>1. ASSUME NEW r \in Reqs, Authorize(r) PROVE Goal
  BY <1>1 DEF Authorize
<1>2. ASSUME NEW r \in Reqs, Logout(r) PROVE Goal
  BY <1>2 DEF Logout
<1>3. ASSUME NEW r \in Reqs, CheckPassword(r) PROVE Goal
  BY <1>3 DEF CheckPassword
<1>4. ASSUME NEW r \in Reqs, CountUsers(r) PROVE Goal
  BY <1>4 DEF CountUsers
<1>5. ASSUME NEW r \in Reqs, CheckName(r) PROVE Goal
  BY <1>5 DEF CheckName
<1>6. ASSUME NEW r \in Reqs, InsertUser(r) PROVE Goal
  BY <1>6 DEF InsertUser
<1>7. ASSUME NEW r \in Reqs, ReadRow(r) PROVE Goal
  BY <1>7 DEF ReadRow, OnUser
<1>8. ASSUME NEW r \in Reqs, WriteRow(r) PROVE Goal
  <2>1. /\ pc[r] = "write" /\ users[req[r].name] # NoUser /\ req[r].name \in Names
        /\ users' = [users EXCEPT ![req[r].name] = Update(@, r)] /\ row' = row
    BY RequestFields, <1>8 DEF WriteRow, Positions, OnUser
  <2>2. \A n \in Names : users'[n] = users[n] \/ users'[n] # NoUser
    BY <2>1, UpdatedUser, NoUserIsNone
  <2> QED BY <2>1, <2>2
<1>9. ASSUME NEW r \in Reqs, BeginSettings(r) PROVE Goal
  BY <1>9 DEF BeginSettings
<1>10. ASSUME NEW r \in Reqs, BeginAck(r) PROVE Goal
  BY <1>10 DEF BeginAck
<1>11. ASSUME NEW r \in Reqs, MergeSetting(r) PROVE Goal
  BY <1>11 DEF MergeSetting
<1>12. ASSUME NEW r \in Reqs, StoreSetting(r) PROVE Goal
  BY <1>12 DEF StoreSetting
<1>13. ASSUME NEW r \in Reqs, WriteAckFile(r) PROVE Goal
  BY <1>13 DEF WriteAckFile
<1>14. ASSUME NEW r \in Reqs, AuditRow(r) PROVE Goal
  BY <1>14 DEF AuditRow
<1>15. ASSUME NEW r \in Reqs, AuditFails(r) PROVE Goal
  BY <1>15 DEF AuditFails
<1>16. ASSUME NEW r \in Reqs, RequestFails(r) PROVE Goal
  BY <1>16 DEF RequestFails
<1>17. CASE UNCHANGED vars
  BY <1>17 DEF vars
<1> QED BY <1>1, <1>2, <1>3, <1>4, <1>5, <1>6, <1>7, <1>8, <1>9, <1>10, <1>11,
     <1>12, <1>13, <1>14, <1>15, <1>16, <1>17 DEF Next, Step

\* Who comes to audit a change of a user had its row; who comes to audit settings has
\* none left to set.
LEMMA ReadyToAudit ==
  ASSUME AccountsInv, [Next]_vars, RowsWereRead
  PROVE  \A q \in Reqs : pc'[q] = "audit" =>
           /\ req[q].cmd = "update_user" => pc[q] \in {"write", "audit"}
           /\ OnSettings(q) => keys'[q] = {}
<1> DEFINE Goal ==
      \A q \in Reqs : pc'[q] = "audit" =>
        /\ req[q].cmd = "update_user" => pc[q] \in {"write", "audit"}
        /\ OnSettings(q) => keys'[q] = {}
<1> USE DEF AccountsInv, Goto, localVars, TypeOK, RowsWereRead, OnSettings
<1>1. ASSUME NEW r \in Reqs, Authorize(r) PROVE Goal
  BY <1>1 DEF Authorize, OnUser
<1>2. ASSUME NEW r \in Reqs, Logout(r) PROVE Goal
  BY <1>2 DEF Logout
<1>3. ASSUME NEW r \in Reqs, CheckPassword(r) PROVE Goal
  BY <1>3 DEF CheckPassword
<1>4. ASSUME NEW r \in Reqs, CountUsers(r) PROVE Goal
  BY <1>4 DEF CountUsers
<1>5. ASSUME NEW r \in Reqs, CheckName(r) PROVE Goal
  BY <1>5 DEF CheckName
<1>6. ASSUME NEW r \in Reqs, InsertUser(r) PROVE Goal
  BY <1>6 DEF InsertUser, Founding, Positions
<1>7. ASSUME NEW r \in Reqs, ReadRow(r) PROVE Goal
  BY <1>7 DEF ReadRow
<1>8. ASSUME NEW r \in Reqs, WriteRow(r) PROVE Goal
  BY <1>8 DEF WriteRow, Positions
<1>9. ASSUME NEW r \in Reqs, BeginSettings(r) PROVE Goal
  BY <1>9 DEF BeginSettings
<1>10. ASSUME NEW r \in Reqs, BeginAck(r) PROVE Goal
  BY <1>10 DEF BeginAck
<1>11. ASSUME NEW r \in Reqs, MergeSetting(r) PROVE Goal
  BY <1>11 DEF MergeSetting
<1>12. ASSUME NEW r \in Reqs, StoreSetting(r) PROVE Goal
  BY <1>12 DEF StoreSetting, AfterSettings, Positions
<1>13. ASSUME NEW r \in Reqs, WriteAckFile(r) PROVE Goal
  BY <1>13 DEF WriteAckFile
<1>14. ASSUME NEW r \in Reqs, AuditRow(r) PROVE Goal
  BY <1>14 DEF AuditRow
<1>15. ASSUME NEW r \in Reqs, AuditFails(r) PROVE Goal
  BY <1>15 DEF AuditFails, Fault
<1>16. ASSUME NEW r \in Reqs, RequestFails(r) PROVE Goal
  BY <1>16 DEF RequestFails, Fault, End
<1>17. CASE UNCHANGED vars
  BY <1>17 DEF vars
<1> QED BY <1>1, <1>2, <1>3, <1>4, <1>5, <1>6, <1>7, <1>8, <1>9, <1>10, <1>11,
     <1>12, <1>13, <1>14, <1>15, <1>16, <1>17 DEF Next, Step

LEMMA RowsWereReadKept == AccountsInv /\ AuditInv /\ [Next]_vars => RowsWereRead'
<1> SUFFICES ASSUME AccountsInv, AuditInv, [Next]_vars PROVE RowsWereRead'
  OBVIOUS
<1>0. TypeOK /\ AuditedIsDone /\ RowsWereRead /\ Positions /\ req' = req
  BY Lasting DEF AccountsInv, AuditInv
<1>1. /\ \A r \in Reqs : pc[r] = "audit" \/ pc[r] = "write" \/ pc[r] = "done" => row'[r] = row[r]
      /\ \A r \in Reqs :
           row'[r] # NoUser /\ OnUser(r) =>
             row[r] # NoUser \/ users[req[r].name] # NoUser
  BY RowsAreRead
<1>2. \A r \in Reqs : row'[r] # NoUser /\ OnUser(r) => users'[req[r].name] # NoUser
  BY <1>0, <1>1, RowsAreRead, RequestFields DEF RowsWereRead, TypeOK
<1>3. \A r \in Reqs :
        pc'[r] = "audit" =>
          /\ req[r].cmd = "update_user" => row'[r] # NoUser
          /\ OnSettings(r) => keys'[r] = {}
  BY <1>0, <1>1, ReadyToAudit DEF RowsWereRead, TypeOK
<1>4. \A i \in 1..Len(audit) :
        req[audit[i]].cmd = "update_user" => row'[audit[i]] # NoUser
  BY <1>0, <1>1 DEF RowsWereRead, AuditedIsDone
<1>5. \A i \in 1..Len(audit') :
        req[audit'[i]].cmd = "update_user" => row'[audit'[i]] # NoUser
  <2>1. CASE audit' = audit
    BY <1>4, <2>1
  <2>2. ASSUME NEW r \in Reqs, AuditRow(r)
        PROVE  \A i \in 1..Len(audit') :
                 req[audit'[i]].cmd = "update_user" => row'[audit'[i]] # NoUser
    <3>1. audit' = Append(audit, r) /\ pc[r] = "audit" /\ row' = row
      BY <2>2 DEF AuditRow, Goto, localVars
    <3>2. req[r].cmd = "update_user" => row'[r] # NoUser
      BY <1>0, <3>1 DEF RowsWereRead
    <3> QED BY <1>0, <1>4, <3>1, <3>2, Appended DEF TypeOK
  <2> QED
    BY <2>1, <2>2
    DEF Next, Step, vars, Authorize, Logout, CheckPassword, CountUsers, CheckName,
        InsertUser, ReadRow, WriteRow, BeginSettings, BeginAck, MergeSetting, StoreSetting,
        WriteAckFile, AuditFails, RequestFails
<1> QED
  BY <1>0, <1>2, <1>3, <1>5 DEF RowsWereRead, OnUser, OnSettings

-----------------------------------------------------------------------------
\* What an appended request adds to the places.
LEMMA NewPlace ==
  ASSUME audit \in Seq(Reqs), NEW r \in Reqs, audit' = Append(audit, r), req' = req, row' = row,
         NEW n, NEW f
  PROVE  Changes(n, f)' = Changes(n, f) \cup
           {i \in {Len(audit) + 1} :
              req[r].cmd = "update_user" /\ req[r].name = n /\ f \in Changed(r)}
<1>1. /\ audit'[Len(audit) + 1] = r
      /\ \A i \in 1..Len(audit) : audit'[i] = audit[i]
      /\ 1..Len(audit') = 1..Len(audit) \cup {Len(audit) + 1}
  BY Appended
<1> QED BY <1>1 DEF Changes, Changed

LEMMA NewSetPlace ==
  ASSUME audit \in Seq(Reqs), NEW r \in Reqs, audit' = Append(audit, r), req' = req, NEW k
  PROVE  SetAudited(k)' = SetAudited(k) \cup
           {i \in {Len(audit) + 1} : OnSettings(r) /\ k \in DOMAIN req[r].values}
<1>1. /\ audit'[Len(audit) + 1] = r
      /\ \A i \in 1..Len(audit) : audit'[i] = audit[i]
      /\ 1..Len(audit') = 1..Len(audit) \cup {Len(audit) + 1}
  BY Appended
<1> QED BY <1>1 DEF SetAudited, OnSettings

\* A step leaves the entries of the log and their rows as they are, and adds a place
\* only by auditing a request that was changing the user, or setting the key.
LEMMA PlacesStay ==
  ASSUME AccountsInv, AuditInv, [Next]_vars, NEW n, NEW f, NEW k
  PROVE  /\ \A i \in Changes(n, f) \cup SetAudited(k) :
              i \in 1..Len(audit) /\ audit'[i] = audit[i] /\ row'[audit[i]] = row[audit[i]]
         /\ \/ Changes(n, f)' = Changes(n, f)
            \/ \E r \in Changing(n) : AuditRow(r) /\ f \in Changed(r)
         /\ \/ SetAudited(k)' = SetAudited(k)
            \/ \E r \in Setting(k) : AuditRow(r)
<1>0. TypeOK /\ AuditedIsDone /\ req' = req
  BY Lasting DEF AccountsInv, AuditInv
<1>1. \A i \in Changes(n, f) \cup SetAudited(k) : i \in 1..Len(audit)
  BY DEF Changes, SetAudited
<1>2. \A i \in 1..Len(audit) : row'[audit[i]] = row[audit[i]]
  BY <1>0, RowsAreRead DEF AuditedIsDone
<1>3. CASE audit' = audit
  <2>1. Changes(n, f)' = Changes(n, f)
    BY <1>0, <1>2, <1>3 DEF Changes, Changed
  <2>2. SetAudited(k)' = SetAudited(k)
    BY <1>0, <1>3 DEF SetAudited, OnSettings
  <2> QED BY <1>1, <1>2, <1>3, <2>1, <2>2
<1>4. ASSUME NEW r \in Reqs, AuditRow(r)
      PROVE  /\ \A i \in 1..Len(audit) : audit'[i] = audit[i]
             /\ Changes(n, f)' = Changes(n, f) \/ (r \in Changing(n) /\ f \in Changed(r))
             /\ SetAudited(k)' = SetAudited(k) \/ r \in Setting(k)
  <2>1. audit' = Append(audit, r) /\ pc[r] = "audit" /\ row' = row /\ audit \in Seq(Reqs)
    BY <1>0, <1>4 DEF AuditRow, Goto, localVars, TypeOK
  <2>2. \A i \in 1..Len(audit) : audit'[i] = audit[i]
    BY <2>1, Appended
  <2>3. /\ Changes(n, f)' = Changes(n, f) \cup
             {i \in {Len(audit) + 1} :
                req[r].cmd = "update_user" /\ req[r].name = n /\ f \in Changed(r)}
        /\ SetAudited(k)' = SetAudited(k) \cup
             {i \in {Len(audit) + 1} : OnSettings(r) /\ k \in DOMAIN req[r].values}
    BY <1>0, <2>1, NewPlace, NewSetPlace
  <2>4. Changes(n, f)' = Changes(n, f) \/ (r \in Changing(n) /\ f \in Changed(r))
    BY <2>1, <2>3 DEF Changing
  <2>5. SetAudited(k)' = SetAudited(k) \/ r \in Setting(k)
    BY <2>1, <2>3 DEF Setting
  <2> QED BY <2>2, <2>4, <2>5
<1>5. audit' = audit \/ \E r \in Reqs : AuditRow(r)
  BY DEF Next, Step, vars, Authorize, Logout, CheckPassword, CountUsers, CheckName,
      InsertUser, ReadRow, WriteRow, BeginSettings, BeginAck, MergeSetting, StoreSetting,
      WriteAckFile, AuditFails, RequestFails
<1> QED BY <1>1, <1>2, <1>3, <1>4, <1>5

-----------------------------------------------------------------------------
\* What is told of a user stays true while nobody touches it.
LEMMA QuietUser ==
  ASSUME NEW n \in Names, Undisturbed(n), \A f \in Fields : ColumnTold(n, f),
         req' = req, users'[n] = users[n], Changing(n)' = Changing(n),
         \A r \in Changing(n) : pc'[r] = pc[r] /\ row'[r] = row[r],
         \A f \in Fields : Changes(n, f)' = Changes(n, f),
         \A f \in Fields : \A i \in Changes(n, f) :
           audit'[i] = audit[i] /\ row'[audit[i]] = row[audit[i]]
  PROVE  Undisturbed(n)' /\ \A f \in Fields : ColumnTold(n, f)'
<1>1. Undisturbed(n)'
  <2>1. \A r \in Changing(n) : Changed(r)' = Changed(r)
    BY DEF Changed
  <2> QED BY <2>1 DEF Undisturbed
<1>2. ASSUME NEW f \in Fields PROVE ColumnTold(n, f)'
  BY <1>2 DEF ColumnTold, Latest
<1> QED BY <1>1, <1>2

LEMMA UsersToldKept == AccountsInv /\ AuditInv /\ [Next]_vars => UsersTold'
<1> SUFFICES ASSUME AccountsInv, AuditInv, [Next]_vars, faults' = 0, NEW n \in Names \ raced'
             PROVE  Undisturbed(n)' /\ \A f \in Fields : ColumnTold(n, f)'
  BY DEF UsersTold
<1> DEFINE Goal == Undisturbed(n)' /\ \A f \in Fields : ColumnTold(n, f)'
<1>a. /\ TypeOK /\ Positions /\ RowsWereRead /\ AuditedIsDone
      /\ req' = req /\ faults = 0 /\ n \in Names /\ n \notin raced /\ n \notin raced'
  BY Lasting DEF AccountsInv, AuditInv
<1>b. Undisturbed(n) /\ \A f \in Fields : ColumnTold(n, f)
  BY <1>a DEF AuditInv, UsersTold
<1>c. \A f : \A i \in Changes(n, f) :
        i \in 1..Len(audit) /\ audit'[i] = audit[i] /\ row'[audit[i]] = row[audit[i]]
  BY PlacesStay
<1>d. \A f : \/ Changes(n, f)' = Changes(n, f)
             \/ \E r \in Changing(n) : AuditRow(r) /\ f \in Changed(r)
  BY PlacesStay
<1>e. (\A r \in Reqs : ~AuditRow(r)) => \A f : Changes(n, f)' = Changes(n, f)
  BY <1>d DEF Changing
<1>f. ASSUME audit' = audit, users'[n] = users[n], Changing(n)' = Changing(n),
             \A r \in Changing(n) : pc'[r] = pc[r] /\ row'[r] = row[r]
      PROVE  Goal
  <2>1. \A f : Changes(n, f)' = Changes(n, f)
    <3>1. \A r \in Reqs : ~AuditRow(r)
      <4> SUFFICES ASSUME NEW r \in Reqs, audit' = Append(audit, r) PROVE FALSE
        BY DEF AuditRow
      <4>1. audit \in Seq(Reqs)
        BY <1>a DEF TypeOK
      <4> QED BY <1>f, <4>1, Appended
    <3> QED BY <1>e, <3>1
  <2> QED BY <1>a, <1>b, <1>c, <1>f, <2>1, QuietUser
<1>g. \A q \in Changing(n) :
        q \in Reqs /\ req[q].cmd = "update_user" /\ req[q].name = n /\ pc[q] \in {"write", "audit"}
  BY DEF Changing
<1>1. ASSUME NEW r \in Reqs, Authorize(r) PROVE Goal
  <2>1. /\ audit' = audit /\ users' = users /\ row' = row
        /\ \A q \in Reqs : pc'[q] = pc[q] \/ (q = r /\ pc[r] \notin {"write", "audit"})
    BY <1>a, <1>1 DEF Authorize, Goto, localVars, TypeOK
  <2>2. pc'[r] \in {"write", "audit"} => req[r].cmd # "update_user"
    BY <1>a, <1>1 DEF Authorize, Goto, TypeOK
  <2>3. Changing(n)' = Changing(n)
    BY <1>a, <2>1, <2>2 DEF Changing
  <2> QED BY <1>f, <1>g, <2>1, <2>3
<1>2. ASSUME NEW r \in Reqs, Logout(r) PROVE Goal
  <2>1. /\ audit' = audit /\ users' = users /\ row' = row
        /\ \A q \in Reqs : pc'[q] = pc[q] \/ (q = r /\ pc[r] \notin {"write", "audit"})
    BY <1>a, <1>2 DEF Logout, Goto, localVars, TypeOK
  <2>2. pc'[r] \in {"write", "audit"} => req[r].cmd # "update_user"
    BY <1>a, <1>2 DEF Logout, Goto, TypeOK
  <2>3. Changing(n)' = Changing(n)
    BY <1>a, <2>1, <2>2 DEF Changing
  <2> QED BY <1>f, <1>g, <2>1, <2>3
<1>3. ASSUME NEW r \in Reqs, CheckPassword(r) PROVE Goal
  <2>1. /\ audit' = audit /\ users' = users /\ row' = row
        /\ \A q \in Reqs : pc'[q] = pc[q] \/ (q = r /\ pc[r] \notin {"write", "audit"})
    BY <1>a, <1>3 DEF CheckPassword, Goto, localVars, TypeOK
  <2>2. pc'[r] \in {"write", "audit"} => req[r].cmd # "update_user"
    BY <1>a, <1>3 DEF CheckPassword, Goto, TypeOK
  <2>3. Changing(n)' = Changing(n)
    BY <1>a, <2>1, <2>2 DEF Changing
  <2> QED BY <1>f, <1>g, <2>1, <2>3
<1>4. ASSUME NEW r \in Reqs, CountUsers(r) PROVE Goal
  <2>1. /\ audit' = audit /\ users' = users /\ row' = row
        /\ \A q \in Reqs : pc'[q] = pc[q] \/ (q = r /\ pc[r] \notin {"write", "audit"})
    BY <1>a, <1>4 DEF CountUsers, Goto, localVars, TypeOK
  <2>2. pc'[r] \in {"write", "audit"} => req[r].cmd # "update_user"
    BY <1>a, <1>4 DEF CountUsers, Goto, TypeOK, Founding
  <2>3. Changing(n)' = Changing(n)
    BY <1>a, <2>1, <2>2 DEF Changing
  <2> QED BY <1>f, <1>g, <2>1, <2>3
<1>5. ASSUME NEW r \in Reqs, CheckName(r) PROVE Goal
  <2>1. /\ audit' = audit /\ users' = users /\ row' = row
        /\ \A q \in Reqs : pc'[q] = pc[q] \/ (q = r /\ pc[r] \notin {"write", "audit"})
    BY <1>a, <1>5 DEF CheckName, Goto, localVars, TypeOK
  <2>2. pc'[r] \in {"write", "audit"} => req[r].cmd # "update_user"
    BY <1>a, <1>5 DEF CheckName, Goto, TypeOK
  <2>3. Changing(n)' = Changing(n)
    BY <1>a, <2>1, <2>2 DEF Changing
  <2> QED BY <1>f, <1>g, <2>1, <2>3
<1>6. ASSUME NEW r \in Reqs, InsertUser(r) PROVE Goal
  <2>1. /\ audit' = audit /\ row' = row /\ pc[r] = "insert"
        /\ \A q \in Reqs : q # r => pc'[q] = pc[q]
        /\ req[r].cmd # "update_user"
    BY <1>a, <1>6 DEF InsertUser, Goto, localVars, TypeOK, Positions, Founding
  <2>2. Changing(n)' = Changing(n)
    BY <1>a, <2>1 DEF Changing
  <2>3. CASE users'[n] = users[n]
    BY <1>f, <1>g, <2>1, <2>2, <2>3
  <2>4. CASE users'[n] # users[n]
    <3>1. users[n] = NoUser
      BY <1>a, <1>6, <2>4 DEF InsertUser, TypeOK
    <3>2. Changing(n) = {}
      BY <1>a, <1>g, <3>1 DEF Positions, RowsWereRead, OnUser
    <3>3. \A f : Changes(n, f) = {}
      BY <1>a, <3>1 DEF Changes, AuditedIsDone, RowsWereRead, OnUser
    <3>4. \A f : Changes(n, f)' = {}
      BY <1>d, <3>2, <3>3
    <3> QED BY <2>2, <3>2, <3>4 DEF Undisturbed, ColumnTold
  <2> QED BY <2>3, <2>4
<1>7. ASSUME NEW r \in Reqs, ReadRow(r) PROVE Goal
  <2>1. /\ audit' = audit /\ users' = users /\ pc[r] = "allowed"
        /\ \A q \in Reqs : q # r => pc'[q] = pc[q] /\ row'[q] = row[q]
        /\ r \notin Changing(n)
    BY <1>a, <1>7 DEF ReadRow, Goto, TypeOK, Changing
  <2>2. CASE Changing(n)' = Changing(n)
    BY <1>f, <1>g, <2>1, <2>2
  <2>3. CASE Changing(n)' # Changing(n)
    <3>1. req[r].cmd = "update_user" /\ req[r].name = n /\ pc'[r] = "write"
      BY <1>a, <1>7, <2>1, <2>3 DEF Changing, ReadRow, Goto, TypeOK
    <3>2. Changing(n) = {}
      BY <1>a, <1>7, <3>1 DEF ReadRow, Race
    <3>3. Changing(n)' = {r}
      BY <1>a, <2>1, <3>1, <3>2 DEF Changing
    <3>4. row'[r] = users[n] /\ users'[n] = users[n]
      BY <1>a, <1>7, <3>1 DEF ReadRow, TypeOK
    <3>5. \A f : Changes(n, f)' = Changes(n, f)
      BY <1>d, <3>2
    <3>6. Undisturbed(n)'
      BY <3>1, <3>3, <3>4 DEF Undisturbed
    <3>7. ASSUME NEW f \in Fields PROVE ColumnTold(n, f)'
      <4>1. ColumnTold(n, f)
        BY <1>b, <3>7
      <4>2. \A i, j \in Changes(n, f) :
              Latest(i, Changes(n, f) \cap 1..(j - 1)) =>
                row'[audit[j]][f] = req[audit[i]].body[f]
        BY <1>c, <4>1 DEF ColumnTold
      <4>3. \A i \in Changes(n, f) :
              Latest(i, Changes(n, f)) => users[n][f] = req[audit[i]].body[f]
        BY <3>2, <4>1 DEF ColumnTold
      <4> QED BY <1>a, <2>1, <3>3, <3>4, <3>5, <4>2, <4>3 DEF ColumnTold, Latest
    <3> QED BY <3>6, <3>7
  <2> QED BY <2>2, <2>3
<1>8. ASSUME NEW r \in Reqs, WriteRow(r) PROVE Goal
  <2> DEFINE m == req[r].name
  <2>1. /\ audit' = audit /\ row' = row /\ pc[r] = "write"
        /\ \A q \in Reqs : q # r => pc'[q] = pc[q]
        /\ users' = [users EXCEPT ![m] = Update(@, r)] /\ m \in Names /\ users[m] # NoUser
        /\ req[r].cmd \in {"update_user", "reset_password"}
    BY <1>a, <1>8, RequestFields DEF WriteRow, Goto, localVars, TypeOK, Positions, OnUser
  <2>2. pc'[r] = IF req[r].cmd = "update_user" /\ Changed(r) = {} THEN "done" ELSE "audit"
    BY <1>a, <1>8 DEF WriteRow, Goto, TypeOK
  <2>3. \A f : Changes(n, f)' = Changes(n, f)
    <3>1. \A q \in Reqs : ~AuditRow(q)
      <4> SUFFICES ASSUME NEW q \in Reqs, audit' = Append(audit, q) PROVE FALSE
        BY DEF AuditRow
      <4>1. audit \in Seq(Reqs)
        BY <1>a DEF TypeOK
      <4> QED BY <2>1, <4>1, Appended
    <3> QED BY <1>e, <3>1
  <2>4. CASE r \notin Changing(n)
    <3>1. Changing(n)' = Changing(n)
      BY <1>a, <2>1, <2>4 DEF Changing
    <3>2. users'[n] = users[n]
      <4>1. CASE m # n
        BY <1>a, <2>1, <4>1 DEF TypeOK
      <4>2. CASE m = n
        <5>1. req[r].cmd = "reset_password"
          BY <2>1, <2>4, <4>2 DEF Changing
        <5>2. Changed(r) = {}
          BY <1>a, <5>1, RequestFields DEF Changed, Fields, TypeOK
        <5>3. users[n] \in User
          BY <1>a, <2>1, <4>2 DEF TypeOK
        <5>4. Update(users[n], r) = users[n]
          BY <5>2, <5>3 DEF Update, User
        <5> QED BY <1>a, <2>1, <4>2, <5>4 DEF TypeOK
      <4> QED BY <4>1, <4>2
    <3> QED BY <1>f, <1>g, <2>1, <2>4, <3>1, <3>2
  <2>5. CASE r \in Changing(n)
    <3>1. Changing(n) = {r} /\ m = n /\ row[r] = users[n] /\ req[r].cmd = "update_user"
      BY <1>b, <1>g, <2>1, <2>5 DEF Undisturbed
    <3>2. \A f \in Fields :
            users'[n][f] = IF f \in Changed(r) THEN req[r].body[f] ELSE row[r][f]
      <4>1. users'[n] = Update(users[n], r)
        BY <1>a, <2>1, <3>1 DEF TypeOK
      <4> QED BY <3>1, <4>1 DEF Update, Fields
    <3>3. Changed(r)' = Changed(r)
      BY <1>a, <2>1 DEF Changed
    <3>4. CASE Changed(r) = {}
      <4>1. Changing(n)' = {}
        BY <1>a, <2>1, <2>2, <3>1, <3>4 DEF Changing
      <4>2. Undisturbed(n)'
        BY <4>1 DEF Undisturbed
      <4>3. ASSUME NEW f \in Fields PROVE ColumnTold(n, f)'
        <5>1. ColumnTold(n, f) /\ users'[n][f] = row[r][f]
          BY <1>b, <3>2, <3>4, <4>3
        <5> QED BY <1>a, <2>1, <2>3, <3>1, <4>1, <5>1 DEF ColumnTold, Latest
      <4> QED BY <4>2, <4>3
    <3>5. CASE Changed(r) # {}
      <4>1. Changing(n)' = {r} /\ pc'[r] = "audit"
        BY <1>a, <2>1, <2>2, <3>1, <3>5 DEF Changing
      <4>2. Undisturbed(n)'
        BY <1>a, <2>1, <3>2, <3>3, <4>1 DEF Undisturbed
      <4>3. ASSUME NEW f \in Fields PROVE ColumnTold(n, f)'
        <5>1. ColumnTold(n, f)
          BY <1>b, <4>3
        <5> QED BY <1>a, <2>1, <2>3, <3>1, <4>1, <5>1 DEF ColumnTold, Latest
      <4> QED BY <4>2, <4>3
    <3> QED BY <3>4, <3>5
  <2> QED BY <2>4, <2>5
<1>9. ASSUME NEW r \in Reqs, BeginSettings(r) PROVE Goal
  <2>1. /\ audit' = audit /\ users' = users /\ row' = row
        /\ \A q \in Reqs : pc'[q] = pc[q] \/ (q = r /\ pc[r] \notin {"write", "audit"})
    BY <1>a, <1>9 DEF BeginSettings, Goto, localVars, TypeOK
  <2>2. pc'[r] \in {"write", "audit"} => req[r].cmd # "update_user"
    BY <1>a, <1>9 DEF BeginSettings, Goto, TypeOK, OnSettings
  <2>3. Changing(n)' = Changing(n)
    BY <1>a, <2>1, <2>2 DEF Changing
  <2> QED BY <1>f, <1>g, <2>1, <2>3
<1>10. ASSUME NEW r \in Reqs, BeginAck(r) PROVE Goal
  <2>1. /\ audit' = audit /\ users' = users /\ row' = row
        /\ \A q \in Reqs : pc'[q] = pc[q] \/ (q = r /\ pc[r] \notin {"write", "audit"})
    BY <1>a, <1>10 DEF BeginAck, Goto, localVars, TypeOK
  <2>2. pc'[r] \in {"write", "audit"} => req[r].cmd # "update_user"
    BY <1>a, <1>10 DEF BeginAck, Goto, TypeOK
  <2>3. Changing(n)' = Changing(n)
    BY <1>a, <2>1, <2>2 DEF Changing
  <2> QED BY <1>f, <1>g, <2>1, <2>3
<1>11. ASSUME NEW r \in Reqs, MergeSetting(r) PROVE Goal
  <2>1. /\ audit' = audit /\ users' = users /\ row' = row
        /\ \A q \in Reqs : pc'[q] = pc[q] \/ (q = r /\ pc[r] \notin {"write", "audit"})
    BY <1>a, <1>11 DEF MergeSetting, Goto, localVars, TypeOK
  <2>2. pc'[r] \in {"write", "audit"} => req[r].cmd # "update_user"
    BY <1>a, <1>11 DEF MergeSetting, Goto, TypeOK
  <2>3. Changing(n)' = Changing(n)
    BY <1>a, <2>1, <2>2 DEF Changing
  <2> QED BY <1>f, <1>g, <2>1, <2>3
<1>12. ASSUME NEW r \in Reqs, StoreSetting(r) PROVE Goal
  <2>1. /\ audit' = audit /\ users' = users /\ row' = row
        /\ \A q \in Reqs : pc'[q] = pc[q] \/ (q = r /\ pc[r] \notin {"write", "audit"})
    BY <1>a, <1>12 DEF StoreSetting, Goto, localVars, TypeOK
  <2>2. pc'[r] \in {"write", "audit"} => req[r].cmd # "update_user"
    BY <1>a, <1>12 DEF StoreSetting, Goto, TypeOK, Positions, AfterSettings, OnSettings
  <2>3. Changing(n)' = Changing(n)
    BY <1>a, <2>1, <2>2 DEF Changing
  <2> QED BY <1>f, <1>g, <2>1, <2>3
<1>13. ASSUME NEW r \in Reqs, WriteAckFile(r) PROVE Goal
  <2>1. /\ audit' = audit /\ users' = users /\ row' = row
        /\ \A q \in Reqs : pc'[q] = pc[q] \/ (q = r /\ pc[r] \notin {"write", "audit"})
    BY <1>a, <1>13 DEF WriteAckFile, Goto, localVars, TypeOK
  <2>2. pc'[r] \in {"write", "audit"} => req[r].cmd # "update_user"
    BY <1>a, <1>13 DEF WriteAckFile, Goto, TypeOK
  <2>3. Changing(n)' = Changing(n)
    BY <1>a, <2>1, <2>2 DEF Changing
  <2> QED BY <1>f, <1>g, <2>1, <2>3
<1>14. ASSUME NEW r \in Reqs, AuditRow(r) PROVE Goal
  <2>1. /\ audit' = Append(audit, r) /\ audit \in Seq(Reqs) /\ row' = row /\ users' = users
        /\ pc[r] = "audit" /\ pc'[r] = "done"
        /\ \A q \in Reqs : q # r => pc'[q] = pc[q]
    BY <1>a, <1>14 DEF AuditRow, Goto, localVars, TypeOK
  <2>2. ASSUME NEW f
        PROVE  Changes(n, f)' = Changes(n, f) \cup
                 {i \in {Len(audit) + 1} :
                    req[r].cmd = "update_user" /\ req[r].name = n /\ f \in Changed(r)}
    <3>1. req' = req /\ row' = row /\ audit' = Append(audit, r) /\ audit \in Seq(Reqs)
      BY <1>a, <2>1
    <3> QED BY <3>1, NewPlace
  <2>3. CASE r \notin Changing(n)
    <3>1. Changing(n)' = Changing(n)
      BY <1>a, <2>1, <2>3 DEF Changing
    <3>2. \A f : Changes(n, f)' = Changes(n, f)
      BY <2>1, <2>2, <2>3 DEF Changing
    <3>3. \A q \in Changing(n) : pc'[q] = pc[q] /\ row'[q] = row[q]
      BY <1>g, <2>1, <2>3
    <3> QED BY <1>a, <1>b, <1>c, <2>1, <3>1, <3>2, <3>3, QuietUser
  <2>4. CASE r \in Changing(n)
    <3>1. Changing(n) = {r} /\ Changing(n)' = {}
      BY <1>a, <1>b, <2>1, <2>4 DEF Undisturbed, Changing
    <3>2. \A f \in Fields :
            users[n][f] = IF f \in Changed(r) THEN req[r].body[f] ELSE row[r][f]
      BY <1>b, <2>1, <2>4 DEF Undisturbed
    <3>3. Undisturbed(n)'
      BY <3>1 DEF Undisturbed
    <3>4. ASSUME NEW f \in Fields PROVE ColumnTold(n, f)'
      <4> DEFINE P == Changes(n, f)
                 new == Len(audit) + 1
      <4>1. /\ \A i, j \in P :
                 Latest(i, P \cap 1..(j - 1)) => row[audit[j]][f] = req[audit[i]].body[f]
            /\ \A i \in P : Latest(i, P) => row[r][f] = req[audit[i]].body[f]
        BY <1>b, <3>1, <3>4 DEF ColumnTold
      <4>2. \A i \in P : audit'[i] = audit[i] /\ i \in 1..Len(audit) /\ i \in Nat
        BY <1>c
      <4>3. Len(audit) \in Nat /\ audit'[new] = r
        BY <2>1, Appended
      <4>4. CASE f \notin Changed(r)
        <5>1. Changes(n, f)' = P
          BY <2>2, <4>4
        <5>2. users'[n][f] = row[r][f]
          BY <2>1, <3>2, <3>4, <4>4
        <5> QED BY <1>a, <2>1, <3>1, <4>1, <4>2, <5>1, <5>2 DEF ColumnTold, Latest
      <4>5. CASE f \in Changed(r)
        <5>1. Changes(n, f)' = P \cup {new}
          BY <1>g, <2>2, <2>4, <4>5
        <5>2. users'[n][f] = req[r].body[f]
          BY <2>1, <3>2, <3>4, <4>5
        <5>3. \A i \in P \cup {new} : Latest(i, P \cup {new}) => i = new
          BY <4>2, <4>3 DEF Latest
        <5>4. (P \cup {new}) \cap 1..(new - 1) = P
          BY <4>2, <4>3
        <5>5. \A j \in P : (P \cup {new}) \cap 1..(j - 1) = P \cap 1..(j - 1)
          BY <4>2, <4>3
        <5>6. ASSUME NEW i \in P \cup {new}, NEW j \in P \cup {new},
                     Latest(i, (P \cup {new}) \cap 1..(j - 1))
              PROVE  row[audit'[j]][f] = req[audit'[i]].body[f]
          <6>1. CASE j = new
            <7>1. Latest(i, P)
              BY <5>4, <5>6, <6>1
            <7>2. i \in P
              BY <7>1 DEF Latest
            <7> QED BY <4>1, <4>2, <4>3, <6>1, <7>1, <7>2
          <6>2. CASE j \in P
            <7>1. Latest(i, P \cap 1..(j - 1))
              BY <5>5, <5>6, <6>2
            <7>2. i \in P
              BY <7>1 DEF Latest
            <7> QED BY <4>1, <4>2, <6>2, <7>1, <7>2
          <6> QED BY <5>6, <6>1, <6>2
        <5>7. \A i \in P \cup {new} :
                Latest(i, P \cup {new}) => users'[n][f] = req[audit'[i]].body[f]
          BY <4>3, <5>2, <5>3
        <5> QED BY <1>a, <2>1, <3>1, <5>1, <5>6, <5>7 DEF ColumnTold, Latest
      <4> QED BY <4>4, <4>5
    <3> QED BY <3>3, <3>4
  <2> QED BY <2>3, <2>4
<1>15. ASSUME NEW r \in Reqs, AuditFails(r) PROVE Goal
  BY <1>a, <1>15, MaxFaultsAssumption DEF AuditFails, Fault
<1>16. ASSUME NEW r \in Reqs, RequestFails(r) PROVE Goal
  BY <1>a, <1>16, MaxFaultsAssumption DEF RequestFails, Fault
<1>17. CASE UNCHANGED vars
  <2>1. audit' = audit /\ users' = users /\ row' = row /\ pc' = pc
    BY <1>17 DEF vars, localVars
  <2>2. Changing(n)' = Changing(n)
    BY <1>a, <2>1 DEF Changing
  <2> QED BY <1>f, <2>1, <2>2
<1> QED BY <1>1, <1>2, <1>3, <1>4, <1>5, <1>6, <1>7, <1>8, <1>9, <1>10, <1>11,
     <1>12, <1>13, <1>14, <1>15, <1>16, <1>17 DEF Next, Step

-----------------------------------------------------------------------------
\* What is told of a setting stays true while nobody touches it.
LEMMA QuietSetting ==
  ASSUME NEW k, KeyTold(k), HalfSet(k) => HalfSet(k)',
         req' = req, settings'[k] = settings[k], Setting(k)' = Setting(k),
         \A r \in Setting(k) : k \in keys[r] => k \in keys'[r],
         SetAudited(k)' = SetAudited(k),
         \A i \in SetAudited(k) : audit'[i] = audit[i]
  PROVE  KeyTold(k)'
BY DEF KeyTold, Latest

LEMMA SettingsToldKept == AccountsInv /\ AuditInv /\ [Next]_vars => SettingsTold'
<1> SUFFICES ASSUME AccountsInv, AuditInv, [Next]_vars, faults' = 0,
                    NEW k \in ALLOWED_SETTINGS \ raced'
             PROVE  KeyTold(k)'
  BY DEF SettingsTold
<1>a. /\ TypeOK /\ Positions /\ RowsWereRead
      /\ req' = req /\ faults = 0 /\ k \notin raced /\ k \notin raced'
      /\ k \in ALLOWED_SETTINGS /\ k \in Settings /\ k # Ack
  BY Lasting DEF AccountsInv, AuditInv, Settings, ALLOWED_SETTINGS, Ack
<1>b. KeyTold(k)
  BY <1>a DEF AuditInv, SettingsTold
<1>c. HalfSet(k) => HalfSet(k)'
  BY <1>a, Lasting DEF HalfSet, OnSettings, End
<1>d. /\ \A i \in SetAudited(k) : i \in 1..Len(audit) /\ audit'[i] = audit[i]
      /\ SetAudited(k)' = SetAudited(k) \/ \E r \in Setting(k) : AuditRow(r)
  BY PlacesStay
<1>e. \A r \in Setting(k) :
        /\ r \in Reqs /\ OnSettings(r) /\ k \in DOMAIN req[r].values
        /\ pc[r] \in {"merge", "store", "audit"}
  BY DEF Setting
<1>f. ASSUME audit' = audit \/ \E q \in Reqs \ Setting(k) : AuditRow(q)
      PROVE  SetAudited(k)' = SetAudited(k)
  <2>1. CASE \E r \in Setting(k) : AuditRow(r)
    <3>1. PICK r \in Setting(k) : AuditRow(r)
      BY <2>1
    <3>2. audit \in Seq(Reqs) /\ r \in Reqs /\ audit' = Append(audit, r)
      BY <1>a, <1>e, <3>1 DEF AuditRow, TypeOK
    <3>3. audit'[Len(audit) + 1] = r /\ audit' # audit
      BY <3>2, Appended
    <3>4. PICK q \in Reqs \ Setting(k) : audit' = Append(audit, q)
      BY <1>f, <3>3 DEF AuditRow
    <3>5. audit'[Len(audit) + 1] = q
      BY <3>2, <3>4, Appended
    <3> QED BY <3>1, <3>3, <3>4, <3>5
  <2> QED BY <1>d, <2>1
<1>g. ASSUME audit' = audit \/ \E q \in Reqs \ Setting(k) : AuditRow(q),
             settings'[k] = settings[k], Setting(k)' = Setting(k),
             \A r \in Setting(k) : k \in keys[r] => k \in keys'[r]
      PROVE  KeyTold(k)'
  BY <1>a, <1>b, <1>c, <1>d, <1>f, <1>g, QuietSetting
<1>1. ASSUME NEW r \in Reqs, Authorize(r) PROVE KeyTold(k)'
  <2>1. audit' = audit /\ settings' = settings /\ keys' = keys
    BY <1>a, <1>1 DEF Authorize, localVars, TypeOK, Setting, OnSettings
  <2>2. Setting(k)' = Setting(k)
    BY <1>a, <1>1 DEF Authorize, Goto, TypeOK, Setting, OnSettings, OnUser
  <2> QED BY <1>e, <1>g, <2>1, <2>2
<1>2. ASSUME NEW r \in Reqs, Logout(r) PROVE KeyTold(k)'
  <2>1. audit' = audit /\ settings' = settings /\ keys' = keys
    BY <1>a, <1>2 DEF Logout, localVars, TypeOK, Setting, OnSettings
  <2>2. Setting(k)' = Setting(k)
    BY <1>a, <1>2 DEF Logout, Goto, TypeOK, Setting, OnSettings
  <2> QED BY <1>e, <1>g, <2>1, <2>2
<1>3. ASSUME NEW r \in Reqs, CheckPassword(r) PROVE KeyTold(k)'
  <2>1. audit' = audit /\ settings' = settings /\ keys' = keys
    BY <1>a, <1>3 DEF CheckPassword, localVars, TypeOK, Setting, OnSettings
  <2>2. Setting(k)' = Setting(k)
    BY <1>a, <1>3 DEF CheckPassword, Goto, TypeOK, Setting, OnSettings
  <2> QED BY <1>e, <1>g, <2>1, <2>2
<1>4. ASSUME NEW r \in Reqs, CountUsers(r) PROVE KeyTold(k)'
  <2>1. audit' = audit /\ settings' = settings /\ keys' = keys
    BY <1>a, <1>4 DEF CountUsers, localVars, TypeOK, Setting, OnSettings
  <2>2. Setting(k)' = Setting(k)
    BY <1>a, <1>4 DEF CountUsers, Goto, TypeOK, Setting, OnSettings, Founding
  <2> QED BY <1>e, <1>g, <2>1, <2>2
<1>5. ASSUME NEW r \in Reqs, CheckName(r) PROVE KeyTold(k)'
  <2>1. audit' = audit /\ settings' = settings /\ keys' = keys
    BY <1>a, <1>5 DEF CheckName, localVars, TypeOK, Setting, OnSettings
  <2>2. Setting(k)' = Setting(k)
    BY <1>a, <1>5 DEF CheckName, Goto, TypeOK, Setting, OnSettings
  <2> QED BY <1>e, <1>g, <2>1, <2>2
<1>6. ASSUME NEW r \in Reqs, InsertUser(r) PROVE KeyTold(k)'
  <2>1. audit' = audit /\ settings' = settings /\ keys' = keys
    BY <1>a, <1>6 DEF InsertUser, localVars, TypeOK, Setting, OnSettings
  <2>2. Setting(k)' = Setting(k)
    BY <1>a, <1>6 DEF InsertUser, Goto, TypeOK, Setting, OnSettings, Founding, Positions
  <2> QED BY <1>e, <1>g, <2>1, <2>2
<1>7. ASSUME NEW r \in Reqs, ReadRow(r) PROVE KeyTold(k)'
  <2>1. audit' = audit /\ settings' = settings /\ keys' = keys
    BY <1>a, <1>7 DEF ReadRow, localVars, TypeOK, Setting, OnSettings
  <2>2. Setting(k)' = Setting(k)
    BY <1>a, <1>7 DEF ReadRow, Goto, TypeOK, Setting, OnSettings
  <2> QED BY <1>e, <1>g, <2>1, <2>2
<1>8. ASSUME NEW r \in Reqs, WriteRow(r) PROVE KeyTold(k)'
  <2>1. audit' = audit /\ settings' = settings /\ keys' = keys
    BY <1>a, <1>8 DEF WriteRow, localVars, TypeOK, Setting, OnSettings
  <2>2. Setting(k)' = Setting(k)
    BY <1>a, <1>8 DEF WriteRow, Goto, TypeOK, Setting, OnSettings, Positions
  <2> QED BY <1>e, <1>g, <2>1, <2>2
<1>9. ASSUME NEW r \in Reqs, BeginSettings(r) PROVE KeyTold(k)'
  <2> DEFINE wanted == DOMAIN req[r].values
  <2>1. /\ audit' = audit /\ settings' = settings /\ pc[r] = "allowed" /\ OnSettings(r)
        /\ \A q \in Reqs : q # r => pc'[q] = pc[q] /\ keys'[q] = keys[q]
        /\ r \notin Setting(k)
        /\ pc'[r] = IF ~wanted \subseteq ALLOWED_SETTINGS THEN "refused"
                    ELSE IF wanted = {} THEN "audit" ELSE "merge"
        /\ wanted \subseteq ALLOWED_SETTINGS => keys'[r] = wanted
    BY <1>a, <1>9 DEF BeginSettings, Goto, TypeOK, Setting
  <2>2. CASE k \in wanted /\ wanted \subseteq ALLOWED_SETTINGS
    <3>1. Setting(k) = {}
      BY <1>a, <1>9, <2>2 DEF BeginSettings
    <3>2. pc'[r] = "merge" /\ keys'[r] = wanted
      BY <2>1, <2>2
    <3>3. Setting(k)' = {r}
      BY <1>a, <2>1, <2>2, <3>1, <3>2 DEF Setting, OnSettings
    <3> QED BY <2>2, <3>2, <3>3 DEF KeyTold
  <2>3. CASE ~(k \in wanted /\ wanted \subseteq ALLOWED_SETTINGS)
    <3>1. Setting(k)' = Setting(k)
      BY <1>a, <2>1, <2>3 DEF Setting, OnSettings
    <3> QED BY <1>e, <1>g, <2>1, <3>1
  <2> QED BY <2>2, <2>3
<1>10. ASSUME NEW r \in Reqs, BeginAck(r) PROVE KeyTold(k)'
  <2>1. audit' = audit /\ settings' = settings /\ r \notin Setting(k)
        /\ \A q \in Reqs : q # r => keys'[q] = keys[q]
    BY <1>a, <1>10 DEF BeginAck, localVars, TypeOK, Setting, OnSettings
  <2>2. Setting(k)' = Setting(k)
    BY <1>a, <1>10 DEF BeginAck, Goto, TypeOK, Setting, OnSettings
  <2> QED BY <1>e, <1>g, <2>1, <2>2
<1>11. ASSUME NEW r \in Reqs, MergeSetting(r) PROVE KeyTold(k)'
  <2>1. audit' = audit /\ settings' = settings /\ keys' = keys
    BY <1>a, <1>11 DEF MergeSetting, localVars, TypeOK, Setting, OnSettings
  <2>2. Setting(k)' = Setting(k)
    BY <1>a, <1>11 DEF MergeSetting, Goto, TypeOK, Setting, OnSettings
  <2> QED BY <1>e, <1>g, <2>1, <2>2
<1>12. ASSUME NEW r \in Reqs, StoreSetting(r) PROVE KeyTold(k)'
  <2> DEFINE key == found[r].key
  <2>1. /\ audit' = audit /\ pc[r] = "store"
        /\ \A q \in Reqs : q # r => pc'[q] = pc[q] /\ keys'[q] = keys[q]
        /\ keys'[r] = keys[r] \ {key}
        /\ key \in keys[r]
    BY <1>a, <1>12 DEF StoreSetting, Goto, TypeOK, Positions
  <2>2. \/ pc'[r] = "failed" /\ settings' = settings
        \/ /\ pc'[r] = IF keys'[r] = {} THEN AfterSettings(r) ELSE "merge"
           /\ settings' = [settings EXCEPT ![key] = req[r].values[key]]
    BY <1>a, <1>12 DEF StoreSetting, Goto, TypeOK
  <2>3. CASE r \notin Setting(k)
    <3>1. key # k
      <4>1. CASE OnSettings(r)
        BY <1>a, <2>1, <2>3, <4>1 DEF Positions, Setting
      <4>2. CASE ~OnSettings(r)
        BY <1>a, <2>1, <4>2, RequestFields DEF Positions, TypeOK
      <4> QED BY <4>1, <4>2
    <3>2. settings'[k] = settings[k]
      BY <1>a, <2>2, <3>1 DEF TypeOK
    <3>3. Setting(k)' = Setting(k)
      BY <1>a, <2>1, <2>3 DEF Setting, OnSettings
    <3> QED BY <1>e, <1>g, <2>1, <2>3, <3>2, <3>3
  <2>4. CASE r \in Setting(k)
    <3>1. Setting(k) = {r} /\ (k \notin keys[r] => settings[k] = req[r].values[k])
      BY <1>b, <2>4 DEF KeyTold
    <3>2. CASE pc'[r] = "failed"
      <4>1. Setting(k)' = {}
        BY <1>a, <2>1, <3>1, <3>2 DEF Setting, OnSettings
      <4>2. HalfSet(k)'
        BY <1>a, <1>e, <2>4, <3>2 DEF HalfSet, OnSettings
      <4> QED BY <4>1, <4>2 DEF KeyTold
    <3>3. CASE pc'[r] # "failed"
      <4>1. pc'[r] \in {"merge", "audit"}
        BY <1>e, <2>2, <2>4, <3>3 DEF AfterSettings, OnSettings
      <4>2. Setting(k)' = {r}
        BY <1>a, <1>e, <2>1, <2>4, <3>1, <4>1 DEF Setting, OnSettings
      <4>3. settings'[k] = IF key = k THEN req[r].values[k] ELSE settings[k]
        BY <1>a, <2>2, <3>3 DEF TypeOK
      <4>4. k \notin keys'[r] => settings'[k] = req[r].values[k]
        BY <2>1, <3>1, <4>3
      <4> QED BY <1>a, <4>2, <4>4 DEF KeyTold
    <3> QED BY <3>2, <3>3
  <2> QED BY <2>3, <2>4
<1>13. ASSUME NEW r \in Reqs, WriteAckFile(r) PROVE KeyTold(k)'
  <2>1. audit' = audit /\ settings' = settings /\ keys' = keys
    BY <1>a, <1>13 DEF WriteAckFile, localVars, TypeOK, Setting, OnSettings
  <2>2. Setting(k)' = Setting(k)
    BY <1>a, <1>13 DEF WriteAckFile, Goto, TypeOK, Setting, OnSettings
  <2> QED BY <1>e, <1>g, <2>1, <2>2
<1>14. ASSUME NEW r \in Reqs, AuditRow(r) PROVE KeyTold(k)'
  <2>1. /\ audit' = Append(audit, r) /\ audit \in Seq(Reqs) /\ settings' = settings
        /\ pc[r] = "audit" /\ pc'[r] = "done" /\ keys' = keys
        /\ \A q \in Reqs : q # r => pc'[q] = pc[q]
    BY <1>a, <1>14 DEF AuditRow, Goto, localVars, TypeOK
  <2>2. CASE r \notin Setting(k)
    <3>1. Setting(k)' = Setting(k)
      BY <1>a, <2>1, <2>2 DEF Setting, OnSettings
    <3> QED BY <1>g, <1>14, <2>1, <2>2, <3>1
  <2>3. CASE r \in Setting(k)
    <3> DEFINE P == SetAudited(k)
               new == Len(audit) + 1
    <3>1. settings'[k] = req[r].values[k]
      <4>1. keys[r] = {}
        BY <1>a, <1>e, <2>1, <2>3 DEF RowsWereRead
      <4> QED BY <1>b, <2>1, <2>3, <4>1 DEF KeyTold
    <3>2. Setting(k)' = {}
      BY <1>a, <1>b, <2>1, <2>3 DEF KeyTold, Setting, OnSettings
    <3>3. SetAudited(k)' = P \cup {new}
      BY <1>a, <1>e, <2>1, <2>3, NewSetPlace
    <3>4. Len(audit) \in Nat /\ audit'[new] = r
      BY <2>1, Appended
    <3>5. \A i \in P \cup {new} : Latest(i, P \cup {new}) => i = new
      BY <1>d, <3>4 DEF Latest
    <3>6. \A i \in P \cup {new} :
            Latest(i, P \cup {new}) => settings'[k] = req[audit'[i]].values[k]
      BY <3>1, <3>4, <3>5
    <3> QED BY <1>a, <3>2, <3>3, <3>6 DEF KeyTold, Latest
  <2> QED BY <2>2, <2>3
<1>15. ASSUME NEW r \in Reqs, AuditFails(r) PROVE KeyTold(k)'
  BY <1>a, <1>15, MaxFaultsAssumption DEF AuditFails, Fault
<1>16. ASSUME NEW r \in Reqs, RequestFails(r) PROVE KeyTold(k)'
  BY <1>a, <1>16, MaxFaultsAssumption DEF RequestFails, Fault
<1>17. CASE UNCHANGED vars
  <2>1. audit' = audit /\ settings' = settings /\ keys' = keys /\ pc' = pc
    BY <1>17 DEF vars, localVars
  <2>2. Setting(k)' = Setting(k)
    BY <1>a, <2>1 DEF Setting, OnSettings
  <2> QED BY <1>g, <2>1, <2>2
<1> QED BY <1>1, <1>2, <1>3, <1>4, <1>5, <1>6, <1>7, <1>8, <1>9, <1>10, <1>11,
     <1>12, <1>13, <1>14, <1>15, <1>16, <1>17 DEF Next, Step

\* All parts of the invariant go together.
LEMMA AuditInvariance == Spec => [](AccountsInv /\ AuditInv)
<1>1. AccountsInv /\ AuditInv /\ [Next]_vars => AuditInv'
  BY AuditedIsDoneKept, RowsWereReadKept, UsersToldKept, SettingsToldKept DEF AuditInv
<1> QED BY AuditStart, AccountsInvariance, <1>1, PTL DEF Spec

\* Without faults the audit log tells how the rights of a user and a setting came to
\* be what they are, however many requests run at once, as long as no two of them
\* change the same at the same time and none of them was half set.
THEOREM AuditsTell == Spec => []AuditTells
<1>1. AccountsInv /\ AuditInv => AuditTells
  BY DEF AuditInv, AuditTells, UsersTold, ColumnTold, SettingsTold, KeyTold
<1> QED BY AuditInvariance, <1>1, PTL
=============================================================================
