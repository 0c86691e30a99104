--------------------------- MODULE UserManagement ---------------------------
(***************************************************************************)
(* The web requests that read and write users, permissions and unit        *)
(* associations, handled concurrently by the threads of the web server     *)
(* over one SQL Server database.                                           *)
(*                                                                         *)
(* UserManagementController: AddPermission, RemovePermission, AddUnit,     *)
(* RemoveUnit and InsertNewUser, called by the people who manage one       *)
(* application.  UserAdministrationController: Add, Delete, AddPermission, *)
(* RemovePermission, AddAssociation and RemoveAssociation.                 *)
(*                                                                         *)
(* A request is one NHibernate session and one transaction (the            *)
(* controllers inherit UseTransactionsByDefault), at the default READ      *)
(* COMMITTED isolation: each query is a step of its own and sees the       *)
(* commits made before it, writes are gathered in the session (work) and   *)
(* take effect together in Commit, and an exception rolls them all back.   *)
(***************************************************************************)
EXTENDS AccessRules, FiniteSets

CONSTANTS
    Threads,      \* the server's request threads
    Requests,     \* the requests the browsers may post
    InitDb,       \* the database the server starts with
    InitIdentity, \* and the last IDENTITY value of each of its tables
    MaxId,        \* bound: no insert is accepted once a table's IDENTITY is here
    NoRequest     \* the request of an idle thread

-----------------------------------------------------------------------------
(* Requests. *)

RoleOps == {"AddPermission", "RemovePermission"}
UnitOps == {"AddUnit", "RemoveUnit"}
GuardedOps == RoleOps \cup UnitOps

RoleRequest ==
    [op : RoleOps, actor : Logins, app : Apps, login : Logins, role : Roles]
UnitRequest ==
    [op : UnitOps, actor : Logins, app : Apps, login : Logins, unit : Units]
InsertNewUserRequest ==
    [op : {"InsertNewUser"}, app : Apps, login : Logins, role : Roles,
     unit : Units]
AdminUserRequest == [op : {"AdminAddUser", "AdminDeleteUser"}, login : Logins]
AdminPermissionRequest ==
    [op : {"AdminAddPermission"}, user : Nat, app : Apps, role : Roles]
AdminAssociationRequest ==
    [op : {"AdminAddAssociation"}, user : Nat, app : Apps, unit : Units]
AdminRemoveRequest ==
    [op : {"AdminRemovePermission", "AdminRemoveAssociation"}, id : Nat]

GuardedRequest == RoleRequest \cup UnitRequest
Request ==
    GuardedRequest \cup InsertNewUserRequest \cup AdminUserRequest
        \cup AdminPermissionRequest \cup AdminAssociationRequest
        \cup AdminRemoveRequest

\* The operations whose commit may insert a row in a table.
InsertOps ==
    [users        |-> {"InsertNewUser", "AdminAddUser"},
     permissions  |-> {"AddPermission", "InsertNewUser", "AdminAddPermission"},
     associations |-> {"AddUnit", "InsertNewUser", "AdminAddAssociation"}]

Tables == {"users", "permissions", "associations"}

\* The session's pending writes.  user is the id of the User entity in hand; it
\* is 0, as for any unsaved entity, when insertUser says the row is to be made.
Work ==
    [user             : Nat,
     insertUser       : BOOLEAN,
     deleteUser       : BOOLEAN,
     addRoles         : SUBSET Roles,
     addUnits         : SUBSET Units,
     dropPermissions  : SUBSET Nat,
     dropAssociations : SUBSET Nat]

NoWork ==
    [user |-> 0, insertUser |-> FALSE, deleteUser |-> FALSE,
     addRoles |-> {}, addUnits |-> {},
     dropPermissions |-> {}, dropAssociations |-> {}]

ASSUME ManagementAssumption ==
    /\ Requests \subseteq Request
    /\ NoRequest \notin Requests
    /\ InitDb \in Database
    /\ \A table \in Tables : IsFiniteSet(InitDb[table])
    /\ MaxId \in [Tables -> Nat]

\* The primary keys of the tables the server starts with.
ASSUME InitKeys ==
    /\ InitIdentity \in [Tables -> Nat]
    /\ \A table \in Tables :
          /\ \A x, y \in InitDb[table] : x.id = y.id => x = y
          /\ \A x \in InitDb[table] : x.id <= InitIdentity[table]

-----------------------------------------------------------------------------
VARIABLES
    db,         \* the committed tables
    identity,   \* the last IDENTITY value of each table
    audits,     \* how many Audits rows there are per object and action
    pc,         \* the next step of each thread
    request,    \* the request each thread handles
    scope,      \* the management scope its last GetManagementRoles query found
    work        \* its session's pending writes

vars == <<db, identity, audits, pc, request, scope, work>>

Step == {"idle", "loginScope", "login", "unitScope", "unit", "role",
         "findUser", "findRow", "roleAllowed", "permissionExists",
         "associationExists", "clearPermissions", "clearAssociations", "commit"}

AuditedActions == {"Create", "Delete"}

TypeOK ==
    /\ db \in Database
    /\ identity \in [Tables -> Nat]
    /\ audits \in [Tables -> [AuditedActions -> Nat]]
    /\ pc \in [Threads -> Step]
    /\ request \in [Threads -> Requests \cup {NoRequest}]
    /\ scope \in [Threads -> {ManageAll, ManageSchool, ManageUnit, NoScope}]
    /\ work \in [Threads -> Work]

Init ==
    /\ db = InitDb
    /\ identity = InitIdentity
    /\ audits = [o \in Tables |-> [a \in AuditedActions |-> 0]]
    /\ pc = [t \in Threads |-> "idle"]
    /\ request = [t \in Threads |-> NoRequest]
    /\ scope = [t \in Threads |-> NoScope]
    /\ work = [t \in Threads |-> NoWork]

-----------------------------------------------------------------------------
(* How a request begins and ends. *)

\* The first query of each handler.
FirstStep(r) ==
    CASE r.op \in GuardedOps -> "loginScope"
      [] r.op \in {"InsertNewUser", "AdminDeleteUser"} -> "findUser"
      [] r.op = "AdminAddUser" -> "commit"
      [] r.op = "AdminAddPermission" -> "roleAllowed"
      [] r.op = "AdminAddAssociation" -> "associationExists"
      [] OTHER -> "findRow"

\* What the posted form alone puts in the session: Add saves the bound user,
\* the two administrative adds name the user by its id.
FirstWork(r) ==
    CASE r.op = "AdminAddUser" -> [NoWork EXCEPT !.insertUser = TRUE]
      [] r.op \in {"AdminAddPermission", "AdminAddAssociation"}
            -> [NoWork EXCEPT !.user = r.user]
      [] OTHER -> NoWork

\* The bound MaxId: room for this request's rows and for those of the requests
\* in flight.
RoomFor(r) ==
    \A table \in Tables :
        r.op \in InsertOps[table] =>
            identity[table]
              + Cardinality({t \in Threads :
                    pc[t] # "idle" /\ request[t].op \in InsertOps[table]})
              < MaxId[table]

Submit(t) ==
    \E r \in Requests :
        /\ pc[t] = "idle"
        /\ RoomFor(r)
        /\ pc' = [pc EXCEPT ![t] = FirstStep(r)]
        /\ request' = [request EXCEPT ![t] = r]
        /\ work' = [work EXCEPT ![t] = FirstWork(r)]
        /\ UNCHANGED <<db, identity, audits, scope>>

\* A slip of the step below: the next request finds the same session.
EndRequestKeepingSession(t) ==
    /\ pc' = [pc EXCEPT ![t] = "idle"]
    /\ request' = [request EXCEPT ![t] = NoRequest]
    /\ scope' = [scope EXCEPT ![t] = NoScope]
    /\ work' = work

\* The session closes and the thread takes other requests.
EndRequest(t) ==
    /\ pc' = [pc EXCEPT ![t] = "idle"]
    /\ request' = [request EXCEPT ![t] = NoRequest]
    /\ scope' = [scope EXCEPT ![t] = NoScope]
    /\ work' = [work EXCEPT ![t] = NoWork]

\* An exception leaves the action, or it returns with nothing to write.
Rollback(t) ==
    /\ EndRequest(t)
    /\ UNCHANGED <<db, identity, audits>>

\* At any step the request may be the victim of a deadlock, lose its connection,
\* time out, or end with the process.
Abort(t) ==
    /\ pc[t] # "idle"
    /\ Rollback(t)

\* The handler goes on with its next query, its session holding w.
Continue(t, next, w) ==
    /\ pc' = [pc EXCEPT ![t] = next]
    /\ work' = [work EXCEPT ![t] = w]
    /\ UNCHANGED <<db, identity, audits, request, scope>>

-----------------------------------------------------------------------------
(* The guards of the four handlers that act for a current login.  Each ends in *)
(* Check.Require or an AuthenticationException, so a refusal is a rollback.    *)

\* The first query of GetVisibleByUserCore, for EnsureCurrentUserCanManageLogin
\* and again for EnsureCurrentUserCanModifyUnit.
ReadScope(t) ==
    /\ pc[t] \in {"loginScope", "unitScope"}
    /\ LET found == ManagementScope(db, request[t].app, request[t].actor)
       IN  \/ /\ found = NoScope
              /\ Rollback(t)
           \/ /\ found # NoScope
              /\ scope' = [scope EXCEPT ![t] = found]
              /\ pc' = [pc EXCEPT ![t] =
                           IF @ = "loginScope" THEN "login" ELSE "unit"]
              /\ UNCHANGED <<db, identity, audits, request, work>>

\* A slip of the step below: nothing looks at the result.
ManageAnyLogin(t) ==
    /\ pc[t] = "login"
    /\ Continue(t, IF request[t].op \in RoleOps THEN "role" ELSE "unitScope",
                work[t])

\* EnsureCurrentUserCanManageLogin: both unit lists come from one batch.
EnsureCurrentUserCanManageLogin(t) ==
    /\ pc[t] = "login"
    /\ LET r == request[t]
       IN  \/ /\ CanUserManageGivenLogin(db, r.app, r.actor, r.login, scope[t])
              /\ Continue(t, IF r.op \in RoleOps THEN "role" ELSE "unitScope",
                          work[t])
           \/ /\ ~CanUserManageGivenLogin(db, r.app, r.actor, r.login, scope[t])
              /\ Rollback(t)

\* The query that follows the guards.
StepAfterGuards(op) ==
    IF op \in {"AddPermission", "AddUnit"} THEN "findUser" ELSE "findRow"

\* EnsureCurrentUserCanModifyRole: both role lists come from one batch.
EnsureCurrentUserCanModifyRole(t) ==
    /\ pc[t] = "role"
    /\ LET r == request[t]
       IN  \/ /\ r.role \in VisibleRoles(db, r.app, r.actor)
              /\ Continue(t, StepAfterGuards(r.op), work[t])
           \/ /\ r.role \notin VisibleRoles(db, r.app, r.actor)
              /\ Rollback(t)

\* EnsureCurrentUserCanModifyUnit, after its own ReadScope.
EnsureCurrentUserCanModifyUnit(t) ==
    /\ pc[t] = "unit"
    /\ LET r == request[t]
       IN  \/ /\ r.unit \in VisibleUnits(db, r.app, r.actor, scope[t])
              /\ Continue(t, StepAfterGuards(r.op), work[t])
           \/ /\ r.unit \notin VisibleUnits(db, r.app, r.actor, scope[t])
              /\ Rollback(t)

-----------------------------------------------------------------------------
(* The queries of the handlers' bodies. *)

StepAfterUser(op) ==
    CASE op = "AddUnit" -> "associationExists"
      [] op = "AdminDeleteUser" -> "clearPermissions"
      [] OTHER -> "permissionExists"

\* GetUser, and InsertNewUser's lookup.  A login nobody active has is an
\* exception for the adds, a redirect for Delete and a new user for
\* InsertNewUser.
FindUser(t) ==
    /\ pc[t] = "findUser"
    /\ LET r == request[t]
           found == {u \in Active(db.users) : u.login = r.login}
       IN  \/ \E u \in found :
                 Continue(t, StepAfterUser(r.op), [work[t] EXCEPT !.user = u.id])
           \/ /\ found = {}
              /\ r.op = "InsertNewUser"
              /\ Continue(t, StepAfterUser(r.op),
                          [work[t] EXCEPT !.insertUser = TRUE])
           \/ /\ found = {}
              /\ r.op # "InsertNewUser"
              /\ Rollback(t)

\* UserAdministration/AddPermission: is the role associated with the application?
RoleIsAssociatedWithApplication(t) ==
    /\ pc[t] = "roleAllowed"
    /\ LET r == request[t]
           associated == \E ar \in db.applicationRoles :
                            ar.app = r.app /\ ar.role = r.role
       IN  \/ /\ associated
              /\ Continue(t, "permissionExists", work[t])
           \/ /\ ~associated
              /\ Rollback(t)

\* A slip of the query below: the user is not part of the condition.
CopiesOfAnyone(user, app, role) ==
    {p \in Active(db.permissions) : p.app = app /\ p.role = role}

\* The active permissions AssociateRole and AddPermission look for.
Copies(user, app, role) ==
    {p \in Active(db.permissions) :
        p.user = user /\ p.app = app /\ p.role = role}

\* A slip of the query below: the application is not part of the condition.
CopiesInAnyApp(user, app, unit) ==
    {a \in Active(db.associations) : a.user = user /\ a.unit = unit}

\* The active associations AssociateUnit and AddAssociation look for.
AssociationCopies(user, app, unit) ==
    {a \in Active(db.associations) :
        a.user = user /\ a.app = app /\ a.unit = unit}

\* A slip of the step below: the permission is added without a look.
InsertWithoutLooking(t) ==
    /\ pc[t] = "permissionExists"
    /\ Continue(t,
           IF request[t].op = "InsertNewUser" THEN "associationExists"
           ELSE "commit",
           [work[t] EXCEPT !.addRoles = {request[t].role}])

\* AssociateRole, and the second query of UserAdministration/AddPermission.
PermissionExists(t) ==
    /\ pc[t] = "permissionExists"
    /\ LET r == request[t]
           next == IF r.op = "InsertNewUser" THEN "associationExists"
                   ELSE "commit"
       IN  \/ /\ Copies(work[t].user, r.app, r.role) # {}
              /\ Continue(t, next, work[t])
           \/ /\ Copies(work[t].user, r.app, r.role) = {}
              /\ Continue(t, next, [work[t] EXCEPT !.addRoles = {r.role}])

\* AssociateUnit, and the query of UserAdministration/AddAssociation.
AssociationExists(t) ==
    /\ pc[t] = "associationExists"
    /\ LET r == request[t]
       IN  \/ /\ AssociationCopies(work[t].user, r.app, r.unit) # {}
              /\ Continue(t, "commit", work[t])
           \/ /\ AssociationCopies(work[t].user, r.app, r.unit) = {}
              /\ Continue(t, "commit", [work[t] EXCEPT !.addUnits = {r.unit}])

\* The permissions and associations a removal's query matches.
PermissionsToRemove(r) ==
    CASE r.op = "RemovePermission" ->
            {p \in PermissionsOf(db, r.app, r.login) : p.role = r.role}
      [] r.op = "AdminRemovePermission" ->
            {p \in Active(db.permissions) : p.id = r.id}
      [] OTHER -> {}

AssociationsToRemove(r) ==
    CASE r.op = "RemoveUnit" ->
            {a \in AssociationsOf(db, r.app, r.login) : a.unit = r.unit}
      [] r.op = "AdminRemoveAssociation" ->
            {a \in Active(db.associations) : a.id = r.id}
      [] OTHER -> {}

\* The removals: Single() throws unless exactly one row matches, GetNullableById
\* returns null (and the action answers success: false) when none does.
FindRow(t) ==
    /\ pc[t] = "findRow"
    /\ LET permissions == PermissionsToRemove(request[t])
           associations == AssociationsToRemove(request[t])
       IN  \/ \E p \in permissions :
                 /\ permissions = {p}
                 /\ Continue(t, "commit",
                             [work[t] EXCEPT !.dropPermissions = {p.id}])
           \/ \E a \in associations :
                 /\ associations = {a}
                 /\ Continue(t, "commit",
                             [work[t] EXCEPT !.dropAssociations = {a.id}])
           \/ /\ ~\E row \in permissions \cup associations :
                     permissions \cup associations = {row}
              /\ Rollback(t)

\* UserAdministration/Delete: Permissions.Clear() loads the active permissions of
\* the user and makes each an orphan to delete.
ClearPermissions(t) ==
    /\ pc[t] = "clearPermissions"
    /\ Continue(t, "clearAssociations",
           [work[t] EXCEPT !.dropPermissions =
               {p.id : p \in {x \in Active(db.permissions) :
                                  x.user = work[t].user}}])

\* UnitAssociations.Clear() and Remove(userToDelete).
ClearAssociations(t) ==
    /\ pc[t] = "clearAssociations"
    /\ Continue(t, "commit",
           [work[t] EXCEPT
               !.deleteUser = TRUE,
               !.dropAssociations =
                   {a.id : a \in {x \in Active(db.associations) :
                                      x.user = work[t].user}}])

-----------------------------------------------------------------------------
(* The commit. *)

\* A slip of the check below: nobody counts the rows a delete touched.
CommitUncounted(t) ==
    LET w == work[t]
        userIds == {u.id : u \in db.users}
    IN  /\ w.insertUser => UserIds(db, request[t].login) = {}
        /\ (w.addRoles # {} \/ w.addUnits # {}) /\ ~w.insertUser
              => w.user \in userIds

\* SQL Server's foreign keys and NHibernate's row counts at the flush: the user
\* of a new row must be there (FK_Permissions_Users, FK_UnitAssociations_Users),
\* a deleted row must still be there, a deleted user must have no row left,
\* active or not, and logins are unique, active or not (IX_Users).
CanCommit(t) ==
    LET w == work[t]
        userIds == {u.id : u \in db.users}
        rowsOf(rows) == {x \in rows : x.user = w.user}
    IN  /\ w.insertUser => UserIds(db, request[t].login) = {}
        /\ (w.addRoles # {} \/ w.addUnits # {}) /\ ~w.insertUser
              => w.user \in userIds
        /\ w.dropPermissions \subseteq {p.id : p \in db.permissions}
        /\ w.dropAssociations \subseteq {a.id : a \in db.associations}
        /\ w.deleteUser =>
              /\ w.user \in userIds
              /\ \A p \in rowsOf(db.permissions) : p.id \in w.dropPermissions
              /\ \A a \in rowsOf(db.associations) : a.id \in w.dropAssociations

\* How many rows of each table the session inserts.
Inserted(t) ==
    [users        |-> IF work[t].insertUser THEN 1 ELSE 0,
     permissions  |-> Cardinality(work[t].addRoles),
     associations |-> Cardinality(work[t].addUnits)]

\* How many it deletes.
Deleted(t) ==
    [users        |-> IF work[t].deleteUser THEN 1 ELSE 0,
     permissions  |-> Cardinality(work[t].dropPermissions),
     associations |-> Cardinality(work[t].dropAssociations)]

\* The tables once the session is flushed.  A session adds at most one row to a
\* table, so its id is the next IDENTITY value.
Flushed(t) ==
    LET r == request[t]
        w == work[t]
        user == IF w.insertUser THEN identity.users + 1 ELSE w.user
    IN  [db EXCEPT
            !.users =
                {u \in @ : w.deleteUser => u.id # w.user} \cup
                (IF w.insertUser
                 THEN {[id |-> user, login |-> r.login, inactive |-> FALSE]}
                 ELSE {}),
            !.permissions =
                {p \in @ : p.id \notin w.dropPermissions} \cup
                {[id |-> identity.permissions + 1, user |-> user, app |-> r.app,
                  role |-> role, inactive |-> FALSE] : role \in w.addRoles},
            !.associations =
                {a \in @ : a.id \notin w.dropAssociations} \cup
                {[id |-> identity.associations + 1, user |-> user, app |-> r.app,
                  unit |-> unit, inactive |-> FALSE] : unit \in w.addUnits}]

\* The AuditInterceptor writes, in the same transaction, one row for each entity
\* the session saves and one for each it deletes.
Audited(t) ==
    [o \in Tables |->
        [Create |-> audits[o].Create + Inserted(t)[o],
         Delete |-> audits[o].Delete + Deleted(t)[o]]]

Commit(t) ==
    /\ pc[t] = "commit"
    /\ CanCommit(t)
    /\ db' = Flushed(t)
    /\ identity' = [o \in Tables |-> identity[o] + Inserted(t)[o]]
    /\ audits' = Audited(t)
    /\ EndRequest(t)

\* A slip of the step below: the same commit is tried for ever.
CommitRetries(t) ==
    /\ pc[t] = "commit"
    /\ ~CanCommit(t)
    /\ UNCHANGED vars

\* An exception of the database leaves the action.
CommitFails(t) ==
    /\ pc[t] = "commit"
    /\ ~CanCommit(t)
    /\ Rollback(t)

-----------------------------------------------------------------------------
Handle(t) ==
    \/ ReadScope(t)
    \/ EnsureCurrentUserCanManageLogin(t)
    \/ EnsureCurrentUserCanModifyRole(t)
    \/ EnsureCurrentUserCanModifyUnit(t)
    \/ FindUser(t)
    \/ FindRow(t)
    \/ RoleIsAssociatedWithApplication(t)
    \/ PermissionExists(t)
    \/ AssociationExists(t)
    \/ ClearPermissions(t)
    \/ ClearAssociations(t)
    \/ Commit(t)
    \/ CommitFails(t)

Next == \E t \in Threads : Submit(t) \/ Handle(t) \/ Abort(t)

\* The server keeps running the thread of an accepted request; nobody has to
\* post one, and nothing has to fail.
Fairness == \A t \in Threads : WF_vars(Handle(t))

Spec == Init /\ [][Next]_vars /\ Fairness

-----------------------------------------------------------------------------
(* Which operation is where.                                                  *)

\* The operations whose handler takes each step.
OpsAt(step) ==
    CASE step \in {"loginScope", "login"} -> GuardedOps
      [] step = "role" -> RoleOps
      [] step \in {"unitScope", "unit"} -> UnitOps
      [] step = "findUser" ->
            {"AddPermission", "AddUnit", "InsertNewUser", "AdminDeleteUser"}
      [] step = "findRow" ->
            {"RemovePermission", "RemoveUnit", "AdminRemovePermission",
             "AdminRemoveAssociation"}
      [] step = "roleAllowed" -> {"AdminAddPermission"}
      [] step = "permissionExists" -> InsertOps.permissions
      [] step = "associationExists" -> InsertOps.associations
      [] step \in {"clearPermissions", "clearAssociations"} ->
            {"AdminDeleteUser"}
      [] step = "commit" -> {r.op : r \in Requests}
      [] OTHER -> {}

\* The pending writes are writes the operation of r makes: at most one new row in
\* each table.
SessionFits(r, w) ==
    /\ w.insertUser => r.op \in InsertOps.users
    /\ w.addRoles # {} =>
          r.op \in InsertOps.permissions /\ w.addRoles = {r.role}
    /\ w.addUnits # {} =>
          r.op \in InsertOps.associations /\ w.addUnits = {r.unit}
    /\ IsFiniteSet(w.dropPermissions)
    /\ IsFiniteSet(w.dropAssociations)

\* A thread is at a step of the operation it handles; an idle one keeps nothing
\* of its last request.
HandlersKeepToTheirSteps ==
    \A t \in Threads :
        /\ pc[t] = "idle" => work[t] = NoWork /\ scope[t] = NoScope
        /\ pc[t] # "idle" =>
              /\ request[t] \in Requests
              /\ request[t].op \in OpsAt(pc[t])
              /\ SessionFits(request[t], work[t])

\* The tables stay finite.
TablesFinite == \A table \in Tables : IsFiniteSet(db[table])

TypeInv == TypeOK /\ HandlersKeepToTheirSteps /\ TablesFinite

-----------------------------------------------------------------------------
(* What delegation through the four guarded handlers can reach from InitDb.    *)

RolesHeldIn(database, app) ==
    {p.role : p \in {x \in Active(database.permissions) : x.app = app}}

\* The leveled ApplicationRoles rows of an application.
Leveled(database, app) ==
    {ar \in database.applicationRoles : ar.app = app /\ ar.level # NoLevel}

\* The roles somebody held in the application at the start, and those at a
\* greater level than one of them.
DelegableRoles ==
    [app \in Apps |->
        RolesHeldIn(InitDb, app) \cup
        {ar.role : ar \in {x \in Leveled(InitDb, app) :
            \E y \in Leveled(InitDb, app) :
                y.role \in RolesHeldIn(InitDb, app) /\ x.level > y.level}}]

\* The schools of the units somebody was associated with at the start.
InitSchools ==
    [app \in Apps |->
        {SchoolOf[a.unit] :
            a \in {x \in Active(InitDb.associations) : x.app = app}}]

\* The logins with a unit in the application at the start.
Insiders ==
    [app \in Apps |-> {l \in Logins : UnitsOf(InitDb, app, l) # {}}]

\* What administrators can take away or delete, for no current login.
AdminRemovals ==
    {"AdminRemovePermission", "AdminRemoveAssociation", "AdminDeleteUser"}

\* Nothing is given but through the guarded handlers.
OnlyGuardedGrants == \A r \in Requests : r.op \in GuardedOps \cup AdminRemovals

\* However the handlers of AddPermission and RemovePermission overlap, and
\* although each acts on rights it read some queries earlier, no role is ever
\* held in an application unless somebody held it at the start or held a role at
\* a smaller level: delegation (RoleService.GetVisibleByUser) only flows down.
\* Only the guarded handlers are meant to be held to this, whatever administrators
\* take away or delete meanwhile.
RolesStayDelegable ==
    \A app \in Apps : RolesHeldIn(db, app) \subseteq DelegableRoles[app]

\* When ManageAll can not be delegated in an application, units are only ever
\* associated within the schools the application started with: every chain of
\* ManageSchool and ManageUnit managers is confined by UnitService to schools
\* somebody is already in.
UnitsStayInSchools ==
    \A app \in Apps :
        ManageAll \notin DelegableRoles[app] =>
            \A a \in Active(db.associations) :
                a.app = app => SchoolOf[a.unit] \in InitSchools[app]

\* A login with no unit in the application can not be brought in through the
\* guarded handlers (EnsureCurrentUserCanManageLogin needs a common unit), and
\* no sequence of them makes it an exception: every row added belongs to a
\* login that had a unit there at the start.
OutsidersStayOutside ==
    \A row \in (db.permissions \ InitDb.permissions)
                 \cup (db.associations \ InitDb.associations) :
        \E l \in Insiders[row.app] : row.user \in UserIds(InitDb, l)

UnitWithinReach(app, unit) ==
    ManageAll \notin DelegableRoles[app] => SchoolOf[unit] \in InitSchools[app]

\* Request r, at this step, in scope sc, with session w: the scope it read was
\* held by somebody, the login it changes is an insider, and what it is about to
\* add was within reach when it was checked.
ActsWithinReach(r, step, sc, w) ==
    /\ sc # NoScope => sc \in DelegableRoles[r.app]
    /\ r.op \in GuardedOps /\ step \notin {"loginScope", "login"}
          => r.login \in Insiders[r.app]
    /\ r.op = "AddPermission"
          /\ step \in {"findUser", "permissionExists", "commit"}
          => r.role \in DelegableRoles[r.app]
    /\ r.op = "AddUnit"
          /\ step \in {"findUser", "associationExists", "commit"}
          => UnitWithinReach(r.app, r.unit)
    /\ step \in {"permissionExists", "associationExists"}
          \/ w.addRoles # {} \/ w.addUnits # {}
          => w.user \in UserIds(InitDb, r.login)
    /\ ~w.insertUser

\* What a thread past a guard may rely on, whatever the others have done since.
HandlersActWithinReach ==
    \A t \in Threads :
        pc[t] # "idle" =>
            ActsWithinReach(request[t], pc[t], scope[t], work[t])

\* The inductive invariant behind the three properties above.
DelegationInv ==
    /\ TypeInv
    /\ db.users \subseteq InitDb.users
    /\ db.applicationRoles = InitDb.applicationRoles
    /\ RolesStayDelegable
    /\ UnitsStayInSchools
    /\ OutsidersStayOutside
    /\ HandlersActWithinReach

\* Everyone the current login may manage and who has a role in the application
\* is on the list the Manage page shows: the condition of GetByApplication is
\* never narrower than that of CanUserManageGivenLogin.
ManageableLoginsAreListed ==
    \A app \in Apps, current \in Logins :
        LET found == ManagementScope(db, app, current)
            listed == GetByApplication(db, app, current, found)
        IN  found # NoScope =>
                \A login \in Logins :
                    /\ CanUserManageGivenLogin(db, app, current, login, found)
                    /\ RolesOf(db, app, login) # {}
                    => login \in listed

-----------------------------------------------------------------------------
(* Copies, audits, completion. *)

\* AssociateRole and AssociateUnit, and the two administrative adds, look for a
\* row before they insert one, and nothing in the schema makes the row unique.
\* Handlers that overlap can each insert their own, but never more copies exist
\* than handlers can overlap; with one thread there is never a second one.
CopiesBounded ==
    /\ \A p \in Active(db.permissions) :
          Cardinality(Copies(p.user, p.app, p.role)) <= Cardinality(Threads)
    /\ \A a \in Active(db.associations) :
          Cardinality(AssociationCopies(a.user, a.app, a.unit))
              <= Cardinality(Threads)

\* "Now make sure the user doesn't already have this role"
\* (UserAdministrationController.cs:293): a user never has a role in an
\* application twice.
NoDuplicatePermissions ==
    \A p, q \in Active(db.permissions) :
        (p.user = q.user /\ p.app = q.app /\ p.role = q.role) => p = q

\* The Audits table accounts for every row of the three tables: whatever
\* overlaps, fails at its commit or is abandoned, the rows there are the rows at
\* the start plus the audited creations minus the audited deletions.
AuditTrailBalances ==
    \A table \in Tables :
        Cardinality(db[table]) =
            Cardinality(InitDb[table])
                + audits[table].Create - audits[table].Delete

\* A step in which t commits a request of one of the operations.
Commits(t, ops) == pc[t] = "commit" /\ request[t].op \in ops /\ Commit(t)

\* InsertNewUser saves the user, the role and the unit or none of them: a user
\* row that appears in one of its commits comes with both.
NewUserArrivesComplete ==
    [][\A t \in Threads : \A u \in db'.users \ db.users :
          Commits(t, {"InsertNewUser"}) =>
              LET r == request[t]
              IN  /\ \E p \in Active(db'.permissions) :
                        p.user = u.id /\ p.app = r.app /\ p.role = r.role
                  /\ \E a \in Active(db'.associations) :
                        a.user = u.id /\ a.app = r.app /\ a.unit = r.unit]_vars

\* Handled one at a time, InsertNewUser leaves the login with the role and the
\* unit, whether or not the user, the role or the unit were there before.
InsertNewUserDelivers ==
    [][\A t \in Threads :
          Commits(t, {"InsertNewUser"}) =>
              LET r == request[t]
              IN  /\ r.role \in RolesOf(db', r.app, r.login)
                  /\ r.unit \in UnitsOf(db', r.app, r.login)]_vars

\* Handled one at a time, whatever a guarded handler commits is backed by what
\* the current login may do at that very instant, not only when it was checked.
CommitsAreBacked ==
    [][\A t \in Threads :
          Commits(t, GuardedOps) =>
             LET r == request[t]
                 now == ManagementScope(db, r.app, r.actor)
             IN  /\ CanUserManageGivenLogin(db, r.app, r.actor, r.login, now)
                 /\ IF r.op \in RoleOps
                    THEN r.role \in VisibleRoles(db, r.app, r.actor)
                    ELSE r.unit \in VisibleUnits(db, r.app, r.actor, now)]_vars

\* Every accepted request is answered, by a commit, a refusal or an error.
RequestsEnd == \A t \in Threads : pc[t] # "idle" ~> pc[t] = "idle"
=============================================================================
