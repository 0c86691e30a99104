------------------------------ MODULE RoleStore ------------------------------
(***************************************************************************)
(* The permissions of one application as two kinds of programs write them: *)
(* other programs call usp_insertUserInRole and usp_deleteUserFromRole,    *)
(* which remove a row by making it inactive; Catbert's administrators use  *)
(* UserAdministrationController, which sees active rows only and deletes   *)
(* them.  Catbert also caches which management roles a login has.          *)
(*                                                                         *)
(* A procedure is called outside of a transaction, as none of them begins  *)
(* one: each of its statements takes effect at once.  A request of an      *)
(* administrator is one transaction: it reads, and its writes take effect  *)
(* together at the commit.                                                 *)
(***************************************************************************)
EXTENDS Naturals, FiniteSets

CONSTANTS
    Threads,     \* connections of other programs and threads of the server
    Users,
    Roles,       \* role names programs may ask for
    Known,       \* those there is a role of
    ManageRoles, \* those whose names begin with "Manage"
    NoRole,      \* the RoleID NULL
    Ids,         \* permission ids: IDENTITY values, given out in any order, once
    Calls,       \* what programs and administrators may ask for
    NoCall,      \* the call of an idle thread
    NoResult,    \* nothing cached
    InitRows     \* the Permissions table at the start

Row == [id : Ids, user : Users, role : Known \cup {NoRole}, inactive : BOOLEAN]

Procedure ==
    [op : {"insertUserInRole", "deleteUserFromRole"}, user : Users, role : Roles]

AdminRequest ==
    [op : {"AddPermission"}, user : Users, role : Known]
    \cup [op : {"RemovePermission"}, id : Ids]
    \cup [op : {"DeleteUser"}, user : Users]

IdsOf(rs) == {row.id : row \in rs}

ASSUME RoleStoreAssumption ==
    /\ Known \subseteq Roles /\ ManageRoles \subseteq Known /\ NoRole \notin Roles
    /\ Calls \subseteq Procedure \cup AdminRequest
    /\ NoCall \notin Calls
    /\ InitRows \subseteq Row
    /\ \A x, y \in InitRows : x.id = y.id => x = y

\* A cached result is a set of roles, NoResult is none.
ASSUME NoResultAssumption == \A result \in SUBSET Roles : result # NoResult

-----------------------------------------------------------------------------
VARIABLES
    rows,   \* the Permissions table
    users,  \* the logins in the Users table
    given,  \* the ids ever given out
    cached, \* the management roles cached for each login
    pc,     \* the next step of each thread
    call,   \* what it was asked for
    found   \* the rows its last query found

vars == <<rows, users, given, cached, pc, call, found>>
tables == <<rows, users, given>>

TypeOK ==
    /\ rows \subseteq Row
    /\ users \subseteq Users
    /\ given \subseteq Ids
    /\ cached \in [Users -> {NoResult} \cup SUBSET Roles]
    /\ pc \in [Threads -> {"idle", "insert", "find", "update", "load", "commit"}]
    /\ call \in [Threads -> Calls \cup {NoCall}]
    /\ found \in [Threads -> SUBSET Row]

Init ==
    /\ rows = InitRows
    /\ users = Users
    /\ given = IdsOf(InitRows)
    /\ cached = [u \in Users |-> NoResult]
    /\ pc = [t \in Threads |-> "idle"]
    /\ call = [t \in Threads |-> NoCall]
    /\ found = [t \in Threads |-> {}]

-----------------------------------------------------------------------------
FirstStep(c) ==
    CASE c.op = "insertUserInRole" -> "insert"
      [] c.op = "deleteUserFromRole" -> "find"
      [] OTHER -> "load"

Submit(t) ==
    \E c \in Calls :
        /\ pc[t] = "idle"
        /\ pc' = [pc EXCEPT ![t] = FirstStep(c)]
        /\ call' = [call EXCEPT ![t] = c]
        /\ UNCHANGED <<tables, cached, found>>

\* A slip of the step below: the session, and what it loaded, outlives the call.
EndKeepingRows(t) ==
    /\ pc' = [pc EXCEPT ![t] = "idle"]
    /\ call' = [call EXCEPT ![t] = NoCall]
    /\ UNCHANGED found

End(t) ==
    /\ pc' = [pc EXCEPT ![t] = "idle"]
    /\ call' = [call EXCEPT ![t] = NoCall]
    /\ found' = [found EXCEPT ![t] = {}]

\* Lost connections, deadlocks, timeouts.
Abort(t) ==
    /\ pc[t] # "idle"
    /\ End(t)
    /\ UNCHANGED <<tables, cached>>

RowsOf(user, role) == {row \in rows : row.user = user /\ row.role = role}

NewRow(user, role) ==
    \E id \in Ids \ given :
        /\ rows' = rows \cup
               {[id |-> id, user |-> user, role |-> role, inactive |-> FALSE]}
        /\ given' = given \cup {id}

-----------------------------------------------------------------------------
(* The procedures.                                                          *)

\* "Assume that the user is not already in the role".  An unknown role is NULL,
\* an unknown user fails the insert.  Whatever came of it, the INSERT into
\* Tracking then fails: 'Role ' + @RID is a sum of integers, and 'Role ' is none.
InsertUserInRole(t) ==
    LET role == IF call[t].role \in Known THEN call[t].role ELSE NoRole
    IN  /\ pc[t] = "insert"
        /\ \/ /\ call[t].user \in users
              /\ NewRow(call[t].user, role)
              /\ UNCHANGED users
           \/ /\ call[t].user \notin users
              /\ UNCHANGED tables
        /\ End(t)
        /\ UNCHANGED cached

\* SET @PermissionID: active or not, the row must be the only one; a subquery
\* with more than one leaves the variable NULL, as one with none does.
FindPermission(t) ==
    LET matches == RowsOf(call[t].user, call[t].role)
    IN  /\ pc[t] = "find"
        /\ found' = [found EXCEPT ![t] =
               IF Cardinality(matches) = 1 THEN matches ELSE {}]
        /\ pc' = [pc EXCEPT ![t] = "update"]
        /\ UNCHANGED <<tables, cached, call>>

\* A slip of the step below: the update does not name the permission.
UpdateUser(t) ==
    /\ pc[t] = "update"
    /\ rows' = {IF found[t] # {} /\ row.user = call[t].user
                THEN [row EXCEPT !.inactive = TRUE] ELSE row : row \in rows}
    /\ End(t)
    /\ UNCHANGED <<users, given, cached>>

\* "Now we can set that permission as false".  The INSERT into Tracking fails
\* here, too.
Update(t) ==
    /\ pc[t] = "update"
    /\ rows' = {IF row.id \in IdsOf(found[t])
                THEN [row EXCEPT !.inactive = TRUE] ELSE row : row \in rows}
    /\ End(t)
    /\ UNCHANGED <<users, given, cached>>

-----------------------------------------------------------------------------
(* The administrators.                                                      *)

\* NHibernate adds Inactive = 0 to the query and, as the mapping says that every
\* permission has a role, joins the role in.
Active(rs) == {row \in rs : ~row.inactive /\ row.role # NoRole}

LoadNothing(t) ==
    /\ End(t)
    /\ UNCHANGED <<tables, cached>>

LoadRows(t, loaded) ==
    /\ found' = [found EXCEPT ![t] = loaded]
    /\ pc' = [pc EXCEPT ![t] = "commit"]
    /\ UNCHANGED <<tables, cached, call>>

\* "Now make sure the user doesn't already have this role"
CheckPermission(t) ==
    LET has == Active(RowsOf(call[t].user, call[t].role)) # {}
    IN  /\ pc[t] = "load" /\ call[t].op = "AddPermission"
        /\ IF has THEN LoadNothing(t) ELSE LoadRows(t, {})

LoadPermission(t) ==
    LET loaded == {row \in Active(rows) : row.id = call[t].id}
    IN  /\ pc[t] = "load" /\ call[t].op = "RemovePermission"
        /\ IF loaded = {} THEN LoadNothing(t) ELSE LoadRows(t, loaded)

\* A slip of the step below: the collection is mapped without its filter.
LoadUserAllRows(t) ==
    /\ pc[t] = "load" /\ call[t].op = "DeleteUser"
    /\ IF call[t].user \in users
       THEN LoadRows(t, {row \in rows : row.user = call[t].user})
       ELSE LoadNothing(t)

\* GetUser, then Clear() loads the collection, which has the active rows.  A user
\* who goes in between fails the commit, either way.
LoadUser(t) ==
    /\ pc[t] = "load" /\ call[t].op = "DeleteUser"
    /\ IF call[t].user \in users
       THEN LoadRows(t, {row \in Active(rows) : row.user = call[t].user})
       ELSE LoadNothing(t)

\* A slip of the operator below: what was cached stays.
KeepCache == cached' = cached

\* Every flush that touches Permissions makes what was cached from it stale.
Invalidate == cached' = [u \in Users |-> NoResult]

\* A slip of the operator below: no foreign key, so rows may be left.
CanDeleteWithoutKey(t) ==
    /\ IdsOf(found[t]) \subseteq IdsOf(rows)
    /\ call[t].op = "DeleteUser" => call[t].user \in users

\* The deletes find their rows, by id, active or not, and no row that is left
\* names a user who goes.
CanDelete(t) ==
    LET left == {row \in rows : row.id \notin IdsOf(found[t])}
    IN  /\ IdsOf(found[t]) \subseteq IdsOf(rows)
        /\ call[t].op = "DeleteUser" =>
              /\ call[t].user \in users
              /\ \A row \in left : row.user # call[t].user

CommitAdd(t) ==
    /\ pc[t] = "commit" /\ call[t].op = "AddPermission"
    /\ call[t].user \in users
    /\ NewRow(call[t].user, call[t].role)
    /\ Invalidate
    /\ End(t)
    /\ UNCHANGED users

CommitDelete(t) ==
    /\ pc[t] = "commit" /\ call[t].op \in {"RemovePermission", "DeleteUser"}
    /\ CanDelete(t)
    /\ rows' = {row \in rows : row.id \notin IdsOf(found[t])}
    /\ users' = IF call[t].op = "DeleteUser" THEN users \ {call[t].user}
                ELSE users
    /\ Invalidate
    /\ End(t)
    /\ UNCHANGED given

CommitFails(t) ==
    /\ pc[t] = "commit"
    /\ IF call[t].op = "AddPermission" THEN call[t].user \notin users
       ELSE ~CanDelete(t)
    /\ Invalidate
    /\ End(t)
    /\ UNCHANGED tables

\* GetManagementRolesForUserInApplication, when nothing valid is cached; when it
\* is, the answer comes from there.
GetManagementRoles(u) ==
    /\ cached[u] = NoResult
    /\ cached' = [cached EXCEPT ![u] =
           {row.role : row \in {r \in Active(rows) :
                                   r.user = u /\ r.role \in ManageRoles}}]
    /\ UNCHANGED <<tables, pc, call, found>>

-----------------------------------------------------------------------------
Handle(t) ==
    \/ InsertUserInRole(t)
    \/ FindPermission(t)
    \/ Update(t)
    \/ CheckPermission(t)
    \/ LoadPermission(t)
    \/ LoadUser(t)
    \/ CommitAdd(t)
    \/ CommitDelete(t)
    \/ CommitFails(t)

Next ==
    \/ \E t \in Threads : Submit(t) \/ Handle(t) \/ Abort(t)
    \/ \E u \in Users : GetManagementRoles(u)

Spec == Init /\ [][Next]_vars

-----------------------------------------------------------------------------
(* Properties.                                                              *)

\* Which call is at which step, and what its query can have found.
CallsKeepToTheirSteps ==
    \A t \in Threads :
        /\ pc[t] # "idle" => call[t] \in Calls
        /\ pc[t] \notin {"update", "commit"} => found[t] = {}
        /\ pc[t] = "insert" => call[t].op = "insertUserInRole"
        /\ pc[t] \in {"find", "update"} => call[t].op = "deleteUserFromRole"
        /\ pc[t] \in {"load", "commit"} =>
              call[t].op \in {"AddPermission", "RemovePermission", "DeleteUser"}

TypeInv == TypeOK /\ CallsKeepToTheirSteps

SoftDeleted(row) == [row EXCEPT !.inactive = TRUE]

\* What a query found is what it was, or has become inactive, or is gone; no row
\* takes the id of another.
FoundRowsKeepTheirIds ==
    /\ IdsOf(rows) \subseteq given
    /\ \A x, y \in rows : x.id = y.id => x = y
    /\ \A t \in Threads : \A old \in found[t] :
          /\ old.id \in given
          /\ \A row \in rows :
                row.id = old.id => row = old \/ row = SoftDeleted(old)
          /\ pc[t] = "commit" => ~old.inactive
          /\ pc[t] = "update" =>
                old.user = call[t].user /\ old.role = call[t].role
          /\ pc[t] = "commit" /\ call[t].op = "RemovePermission" =>
                old.id = call[t].id
          /\ pc[t] = "commit" /\ call[t].op = "DeleteUser" =>
                old.user = call[t].user

\* What every thread relies on between two statements: the step it is at, and
\* which rows an id it holds can mean by now.
RoleStoreInv == TypeInv /\ FoundRowsKeepTheirIds

\* History stays: a soft-deleted row does not come back to life, and leaves the
\* table only with a request that loaded it while it was still active.
\* Administrators can not delete a user with such a row.
HistoryStays ==
    [][\A row \in rows :
          row.inactive =>
              /\ [row EXCEPT !.inactive = FALSE] \notin rows'
              /\ \/ row \in rows'
                 \/ \E t \in Threads : \E old \in found[t] :
                       pc[t] = "commit" /\ ~old.inactive /\ row = SoftDeleted(old)
      ]_vars

\* A removal takes the role from nobody but the user it names, however old what
\* it found, and takes no other role from that user.
RemovalsHitTheirTarget ==
    [][\A row \in rows :
          ~row.inactive /\ SoftDeleted(row) \in rows' =>
              \E t \in Threads :
                  /\ pc[t] = "update"
                  /\ row.user = call[t].user /\ row.role = call[t].role]_vars

\* A right the cache still grants is one the login has, or one that another
\* program took away behind NHibernate's back: the inactive row shows it.
StaleRightsWereSoftDeleted ==
    \A u \in Users : cached[u] # NoResult =>
        \A role \in cached[u] : RowsOf(u, role) # {}

\* Every row, active or not, is of a user who is there.
RowsHaveUsers == \A row \in rows : row.user \in users

\* RoleService.IsUserInRole, asked of the rows rs.
IsUserInRole(rs, user, role) ==
    \E row \in Active(rs) : row.user = user /\ row.role = role

\* "Now we can set that permission as false" (usp_deleteUserFromRole.proc.sql:38):
\* when the procedure has updated the table, the user is not in the role.
RemovedUsersAreOut ==
    [][\A t \in Threads :
          Update(t) => ~IsUserInRole(rows', call[t].user, call[t].role)]_vars

\* The condition RemovedUsersAreOut lacks, to the letter: while nothing overlaps,
\* usp_deleteUserFromRole leaves a user in the role exactly if the table has
\* another row, active or not, of the same user and role.
RemovalsFailOnCopiesOnly ==
    [][\A t \in Threads :
          Update(t) =>
              LET user == call[t].user
                  role == call[t].role
              IN  IsUserInRole(rows', user, role) <=>
                      /\ IsUserInRole(rows, user, role)
                      /\ Cardinality(RowsOf(user, role)) # 1]_vars

\* While nothing overlaps, what the first statement found is still so.
FoundIsCurrent ==
    \A t \in Threads :
        pc[t] = "update" =>
            LET matches == RowsOf(call[t].user, call[t].role)
            IN  found[t] = IF Cardinality(matches) = 1 THEN matches ELSE {}

=============================================================================
