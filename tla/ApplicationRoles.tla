-------------------------- MODULE ApplicationRoles --------------------------
(***************************************************************************)
(* The roles of an application and their levels, as administrators write   *)
(* them: ApplicationController.Create and Edit, which replace the rows of  *)
(* ApplicationRoles by the two lists of the posted form                    *)
(* (SetApplicationRoles), and RoleController.Create, which adds a role to  *)
(* the system.  As in UserManagement a request is one transaction at READ  *)
(* COMMITTED: its queries are steps of their own and its writes take       *)
(* effect together at the commit.                                          *)
(***************************************************************************)
EXTENDS Integers, Sequences, Functions

CONSTANTS
    Threads,      \* the server's request threads
    Apps,         \* the names an application may have
    Roles,        \* the names a role may have
    NoLevel,      \* the level of an unordered role: NULL
    Forms,        \* the forms administrators may post
    NoForm,       \* the form of an idle thread
    InitApps,     \* the applications there are at the start,
    InitRows,     \* their ApplicationRoles rows,
    InitIdentity, \* the last IDENTITY value of that table
    InitStatus,   \* and what is known of each role name
    MaxId         \* bound: with the IDENTITY here, only role forms are accepted

ApplicationForm ==
    [op : {"Create", "Edit"}, app : Apps,
     ordered : Seq(Roles), unordered : Seq(Roles)]
RoleForm == [op : {"CreateRole"}, role : Roles]

Row == [id : Nat, app : Apps, role : Roles, level : Nat \cup {NoLevel}]

Status == {"absent", "active", "inactive"}

\* Both lists of a form, the ordered one first, as SetApplicationRoles adds them.
Posted(f) == f.ordered \o f.unordered

RowsOf(rs, app) == {row \in rs : row.app = app}

Ids(rs) == {row.id : row \in rs}

\* A list item of the page is in one list, once.
ASSUME FormAssumption ==
    /\ Forms \subseteq ApplicationForm \cup RoleForm
    /\ NoForm \notin Forms
    /\ \A f \in Forms : f.op # "CreateRole" => IsInjective(Posted(f))

ASSUME InitAssumption ==
    /\ InitApps \subseteq Apps
    /\ InitIdentity \in Nat /\ MaxId \in Nat
    /\ InitRows \subseteq Row
    /\ \A row \in InitRows : row.app \in InitApps /\ row.id <= InitIdentity
    /\ \A x, y \in InitRows : x.id = y.id => x = y
    /\ InitStatus \in [Roles -> Status]

-----------------------------------------------------------------------------
VARIABLES
    apps,       \* the applications there are
    rows,       \* the ApplicationRoles table
    identity,   \* its last IDENTITY value
    status,     \* of each role name: the Roles table
    pc,         \* the next step of each thread
    form,       \* the form each thread handles
    orphans     \* the ids of the rows its session took out of the collection

vars == <<apps, rows, identity, status, pc, form, orphans>>

Step == {"idle", "application", "clear", "roles", "roleName", "commit"}

TypeOK ==
    /\ apps \subseteq Apps
    /\ rows \subseteq Row
    /\ identity \in Nat
    /\ status \in [Roles -> Status]
    /\ pc \in [Threads -> Step]
    /\ form \in [Threads -> Forms \cup {NoForm}]
    /\ orphans \in [Threads -> SUBSET Nat]

Init ==
    /\ apps = InitApps
    /\ rows = InitRows
    /\ identity = InitIdentity
    /\ status = InitStatus
    /\ pc = [t \in Threads |-> "idle"]
    /\ form = [t \in Threads |-> NoForm]
    /\ orphans = [t \in Threads |-> {}]

-----------------------------------------------------------------------------
FirstStep(f) ==
    CASE f.op = "Edit" -> "application"
      [] f.op = "Create" -> "roles"
      [] OTHER -> "roleName"

Submit(t) ==
    \E f \in Forms :
        /\ pc[t] = "idle"
        /\ f.op # "CreateRole" => identity < MaxId
        /\ pc' = [pc EXCEPT ![t] = FirstStep(f)]
        /\ form' = [form EXCEPT ![t] = f]
        /\ UNCHANGED <<apps, rows, identity, status, orphans>>

EndRequest(t) ==
    /\ pc' = [pc EXCEPT ![t] = "idle"]
    /\ form' = [form EXCEPT ![t] = NoForm]
    /\ orphans' = [orphans EXCEPT ![t] = {}]

Rollback(t) ==
    /\ EndRequest(t)
    /\ UNCHANGED <<apps, rows, identity, status>>

Abort(t) ==
    /\ pc[t] # "idle"
    /\ Rollback(t)

Continue(t, next) ==
    /\ pc' = [pc EXCEPT ![t] = next]
    /\ UNCHANGED <<apps, rows, identity, status, form>>

\* GetNullableById: an application that is not there is a redirect.
FindApplication(t) ==
    /\ pc[t] = "application"
    /\ \/ /\ form[t].app \in apps
          /\ Continue(t, "clear")
          /\ UNCHANGED orphans
       \/ /\ form[t].app \notin apps
          /\ Rollback(t)

\* A slip of the step below: the rows stay where they are.
ClearNothing(t) ==
    /\ pc[t] = "clear"
    /\ Continue(t, "roles")
    /\ UNCHANGED orphans

\* ApplicationRoles.Clear() loads the collection, and makes an orphan of each
\* row it finds (Cascade.AllDeleteOrphan).
ClearRoles(t) ==
    /\ pc[t] = "clear"
    /\ Continue(t, "roles")
    /\ orphans' = [orphans EXCEPT ![t] = Ids(RowsOf(rows, form[t].app))]

\* A slip of the step below: a name that is not there does not stop the form.
FindAnyRoles(t) ==
    /\ pc[t] = "roles"
    /\ Continue(t, "commit")
    /\ UNCHANGED orphans

\* One query for all the roles of the form; Single() throws for a name that is
\* not there or, as the mapping says Inactive = 0, not active.
FindRoles(t) ==
    LET found == \A i \in DOMAIN Posted(form[t]) :
                     status[Posted(form[t])[i]] = "active"
    IN  /\ pc[t] = "roles"
        /\ \/ /\ found
              /\ Continue(t, "commit")
              /\ UNCHANGED orphans
           \/ /\ ~found
              /\ Rollback(t)

\* RoleController.Create refuses a name in active use.
RoleNameIsFree(t) ==
    /\ pc[t] = "roleName"
    /\ \/ /\ status[form[t].role] # "active"
          /\ Continue(t, "commit")
          /\ UNCHANGED orphans
       \/ /\ status[form[t].role] = "active"
          /\ Rollback(t)

-----------------------------------------------------------------------------
(* The commit. *)

\* A slip of the check below: the index on role names covers active rows only.
CanCommitOverInactive(t) ==
    LET f == form[t]
    IN  CASE f.op = "Create" -> f.app \notin apps
          [] f.op = "Edit" -> orphans[t] \subseteq Ids(rows)
          [] OTHER -> status[f.role] # "active"

\* A slip of the check below: a row that is gone counts as deleted.
CanCommitUncounted(t) ==
    LET f == form[t]
    IN  CASE f.op = "Create" -> f.app \notin apps
          [] f.op = "Edit" -> TRUE
          [] OTHER -> status[f.role] = "absent"

\* Names are unique, those of roles whether active or not (IX_Applications,
\* IX_Roles), and NHibernate counts the rows each of its deletes touched.
CanCommit(t) ==
    LET f == form[t]
    IN  CASE f.op = "Create" -> f.app \notin apps
          [] f.op = "Edit" -> orphans[t] \subseteq Ids(rows)
          [] OTHER -> status[f.role] = "absent"

\* The rows a form asks for, the IDENTITY being at last: the ordered roles at
\* levels 1, 2, ..., then the unordered ones.
NewRows(f, last) ==
    {[id |-> last + i, app |-> f.app, role |-> Posted(f)[i],
      level |-> IF i <= Len(f.ordered) THEN i ELSE NoLevel] :
        i \in DOMAIN Posted(f)}

CommitApplication(t) ==
    LET f == form[t]
    IN  /\ f.op \in {"Create", "Edit"}
        /\ apps' = apps \cup {f.app}
        /\ rows' = {row \in rows : row.id \notin orphans[t]}
                       \cup NewRows(f, identity)
        /\ identity' = identity + Len(Posted(f))
        /\ UNCHANGED status

CommitRole(t) ==
    /\ form[t].op = "CreateRole"
    /\ status' = [status EXCEPT ![form[t].role] = "active"]
    /\ UNCHANGED <<apps, rows, identity>>

Commit(t) ==
    /\ pc[t] = "commit"
    /\ CanCommit(t)
    /\ CommitApplication(t) \/ CommitRole(t)
    /\ EndRequest(t)

CommitFails(t) ==
    /\ pc[t] = "commit"
    /\ ~CanCommit(t)
    /\ Rollback(t)

-----------------------------------------------------------------------------
\* Another program retires a role with usp_deleteEmptyRole, when it finds that
\* nobody has it.
RetireRole(role) ==
    /\ status[role] = "active"
    /\ status' = [status EXCEPT ![role] = "inactive"]
    /\ UNCHANGED <<apps, rows, identity, pc, form, orphans>>

Handle(t) ==
    \/ FindApplication(t)
    \/ ClearRoles(t)
    \/ FindRoles(t)
    \/ RoleNameIsFree(t)
    \/ Commit(t)
    \/ CommitFails(t)

Next ==
    \/ \E t \in Threads : Submit(t) \/ Handle(t) \/ Abort(t)
    \/ \E role \in Roles : RetireRole(role)

Spec == Init /\ [][Next]_vars

-----------------------------------------------------------------------------
(* Properties. *)

\* Where each handler may be, and which threads hold orphans.
HandlersKeepToTheirSteps ==
    \A t \in Threads :
        /\ pc[t] # "idle" =>
              /\ form[t] \in Forms
              /\ pc[t] \in {"application", "clear"} => form[t].op = "Edit"
              /\ pc[t] = "roles" => form[t].op \in {"Create", "Edit"}
              /\ pc[t] = "roleName" => form[t].op = "CreateRole"
        /\ orphans[t] # {} =>
              /\ pc[t] \in {"roles", "commit"}
              /\ form[t].op = "Edit"

TypeInv == TypeOK /\ HandlersKeepToTheirSteps

\* No application is without roles at the start, and no form leaves one so.
NeverEmpty ==
    /\ \A app \in InitApps : RowsOf(InitRows, app) # {}
    /\ \A f \in Forms : f.op # "CreateRole" => Posted(f) # <<>>

\* However edits of an application overlap, its roles are those of one form,
\* level for level and row for row, or those it started with: two edits never
\* mix.  It is the row counts of the deletes that make the slower of two edits
\* fail, so it takes an application that is never without roles.
OneFormAtATime ==
    NeverEmpty =>
        \A app \in apps :
            \/ app \in InitApps /\ RowsOf(rows, app) = RowsOf(InitRows, app)
            \/ \E f \in Forms : \E last \in 0..identity :
                  /\ f.op \in {"Create", "Edit"}
                  /\ f.app = app
                  /\ RowsOf(rows, app) = NewRows(f, last)

\* "Now we should have an application with reconciled roles"
\* (ApplicationController.cs:176): no role is in an application twice, and no
\* level belongs to two roles.
RolesAreReconciled ==
    \A x, y \in rows :
        x.app = y.app /\ (x.role = y.role \/ (x.level = y.level /\ x.level # NoLevel))
            => x = y

\* The rows at the start are reconciled.
ReconciledAtStart ==
    \A x, y \in InitRows :
        x.app = y.app /\ (x.role = y.role \/ (x.level = y.level /\ x.level # NoLevel))
            => x = y

\* A role name that was retired never comes back: RoleController.Create tells
\* administrators only about names in active use, and then fails on IX_Roles.
RetiredNamesStayTaken ==
    [][\A role \in Roles :
          status[role] = "inactive" => status'[role] = "inactive"]_vars

\* Ids are keys, given out once, and rows belong to applications there are.
RowsAreKeyed ==
    /\ \A row \in rows : row.app \in apps /\ row.id \in 0..identity
    /\ \A x, y \in rows : x.id = y.id => x = y
    /\ \A t \in Threads : \A id \in orphans[t] : id <= identity

\* An edit past FindApplication has an application to edit.
EditsHaveTheirApplication ==
    \A t \in Threads :
        pc[t] \in {"clear", "roles", "commit"} /\ form[t].op = "Edit"
            => form[t].app \in apps

\* An edit past ClearRoles has taken rows out, and they are either still the
\* whole of the application's rows or have nothing to do with them any more.
OrphansAreAllOrNone ==
    \A t \in Threads :
        pc[t] \in {"roles", "commit"} /\ form[t].op = "Edit" =>
            /\ orphans[t] # {}
            /\ \/ orphans[t] = Ids(RowsOf(rows, form[t].app))
               \/ orphans[t] \cap Ids(rows) = {}

NoApplicationIsEmpty == \A app \in apps : RowsOf(rows, app) # {}

\* The inductive invariant behind OneFormAtATime.
ReconciliationInv ==
    /\ TypeInv
    /\ RowsAreKeyed
    /\ EditsHaveTheirApplication
    /\ NeverEmpty => NoApplicationIsEmpty /\ OrphansAreAllOrNone
    /\ OneFormAtATime
=============================================================================
