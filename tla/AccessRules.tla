---------------------------- MODULE AccessRules ----------------------------
(***************************************************************************)
(* Who may see and manage what, inside one application.                    *)
(*                                                                         *)
(* These are the queries of Services/UserManagement (UserService,          *)
(* RoleService, UnitService), written over a database value: one record    *)
(* with a field per table.  A row is a record and a table is a set of      *)
(* rows.  Applications, roles and units stand for their own rows, because  *)
(* no handler modelled here inserts or deletes one.                        *)
(*                                                                         *)
(* NHibernate adds "Inactive = 0" to every query that STARTS from          *)
(* Permission, UnitAssociation or User, and does not add it when one of    *)
(* them is reached through a join: a permission of an inactive user still  *)
(* counts, but GetUser does not find that user.                            *)
(***************************************************************************)
EXTENDS Integers

CONSTANTS
    Logins,       \* Kerberos logins (Users.LoginID)
    Apps,         \* applications
    Roles,        \* roles
    Units,        \* units
    Schools,      \* schools
    SchoolOf,     \* the school of each unit (Unit.SchoolCode, NOT NULL)
    ManageAll,    \* the three roles UnitService.GetVisibleByUser knows by name
    ManageSchool,
    ManageUnit,
    NoLevel,      \* a NULL ApplicationRoles.Level
    NoScope       \* the current login has none of the three management roles

ASSUME RulesAssumption ==
    /\ SchoolOf \in [Units -> Schools]
    /\ {ManageAll, ManageSchool, ManageUnit} \subseteq Roles
    /\ NoScope \notin Roles
    /\ NoLevel \notin Int

ASSUME DistinctManagementRoles ==
    /\ ManageAll # ManageSchool
    /\ ManageAll # ManageUnit
    /\ ManageSchool # ManageUnit

-----------------------------------------------------------------------------
(* The tables. *)

UserRow == [id : Nat, login : Logins, inactive : BOOLEAN]

PermissionRow ==
    [id : Nat, user : Nat, app : Apps, role : Roles, inactive : BOOLEAN]

AssociationRow ==
    [id : Nat, user : Nat, app : Apps, unit : Units, inactive : BOOLEAN]

ApplicationRoleRow ==
    [id : Nat, app : Apps, role : Roles, level : Nat \cup {NoLevel}]

Database ==
    [users            : SUBSET UserRow,
     permissions      : SUBSET PermissionRow,
     associations     : SUBSET AssociationRow,
     applicationRoles : SUBSET ApplicationRoleRow]

\* The class-level filter of the mappings.
Active(rows) == {r \in rows : ~r.inactive}

UserIds(db, login) == {u.id : u \in {x \in db.users : x.login = login}}

-----------------------------------------------------------------------------
(* What a login holds in an application. *)

PermissionsOf(db, app, login) ==
    {p \in Active(db.permissions) :
        p.app = app /\ p.user \in UserIds(db, login)}

RolesOf(db, app, login) == {p.role : p \in PermissionsOf(db, app, login)}

AssociationsOf(db, app, login) ==
    {a \in Active(db.associations) :
        a.app = app /\ a.user \in UserIds(db, login)}

UnitsOf(db, app, login) == {a.unit : a \in AssociationsOf(db, app, login)}

-----------------------------------------------------------------------------
(* RoleService. *)

\* GetManagementRolesForUserInApplication, and the branch GetVisibleByUserCore
\* takes on its result: the widest management role wins, and no management role
\* is an AuthenticationException (NoScope).
ManagementScope(db, app, login) ==
    LET held == RolesOf(db, app, login)
    IN  CASE ManageAll \in held -> ManageAll
          [] ManageAll \notin held /\ ManageSchool \in held -> ManageSchool
          [] held \cap {ManageAll, ManageSchool} = {} /\ ManageUnit \in held
                -> ManageUnit
          [] OTHER -> NoScope

\* The non-NULL levels of the roles the login holds.
HeldLevels(db, app, login) ==
    {ar.level : ar \in {x \in db.applicationRoles :
        /\ x.app = app
        /\ x.role \in RolesOf(db, app, login)
        /\ x.level # NoLevel}}

\* A slip of the query below: the levels compared the other way round.
RolesAtSmallerLevel(db, app, login) ==
    {ar.role : ar \in {x \in db.applicationRoles :
        /\ x.app = app
        /\ x.level # NoLevel
        /\ \E max \in HeldLevels(db, app, login) : x.level < max}}

\* GetManageableApplicationRoles: the roles whose level is greater than the
\* LARGEST level held.  MAX over no level is NULL and no level is greater than
\* NULL, so a login with no leveled role manages none.
ManageableApplicationRoles(db, app, login) ==
    {ar.role : ar \in {x \in db.applicationRoles :
        /\ x.app = app
        /\ x.level # NoLevel
        /\ \E max \in HeldLevels(db, app, login) :
              /\ \A l \in HeldLevels(db, app, login) : l <= max
              /\ x.level > max}}

\* GetVisibleByUser: actual user roles plus additional manageable roles.
VisibleRoles(db, app, login) ==
    RolesOf(db, app, login) \cup ManageableApplicationRoles(db, app, login)

-----------------------------------------------------------------------------
(* UnitService and UserService.  The scope is read by a query of its own       *)
(* before the unit query is built, so it is a parameter here.                  *)

\* A slip of the school query below: any unit of a school, whichever school.
UnitsOfAnySchool(db, app, login, scope) ==
    {u \in Units :
        \/ scope = ManageAll
        \/ /\ scope = ManageSchool
           /\ UnitsOf(db, app, login) # {}
        \/ /\ scope = ManageUnit
           /\ u \in UnitsOf(db, app, login)}

\* GetVisibleByUserCore.
VisibleUnits(db, app, login, scope) ==
    {u \in Units :
        \/ scope = ManageAll
        \/ /\ scope = ManageSchool
           /\ \E own \in UnitsOf(db, app, login) : SchoolOf[own] = SchoolOf[u]
        \/ /\ scope = ManageUnit
           /\ u \in UnitsOf(db, app, login)}

\* A slip of the query below: the application is not part of the condition on
\* the units of the login to manage.
CanManageThroughAnyApp(db, app, current, login, scope) ==
    \E a \in Active(db.associations) :
        /\ a.user \in UserIds(db, login)
        /\ a.unit \in VisibleUnits(db, app, current, scope)

\* CanUserManageGivenLogin: the two unit lists intersect.
CanUserManageGivenLogin(db, app, current, login, scope) ==
    UnitsOf(db, app, login) \cap VisibleUnits(db, app, current, scope) # {}

\* A slip of the list below: only through the current login's own units.
ListedThroughOwnUnits(db, app, current, scope) ==
    {l \in Logins :
        /\ PermissionsOf(db, app, l) # {}
        /\ UnitsOf(db, app, l) \cap UnitsOf(db, app, current) # {}}

\* GetByApplication without its optional filters: the logins with a permission
\* and an association in the application, and an association IN ANY APPLICATION
\* with a unit the current login sees.
GetByApplication(db, app, current, scope) ==
    LET visible == VisibleUnits(db, app, current, scope)
        unitsOf(p) == {a \in Active(db.associations) : a.user = p.user}
    IN  {l \in Logins :
            \E p \in PermissionsOf(db, app, l) :
                /\ \E a \in unitsOf(p) : a.app = app
                /\ \E a \in unitsOf(p) : a.unit \in visible}
=============================================================================
