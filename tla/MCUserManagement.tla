-------------------------- MODULE MCUserManagement --------------------------
(***************************************************************************)
(* Small instances of UserManagement for TLC.  Two schools, three units.   *)
(* dean manages a school, chair a unit, clerk is an ordinary user, guest   *)
(* has a unit in another application only.                                 *)
(***************************************************************************)
EXTENDS UserManagementLedger, TLC

CONSTANTS dean, chair, clerk, guest, newcomer,
          payroll, travel,
          reader,
          chemistry, physics, dance,
          science, arts,
          t1, t2

Symmetry == Permutations(Threads)

MCSchoolOf == (chemistry :> science) @@ (physics :> science) @@ (dance :> arts)

User(id, login) == [id |-> id, login |-> login, inactive |-> FALSE]
Grant(id, user, role) ==
    [id |-> id, user |-> user, app |-> payroll, role |-> role,
     inactive |-> FALSE]
Member(id, user, unit) ==
    [id |-> id, user |-> user, app |-> payroll, unit |-> unit,
     inactive |-> FALSE]
Position(id, role, level) ==
    [id |-> id, app |-> payroll, role |-> role, level |-> level]

\* ManageAll is above everyone, reader has no level.
Positions ==
    {Position(1, ManageAll, 1), Position(2, ManageSchool, 2),
     Position(3, ManageUnit, 3), Position(4, reader, NoLevel)}

-----------------------------------------------------------------------------
(* Delegation: the guarded handlers, and administrators who take away. *)

DelegationDb ==
    [users |-> {User(1, dean), User(2, chair), User(3, clerk), User(4, guest)},
     permissions |-> {Grant(1, 1, ManageSchool), Grant(2, 2, ManageUnit),
                      Grant(3, 2, reader)},
     associations |-> {Member(1, 1, chemistry), Member(2, 2, physics),
                       Member(3, 3, chemistry),
                       [Member(4, 4, chemistry) EXCEPT !.app = travel]},
     applicationRoles |-> Positions]

RoleRequestOf(op, actor, login, role) ==
    [op |-> op, actor |-> actor, app |-> payroll, login |-> login,
     role |-> role]
UnitRequestOf(op, actor, login, unit) ==
    [op |-> op, actor |-> actor, app |-> payroll, login |-> login,
     unit |-> unit]

\* The dean promotes and demotes, a promoted clerk passes on what the clerk has,
\* each tries what is out of reach, and an administrator deletes the clerk.
DelegationRequests ==
    {RoleRequestOf("AddPermission", dean, clerk, ManageUnit),
     RoleRequestOf("AddPermission", dean, clerk, ManageAll),
     RoleRequestOf("RemovePermission", dean, chair, ManageUnit),
     RoleRequestOf("AddPermission", clerk, chair, ManageSchool),
     RoleRequestOf("AddPermission", dean, guest, ManageUnit),
     UnitRequestOf("AddUnit", dean, clerk, physics),
     UnitRequestOf("AddUnit", dean, chair, dance),
     UnitRequestOf("AddUnit", clerk, dean, physics),
     UnitRequestOf("RemoveUnit", dean, clerk, chemistry),
     [op |-> "AdminDeleteUser", login |-> clerk]}

DelegationIdentity ==
    [users |-> 4, permissions |-> 3, associations |-> 4]

DelegationMaxId ==
    [users |-> 4, permissions |-> 6, associations |-> 6]

-----------------------------------------------------------------------------
(* Administration: new users, deletions and adds by row id, beside guarded     *)
(* requests.  guest's user row is inactive; dean has a soft-deleted permission *)
(* left by the stored procedures.                                              *)

AdministrationDb ==
    [users |-> {User(1, dean), User(2, clerk),
                [User(3, guest) EXCEPT !.inactive = TRUE]},
     permissions |-> {Grant(1, 1, ManageSchool), Grant(2, 2, reader),
                      [Grant(3, 1, ManageUnit) EXCEPT !.inactive = TRUE]},
     associations |-> {Member(1, 1, chemistry), Member(2, 2, physics)},
     applicationRoles |-> Positions]

InsertNewUserOf(login, role, unit) ==
    [op |-> "InsertNewUser", app |-> payroll, login |-> login, role |-> role,
     unit |-> unit]

AdministrationRequests ==
    {InsertNewUserOf(newcomer, reader, chemistry),
     InsertNewUserOf(clerk, reader, chemistry),
     InsertNewUserOf(guest, reader, chemistry),
     [op |-> "AdminAddUser", login |-> newcomer],
     [op |-> "AdminDeleteUser", login |-> clerk],
     [op |-> "AdminDeleteUser", login |-> newcomer],
     [op |-> "AdminDeleteUser", login |-> dean],
     [op |-> "AdminAddPermission", user |-> 2, app |-> payroll,
      role |-> ManageUnit],
     [op |-> "AdminAddAssociation", user |-> 2, app |-> payroll,
      unit |-> chemistry],
     [op |-> "AdminRemovePermission", id |-> 4],
     [op |-> "AdminRemovePermission", id |-> 2],
     [op |-> "AdminRemoveAssociation", id |-> 3],
     RoleRequestOf("RemovePermission", dean, clerk, reader),
     UnitRequestOf("RemoveUnit", dean, clerk, chemistry)}

AdministrationIdentity ==
    [users |-> 3, permissions |-> 3, associations |-> 2]

AdministrationMaxId ==
    [users |-> 5, permissions |-> 5, associations |-> 4]

-----------------------------------------------------------------------------
(* Serial: every operation, one request at a time.  The dean's own rights come *)
(* and go, and payroll and travel do not mix.                                  *)

SerialDb ==
    [AdministrationDb EXCEPT
        !.associations = @ \cup
            {[Member(3, 2, chemistry) EXCEPT !.app = travel]}]

SerialRequests ==
    AdministrationRequests \cup
    {RoleRequestOf("AddPermission", dean, clerk, ManageUnit),
     RoleRequestOf("RemovePermission", clerk, dean, ManageSchool),
     RoleRequestOf("AddPermission", clerk, dean, reader),
     UnitRequestOf("AddUnit", dean, clerk, chemistry),
     UnitRequestOf("AddUnit", clerk, dean, physics),
     UnitRequestOf("RemoveUnit", clerk, dean, chemistry),
     [op |-> "AdminAddPermission", user |-> 2, app |-> travel,
      role |-> reader]}

SerialIdentity ==
    [users |-> 3, permissions |-> 3, associations |-> 3]

SerialMaxId ==
    [users |-> 5, permissions |-> 6, associations |-> 5]

-----------------------------------------------------------------------------
(* Duplicates: one administrative add of a role, posted twice.                 *)

DuplicateRequests ==
    {[op |-> "AdminAddPermission", user |-> 2, app |-> payroll,
      role |-> ManageUnit]}

=============================================================================
