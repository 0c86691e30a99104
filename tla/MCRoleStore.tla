---------------------------- MODULE MCRoleStore ----------------------------
(* Instances of RoleStore for TLC. *)
EXTENDS RoleStoreLedger, TLC

CONSTANTS t1, t2, ann, bob, ManageUnit, editor, typo

MCThreads == {t1, t2}
MCOneThread == {t1}
MCUsers == {ann, bob}
MCRoles == {ManageUnit, editor, typo}
MCKnown == {ManageUnit, editor}
MCManageRoles == {ManageUnit}
MCIds == 1..5
MCUserId == ann :> 1 @@ bob :> 2

Permission(id, user, role, inactive) ==
    [id |-> id, user |-> user, role |-> role, inactive |-> inactive]

\* ann manages; she was an editor once; bob is one.
MCRows ==
    {Permission(1, ann, ManageUnit, FALSE), Permission(2, ann, editor, TRUE),
     Permission(3, bob, editor, FALSE)}

Insert(user, role) ==
    [op |-> "insertUserInRole", user |-> user, role |-> role]
Remove(user, role) ==
    [op |-> "deleteUserFromRole", user |-> user, role |-> role]

MCCalls ==
    {Insert(ann, editor), Insert(bob, ManageUnit), Insert(bob, typo),
     Remove(ann, ManageUnit), Remove(ann, editor), Remove(bob, editor),
     [op |-> "AddPermission", user |-> bob, role |-> ManageUnit],
     [op |-> "AddPermission", user |-> ann, role |-> ManageUnit]}
    \cup [op : {"RemovePermission"}, id : {1, 3, 4}]
    \cup [op : {"DeleteUser"}, user : MCUsers]

\* A program that gives one role and takes it away.
MCProgram == {Insert(ann, editor), Remove(ann, editor)}
=============================================================================
