--------------------------- MODULE RoleStoreLedger ---------------------------
(***************************************************************************)
(* RoleStore implements RightsLedger, for one application and without      *)
(* units: programs that call the stored procedures and administrators who  *)
(* use the pages keep the same ledger.  An account is a row of Users,      *)
(* whose id never changes here; a right is what Active shows of            *)
(* Permissions, so a soft deletion revokes as a deletion does, a row of    *)
(* no known role is nothing, and copies of a row are one right.            *)
(***************************************************************************)
EXTENDS RoleStore

CONSTANTS
    Application, \* the one the permissions are in
    UserId,      \* the id of each login in Users
    LastUserId   \* the last id Users has given out

ASSUME UserIdAssumption ==
    /\ UserId \in [Users -> Nat]
    /\ \A u, v \in Users : UserId[u] = UserId[v] => u = v
    /\ LastUserId \in Nat
    /\ \A u \in Users : UserId[u] <= LastUserId

AccountOf(u) == [number |-> UserId[u], login |-> u]
RightOf(row) ==
    [holder |-> UserId[row.user], app |-> Application, role |-> row.role]

AccountsIn(us) == {AccountOf(u) : u \in us}
RightsIn(rs) == {RightOf(row) : row \in Active(rs)}

Ledger == INSTANCE RightsLedger WITH
    Logins <- Users,
    Apps <- {Application},
    Units <- {},
    accounts <- AccountsIn(users),
    opened <- LastUserId,
    rights <- RightsIn(rows),
    seats <- {}

\* However the statements of usp_insertUserInRole and usp_deleteUserFromRole fall
\* between the requests of administrators, each changes one right at most, and
\* the deletion of a user ends all rights of that user and no others: no program
\* gives a right to a user who is gone, and none is left to one.
ImplementsLedger == Ledger!Spec

=============================================================================
