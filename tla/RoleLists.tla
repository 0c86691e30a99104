------------------------------ MODULE RoleLists ------------------------------
(***************************************************************************)
(* What the application form and the role form promise to the programs     *)
(* that compare levels: every application has one list of roles, some of   *)
(* them ranked 1, 2, 3, ..., and a save replaces the whole list of one     *)
(* application by another one at once.  A list names roles that were added *)
(* before; a name is added once and retired once.                          *)
(*                                                                         *)
(* Who may save what, and how many try at the same time, is not said here. *)
(***************************************************************************)
EXTENDS Naturals

CONSTANTS
    Apps,    \* applications
    Roles,   \* names a role may have
    NoLevel  \* the level of an unranked role

VARIABLES
    lists,  \* for each application there is: its roles and their levels
    names   \* what is known of each role name

book == <<lists, names>>

Entry == [role : Roles, level : Nat \cup {NoLevel}]

TypeOK ==
    /\ DOMAIN lists \subseteq Apps
    /\ lists \in [DOMAIN lists -> SUBSET Entry]
    /\ names \in [Roles -> {"absent", "active", "inactive"}]

Init == TypeOK

\* Each role once, each level once, and no level without the one above it.
IsRanking(list) ==
    /\ \A d, e \in list : d.role = e.role => d = e
    /\ \A d, e \in list : d.level = e.level => d = e \/ d.level = NoLevel
    /\ \A e \in list :
          e.level # NoLevel =>
              /\ e.level > 0
              /\ \A above \in 1..(e.level - 1) : \E d \in list : d.level = above

-----------------------------------------------------------------------------
(* The changes. *)

\* A new application, or a new list for one that is there.
Save(app) ==
    /\ DOMAIN lists' = DOMAIN lists \cup {app}
    /\ \A other \in DOMAIN lists \ {app} : lists'[other] = lists[other]
    /\ IsRanking(lists'[app])
    /\ \A e \in lists'[app] : names[e.role] # "absent"
    /\ UNCHANGED names

AddName(role) ==
    /\ names[role] = "absent"
    /\ names' = [names EXCEPT ![role] = "active"]
    /\ UNCHANGED lists

RetireName(role) ==
    /\ names[role] = "active"
    /\ names' = [names EXCEPT ![role] = "inactive"]
    /\ UNCHANGED lists

Next ==
    \/ \E app \in Apps : Save(app)
    \/ \E role \in Roles : AddName(role) \/ RetireName(role)

Spec == Init /\ [][Next]_book

=============================================================================
