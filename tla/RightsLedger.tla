---------------------------- MODULE RightsLedger ----------------------------
(***************************************************************************)
(* What the user management of Catbert promises to the programs that rely  *)
(* on it: a ledger of who has an account, which roles an account holds in  *)
(* which application, and to which units it belongs there.  Entries appear *)
(* and disappear one whole change at a time; there are no copies, no       *)
(* half-made users, no entries of nobody, and the number of an account     *)
(* that is gone is never given to another.                                 *)
(*                                                                         *)
(* Who may ask for a change is not said here: see AccessRules.             *)
(***************************************************************************)
EXTENDS Naturals

CONSTANTS
    Logins,  \* Kerberos logins
    Apps,    \* applications
    Roles,   \* roles
    Units    \* units

VARIABLES
    accounts,  \* the accounts, each a number and a login
    opened,    \* the numbers given out so far are 0 .. opened
    rights,    \* the roles the accounts hold in the applications
    seats      \* the units they belong to in the applications

ledger == <<accounts, opened, rights, seats>>

Account == [number : Nat, login : Logins]
Right == [holder : Nat, app : Apps, role : Roles]
Seat == [holder : Nat, app : Apps, unit : Units]

TypeOK ==
    /\ accounts \subseteq Account
    /\ opened \in Nat
    /\ rights \subseteq Right
    /\ seats \subseteq Seat

Numbers == {a.number : a \in accounts}
LoginsInUse == {a.login : a \in accounts}

\* Numbers and logins name one account each, and every entry names an account.
Sound ==
    /\ \A a, b \in accounts : a.number = b.number \/ a.login = b.login => a = b
    /\ \A a \in accounts : a.number <= opened
    /\ \A entry \in rights \cup seats : entry.holder \in Numbers

Init == TypeOK /\ Sound

-----------------------------------------------------------------------------
(* The changes. *)

\* A new account, its number never used before.
NewAccount(login) ==
    /\ opened' = opened + 1
    /\ login \notin LoginsInUse
    /\ accounts' = accounts \cup {[number |-> opened + 1, login |-> login]}

\* An administrator adds a user without rights.
Open(login) ==
    /\ NewAccount(login)
    /\ UNCHANGED <<rights, seats>>

\* A manager adds a user, who arrives with a role and a unit.
Enroll(login, app, role, unit) ==
    /\ NewAccount(login)
    /\ rights' = rights \cup {[holder |-> opened + 1, app |-> app, role |-> role]}
    /\ seats' = seats \cup {[holder |-> opened + 1, app |-> app, unit |-> unit]}

\* An account is given a role, a unit, or one of each in one application.
Appoint(number, app, newRoles, newUnits) ==
    /\ rights' = rights \cup
          {[holder |-> number, app |-> app, role |-> role] : role \in newRoles}
    /\ seats' = seats \cup
          {[holder |-> number, app |-> app, unit |-> unit] : unit \in newUnits}
    /\ UNCHANGED <<accounts, opened>>

Revoke(right) ==
    /\ rights' = rights \ {right}
    /\ UNCHANGED <<accounts, opened, seats>>

Unseat(seat) ==
    /\ seats' = seats \ {seat}
    /\ UNCHANGED <<accounts, opened, rights>>

\* An account goes with all its entries, and takes nobody else's along.
Dismiss(number) ==
    /\ accounts' = {a \in accounts : a.number # number}
    /\ rights' = {r \in rights : r.holder # number}
    /\ seats' = {s \in seats : s.holder # number}
    /\ UNCHANGED opened

\* At most one member.
AtMostOneOf(S) == {{}} \cup {{x} : x \in S}

Next ==
    \/ \E number \in Numbers, app \in Apps,
          newRoles \in AtMostOneOf(Roles), newUnits \in AtMostOneOf(Units) :
          Appoint(number, app, newRoles, newUnits)
    \/ \E right \in rights : Revoke(right)
    \/ \E seat \in seats : Unseat(seat)
    \/ \E number \in Numbers : Dismiss(number)
    \/ \E login \in Logins : Open(login)
    \/ \E login \in Logins, app \in Apps, role \in Roles, unit \in Units :
          Enroll(login, app, role, unit)

Spec == Init /\ [][Next]_ledger

=============================================================================
