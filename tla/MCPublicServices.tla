-------------------------- MODULE MCPublicServices --------------------------
(* An instance of PublicServices for TLC. *)
EXTENDS PublicServices, TLC

CONSTANTS t1, t2, payroll, travel, k1, k2, m1, m2, m3

Symmetry == Permutations(Threads)

MCThreads == {t1, t2}
MCApps == {payroll, travel}
MCTokenIds == {k1, k2}
MCMessageIds == {m1, m2, m3}

Note(to, active, begin, end) ==
    [to |-> to, active |-> active, begin |-> begin, end |-> end]

\* The message for everyone expires; the one for payroll begins later.
MCTokens == {[id |-> k1, app |-> payroll, active |-> TRUE]}
MCMessages ==
    {[id |-> m1, body |-> Note(Everyone, TRUE, 0, 3)],
     [id |-> m2, body |-> Note(payroll, TRUE, 1, 4)]}

\* Edits that move a message from everyone to one application and back, and that
\* make one inactive; one that is invalid once the clock is at 3; deletions and
\* a new message.
MCRequests ==
    {[op |-> "CreateToken", app |-> travel],
     [op |-> "SwitchActiveStatus", id |-> k1],
     [op |-> "CreateMessage", body |-> Note(Everyone, TRUE, 0, 4)],
     [op |-> "EditMessage", id |-> m1, body |-> Note(payroll, TRUE, 0, 3)],
     [op |-> "EditMessage", id |-> m2, body |-> Note(Everyone, TRUE, 0, 4)],
     [op |-> "EditMessage", id |-> m2, body |-> Note(payroll, FALSE, 1, 4)],
     [op |-> "DeleteMessage", id |-> m2],
     [op |-> "GetMessages", app |-> payroll]}
=============================================================================
