--------------------------- MODULE MCOrganization ---------------------------
(* An instance of Organization for TLC. *)
EXTENDS Organization, TLC

CONSTANTS t1, t2, dean, chair, lab, c1, c2, c3, arts, law

MCThreads == {t1, t2}
Symmetry == Permutations(Threads)

MCIds == {dean, chair, lab}
MCCodes == {c1, c2, c3}
MCSchools == {arts, law}

Unit(id, code, school, up) ==
    [id |-> id, code |-> code, school |-> school, parent |-> up]

\* The chair's unit belongs to the dean's, and somebody has it.
MCUnits == {Unit(dean, c1, arts, NoUnit), Unit(chair, c2, arts, dean)}
MCInitSchools == {arts}
MCUsed == {chair}

EditUnit(id, code, school, up) ==
    [op |-> "EditUnit", id |-> id, code |-> code, school |-> school,
     parent |-> up]

\* Edits that change one column each, or two, or nothing, one of which makes the
\* dean's unit and the chair's each other's parent; a new unit with a code
\* an edit also wants; and the deletions of everything.
MCForms ==
    {EditUnit(dean, c1, arts, chair),
     EditUnit(chair, c2, law, dean),
     EditUnit(chair, c3, arts, dean),
     EditUnit(chair, c2, arts, NoUnit),
     [op |-> "CreateUnit", code |-> c3, school |-> law, parent |-> chair],
     [op |-> "CreateSchool", school |-> law],
     [op |-> "AskDeleteSchool", school |-> law],
     [op |-> "DeleteSchool", school |-> law]}
    \cup [op : {"AskDeleteUnit", "DeleteUnit"}, id : {dean, chair}]
=============================================================================
