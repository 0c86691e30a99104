--------------------------- MODULE MCManageDialog ---------------------------
(* Instances of ManageDialog for TLC. *)
EXTENDS ManageDialog, TLC

CONSTANTS ann, bob, editor, reader, math, physics

MCLogins == {ann, bob}
MCRoles == {editor, reader}
MCUnits == {math, physics}

\* The manager may give one of the roles and one of the units.
MCEditable == {reader, math}

\* ann is listed, also with items the manager may not remove; bob is not listed.
MCServer == (ann :> {editor, math, physics} @@ bob :> {})

\* Both are listed.
MCListed == (ann :> {editor, math} @@ bob :> {reader, math})
=============================================================================
