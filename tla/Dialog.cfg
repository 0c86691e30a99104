SPECIFICATION Spec
CONSTANTS
    ann = ann
    bob = bob
    editor = editor
    reader = reader
    math = math
    physics = physics
    Closed = Closed
    Logins <- MCLogins
    Roles <- MCRoles
    Units <- MCUnits
    Editable <- MCEditable
    InitServer <- MCServer
    Patient = TRUE
    InOrder = TRUE
    MaxInFlight = 3
    MaxRows = 2
INVARIANTS
    PageInv
    OneUserPerDialog
    RowsAreRight
