SPECIFICATION Spec
CONSTANTS
    t1 = t1
    t2 = t2
    ann = ann
    bob = bob
    ManageUnit = ManageUnit
    editor = editor
    typo = typo
    NoRole = NoRole
    NoCall = NoCall
    NoResult = NoResult
    Threads <- MCOneThread
    Users <- MCUsers
    Roles <- MCRoles
    Known <- MCKnown
    ManageRoles <- MCManageRoles
    Ids <- MCIds
    Calls <- MCProgram
    InitRows <- MCRows
    Application = payroll
    UserId <- MCUserId
    LastUserId = 2
PROPERTIES
    RemovedUsersAreOut
