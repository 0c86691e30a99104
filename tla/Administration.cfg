\* Two threads: InsertNewUser, the administrative operations, removals.
CONSTANTS
    dean = dean
    chair = chair
    clerk = clerk
    guest = guest
    newcomer = newcomer
    payroll = payroll
    travel = travel
    reader = reader
    chemistry = chemistry
    physics = physics
    dance = dance
    science = science
    arts = arts
    t1 = t1
    t2 = t2
    ManageAll = ManageAll
    ManageSchool = ManageSchool
    ManageUnit = ManageUnit
    NoLevel = NoLevel
    NoScope = NoScope
    NoRequest = NoRequest
    Logins = {dean, clerk, guest, newcomer}
    Apps = {payroll, travel}
    Roles = {ManageAll, ManageSchool, ManageUnit, reader}
    Units = {chemistry, physics, dance}
    Schools = {science, arts}
    SchoolOf <- MCSchoolOf
    Threads = {t1, t2}
    Requests <- AdministrationRequests
    InitDb <- AdministrationDb
    InitIdentity <- AdministrationIdentity
    MaxId <- AdministrationMaxId
SPECIFICATION Spec
SYMMETRY Symmetry
INVARIANTS
    TypeInv
    LedgerInv
    AuditTrailBalances
PROPERTIES
    NewUserArrivesComplete
    ImplementsLedger
