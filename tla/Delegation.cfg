\* The four guarded handlers and the deletion of a user, two threads.
CONSTANTS
    dean = dean
    chair = chair
    clerk = clerk
    guest = guest
    newcomer = newcomer
    payroll = payroll
    travel = travel
    reader = reader
    chemistry = chemistry
    physics = physics
    dance = dance
    science = science
    arts = arts
    t1 = t1
    t2 = t2
    ManageAll = ManageAll
    ManageSchool = ManageSchool
    ManageUnit = ManageUnit
    NoLevel = NoLevel
    NoScope = NoScope
    NoRequest = NoRequest
    Logins = {dean, chair, clerk, guest}
    Apps = {payroll, travel}
    Roles = {ManageAll, ManageSchool, ManageUnit, reader}
    Units = {chemistry, physics, dance}
    Schools = {science, arts}
    SchoolOf <- MCSchoolOf
    Threads = {t1, t2}
    Requests <- DelegationRequests
    InitDb <- DelegationDb
    InitIdentity <- DelegationIdentity
    MaxId <- DelegationMaxId
SPECIFICATION Spec
INVARIANTS
    DelegationInv
    RolesStayDelegable
    UnitsStayInSchools
    OutsidersStayOutside
    CopiesBounded
    AuditTrailBalances
    ManageableLoginsAreListed
PROPERTIES
    RequestsEnd
