SPECIFICATION Spec
CONSTANTS
    active = active
    Archived = Archived
    None = None
    Contacts = {c1}
    Profiles = {active, Archived}
    Filters <- TwoFilters
    FirstFilter <- FilterOfActive
    MaxChanges = 2
    MaxFaults = 1
    Procs = {p1, p2}
INVARIANTS
    MembershipIsTold
PROPERTIES
    Converges
\* A static segment that nobody may change any more has nothing left to do.
CHECK_DEADLOCK FALSE
