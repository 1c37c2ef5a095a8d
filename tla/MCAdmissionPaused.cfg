\* Game development mode, pressure that rises and falls.
CONSTANTS
    o1 = o1
    o2 = o2
    m1 = m1
    owner = owner
    member = member
    c1 = c1
    c2 = c2
    Requests <- ThreeRequests
    Users <- TwoUsers
    UserOf <- OwnersOfThree
    QueueMaxDepth = 2
    Owners = {owner}
    RolePriority <- NoRoles
    MaxActiveJobs = 2
    PerUserMaxActive = 1
    OwnerBonus = 1
    ModeCalls = {}
    InitialModes = {"GAMEDEV"}
    Levels = {"LOW", "HIGH"}
SPECIFICATION Spec
\* every request may be over and every call answered
CHECK_DEADLOCK FALSE
PROPERTY
    QueuedRunAsSlotsFree
