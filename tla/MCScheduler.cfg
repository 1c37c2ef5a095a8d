\* Three requests, every change of the limits.
CONSTANTS
    r1 = r1
    r2 = r2
    r3 = r3
    u1 = u1
    u2 = u2
    Requests <- ThreeRequests
    Users <- TwoUsers
    UserOf <- OwnersOfThree
    Priorities = {0, 1}
    Policies <- AllPolicies
    InitialPolicy <- Serving
    QueueMaxDepth = 2
SPECIFICATION FairSpec
INVARIANTS
    TypeOK
    SlotAccounting
    NoLostWakeup
    NoEligibleLeftBehind
    NeverAboveCeilings
    LoopAgrees
PROPERTIES
    GrantWithinLimits
    NoOvertaking
    QueueDrains
