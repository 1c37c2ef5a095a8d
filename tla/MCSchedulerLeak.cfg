\* Cancellation of a granted task.
CONSTANTS
    r1 = r1
    r2 = r2
    r3 = r3
    u1 = u1
    u2 = u2
    Requests <- ThreeRequests
    Users <- TwoUsers
    UserOf <- OwnersOfThree
    Priorities = {0}
    Policies <- AllPolicies
    InitialPolicy <- Serving
    QueueMaxDepth = 2
SPECIFICATION Spec
INVARIANT
    SlotsFreeAtIdle
