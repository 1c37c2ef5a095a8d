\* A cancel call for a job that is about to run.
CONSTANTS
    r1 = r1
    r2 = r2
    u1 = u1
    u2 = u2
    c1 = c1
    Requests <- TwoRequests
    Users <- TwoUsers
    UserOf <- OwnersOfTwo
    Priorities = {0}
    Policies <- OnlyOneSlot
    InitialPolicy <- OneSlot
    QueueMaxDepth = 1
    Streaming = {r1}
    CancelCalls = {c1}
    Faults = {}
    MaxCrashes = 0
SPECIFICATION Spec
CHECK_DEADLOCK FALSE
PROPERTY CancelledNotDispatched
