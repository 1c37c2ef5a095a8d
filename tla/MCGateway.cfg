\* Disconnects, one cancel call, faults, a crash, changes of the ceiling.
CONSTANTS
    r1 = r1
    r2 = r2
    u1 = u1
    u2 = u2
    c1 = c1
    Requests <- TwoRequests
    Users <- TwoUsers
    UserOf <- OwnersOfTwo
    Priorities = {0}
    Policies <- SlotOrNone
    InitialPolicy <- OneSlot
    QueueMaxDepth = 1
    Streaming = {r1}
    CancelCalls = {c1}
    Faults = {"db", "drop"}
    MaxCrashes = 1
SPECIFICATION FairSpec
\* every request and call may be over
CHECK_DEADLOCK FALSE
INVARIANTS
    TypeOK
    EveryEndRecorded
    LiveTasksRegistered
    SlotMatchesHandler
    SlotsReturned
    NoOrphanQueuedOrRunning
PROPERTIES
    RowStateMachine
    EveryRequestEnds
    
