\* Overlapping rollups of a day, retention, running requests.
CONSTANTS
    j1 = j1
    j2 = j2
    j3 = j3
    g1 = g1
    g2 = g2
    c1 = c1
    c2 = c2
    Jobs <- ThreeJobs
    GroupOf <- TwoGroups
    Outcomes = {"COMPLETED"}
    Rollups = {c1, c2}
    Days = {0}
    TicksPerDay = 2
    SessionIdleGap = 1
    JobsDays = 1
    MaxNow = 4
SYMMETRY Symmetric
SPECIFICATION Spec
INVARIANTS
    TypeOK
    
    
PROPERTY Overwrites
