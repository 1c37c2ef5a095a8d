\* Three requests of one source and one of another.
CONSTANTS
    q1 = q1
    q2 = q2
    q3 = q3
    q4 = q4
    s1 = s1
    s2 = s2
    Requests <- FourRequests
    Sources <- TwoSources
    SourceOf <- SourcesOfFour
    Keys = {"k1"}
    MaxRequests = 2
    RateWindow = 1
    Threshold = 2
    FailWindow = 2
    BlockTime = 3
SPECIFICATION Spec
INVARIANTS
    TypeOK
    LimiterIsExact
    GuessesLimited
PROPERTIES
    BlocksEnd
