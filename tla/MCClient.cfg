SPECIFICATION MCSpec
CONSTANTS
    Scans = {"s1", "s2"}
    MaxRequests = 2
    Questions = {q1, q2}
    Findings = {"f1"}
    Knowledge = {"k1"}
    Rankings <- MCRankings
    Limit = 2
    ModelSources = 1
    MaxTexts = 3
INVARIANTS
    GroundedAnswer
    ModelPermitExact
PROPERTIES
    PollingReachesEnd
CHECK_DEADLOCK FALSE
