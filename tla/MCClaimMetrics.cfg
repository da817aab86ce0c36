SPECIFICATION MCSpec
CONSTANTS
    Scans = {"s1"}
    MaxRequests = 2
    Questions = {q1}
    Findings = {"f1"}
    Knowledge = {"k1"}
    Rankings <- MCRankings
    Limit = 2
    ModelSources = 1
    MaxTexts = 3
INVARIANTS
    MetricsShown
CHECK_DEADLOCK FALSE
