CONSTANTS
    r1 = r1
    r2 = r2
    r3 = r3
    c1 = c1
    c2 = c2
    Requests = {r1, r2, r3}
    Clients = {c1, c2}
    ClientOf <- MCClientOf
    MaxGlobal = 2
    MaxPerClient = 2
    MaxCancels = 2
SPECIFICATION OrchestrationSpec
INVARIANTS
    CountersExact
    SlotCoversThread
    EndIsTruthful
PROPERTIES
    RequestEnds
CHECK_DEADLOCK FALSE
