CONSTANTS
    r1 = r1
    r2 = r2
    r3 = r3
    c1 = c1
    c2 = c2
    Requests = {r1, r2}
    Clients = {c1, c2}
    ClientOf <- MCOneClient
    MaxGlobal = 2
    MaxPerClient = 2
    MaxActive = 10
    MaxClientActive = 2
    MaxWorkers = 1
    MaxDbFaults = 2
    MaxFsFaults = 0
    MaxRestarts = 1
SPECIFICATION Spec
SYMMETRY MCSymmetry
INVARIANTS
    
    AcceptedIsSettled
    CompletedHasResult
    WorkspaceReclaimed
PROPERTIES
    ReadyAfterRecovery
CHECK_DEADLOCK FALSE
