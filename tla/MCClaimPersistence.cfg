CONSTANTS
    r1 = r1
    r2 = r2
    r3 = r3
    c1 = c1
    c2 = c2
    Requests = {r1}
    Clients = {c1, c2}
    ClientOf <- MCOneClient
    MaxGlobal = 1
    MaxPerClient = 1
    MaxActive = 1
    MaxClientActive = 1
    MaxWorkers = 1
    MaxDbFaults = 1
    MaxFsFaults = 0
    MaxRestarts = 0
SPECIFICATION Spec
INVARIANTS
    PersistenceFailureIsRecorded
CHECK_DEADLOCK FALSE
