CONSTANTS
    j1 = j1
    j2 = j2
    Jobs = {j1, j2}
    MaxWorkers = 1
    Messages = {"output", "failed"}
SPECIFICATION Spec
INVARIANTS
    NoChildOutlivesItsJob
PROPERTIES
    AnsweredChildNotSignalled
    AnswerInTimeIsDelivered
    ImplementsRunner
CHECK_DEADLOCK FALSE
