SPECIFICATION FairSpec
CONSTANTS
    Task = {t1, t2}
    Waiter = {w1, w2}
    None = None
    max_concurrent_tasks = 1
    Expiring = {t1}
    Awaited = {t1}
INVARIANTS
    TypeOK
    SlotsRespected
    EndedTasksHaveOutcome
    NotifiedOnce
PROPERTIES
    OutcomeIsFinal
    TasksEnd
    OutcomesReachParent
    ShutdownEnds
CHECK_DEADLOCK FALSE
