CONSTANTS
    PermitCount = 3
    Total = 3
    Tasks = {t1, t2}
    NoTask = NoTask
VIEW LiveState
SYMMETRY TaskSymmetry
SPECIFICATION BudgetSpec
INVARIANTS
    TypeOK
    Conservation
    QueueIsWaiting
    HeadIsBlocked
    NoLostWakeup
PROPERTY
    ImplementsPool
