CONSTANTS
    PermitCount = 3
    Total = 2
    Tasks = {1, 2, 3}
    NoTask = NoTask
SPECIFICATION FairClientSpec
PROPERTY EveryWaiterIsWoken
