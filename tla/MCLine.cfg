\* Machine 0 feeds machines 1 and 2, which feed machine 3; all may have to change over.
CONSTANTS
    ma = ma
    mb = mb
    NoModel = NoModel
    Model <- TwoModels
    NumMachines = 4
    NumProcesses = 3
    ProcessOf <- LineProcess
    Generic <- LineGeneric
    BufferSize <- LineBuffer
    Clock <- LineClock
    CAPACITY = 1
    COCost <- LineCost
    Route <- LineRoute
    ModelOf <- LineModelOf
    Site <- LineSite
    Offset = 1
    Waiting0 <- LineWaiting
    Books <- NoBook
    CheckTime = 2
    MaxTime = 8
SPECIFICATION Spec
INVARIANTS TypeOK BooksMatchFloor NeverAborts
PROPERTIES TriggerMeansRunOut OldestLeavesFirst ReturnsWithTrigger MachinesAreMachines
CHECK_DEADLOCK FALSE
