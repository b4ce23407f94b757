\* A process that makes more than the one before it gets another machine.
CONSTANTS
    ma = ma
    mb = mb
    NoModel = NoModel
    Model <- TwoModels
    NumMachines = 3
    NumProcesses = 2
    ProcessOf <- TwentyProcess
    Generic <- TwentyGeneric
    BufferSize <- TwentyBuffer
    Clock <- TwentyClock
    CAPACITY = 1
    COCost <- TwentyCost
    Route <- TwoRoute
    ModelOf <- TwentyModelOf
    Site <- TwentySite
    Offset = 1
    Waiting0 <- NoTray
    Books <- NoBook
    CheckTime = 2
    MaxTime = 40
    DayOf <- TwentyDayOf
    UnitTime = 4
    WorkingTimePerDay = 18
    MaxDelaySeconds = 0
    NumDays = 1
    WindowPhase = 1
    MaxPrefetch = 2
    EndlessLoopWaitTime = 30
SPECIFICATION MainSpec
PROPERTIES CapacityBalanced
CHECK_DEADLOCK FALSE
