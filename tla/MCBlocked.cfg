\* The line is full and its last machine off line: simulate() never returns.
CONSTANTS
    ma = ma
    mb = mb
    NoModel = NoModel
    Model <- TwoModels
    NumMachines = 2
    NumProcesses = 2
    ProcessOf <- BlockedProcess
    Generic <- BlockedGeneric
    BufferSize <- BlockedBuffer
    Clock <- BlockedClock
    CAPACITY = 1
    COCost <- BlockedCost
    Route <- TwoRoute
    ModelOf <- BlockedModelOf
    Site <- BlockedSite
    Offset = 1
    Waiting0 <- NoTray
    Books <- NoBook
    CheckTime = 2
    MaxTime = 60
    DayOf <- BlockedDayOf
    UnitTime = 1
    WorkingTimePerDay = 40
    MaxDelaySeconds = 0
    NumDays = 1
    WindowPhase = 1
    MaxPrefetch = 2
    EndlessLoopWaitTime = 10
SPECIFICATION MainSpec
INVARIANTS GivesUpInTime
CHECK_DEADLOCK FALSE
