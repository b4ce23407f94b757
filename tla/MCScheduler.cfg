\* Three days of two models, one tray on the line, an outage of the last machine.
CONSTANTS
    ma = ma
    mb = mb
    NoModel = NoModel
    Model <- TwoModels
    NumMachines = 4
    NumProcesses = 3
    ProcessOf <- ShopProcess
    Generic <- ShopGeneric
    BufferSize <- ShopBuffer
    Clock <- ShopClock
    CAPACITY = 1
    COCost <- ShopCost
    Route <- ShopRoute
    ModelOf <- ShopModelOf
    Site <- ShopSite
    Offset = 1
    Waiting0 <- NoTray
    Books <- ShopBooks
    CheckTime = 2
    MaxTime = 160
    DayOf <- ShopDayOf
    UnitTime = 2
    WorkingTimePerDay = 26
    MaxDelaySeconds = 0
    NumDays = 3
    WindowPhase = 1
    MaxPrefetch = 2
    EndlessLoopWaitTime = 30
SPECIFICATION FairMainSpec
INVARIANTS GivesUpInTime HandedOverOnce
PROPERTIES ImplementsSimulator ImplementsTasks EverythingDelivered ImplementsOrders
CHECK_DEADLOCK FALSE
