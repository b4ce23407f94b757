\* One model, a slow second process, two outages: everything ships.
CONSTANTS
    ma = ma
    mb = mb
    NoModel = NoModel
    Model <- OneModel
    NumMachines = 4
    NumProcesses = 3
    ProcessOf <- FlowProcess
    Generic <- FlowGeneric
    BufferSize <- FlowBuffer
    Clock <- FlowClock
    CAPACITY = 1
    COCost <- FlowCost
    Route <- FlowRoute
    ModelOf <- FlowModelOf
    Site <- FlowSite
    Offset = 1
    Waiting0 <- FlowWaiting
    Books <- FlowBook
    CheckTime = 3
    MaxTime = 60
SPECIFICATION FairSpec
INVARIANTS OutageBeginsInTime
PROPERTIES EverythingShips
CHECK_DEADLOCK FALSE
