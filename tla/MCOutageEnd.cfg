\* Does an outage last its interval?
CONSTANTS
    ma = ma
    mb = mb
    NoModel = NoModel
    Model <- TwoModels
    NumMachines = 2
    NumProcesses = 2
    ProcessOf <- OutageProcess
    Generic <- OutageGeneric
    BufferSize <- OutageBuffer
    Clock <- OutageClock
    CAPACITY = 1
    COCost <- OutageCost
    Route <- OutageRoute
    ModelOf <- OutageModelOf
    Site <- OutageSite
    Offset = 1
    Waiting0 <- OutageWaiting
    Books <- HeadOutage
    CheckTime = 2
    MaxTime = 12
SPECIFICATION Spec
PROPERTIES OutageLastsItsInterval
CHECK_DEADLOCK FALSE
