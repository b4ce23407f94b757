\* Does a generic machine find the tray that fits?
CONSTANTS
    ma = ma
    mb = mb
    NoModel = NoModel
    Model <- TwoModels
    NumMachines = 4
    NumProcesses = 4
    ProcessOf <- DivergingProcess
    Generic <- DivergingGeneric
    BufferSize <- DivergingBuffer
    Clock <- DivergingClock
    CAPACITY = 1
    COCost <- GenericCost
    Route <- DivergingRoute
    ModelOf <- DivergingModelOf
    Site <- DivergingSite
    Offset = 1
    Waiting0 <- DivergingWaiting
    Books <- NoBook
    CheckTime = 2
    MaxTime = 8
SPECIFICATION Spec
INVARIANTS GenericShipsWhatFits
CHECK_DEADLOCK FALSE
