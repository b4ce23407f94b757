\* A generic machine between a first and two final machines.
CONSTANTS
    ma = ma
    mb = mb
    NoModel = NoModel
    Model <- TwoModels
    NumMachines = 4
    NumProcesses = 3
    ProcessOf <- GenericProcess
    Generic <- GenericGeneric
    BufferSize <- GenericBuffer
    Clock <- GenericClock
    CAPACITY = 1
    COCost <- GenericCost
    Route <- GenericRoute
    ModelOf <- GenericModelOf
    Site <- GenericSite
    Offset = 1
    Waiting0 <- GenericWaiting
    Books <- NoBook
    CheckTime = 2
    MaxTime = 12
SPECIFICATION Spec
INVARIANTS BooksMatchFloor GenericShipsWhatFits
PROPERTIES MachinesAreMachines
CHECK_DEADLOCK FALSE
