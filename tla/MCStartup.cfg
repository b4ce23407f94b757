\* Two machines under every site record, and files of up to three columns, dates
\* repeated or not, and two rows.
CONSTANTS
    d1 = d1
    d2 = d2
    text = text
    ma = ma
    mb = mb
    unknown = unknown
    none = none
    blank = blank
    Heading <- Headings
    Date <- TwoDates
    Name <- ThreeNames
    Model <- TwoModels
    Quantity <- Quantities
    CAPACITY = 3
    MaxDays = 3
    MaxRows = 2
    NoModel = none
    ModelsFile <- FileOfModels
    ModelZero = ma
    NumMachines = 2
    NumProcesses = 2
    ProcessOf <- TwoProcesses
    Generic <- SecondGeneric
    NameOf <- TwoNames
    Route <- BothProcesses
    RecordsOf <- SiteRecords
    ClockRow <- ClockRows
    Blank = blank
SPECIFICATION StartupSpec
INVARIANTS LoadsThePlant TraysAreTheirOwn BooksCoverFloor ClockIsItsCell DaysAreIndexed IndexIsColumn OrdersCovered
CONSTRAINT OneSiteGoesOn
CHECK_DEADLOCK FALSE
