\* Does the run go on after a day without requirements?
CONSTANTS
    ma = ma
    mb = mb
    Model <- TwoModels
    Tray <- Trays
    ModelOf <- TrayModel
    DayOf <- Holiday
    SiteTray <- OnSite
    NumDays = 4
    WindowPhase = 1
    MaxPrefetch = 1
SPECIFICATION Spec
INVARIANTS AllPassed
CHECK_DEADLOCK FALSE
