\* Something is required every day.
CONSTANTS
    ma = ma
    mb = mb
    Model <- TwoModels
    Tray <- Trays
    ModelOf <- TrayModel
    DayOf <- EveryDay
    SiteTray <- OnSite
    NumDays = 4
    WindowPhase = 1
    MaxPrefetch = 2
SPECIFICATION FairSpec
INVARIANTS IInv EveryModelHasTask EmptyCopyMeansNoDays
PROPERTIES ImplementsOrders AllDelivered
CHECK_DEADLOCK FALSE
