\* A machine that must change over between three models.
CONSTANTS
    ma = ma
    mb = mb
    mc = mc
    NoModel = NoModel
    Model <- ThreeModels
    Supported <- ThreeModels
    COT <- MCCOT
    COCost <- MCCOCost
    Generic = FALSE
    COB = 2
    Offset = 1
    MaxLoad = 3
    MaxTime = 4
SPECIFICATION Spec
INVARIANTS TypeOK ChangeOverConsistent WorkSlotMatchesStatus InputOrdered NoMismatch
PROPERTIES ChangeOverStrandsNothing ChangeOverKeepsTarget DueTimeFixed BuffersRespectCapacity ImplementsLane
