CONSTANTS
    NONE = NONE
    Layouts <- MCLayouts
    TriedSettings <- MCTried
    MaxOffset = 3
    CellValues <- MCCellValues
    Writes <- MCWrites
    Unit = 2
    FloatStep = 4
    NaN = nan
    NULL = null
    Words <- MCWords
    Samples <- MCSamples
    Types <- MCTypes
    LowRaw <- MCLowRaw
    HighRaw = 6
    t1 = t1
    t2 = t2
    d1 = d1
    d2 = d2
    timeout = timeout
    nan = nan
    null = null
    none = none
    noError = noError
    Tags <- MCTags
    Devices <- MCDevices
    Configs <- MCConfigs
    RawValues <- MCRawValues
    Errors <- MCErrors
    NoError = noError
    Absent = none
    MaxDeadband = 1
SPECIFICATION DataSpec
INVARIANT PlanCoversTags
INVARIANT ClampedInRange
INVARIANT IndexConsistent
INVARIANT ClientInStep
PROPERTY ReadsAreDirect
PROPERTY ReadsMatchWrites
PROPERTY DriftReported
PROPERTY ImplementsView
CHECK_DEADLOCK FALSE
