CONSTANTS
    t1 = t1
    t2 = t2
    d1 = d1
    atA = atA
    atB = atB
    timeout = timeout
    none = none
    noError = noError
    Unit = 1
    FloatStep = 1
    NaN = nan
    NULL = null
    Words <- MCWords
    Tags <- MCTags
    Devices <- MCDevices
    Configs <- MCConfigs
    RawValues <- MCWords
    Errors <- MCErrors
    NoError = noError
    Absent = none
    MaxDeadband = 2
    Reads <- MCReads
    Debounce = 2
    MaxEdits = 2
    MaxCrashes = 1
    MaxFailures = 1
SPECIFICATION CoreSpec
INVARIANT EngineMirrorsStore
INVARIANT StaleFlowsArePending
PROPERTY ValuesConverge
CHECK_DEADLOCK FALSE
