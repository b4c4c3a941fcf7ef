CONSTANTS
    t1 = t1
    t2 = t2
    d1 = d1
    d2 = d2
    r1 = r1
    Tags <- MCTags
    Devices <- MCDevices
    TagConfigs <- MCTagConfigs
    DeviceConfigs <- MCOtherSettings
    Readings <- MCReadings
    NoData = noData
    Absent = none
    Debounce = 2
    MaxEdits = 2
    MaxEnables = 1
SPECIFICATION Spec
PROPERTY EnabledWriteKeepsRest
CHECK_DEADLOCK FALSE
