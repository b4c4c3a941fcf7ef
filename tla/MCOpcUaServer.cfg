CONSTANTS
    t1 = t1
    t2 = t2
    d1 = d1
    d2 = d2
    r1 = r1
    Tags <- MCTags
    Devices <- MCDevices
    TagConfigs <- MCTagConfigs
    DeviceConfigs <- MCDeviceConfigs
    Readings <- MCReadings
    NoData = noData
    Absent = none
    Debounce = 2
    MaxEdits = 2
    MaxEnables = 1
SPECIFICATION EnabledSpec
INVARIANT SpaceMirrorsStore
INVARIANT PushedInStep
PROPERTY SpaceConverges
CHECK_DEADLOCK FALSE
