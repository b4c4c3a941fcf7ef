CONSTANTS
    t1 = t1
    t2 = t2
    d1 = d1
    d2 = d2
    none = none
    Tags <- MCTags
    Values <- MCValues
    Unknown = none
    MaxInFlight = 2
    Capacity = 3
    Limit = 2
    MaxId = 4
    MaxRestarts = 1
    MaxFetches = 2
    MaxEventsInFlight = 2
    LoggedTags <- MCTags
    Devices <- MCDevices
    Qualities <- MCQualities
    Errors <- MCErrors
    NoEntry = none
    Window = 2
    MaxChanges = 3
    MaxEdits = 2
    Numbers <- MCNumbers
    Typed <- MCTyped
    Stored <- MCStored
    Initial <- MCNumbers
    Deadband = 0
    Skews <- MCSkews
    Timeout = 1
    Absent = none
    MaxTime = 2
    MaxWrites = 2
    MaxFeed = 1
    MaxOther = 1
SPECIFICATION ConsoleSpec
INVARIANT FreshInStep
INVARIANT OrderedPerRun
INVARIANT GapsArePending
INVARIANT LastLineTells
INVARIANT SuccessIsEcho
CHECK_DEADLOCK FALSE
