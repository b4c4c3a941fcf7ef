CONSTANTS
    Capacity = 3
    Limit = 2
    MaxId = 4
    MaxRestarts = 1
    MaxFetches = 2
    MaxEventsInFlight = 2
SPECIFICATION LogSpec
INVARIANT Chronological
