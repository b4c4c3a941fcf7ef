CONSTANTS
    a1 = a1
    a2 = a2
    t1 = t1
    d1 = d1
    timeout = timeout
    nan = nan
    none = none
    noError = noError
    inherit = inherit
    Agents <- MCAgents
    AgentConfigs <- MCAgentConfigs
    NoAgent = none
    Debounce = 2
    MaxChanges = 3
    MaxFailures = 1
    Unit = 1
    FloatStep = 1
    NaN = nan
    NULL = none
    Words <- MCWords
    Tags <- MCTags
    Devices <- MCDevices
    Configs <- MCConfigs
    RawValues <- MCRawValues
    Errors <- MCErrors
    NoError = noError
    Absent = none
    MaxDeadband = 1
    Agent <- MCAgent
    Override <- MCOverride
    Inherit = inherit
    Intervals <- MCIntervals
    MaxAgentDeadband = 2
    MaxEdits = 3
    MaxAgents = 2
    Urls <- MCUrls
    WithScheme <- MCWithScheme
    Passwords <- MCPasswords
    DefaultUrl = "mqtt://h"
    Nothing = none
    Kept = inherit
    MaxFetches = 2
    MaxRequests = 2
    MaxForeign = 1
SPECIFICATION MqttSpec
INVARIANT OneLiveClient
INVARIANT NothingRunsAfterStop
INVARIANT SubscribersInStep
INVARIANT TimersMatchTags
INVARIANT QuietListCurrent
INVARIANT PasswordsStayWithAgent
PROPERTY OnlyEditsReconnect
PROPERTY AgentsConverge
CHECK_DEADLOCK FALSE
