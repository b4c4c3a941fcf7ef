CONSTANTS
    c1 = c1
    c2 = c2
    x1 = x1
    x2 = x2
    t1 = t1
    t2 = t2
    a1 = a1
    v1 = v1
    v2 = v2
    v3 = v3
    raw = raw
    none = none
    absent = absent
    unparseable = unparseable
    Channels <- MCChannels
    Devices <- MCDevices
    Tags <- MCTags
    Agents <- MCAgents
    ChannelData <- MCOne
    DeviceData <- MCOne
    TagData <- MCTwo
    AgentData <- MCOne
    Projects <- MCProjects
    Additions <- MCAdditions
    NoRow = absent
    None = none
    TransferChannels <- MCTransferChannels
    TransferDevices <- MCDevices
    Names <- MCNames
    Texts <- MCTexts
    Neutral <- MCNeutral
    HandMade <- MCHandMade
    MaxNumber = 6
    MaxSteps = 4
    Missing = absent
    Tables <- MCTables
    Kinds <- MCKinds
    ImportEntities <- MCImportEntities
    ImportAgents <- MCAgents
    Contents <- MCContents
    RawContents <- MCRawContents
    Parse <- MCParse
    ImportParent <- MCImportParent
    ProjectFiles <- MCFiles
    InitialProjects <- MCInitialProjects
    Plugins <- MCPlugins
    Nil = absent
    Unparseable = unparseable
    MaxOpenings = 2
    MaxImports = 1
    MaxReads = 2
    MaxOthers = 1
    Entities <- MCEntities
    Parent <- MCParent
    Root = none
    Configs <- MCConfigs
    Absent = absent
    MaxFetches = 2
    MaxForeign = 1
    Series <- MCSeries
    Initial <- MCInitial
    MaxChanges = 2
    Nothing = absent
SPECIFICATION MCSpec
INVARIANT RetryCompletes
INVARIANT ParseInvertsWrite
INVARIANT PreviewIsCurrent
PROPERTY OrphansOnlyImported
PROPERTY RemovalStaysInSubtree
PROPERTY EveryRowArrives
PROPERTY PreviewPredicts
PROPERTY UndoRestores
CHECK_DEADLOCK FALSE
