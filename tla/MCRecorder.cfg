SPECIFICATION RecorderSpec
CONSTANTS
    MaxCalls = 3
    Several <- MCSeveral
    PAGE = 4
    CHUNK = 3
    WORD = 2
    Pages = 2
    MaxLen = 6
    Bytes256 <- MCBytes
    MaxString = 3
    Limit = 2
    ROW = 2
    Million = 3
    Seconds <- MCSeconds
    DTimes <- MCDTimes
    Overheads <- MCOverhead
    MaxCounted = 2
    Sharers <- MCSharers
    TopAddr = 3
    MaxRegions = 3
    Capacity = 1
    MaxChanges = 2
    MIN_QUALS = 3
    MaxDesc = 4
    MaxOptions = 3
    MaxSelected = 2
    MaxNfds = 2
    LONG = 64
    INT = 16
    nerrnos = 3
    MaxStops = 5
    Codes <- MCCodes
    Sizes <- MCSizes
    IoctlNames <- MCNames
    MaxEntries = 4
    MaxGiven = 4
    Frames = 3
    MaxDepth = 4
    MaxPrinted = 7
    Releases <- MCReleases
    MaxFields = 3
    MaxPath = 3
    MaxLines = 2
    TopAddress = 5
    PageStarts <- MCPages
    Inodes <- MCInodes
    MaxOffset = 1
    MaxMapCalls = 4
    FdNumbers <- MCFds
    Tasks <- MCTasks
    First <- MCFirst
    MaxFdCalls = 4
    SMALL = 3
    BIG = 5
    HUGE = 11
    MaxExtent = 18
INVARIANTS
    LinesReadBack
    FilesAligned
    CopyExact
    StringsExact
    SummarySound
    StackTracesRight
    FiltersExact
    DecodedRight
    ForksTransparent
    AllNamesOnce
    SetUpAsAsked
    StartSound
    EndSound
    RegionsRight
    DescriptorsFollowed
    TrackersHold
    BlocksExact
PROPERTIES
    ForgottenWhenCut
CHECK_DEADLOCK FALSE
