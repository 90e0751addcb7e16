CONSTANTS
    Trackers = {"context", "tree", "both", "arrivals", "recorders", "loads", "host"}
    Orderly = TRUE
    CtxMax = 2
    DepthMax = 4
    SpTop = 5
    StackTop = 2
    Routines = {"A", "B"}
    MaxOpen = 4
    MaxNested = 3
    NormalLimit = 4
    PoolSize = 6
    MaxTime = 4
    MaxVideoFrames = 2
    Configs <- Captures
    Shortages <- Lacking
    RingSize = 2
    MaxFrames = 3
    PanelStarts = FALSE
    HistogramInUse = FALSE
    ANY = ANY
    ui = ui
    A = A
    B = B
    C = C
    D = D
    E = E
    Nil = Nil
    Files <- HostFiles
    Extent <- Extents
    Channels = {0, 2}
    Top = 3
    Window = {2, 3}
    Banks = {0, 1}
    BankCount = 2
    AtStart = {A}
    Readings = {"good", "short"}
    Replacing = {"good"}
    Copies = 2
    Names <- FileNames
    File <- FilesOf
    Mode <- ModeOf
    Refused = {}
    Missing = {}
    Size <- SizeOf
    Seeks <- HostSeeks
    Targets <- HostTargets
    Consecutive = TRUE
SPECIFICATION TrackersSpec
INVARIANTS
    NeverTooLow
    RoutinesTracked
    AccountsAgree
    TotalsMatch
    RecordersFollowWants
    SummaryIsOfCapture
    HostLoadsAsLanded
    RegistryIsLive
PROPERTIES
    BalancedReturnUnwinds
    StopsExactlyWhenDue
    BankFollows
