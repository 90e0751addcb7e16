CONSTANTS
    None = None
    Devices = {"card", "smc", "via", "audio", "driver", "port", "sound", "screen", "states"}
    Blocks = 2
    Data = {85}
    Request <- Requests
    KeepsToProtocol = TRUE
    KeyRing = 2
    MouseRing = 10
    Keys = {28}
    Programs <- GuestPrograms
    DataLen = 3
    ResetsBetween = TRUE
    Digits = 2
    MaxClocks = 4
    Samples = 14
    Unit = 8
    Vera = 3
    Ym = 4
    Rates <- HostRates
    Buffers = 3
    MaxStep = 2
    HeardSize = 5
    FifoSize = 2
    CharBits = 2
    Levels = {2}
    Enables <- GuestEnables
    Messages <- MidiMessages
    PcmSize = 5
    Few = 2
    SampleSizes = {1, 2, 4}
    MaxAccepted = 11
    Scan = 4
    Visible = 2
    VgaWidth = 4
    HalfWidth = 2
    Low = 1
    High = 5
    LowLines = 2
    Steps = {1, 9}
    MaxBehind = 9
    Wrap = 6
    FrameClocks = 2
    Costs = {1}
    IrqCost = 1
    Charge = 1
    Slots = {"a"}
    MaxStored = 1
    Paths = {"p"}
    Cuts = {3}
    MaxTotal = 7
    MaxSteps = 1
SPECIFICATION DevicesSpec
INVARIANTS
    PacketsWhole
    TimersCountClocks
    NothingLaps
    ClocksAgree
    MessagesWhole
    NothingStalls
    PlaysInOrder
PROPERTIES
    ImplementsProtocol
    ImplementsBytes
    VgaForecastComesTrue
    LoadsWhatWasSaved
