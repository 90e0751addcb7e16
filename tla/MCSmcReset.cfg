CONSTANTS
    None = None
    Devices = {"smc"}
    Blocks = 2
    Data = {85}
    Request <- Requests
    KeepsToProtocol = TRUE
    KeyRing = 2
    MouseRing = 10
    Keys = {28}
    Programs <- GuestPrograms
    DataLen = 3
    ResetsBetween = FALSE
    Digits = 2
    MaxClocks = 4
    Samples = 14
    Unit = 8
    Vera = 3
    Ym = 4
    Rates <- HostRates
    Buffers = 3
    MaxStep = 2
    HeardSize = 5
    FifoSize = 2
    CharBits = 2
    Levels = {2}
    Enables <- GuestEnables
    Messages <- MidiMessages
    PcmSize = 5
    Few = 2
    SampleSizes = {1, 2, 4}
    MaxAccepted = 11
    Scan = 6
    Visible = 4
    VgaWidth = 4
    HalfWidth = 3
    Low = 1
    High = 8
    LowLines = 3
    Steps = {1, 2}
    MaxBehind = 8
    Wrap = 6
    FrameClocks = 2
    Costs = {1}
    IrqCost = 1
    Charge = 1
    Slots = {"a"}
    MaxStored = 1
    Paths = {"p"}
    Cuts = {3}
    MaxTotal = 8
    MaxSteps = 1
SPECIFICATION DevicesSpec
PROPERTIES
    ImplementsBytes
