CONSTANTS
    AddrTop = 1
    BankedFrom = 1
    PBank = {0, 1}
    X16Bank = {1, 2}
    ANY = ANY
    Owner = {ui, dap}
    Gen2 = FALSE
    MaxEntries = 2
    Tables = {"breakpoints", "watchpoints"}
    ui = ui
    source = source
    console = console
SPECIFICATION TablesSpec
INVARIANTS
    PcMapExact
PROPERTIES
    ImplementsClaims
    OwnersIndependent
    OthersUntouched
    WatchesAsAsked
