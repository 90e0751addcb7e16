CONSTANTS
    AddrTop = 1
    BankedFrom = 1
    PBank = {0, 1}
    X16Bank = {1, 2}
    ANY = ANY
    Owner = {ui, dap}
    Gen2 = FALSE
    MaxEntries = 2
    Tables = {"watchpoints"}
    ui = ui
    source = source
    console = console
SPECIFICATION TablesSpec
PROPERTIES
    ConditionsTouchNobody
