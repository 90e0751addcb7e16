CONSTANTS
    File = {a}
    Line = {1, 2}
    Name = {fn}
    Addr = {0, 1, 2}
    Banked = {2}
    Bank = {5, 6}
    ANY = ANY
    None = None
    Cond = {c}
    Infos <- MCInfos
    Wants <- Conditional
    DumpWants <- NoDumps
    MaxWants = 2
    Toggled <- Nowhere
    Reloads = FALSE
    Sessions = 1
SPECIFICATION Spec
INVARIANTS
    FunctionsUnconditional
