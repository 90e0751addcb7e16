CONSTANTS
    File = {a, b}
    Line = {1, 2}
    Name = {fn}
    Addr = {0, 1, 2}
    Banked = {2}
    Bank = {5, 6}
    ANY = ANY
    None = None
    Cond = {}
    Infos <- MCInfos
    Wants <- Plain
    DumpWants <- NoDumps
    MaxWants = 2
    Toggled <- Nowhere
    Reloads = TRUE
    Sessions = 1
SPECIFICATION Spec
INVARIANTS
    ArmedIsShown
