CONSTANTS
    File = {a}
    Line = {1, 2}
    Name = {}
    Addr = {0, 1, 2}
    Banked = {2}
    Bank = {5, 6}
    ANY = ANY
    None = None
    Cond = {c}
    Infos <- MCInfos
    Wants <- Plain
    DumpWants <- Dumping
    MaxWants = 1
    Toggled <- Nowhere
    Reloads = FALSE
    Sessions = 2
SPECIFICATION Spec
INVARIANTS
    DumpsAreAsked
