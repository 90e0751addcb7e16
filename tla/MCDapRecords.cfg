CONSTANTS
    File = {1, 2}
    Line = {1}
    Name = {}
    Addr = {0, 1, 2}
    Banked = {2}
    Bank = {5}
    ANY = ANY
    None = None
    Cond = {c}
    Infos <- ApartInfos
    Wants <- Terms
    DumpWants <- SomeDumps
    MaxWants = 1
    Toggled <- Nowhere
    Reloads = FALSE
    Sessions = 1
SPECIFICATION Spec
INVARIANTS
    ConditionAsStated
    DumpsAreAsked
