CONSTANTS
    Pc <- MCPc
    Op <- ProgramOp
    Dest <- ProgramDest
    Line <- ProgramLine
    NoLine = 0
    Handler = 6
    MaxDepth = 2
    SrcBudget = 3
    None = None
    ClientBps <- StoreBps
    Options <- AllOptions
SPECIFICATION Spec
INVARIANTS
    ShortcutIsCheck
    CountedOnce
    ClientKnows
    AnnouncedOnce
PROPERTIES
    BreakpointsStop
    OneInstruction
