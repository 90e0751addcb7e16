CONSTANTS
    Pc <- LoopPc
    Op <- LoopOp
    Dest <- LoopDest
    Line <- LoopLine
    NoLine = 0
    Handler = 3
    MaxDepth = 1
    SrcBudget = 3
    None = None
    ClientBps <- NoClientBps
    Options <- FramesOptions
SPECIFICATION FairSpec
PROPERTIES
    FramesCounted
    FramesEnd
