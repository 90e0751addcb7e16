----------------------------- MODULE MCRunControl -----------------------------
(* A guest of eight addresses: a loop that calls an unmapped routine, stores *)
(* and waits; the routine, which stores; and an interrupt handler.           *)
EXTENDS RunControl

MCPc == 0 .. 7
MCOp == <<"call", "op", "store", "wai", "store", "ret", "op", "ret">>
MCDest == <<4, 2, 3, 1, 5, 5, 7, 7>>
MCLine == <<1, 1, 2, 2, 0, 0, 3, 3>>
ProgramOp == [pc \in MCPc |-> MCOp[pc + 1]]
ProgramDest == [pc \in MCPc |-> MCDest[pc + 1]]
ProgramLine == [pc \in MCPc |-> MCLine[pc + 1]]

At(pc, kind) == [NoBps EXCEPT ![pc] = kind]

Settings(ui, bs, watches, follows, breaks, lines, irqs, dap) ==
    [ui : {ui}, bps : bs, watch : watches, follow : follows, breakOn : breaks,
     byLine : lines, irqs : {irqs}, dap : {dap}, frames : {0}]

\* A user alone, with a breakpoint tested after the WAI, one on a later
\* instruction of a line and one on the jump to itself.
UserBps == {[NoBps EXCEPT ![1] = "passes", ![3] = "stops", ![7] = "stops"]}
UserOptions ==
    Settings("graphical", UserBps, {{}}, BOOLEAN, {FALSE}, BOOLEAN, TRUE, FALSE)
    \cup Settings("graphical", UserBps, {{"store"}}, BOOLEAN, {FALSE}, {FALSE}, TRUE, FALSE)
    \cup Settings("text", UserBps, {{}, {"store"}}, BOOLEAN, {FALSE}, {FALSE}, TRUE, FALSE)

\* A client alone, and a client beside a user.  A watched store is combined
\* neither with breaking on interrupts, nor with a user, nor with source steps.
\* Interrupts come beside the user of the text interface.
ClientOptions ==
    Settings("none", {NoBps}, {{}}, BOOLEAN, BOOLEAN, {FALSE}, TRUE, TRUE)
    \cup Settings("none", {NoBps}, {{"store"}}, {FALSE}, {FALSE}, {FALSE}, TRUE, TRUE)
SharedOptions ==
    Settings("graphical", {At(3, "stops")}, {{}}, {FALSE}, {FALSE}, {FALSE}, FALSE, TRUE)
    \cup Settings("text", {At(3, "stops")}, {{}}, {FALSE}, {FALSE}, {FALSE}, TRUE, TRUE)

\* A smaller guest: a loop that stores and waits, and a handler.
LoopPc == 0 .. 3
LoopOp == [pc \in LoopPc |-> <<"op", "store", "wai", "ret">>[pc + 1]]
LoopDest == [pc \in LoopPc |-> <<1, 2, 0, 3>>[pc + 1]]
LoopLine == [pc \in LoopPc |-> 0]

\* A client that runs up to that many frames at a time.
FrameOptions(frames, ui, bps, watches, breaks, irqs) ==
    {[o EXCEPT !.frames = frames] :
        o \in Settings(ui, bps, watches, {FALSE}, breaks, {FALSE}, irqs, TRUE)}

\* Alone with breakpoints and interrupts, alone with a watched store, and
\* beside a user of the panel or of the text interface.
FramesOptions ==
    FrameOptions(2, "none", {At(2, "stops")}, {{}}, {FALSE}, TRUE)
    \cup FrameOptions(2, "none", {NoBps}, {{"store"}}, {FALSE}, FALSE)
    \cup FrameOptions(1, "graphical", {At(2, "stops")}, {{}}, {FALSE}, FALSE)
    \cup FrameOptions(2, "text", {At(2, "stops")}, {{}}, {FALSE}, FALSE)
QuietFramesOptions == FrameOptions(1, "none", {NoBps}, {{}}, {FALSE}, FALSE)
BreakFramesOptions == FrameOptions(2, "none", {NoBps}, {{}}, {TRUE}, TRUE)

AllOptions == UserOptions \cup ClientOptions \cup SharedOptions \cup QuietFramesOptions

\* What these leave out, each alone.
Alone(ui, watch, breakOn, byLine, irqs) ==
    Settings(ui, {NoBps}, {watch}, {FALSE}, {breakOn}, {byLine}, irqs, TRUE)
QuietOptions == Alone("none", {}, FALSE, FALSE, FALSE)
LineOptions == Alone("none", {}, FALSE, TRUE, FALSE)
WatchLineOptions == Alone("none", {"store"}, FALSE, TRUE, FALSE)
WatchOptions == Alone("graphical", {"store"}, FALSE, FALSE, FALSE)
StackOptions == Alone("none", {"stack"}, TRUE, FALSE, TRUE)

\* The breakpoints a client may ask for.
NoClientBps == {}
StoreBps == {At(2, "stops")}
WaitBps == {At(3, "stops")}
=============================================================================
