------------------------------ MODULE RunControl ------------------------------
(***************************************************************************)
(* Who runs the machine (src/src/debugger.c, the emulator loop of          *)
(* src/src/main.c, the session part of src/src/debug_server.c).            *)
(*                                                                         *)
(* The emulator loop polls the debugger before every instruction; the poll *)
(* decides whether to execute, and serves a DAP client and a local user    *)
(* interface, either of which may change the run state.  An instruction    *)
(* may be followed by a frame end, in which the interface acts again, and  *)
(* then by an interrupt.  The debugger's statics are one record, d, and a  *)
(* function of the code that changes several of them is an operator from   *)
(* one such record to the next.                                            *)
(*                                                                         *)
(* The guest is a small program of calls, returns, stores and WAIs, and a  *)
(* breakpoint is what BreakpointArrival makes of it: one that stops here,  *)
(* one that is tested and lets the machine run on, or none.                *)
(***************************************************************************)
EXTENDS Integers, Sequences

CONSTANTS
    Pc,          \* the guest's addresses
    Op,          \* Op[pc]: "op", "call", "ret", "store" or "wai"
    Dest,        \* where each leads: the next address, or the callee's
    Line,        \* Line[pc]: the source line there, or NoLine
    NoLine,
    Handler,     \* the interrupt handler's first address
    MaxDepth,    \* bound on the guest's stack
    SrcBudget,   \* SRC_STEP_MAX_INSNS
    None,        \* no address, no owner, no line
    ClientBps,   \* the breakpoints a client may ask for, as functions [Pc -> Bp]
    Options      \* the settings, the local interface and its user's breakpoints

Bp == {"none", "passes", "stops"}
NoBps == [pc \in Pc |-> "none"]

ASSUME RunAssumption ==
    /\ Pc \subseteq Nat
    /\ Dest \in [Pc -> Pc]
    /\ Handler \in Pc
    /\ None \notin Pc /\ None \notin {"ui", "dap"}
    /\ \A pc \in Pc : Op[pc] = "call" => pc + 1 \in Pc
    /\ SrcBudget \in Nat /\ MaxDepth \in Nat
    /\ ClientBps \subseteq [Pc -> Bp]
    /\ Options \subseteq [bps : [Pc -> Bp], watch : SUBSET {"store", "stack"},
                          follow : BOOLEAN, breakOn : BOOLEAN, byLine : BOOLEAN, irqs : BOOLEAN,
                          ui : {"none", "text", "graphical"}, dap : BOOLEAN, frames : Nat]

VARIABLES
    phase,   \* where the emulator loop is: poll, serve, answer, pump, exec, frame or irq
    c,       \* the CPU: pc, stack, waiting, entered (the interrupt-entry flag)
    d,       \* the debugger's and the session's statics
    opts,    \* the settings, which do not change
    obs      \* not in the code: what was seen to happen at this address

vars == <<phase, c, d, opts, obs>>

NoSource == [on |-> FALSE, over |-> FALSE, line |-> None, owner |-> None, depth |-> 0, budget |-> 0]

\* No frames are being run for a client.
NoFrames == [pending |-> FALSE, left |-> 0, byFrames |-> FALSE, events |-> FALSE]

Stopped(s) == s.mode = "stop"

\* The local interface, if any.
UI == opts.ui

\* dap_local_ui_owns_run_state
HasUI == UI # "none"

\* The breakpoints in force here, the user's and the client's.
BpHere(s) == {opts.bps[c.pc], s.bps[c.pc]}

-----------------------------------------------------------------------------
(* The session.                                                            *)

\* DEBUGClearStepBreakPoint
ClearStep(s) == [s EXCEPT !.step = None, !.stepOwner = None]

\* DEBUGStepOwner
StepOwner(s) == IF s.step = None THEN None ELSE s.stepOwner

\* dap_release_session_state: the client's breakpoints go, its own pending
\* step (DEBUGCancelStepFor), and the frames it was waiting for; a step the
\* user started is left.
Released(s) ==
    [IF StepOwner(s) = "dap" THEN ClearStep(s) ELSE s
        EXCEPT !.announced = FALSE, !.bps = NoBps, !.frames.pending = FALSE]

\* Without an interface to resume from, the machine is let go.
Resume(s) == IF Stopped(s) /\ ~HasUI THEN [s EXCEPT !.mode = "run"] ELSE s

\* disconnect_client
Drop(s) ==
    LET r == [Released(s) EXCEPT !.client = FALSE, !.deaf = FALSE, !.session = FALSE,
                                   !.heard = 0, !.replied = FALSE]
    IN  IF s.session THEN Resume(r) ELSE r

\* debug_server_notify_stopped.  A client that runs frames may ask not to be
\* told of stops, since the reply says it.  Sending to one that no longer reads
\* drops it.  "heard" counts the stops the client was told of since it was
\* last told that the machine runs.
Announce(s) ==
    IF ~s.client \/ (s.frames.pending /\ ~s.frames.events) THEN s
    ELSE IF s.deaf THEN Drop([s EXCEPT !.announced = TRUE])
    ELSE [s EXCEPT !.announced = TRUE, !.heard = IF @ < 2 THEN @ + 1 ELSE @]

\* debug_server_note_resumed: told only of a resume it did not ask for.
NoteResumed(s) ==
    IF ~(s.announced /\ s.client) THEN [s EXCEPT !.announced = FALSE]
    ELSE IF s.deaf THEN Drop(s)
    ELSE [s EXCEPT !.announced = FALSE, !.heard = 0, !.replied = FALSE]

-----------------------------------------------------------------------------
(* Execution control.                                                      *)

\* DEBUGArmResumeSkip
ArmSkip(s) == [s EXCEPT !.skip = c.pc, !.moved = FALSE]

Show(s) == [s EXCEPT !.shown = c.pc]

\* DEBUGContinue
Continue(s) ==
    NoteResumed([ArmSkip(ClearStep(s)) EXCEPT !.src.on = FALSE, !.mode = "run"])

\* DEBUGStepInto
StepInto(s) == NoteResumed([Show(ArmSkip(s)) EXCEPT !.mode = "step"])

\* Run to a temporary target: DEBUGStepOver over a call, DEBUGStepOut, and
\* DEBUGRunTo after it ends a source step.
RunTo(s, pc, owner) ==
    NoteResumed([ArmSkip(s) EXCEPT !.step = pc, !.stepOwner = owner, !.mode = "run"])

\* DEBUGStepOver
StepOver(s, owner) == IF Op[c.pc] = "call" THEN RunTo(s, c.pc + 1, owner) ELSE StepInto(s)

\* DEBUGStepOut: the nearest frame a call pushed; an interrupt's is not one.
Frames == {i \in DOMAIN c.stack : c.stack[i].call}

StepOut(s, owner) ==
    IF Frames = {} THEN StepInto(s)
    ELSE RunTo(s, c.stack[CHOOSE i \in Frames : \A j \in Frames : j <= i].ret, owner)

\* DEBUGBeginSourceStep, where debug_source_step_available; else the plain step.
ByLine(s) == opts.byLine /\ Line[c.pc] # NoLine

BeginSource(s, over, owner) ==
    [s EXCEPT !.src = [on |-> TRUE, over |-> over, line |-> Line[c.pc], owner |-> owner,
                       depth |-> Len(c.stack), budget |-> SrcBudget]]

\* DEBUGStepIntoAuto, DEBUGStepOverAuto
StepIntoAuto(s) == StepInto(IF ByLine(s) THEN BeginSource(s, FALSE, "ui") ELSE s)

StepOverAuto(s, owner) ==
    StepOver(IF ByLine(s) THEN BeginSource(s, TRUE, owner) ELSE s, owner)

\* DEBUGBreakToDebugger
Break(s) ==
    LET t == [Show(s) EXCEPT !.src.on = FALSE, !.mode = "stop"]
    IN  IF Stopped(s) THEN t ELSE Announce(t)

\* DEBUGSourceStepContinue: whether a source step goes on from here, and how.
SourceContinues(s) ==
    /\ s.src.on
    /\ s.src.budget > 1
    /\ IF Line[c.pc] = NoLine THEN Len(c.stack) > s.src.depth ELSE Line[c.pc] = s.src.line

SourceGoesOn(s) ==
    LET t == [s EXCEPT !.src.budget = @ - 1]
    IN  IF Line[c.pc] = NoLine THEN StepOut(t, s.src.owner)
        ELSE IF s.src.over THEN StepOver(t, s.src.owner)
        ELSE StepInto(t)

\* A step has retired here: the next one, or the stop.
Retire(s) ==
    IF SourceContinues(s) THEN SourceGoesOn(s)
    ELSE Announce([s EXCEPT !.src.on = FALSE, !.mode = "stop"])

-----------------------------------------------------------------------------
(* The check before an instruction, DEBUGGetCurrentStatusEx, by its stages. *)

\* An interrupt was entered.  The step's owner is left behind.
FollowInterrupt(s) ==
    LET stepping == s.mode = "step" \/ s.step # None
    IN  IF c.entered /\ (opts.breakOn \/ (opts.follow /\ stepping /\ ~Stopped(s)))
        THEN Announce([Show(s) EXCEPT !.mode = "stop", !.step = None, !.src.on = FALSE])
        ELSE s

\* A watched store stopped the machine; only now is the PC where it ended up.
ReportWatch(s) == IF s.wp THEN Announce([Show(s) EXCEPT !.wp = FALSE]) ELSE s

\* As if a step that is interrupted ran on.
RetireStepUninterrupted(s) ==
    IF s.mode = "step" /\ s.shown # c.pc /\ ~c.entered THEN Retire(Show(s)) ELSE s

RetireStep(s) == IF s.mode = "step" /\ s.shown # c.pc THEN Retire(Show(s)) ELSE s

\* As if only the address showed that the CPU has moved on.
DropSkipByAddress(s) == IF s.skip # None /\ c.pc # s.skip THEN [s EXCEPT !.skip = None] ELSE s

\* The resume guard is done once the CPU has moved on.
DropSkip(s) ==
    IF s.skip # None /\ (c.pc # s.skip \/ (s.moved /\ ~c.waiting)) THEN [s EXCEPT !.skip = None] ELSE s

\* As if a CPU parked in WAI arrived with every tick.
ArrivesWaiting(s) == ~Stopped(s) /\ s.skip = None

\* debug_bp_on_arrival is asked, which counts the hit, and the step's target.
Arrives(s) == ~Stopped(s) /\ s.skip = None /\ ~c.waiting

Arrive(s) ==
    IF "stops" \in BpHere(s)
    THEN Announce([ClearStep(Show(s)) EXCEPT !.src.on = FALSE, !.mode = "stop"])
    ELSE IF s.step = c.pc THEN Retire(ClearStep(Show(s)))
    ELSE s

TestArrival(s) == IF Arrives(s) THEN Arrive(s) ELSE s

\* Everything up to the arrival test, and everything up to the Break key.
Before(s) == DropSkip(RetireStep(ReportWatch(FollowInterrupt(s))))

Check(s) == TestArrival(Before(s))

\* The Break key is held down.
CheckBroken(s) == Break(Check(s))

\* As if the armed resume guard did not matter to the shortcut.
NothingToDoGuarded(s) ==
    s.mode = "run" /\ s.step = None /\ ~s.wp /\ ~c.entered /\ BpHere(s) = {"none"}

\* DEBUGNothingToDo: what lets the loop skip the check.
NothingToDo(s) ==
    /\ s.mode = "run"
    /\ s.step = None
    /\ s.skip = None
    /\ ~s.wp
    /\ ~c.entered
    /\ BpHere(s) = {"none"}

-----------------------------------------------------------------------------
(* Requests of the client.  A reply to one that no longer reads drops it.  *)

Say(s) == IF s.deaf THEN Drop(s) ELSE s

\* continue, next, stepIn, stepOut, x16/step: the request itself says the
\* machine runs.
Asked(s) == [s EXCEPT !.announced = FALSE, !.heard = 0, !.replied = FALSE]

\* As if only a stop ended a request for frames.
CancelledLate(s) == s

\* continue, next, stepIn, stepOut and terminate take the machine over: a request
\* for frames in flight is answered "cancelled" before they are served.
Cancelled(s) == IF s.frames.pending THEN Say([s EXCEPT !.frames.pending = FALSE]) ELSE s

\* As if a pause were always answered by an event of its own.
ReqPauseAgain(s) == IF Stopped(s) THEN Announce(Say(Break(s))) ELSE Say(Break(s))

\* pause: a machine already stopped still owes the request an event.
ReqPause(s) ==
    LET t == Say(Break(s))
    IN  IF Stopped(s) /\ ~t.announced THEN Announce(t) ELSE t

\* terminate
ReqTerminate(s) ==
    LET t == [Released(Say(s)) EXCEPT !.session = FALSE]
    IN  IF HasUI THEN t ELSE [t EXCEPT !.mode = "run"]

\* disconnect that leaves the emulator running
ReqDisconnect(s) == Resume([Released(Say(s)) EXCEPT !.session = FALSE])

\* As if a client were not told of a machine that is stopped already.
ReqConfiguredSilently(s, onEntry) ==
    IF Stopped(s) \/ ~onEntry THEN Say(s) ELSE Announce([Say(s) EXCEPT !.mode = "stop"])

\* configurationDone, with stopOnEntry
ReqConfigured(s, onEntry) ==
    LET t == Say(s)
    IN  IF ~t.client THEN t
        ELSE IF Stopped(t) THEN (IF t.announced THEN t ELSE Announce(t))
        ELSE IF onEntry THEN Announce([t EXCEPT !.mode = "stop"])
        ELSE [t EXCEPT !.mode = "run"]

\* As if a count that ran out once were remembered.
ReqFramesStale(s, n, events) ==
    LET t == Continue(Asked([s EXCEPT !.frames = [@ EXCEPT !.pending = TRUE, !.left = n, !.events = events]]))
    IN  IF events THEN Say(t) ELSE t

\* x16/step, whose reply is deferred: run n frames from here.  "continued" is
\* sent only to a client that wants events.
ReqFrames(s, n, events) ==
    LET t == Continue(Asked(
               [s EXCEPT !.frames = [pending |-> TRUE, left |-> n, byFrames |-> FALSE, events |-> events]]))
    IN  IF events THEN Say(t) ELSE t

\* As if only the end of the last frame completed a request.
StepPollByFrames(s) ==
    IF s.frames.pending /\ s.frames.byFrames /\ Stopped(s)
    THEN Say([Break(s) EXCEPT !.frames.pending = FALSE, !.replied = TRUE]) ELSE s

\* step_poll: the machine has parked, for whatever reason, so the reply is due.
StepPoll(s) ==
    LET t == IF s.frames.byFrames THEN Break(s) ELSE s
        r == Say([t EXCEPT !.frames.pending = FALSE, !.replied = TRUE])
    IN  IF ~(s.frames.pending /\ Stopped(s)) THEN s
        ELSE IF s.frames.byFrames /\ s.frames.events THEN Announce(r)
        ELSE r

-----------------------------------------------------------------------------
(* What is observed.                                                       *)

\* Nothing done yet at the address the CPU has come to.
Afresh(o) == [o EXCEPT !.tested = 0, !.halted = FALSE, !.fresh = FALSE]

\* The machine is seen stopped here; a session's end is a command of nobody.
Seen(o) ==
    [o EXCEPT !.halted = @ \/ Stopped(d) \/ Stopped(d'),
              !.cmd = IF d.client /\ ~d'.client THEN "other" ELSE @]

\* A command was given: a single instruction, or anything else.
Told(o, cmd) == [o EXCEPT !.cmd = cmd, !.ran = 0, !.from = c.pc]

\* By a request that takes the machine over: no frames are asked for any more.
TakenOver(o, cmd) == [Told(o, cmd) EXCEPT !.asked = 0, !.ended = 0]

-----------------------------------------------------------------------------
(* The emulator loop.                                                      *)

\* DEBUGPollStatus taking the shortcut.
PollFast ==
    /\ phase = "poll"
    /\ NothingToDo(d)
    /\ phase' = "exec"
    /\ UNCHANGED <<c, d, opts, obs>>

\* The full check.  A running machine serves the client only every
\* DEBUG_POLL_INTERVAL instructions, here at any of them; a visit begins with
\* step_poll, which does nothing to a machine that runs.
PollFull ==
    /\ phase = "poll"
    /\ \/ d' = StepPoll(Check(d))
       \/ HasUI /\ d' = StepPoll(CheckBroken(d))
    /\ c' = [c EXCEPT !.entered = FALSE]
    /\ phase' \in (IF d'.mode = "run" THEN {"serve", "exec"} ELSE {"serve"})
    /\ obs' = Seen([obs EXCEPT !.tested = IF Arrives(Before(d)) /\ @ < 2 THEN @ + 1 ELSE @])
    /\ UNCHANGED opts

\* A request, answered in debug_server_poll; one visit may answer several, and
\* step_poll follows each.  A client makes its requests within its session.
Session(s, o) ==
    /\ phase \in {"serve", "answer"}
    /\ d.session
    /\ phase' = "answer"
    /\ d' = StepPoll(s)
    /\ obs' = Seen(o)
    /\ UNCHANGED <<c, opts>>

ServeContinue == Session(Say(Continue(Asked(Cancelled(d)))), TakenOver(obs, "other"))
ServeStepIn ==
    Session(Say(StepIntoAuto(Asked(Cancelled(d)))),
            TakenOver(obs, IF ByLine(d) THEN "other" ELSE "into"))
ServeNext == Session(Say(StepOverAuto(Asked(Cancelled(d)), "dap")), TakenOver(obs, "other"))
ServeStepOut == Session(Say(StepOut(Asked(Cancelled(d)), "dap")), TakenOver(obs, "other"))
ServePause == Session(ReqPause(d), obs)
ServeTerminate ==
    Session(ReqTerminate(Cancelled(d)), [TakenOver(obs, "other") EXCEPT !.synced = FALSE])
ServeDisconnect == Session(ReqDisconnect(d), [Told(obs, "other") EXCEPT !.synced = FALSE])
ServeConfigured ==
    /\ ~obs.synced
    /\ \E onEntry \in BOOLEAN :
        Session(ReqConfigured(d, onEntry), [Told(obs, "other") EXCEPT !.synced = TRUE])
ServeBreakpoints ==
    \E b \in ClientBps : Session(Say([d EXCEPT !.bps = b]), [obs EXCEPT !.fresh = TRUE])
ServeFrames ==
    /\ Stopped(d)
    /\ ~d.frames.pending
    /\ \E n \in 1 .. opts.frames, events \in BOOLEAN :
        Session(ReqFrames(d, n, events), [Told(obs, "other") EXCEPT !.asked = n, !.ended = 0])

\* Where a visit leads.
Onward(s) == IF Stopped(s) THEN "pump" ELSE "exec"

\* The socket is found closed, which ends the visit.
ServeDrop ==
    /\ phase = "serve"
    /\ d.client
    /\ d' = Drop(d)
    /\ phase' = Onward(d')
    /\ obs' = Seen([obs EXCEPT !.synced = FALSE])
    /\ UNCHANGED <<c, opts>>

\* try_accept, and the initialize request.
ServeAttach ==
    /\ phase = "serve"
    /\ opts.dap
    /\ ~d.client
    /\ d' = [d EXCEPT !.client = TRUE, !.session = TRUE, !.heard = 0, !.replied = FALSE]
    /\ obs' = [obs EXCEPT !.synced = FALSE]
    /\ UNCHANGED <<phase, c, opts>>

\* The client stops reading, at any time.
ClientStalls ==
    /\ d.client /\ ~d.deaf
    /\ d' = [d EXCEPT !.deaf = TRUE]
    /\ UNCHANGED <<phase, c, opts, obs>>

LeaveServe ==
    /\ phase \in {"serve", "answer"}
    /\ phase' = Onward(d)
    /\ UNCHANGED <<c, d, opts, obs>>

\* The keys and buttons of the local interface.  The text debugger takes keys
\* in its pump, several in a row; the graphical one acts in its paused pump and
\* at the frames of a running machine, and steps only a machine that is paused.
Interface(s, o) ==
    /\ \/ phase = "pump" /\ HasUI
       \/ phase = "frame" /\ UI = "graphical"
    /\ d' = s
    /\ obs' = Seen(o)
    /\ UNCHANGED <<phase, c, opts>>

Graphical == UI = "graphical" /\ Stopped(d)

UIPause == UI = "graphical" /\ d.mode = "run" /\ Interface(Break(d), obs)
UIContinue == (Graphical \/ UI = "text") /\ Interface(Continue(d), Told(obs, "other"))
UIStepOut == (Graphical \/ UI = "text") /\ Interface(StepOut(d, "ui"), Told(obs, "other"))
UIStepInto == UI = "text" /\ Interface(StepInto(d), Told(obs, "into"))
UIStepOver == UI = "text" /\ Interface(StepOver(d, "ui"), Told(obs, "other"))
UIStepIntoAuto ==
    Graphical /\ Interface(StepIntoAuto(d), Told(obs, IF ByLine(d) THEN "other" ELSE "into"))
UIStepOverAuto == Graphical /\ Interface(StepOverAuto(d, "ui"), Told(obs, "other"))
UIRunTo ==
    /\ Graphical
    /\ \E pc \in Pc : Interface(RunTo([d EXCEPT !.src.on = FALSE], pc, "ui"), Told(obs, "other"))

\* Back to the loop: a stopped machine is polled again, one set going runs.
LeavePump ==
    /\ phase = "pump"
    /\ phase' = IF Stopped(d) THEN "poll" ELSE "exec"
    /\ UNCHANGED <<c, d, opts, obs>>

\* DEBUGBreakOnWatchpoint, from inside a store
Watch(s, kind) ==
    IF kind \in opts.watch /\ ~Stopped(s) THEN [s EXCEPT !.mode = "stop", !.wp = TRUE] ELSE s

Push(pc, call) == Append(c.stack, [ret |-> pc, call |-> call])

\* step6502
Instruction ==
    /\ phase = "exec"
    /\ ~c.waiting
    /\ CASE Op[c.pc] = "call" ->
              /\ Len(c.stack) < MaxDepth
              /\ c' = [c EXCEPT !.pc = Dest[c.pc], !.stack = Push(c.pc + 1, TRUE)]
         [] Op[c.pc] = "ret" /\ c.stack # <<>> ->
              c' = [c EXCEPT !.pc = c.stack[Len(c.stack)].ret,
                             !.stack = SubSeq(c.stack, 1, Len(c.stack) - 1)]
         [] OTHER -> c' = [c EXCEPT !.pc = Dest[c.pc], !.waiting = (Op[c.pc] = "wai")]
    /\ d' = Watch([d EXCEPT !.moved = TRUE],
                  CASE Op[c.pc] = "store" -> "store" [] Op[c.pc] = "call" -> "stack" [] OTHER -> "none")
    /\ phase' = "frame"
    /\ obs' = [Afresh(obs) EXCEPT !.ran = IF @ < 2 THEN @ + 1 ELSE @]
    /\ UNCHANGED opts

\* step6502 parked in WAI: the clock ticks, nothing else.
WaitTick ==
    /\ phase = "exec"
    /\ c.waiting
    /\ d' = [d EXCEPT !.moved = TRUE]
    /\ phase' = "frame"
    /\ UNCHANGED <<c, opts, obs>>

\* A frame ends, after the interface had its turn.  debug_server_frame_end
\* counts it unless a stop came first, and stops the machine at the last.
FrameEnd ==
    /\ phase = "frame"
    /\ d.frames.pending
    /\ d' = IF Stopped(d) THEN d
            ELSE LET last == d.frames.left = 1
                 IN  [d EXCEPT !.frames.left = @ - 1, !.frames.byFrames = @ \/ last,
                               !.mode = IF last THEN "stop" ELSE @]
    /\ obs' = [obs EXCEPT !.ended = @ + 1]
    /\ phase' = "irq"
    /\ UNCHANGED <<c, opts>>

\* irq6502: vectored, unless a handler is running, or masked, which only ends
\* a wait.
Interrupt ==
    /\ phase \in {"frame", "irq"}
    /\ opts.irqs
    /\ \A i \in DOMAIN c.stack : c.stack[i].call
    /\ Len(c.stack) < MaxDepth
    /\ c' = [c EXCEPT !.pc = Handler, !.stack = Push(c.pc, FALSE), !.waiting = FALSE, !.entered = TRUE]
    /\ d' = Watch([d EXCEPT !.moved = TRUE], "stack")
    /\ phase' = "poll"
    /\ obs' = Afresh(obs)
    /\ UNCHANGED opts

MaskedInterrupt ==
    /\ phase \in {"frame", "irq"}
    /\ c.waiting
    /\ c' = [c EXCEPT !.waiting = FALSE]
    /\ phase' = "poll"
    /\ UNCHANGED <<d, opts, obs>>

NoInterrupt ==
    /\ phase \in {"frame", "irq"}
    /\ phase' = "poll"
    /\ UNCHANGED <<c, d, opts, obs>>

Init ==
    /\ phase = "poll"
    /\ \E pc \in Pc : c = [pc |-> pc, stack |-> <<>>, waiting |-> FALSE, entered |-> FALSE]
    /\ d = [mode |-> "run", shown |-> c.pc, skip |-> None, moved |-> FALSE,
            step |-> None, stepOwner |-> None, src |-> NoSource, wp |-> FALSE,
            announced |-> FALSE, client |-> FALSE, session |-> FALSE, deaf |-> FALSE,
            heard |-> 0, replied |-> FALSE, bps |-> NoBps, frames |-> NoFrames]
    /\ opts \in Options
    /\ obs = [tested |-> 0, halted |-> FALSE, fresh |-> FALSE, synced |-> FALSE,
              cmd |-> "other", ran |-> 0, from |-> c.pc, asked |-> 0, ended |-> 0]

Loop ==
    \/ PollFast \/ PollFull \/ LeaveServe \/ LeavePump
    \/ Instruction \/ WaitTick \/ FrameEnd \/ Interrupt \/ MaskedInterrupt \/ NoInterrupt

Client ==
    \/ ServeContinue \/ ServeStepIn \/ ServeNext \/ ServeStepOut \/ ServePause
    \/ ServeFrames \/ ServeTerminate \/ ServeDisconnect \/ ServeConfigured \/ ServeBreakpoints
    \/ ServeDrop \/ ServeAttach \/ ClientStalls

User ==
    \/ UIPause \/ UIContinue \/ UIStepOut \/ UIStepInto \/ UIStepOver
    \/ UIStepIntoAuto \/ UIStepOverAuto \/ UIRunTo

Next == Loop \/ Client \/ User

Spec == Init /\ [][Next]_vars

\* The emulator loop goes on, and VERA ends a frame every so many cycles.
\* Neither a client nor a user owes the machine anything.
FairSpec == Spec /\ WF_vars(Loop) /\ SF_vars(FrameEnd)

-----------------------------------------------------------------------------
(* Properties.                                                             *)

Address == Pc \cup {None}

TypeOK ==
    /\ phase \in {"poll", "serve", "answer", "pump", "exec", "frame", "irq"}
    /\ c \in [pc : Pc, stack : Seq([ret : Pc, call : BOOLEAN]), waiting : BOOLEAN, entered : BOOLEAN]
    /\ Len(c.stack) <= MaxDepth
    /\ d.mode \in {"run", "step", "stop"}
    /\ d.shown \in Pc /\ d.skip \in Address /\ d.step \in Address
    /\ d.stepOwner \in {None, "ui", "dap"}
    /\ d.src.budget \in 0 .. SrcBudget
    /\ d.heard \in 0 .. 2
    /\ d.frames.left \in 0 .. opts.frames
    /\ d.session => d.client
    /\ opts \in Options

\* The shortcut of debugger.h never skips a check that would have done
\* something: wherever it is taken, the full check leaves every one of the
\* debugger's variables as it is.
ShortcutIsCheck == phase = "poll" /\ NothingToDo(d) => Check(d) = d

\* An arrival is counted at most once however often it is polled: "counting
\* each poll would burn through an ignore count while the machine is standing
\* still" (debugger.c, before the resume guard).
CountedOnce == obs.tested <= 1

\* No instruction with a breakpoint on it is executed unless the machine was
\* stopped there first, source steps aside.
BreakpointsStop ==
    [][ Instruction /\ "stops" \in BpHere(d) /\ ~d.src.on => obs.halted \/ obs.fresh ]_vars

\* The same of source steps, which "both still stop on any breakpoint they run
\* into on the way" (debugger.c, "Stepping by source line").
SourceStepsStop ==
    [][ Instruction /\ "stops" \in BpHere(d) => obs.halted \/ obs.fresh ]_vars

\* A single step executes one instruction: "runs once, then
\* DEBUGGetCurrentStatus stops us" (debugger.c, DEBUGStepInto).
OneInstruction ==
    [][ Instruction /\ obs.cmd = "into" => obs.ran = 0 \/ c.pc = obs.from ]_vars

\* A configured client knows whether the machine runs whenever it could ask:
\* it has heard of a stop it was not told the end of, by an event or by the
\* reply to x16/step, exactly while stopped.
ClientKnows ==
    d.client /\ obs.synced /\ phase \in {"serve", "answer", "pump", "exec"} => 
        (Stopped(d) <=> d.heard > 0 \/ d.replied)

\* Stops are announced "exactly once per RUN->STOP transition" (debugger.c,
\* DEBUGAnnounceStop).
AnnouncedOnce == d.session => d.heard <= 1

\* With no interface and no client, nothing could ever resume the machine: a
\* session that ends does not leave it "frozen forever with nothing able to
\* resume it" (debug_server.c, disconnect_client).
NeverOrphaned == Stopped(d) /\ ~HasUI /\ phase = "pump" => d.client

\* x16/step answers "frames" only when as many frames have ended as were asked
\* for, whatever stopped an earlier request or interrupts this one; and one that
\* another request took over is not left "to complete at some unrelated later
\* stop" (debug_server.c, dispatch_dap).
FramesCounted ==
    [][ d.frames.pending /\ ~d'.frames.pending /\ d'.session /\ d'.replied
          => obs.asked > 0 /\ (d.frames.byFrames => obs.ended = obs.asked) ]_vars

\* Every x16/step is answered in the end, or its session is over: whatever
\* stops the machine completes it, a request that takes the machine over cancels
\* it, and the last frame does if nothing else.
FramesEnd == d.frames.pending ~> ~d.frames.pending
=============================================================================
