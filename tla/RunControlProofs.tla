--------------------------- MODULE RunControlProofs ---------------------------
(***************************************************************************)
(* Two things about RunControl that the proofs about its steps rest on.    *)
(*                                                                         *)
(* First, the inline shortcut of debugger.h is sound for every program,    *)
(* every set of breakpoints and every history of requests.  Where the      *)
(* shortcut is taken every stage of the full check is the identity.  Only  *)
(* the last needs an invariant: no step target is "none", and the PC must  *)
(* not be "none" either, or the two would be taken to match.  That the PC  *)
(* is an address rests on the stack holding addresses.                     *)
(*                                                                         *)
(* Second, what the operators do to the debugger's record.  Each either    *)
(* sets the machine going (Goes), stops it (Stops) or only tells the       *)
(* client something (Passes), and any of them may lose the client, with    *)
(* whom its breakpoints, its frames and, without an interface, the stop    *)
(* itself go.                                                              *)
(***************************************************************************)
EXTENDS RunControl, TLAPS

Frame == [ret : Pc, call : BOOLEAN]

CpuOK == c \in [pc : Pc, stack : Seq(Frame), waiting : BOOLEAN, entered : BOOLEAN]

-----------------------------------------------------------------------------
(* The stages of the check.                                                *)

\* Where nothing is pending, everything before the arrival test is idle.
LEMMA BeforeIdle ==
    ASSUME NEW s, NothingToDo(s)
    PROVE  Before(s) = s
<1>1. FollowInterrupt(s) = s
  BY DEF NothingToDo, FollowInterrupt
<1>2. ReportWatch(s) = s
  BY DEF NothingToDo, ReportWatch
<1>3. RetireStep(s) = s
  BY DEF NothingToDo, RetireStep
<1>4. DropSkip(s) = s
  BY DEF NothingToDo, DropSkip
<1> QED
  BY <1>1, <1>2, <1>3, <1>4 DEF Before

\* Where in addition no breakpoint is here, so is the arrival test.
LEMMA ArrivalIdle ==
    ASSUME NEW s, NothingToDo(s), c.pc \in Pc
    PROVE  TestArrival(s) = s
<1>1. "stops" \notin BpHere(s)
  BY DEF NothingToDo
<1>2. s.step # c.pc
  BY RunAssumption DEF NothingToDo
<1> QED
  BY <1>1, <1>2 DEF TestArrival, Arrive

\* The shortcut is the whole test wherever the machine can be.
LEMMA ShortcutWhereAddressed == c.pc \in Pc => ShortcutIsCheck
<1> SUFFICES ASSUME c.pc \in Pc, NothingToDo(d)
             PROVE  Check(d) = d
  BY DEF ShortcutIsCheck
<1> QED
  BY BeforeIdle, ArrivalIdle DEF Check

-----------------------------------------------------------------------------
(* The CPU.                                                                *)

\* The CPU at its start.
LEMMA CpuInit == Init => CpuOK
  BY DEF Init, CpuOK

\* A word pushed.
LEMMA PushOK ==
    ASSUME CpuOK, NEW pc \in Pc, NEW call \in BOOLEAN
    PROVE  Push(pc, call) \in Seq(Frame)
  BY DEF CpuOK, Push, Frame

\* An instruction leaves the PC at an address: the next one, a callee, or what
\* the stack returns to.
LEMMA InstructionOK ==
    ASSUME CpuOK, Instruction
    PROVE  CpuOK'
<1> USE RunAssumption DEF CpuOK
<1>1. CASE Op[c.pc] = "call"
  <2>1. c' = [c EXCEPT !.pc = Dest[c.pc], !.stack = Push(c.pc + 1, TRUE)]
    BY <1>1 DEF Instruction
  <2>2. c.pc + 1 \in Pc /\ Dest[c.pc] \in Pc
    BY <1>1
  <2>3. Push(c.pc + 1, TRUE) \in Seq(Frame)
    BY <2>2, PushOK
  <2> QED
    BY <2>1, <2>2, <2>3
<1>2. CASE Op[c.pc] # "call" /\ Op[c.pc] = "ret" /\ c.stack # <<>>
  <2>1. c' = [c EXCEPT !.pc = c.stack[Len(c.stack)].ret,
                       !.stack = SubSeq(c.stack, 1, Len(c.stack) - 1)]
    BY <1>2 DEF Instruction
  <2>2. Len(c.stack) \in 1 .. Len(c.stack)
    BY <1>2
  <2>3. c.stack[Len(c.stack)] \in Frame
    BY <2>2
  <2>4. SubSeq(c.stack, 1, Len(c.stack) - 1) \in Seq(Frame)
    BY <2>2
  <2> QED
    BY <2>1, <2>3, <2>4 DEF Frame
<1>3. CASE Op[c.pc] # "call" /\ ~(Op[c.pc] = "ret" /\ c.stack # <<>>)
  <2>1. c' = [c EXCEPT !.pc = Dest[c.pc], !.waiting = (Op[c.pc] = "wai")]
    BY <1>3 DEF Instruction
  <2>2. Dest[c.pc] \in Pc
    OBVIOUS
  <2> QED
    BY <2>1, <2>2
<1> QED
  BY <1>1, <1>2, <1>3

\* An interrupt taken.
LEMMA InterruptOK ==
    ASSUME CpuOK, Interrupt
    PROVE  CpuOK'
<1>1. Push(c.pc, FALSE) \in Seq(Frame)
  BY PushOK DEF CpuOK
<1> QED
  BY <1>1, RunAssumption DEF CpuOK, Interrupt

\* Every step of the CPU keeps it in its registers' ranges.
LEMMA CpuStep ==
    ASSUME CpuOK, [Next]_vars
    PROVE  CpuOK'
<1>1. CASE Instruction
  BY <1>1, InstructionOK
<1>2. CASE Interrupt
  BY <1>2, InterruptOK
<1>3. CASE PollFull
  BY <1>3 DEF CpuOK, PollFull
<1>4. CASE MaskedInterrupt
  BY <1>4 DEF CpuOK, MaskedInterrupt
<1>5. CASE PollFast \/ LeaveServe \/ LeavePump \/ WaitTick \/ FrameEnd \/ NoInterrupt
  BY <1>5 DEF CpuOK, PollFast, LeaveServe, LeavePump, WaitTick, FrameEnd, NoInterrupt
<1>6. CASE Client
  BY <1>6 DEF CpuOK, Client, ServeContinue, ServeStepIn, ServeNext, ServeStepOut,
              ServePause, ServeFrames, ServeTerminate, ServeDisconnect, ServeConfigured,
              ServeBreakpoints, ServeDrop, ServeAttach, ClientStalls, Session
<1>7. CASE User
  BY <1>7 DEF CpuOK, User, UIPause, UIContinue, UIStepOut, UIStepInto, UIStepOver,
              UIStepIntoAuto, UIStepOverAuto, UIRunTo, Interface
<1>8. CASE UNCHANGED vars
  BY <1>8 DEF CpuOK, vars
<1> QED
  BY <1>1, <1>2, <1>3, <1>4, <1>5, <1>6, <1>7, <1>8 DEF Next, Loop

\* The CPU always stands at an address of the program, whatever the debugger,
\* the client and the user do to it (cpu/fake6502.c, step6502 and irq6502).
THEOREM CpuAddressed == Spec => []CpuOK
  BY CpuInit, CpuStep, PTL DEF Spec

\* Skipping the full check where DEBUGNothingToDo (debugger.h) allows it loses
\* nothing: the check would have changed none of the debugger's variables.
THEOREM ShortcutSkipsNothing == Spec => []ShortcutIsCheck
<1>1. CpuOK => ShortcutIsCheck
  BY ShortcutWhereAddressed DEF CpuOK
<1> QED
  BY <1>1, CpuAddressed, PTL

-----------------------------------------------------------------------------
(* The record, and what a step of it may be.                               *)

Fields == {"mode", "shown", "skip", "moved", "step", "stepOwner", "src", "wp", "announced",
           "client", "session", "deaf", "heard", "replied", "bps", "frames"}

FrameFields == {"pending", "left", "byFrames", "events"}

SourceFields == {"on", "over", "line", "owner", "depth", "budget"}

\* The parts of the debugger's record, and the values of those that matter.
Shape(s) ==
    /\ DOMAIN s = Fields
    /\ DOMAIN s.frames = FrameFields
    /\ DOMAIN s.src = SourceFields
    /\ s.mode \in {"run", "step", "stop"}
    /\ s.heard \in 0 .. 2

\* A session's end lets a machine without an interface go.
Freed(s, r) == r.mode = "run" /\ Stopped(s) /\ ~HasUI /\ s.client /\ ~r.client /\ r.bps = NoBps

\* What a lost client leaves.
Gone(r) ==
    ~r.client /\ ~r.session /\ ~r.frames.pending /\ ~r.announced /\ r.heard = 0 /\ ~r.replied

\* What telling the client something may change.
Passes(s, r) ==
    /\ Shape(r)
    /\ r.shown = s.shown /\ r.skip = s.skip /\ r.moved = s.moved /\ r.src = s.src /\ r.wp = s.wp
    /\ r.client => s.client /\ r.session = s.session
    /\ r.session => s.session /\ r.mode = s.mode /\ r.bps = s.bps /\ r.frames = s.frames
    /\ r.frames = s.frames \/ ~r.frames.pending
    /\ r.bps = s.bps \/ r.bps = NoBps
    /\ r.mode = s.mode \/ Freed(s, r)
    /\ s.client /\ ~r.client => Gone(r)

-----------------------------------------------------------------------------
(* Telling.                                                                *)

\* What a session held is given back; the machine is left as it is.
LEMMA ReleasedOK ==
    ASSUME NEW s, Shape(s)
    PROVE  LET r == Released(s)
           IN  /\ Shape(r) /\ r.bps = NoBps /\ ~r.frames.pending /\ ~r.announced
               /\ r.mode = s.mode /\ r.shown = s.shown /\ r.skip = s.skip /\ r.moved = s.moved
               /\ r.src = s.src /\ r.wp = s.wp /\ r.client = s.client /\ r.session = s.session
               /\ r.heard = s.heard /\ r.replied = s.replied /\ r.deaf = s.deaf
BY DEF Shape, Fields, FrameFields, SourceFields, Released, ClearStep

\* A client dropped is gone, and a machine without an interface let go.
LEMMA DropPasses ==
    ASSUME NEW s, Shape(s), s.session => s.client
    PROVE  LET r == Drop(s)
           IN  Passes(s, r) /\ Gone(r)
<1> DEFINE q == Released(s)
           t == [q EXCEPT !.client = FALSE, !.deaf = FALSE, !.session = FALSE,
                          !.heard = 0, !.replied = FALSE]
<1>1. /\ Shape(q) /\ q.bps = NoBps /\ ~q.frames.pending /\ ~q.announced
      /\ q.mode = s.mode /\ q.shown = s.shown /\ q.skip = s.skip /\ q.moved = s.moved
      /\ q.src = s.src /\ q.wp = s.wp
  BY ReleasedOK
<1>2. Drop(s) = t \/ (s.client /\ Drop(s) = Resume(t))
  BY DEF Drop
<1> HIDE DEF q
<1>3. /\ Shape(t) /\ t.bps = NoBps /\ t.frames = q.frames /\ ~t.announced
      /\ t.mode = s.mode /\ t.shown = s.shown /\ t.skip = s.skip /\ t.moved = s.moved
      /\ t.src = s.src /\ t.wp = s.wp
      /\ ~t.client /\ ~t.session /\ t.heard = 0 /\ ~t.replied
  BY <1>1 DEF Shape, Fields
<1> HIDE DEF t
<1>4. CASE Drop(s) = t
  BY <1>1, <1>3, <1>4 DEF Passes, Gone
<1>5. CASE s.client /\ Stopped(t) /\ ~HasUI /\ Drop(s) = [t EXCEPT !.mode = "run"]
  <2> DEFINE r == [t EXCEPT !.mode = "run"]
  <2>1. /\ Shape(r) /\ r.mode = "run" /\ r.bps = NoBps /\ r.frames = q.frames /\ ~r.announced
        /\ r.shown = s.shown /\ r.skip = s.skip /\ r.moved = s.moved
        /\ r.src = s.src /\ r.wp = s.wp
        /\ ~r.client /\ ~r.session /\ r.heard = 0 /\ ~r.replied
    BY <1>3 DEF Shape, Fields
  <2> HIDE DEF r
  <2>2. Freed(s, r)
    BY <1>3, <1>5, <2>1 DEF Freed, Stopped
  <2>3. Drop(s) = r
    BY <1>5 DEF r
  <2> QED
    BY <1>1, <2>1, <2>2, <2>3 DEF Passes, Gone
<1> QED
  BY <1>2, <1>4, <1>5 DEF Resume

\* A client is told of a stop, or asked not to be, or is lost over it.
LEMMA AnnouncePasses ==
    ASSUME NEW s, Shape(s)
    PROVE  LET r == Announce(s)
           IN  /\ Passes(s, r)
               /\ ~s.client => r = s
               /\ r.client => /\ r.replied = s.replied
                              /\ r.session = s.session
                              /\ \/ r.announced /\ r.heard > 0 /\ r.heard <= s.heard + 1
                                 \/ s.frames.pending /\ ~s.frames.events /\ r = s
<1>1. CASE ~s.client \/ (s.frames.pending /\ ~s.frames.events)
  BY <1>1 DEF Announce, Passes
<1>2. CASE s.client /\ ~(s.frames.pending /\ ~s.frames.events) /\ s.deaf
  <2> DEFINE t == [s EXCEPT !.announced = TRUE]
  <2>1. /\ Shape(t) /\ t.client
        /\ t.mode = s.mode /\ t.shown = s.shown /\ t.skip = s.skip /\ t.moved = s.moved
        /\ t.src = s.src /\ t.wp = s.wp /\ t.bps = s.bps /\ t.frames = s.frames
    BY <1>2 DEF Shape, Fields
  <2>2. Announce(s) = Drop(t)
    BY <1>2 DEF Announce
  <2> HIDE DEF t
  <2> DEFINE r == Drop(t)
  <2>3. Passes(t, r) /\ Gone(r)
    BY <2>1, DropPasses
  <2> HIDE DEF r
  <2>4. ~r.client
    BY <2>3 DEF Gone
  <2>5. r.mode = s.mode \/ Freed(s, r)
    BY <1>2, <2>1, <2>3 DEF Passes, Freed, Stopped
  <2>6. Passes(s, r)
    BY <1>2, <2>1, <2>3, <2>4, <2>5 DEF Passes, Gone
  <2> QED
    BY <1>2, <2>2, <2>4, <2>6 DEF r
<1>3. CASE s.client /\ ~(s.frames.pending /\ ~s.frames.events) /\ ~s.deaf
  BY <1>3 DEF Announce, Passes, Shape, Fields
<1> QED
  BY <1>1, <1>2, <1>3

\* A client is told of a resume it did not ask for, or is lost over it.
LEMMA NoteResumedPasses ==
    ASSUME NEW s, Shape(s)
    PROVE  LET r == NoteResumed(s)
           IN  /\ Passes(s, r)
               /\ ~r.announced
               /\ r.client \/ ~s.client =>
                     /\ r.session = s.session
                     /\ IF s.client /\ s.announced THEN r.heard = 0 /\ ~r.replied
                        ELSE r.heard = s.heard /\ r.replied = s.replied
<1>1. CASE ~(s.announced /\ s.client)
  BY <1>1 DEF NoteResumed, Passes, Shape, Fields
<1>2. CASE s.announced /\ s.client /\ s.deaf
  BY <1>2, DropPasses DEF NoteResumed, Gone
<1>3. CASE s.announced /\ s.client /\ ~s.deaf
  BY <1>3 DEF NoteResumed, Passes, Shape, Fields
<1> QED
  BY <1>1, <1>2, <1>3

\* A reply is heard, or its client lost over it.
LEMMA SayPasses ==
    ASSUME NEW s, Shape(s), s.session => s.client
    PROVE  LET r == Say(s)
           IN  /\ Passes(s, r)
               /\ r = s \/ Gone(r)
BY DropPasses DEF Say, Passes

-----------------------------------------------------------------------------
(* Setting the machine going, and stopping it.                             *)

\* What the session and a watched store left, untouched.
SameSession(s, t) ==
    /\ t.client = s.client /\ t.session = s.session /\ t.announced = s.announced
    /\ t.heard = s.heard /\ t.replied = s.replied /\ t.deaf = s.deaf
    /\ t.bps = s.bps /\ t.frames = s.frames /\ t.wp = s.wp

\* A client is told within its session, of as many stops as "announced" says.
Ears(s) ==
    /\ s.session => s.client
    /\ s.frames.pending => s.session
    /\ ~s.client => ~s.announced /\ s.heard = 0 /\ ~s.replied
    /\ s.session => (s.announced <=> s.heard > 0)

\* What may become of the session while the machine is set going or stopped.
Keeps(s, r) ==
    /\ Shape(r)
    /\ r.client => s.client /\ r.session = s.session
    /\ r.session => s.session /\ r.bps = s.bps /\ r.frames = s.frames
    /\ r.frames = s.frames \/ ~r.frames.pending
    /\ r.bps = s.bps \/ r.bps = NoBps
    /\ Ears(s) => Ears(r)

\* The machine is set going from here.
Goes(s, r) ==
    /\ Keeps(s, r)
    /\ ~Stopped(r)
    /\ r.skip = c.pc /\ ~r.moved
    /\ r.mode = "step" => r.shown = c.pc
    /\ r.wp = s.wp
    /\ Ears(s) /\ r.session => r.heard = 0 /\ (r.replied => s.replied)

\* The machine is stopped here and the client told, or lost, and then the
\* machine may have been let go.
Stops(s, r) ==
    /\ Keeps(s, r)
    /\ ~r.src.on /\ r.skip = s.skip /\ r.moved = s.moved /\ r.wp = s.wp
    /\ Stopped(r) \/ (r.mode = "run" /\ ~HasUI /\ s.client /\ ~r.client /\ r.bps = NoBps)
    /\ Ears(s) /\ r.session =>
          /\ Stopped(r) /\ r.replied = s.replied
          /\ r.heard <= s.heard + 1
          /\ r.heard > 0 \/ (s.frames.pending /\ ~s.frames.events /\ r.heard = s.heard)

\* A machine just stopped here, once its client is told, stops.
LEMMA AnnounceStops ==
    ASSUME NEW s, NEW t, Shape(s), Shape(t), SameSession(s, t), Stopped(t), ~t.src.on,
           t.skip = s.skip, t.moved = s.moved
    PROVE  Stops(s, Announce(t))
<1> DEFINE r == Announce(t)
<1>1. /\ Passes(t, r)
      /\ ~t.client => r = t
      /\ r.client => /\ r.replied = t.replied
                     /\ r.session = t.session
                     /\ \/ r.announced /\ r.heard > 0 /\ r.heard <= t.heard + 1
                        \/ t.frames.pending /\ ~t.frames.events /\ r = t
  BY AnnouncePasses
<1> HIDE DEF r
<1>2. Ears(s) => Ears(r)
  BY <1>1 DEF Passes, Gone, Ears, SameSession, Shape
<1>3. Keeps(s, r)
  BY <1>1, <1>2 DEF Passes, Keeps, SameSession
<1>4. Stopped(r) \/ (r.mode = "run" /\ ~HasUI /\ s.client /\ ~r.client /\ r.bps = NoBps)
  BY <1>1 DEF Passes, Freed, Stopped, SameSession
<1>5. ~r.src.on /\ r.skip = s.skip /\ r.moved = s.moved /\ r.wp = s.wp
  BY <1>1 DEF Passes, SameSession
<1>6. ASSUME Ears(s), r.session
      PROVE  /\ Stopped(r) /\ r.replied = s.replied
             /\ r.heard <= s.heard + 1
             /\ r.heard > 0 \/ (s.frames.pending /\ ~s.frames.events /\ r.heard = s.heard)
  <2>1. r.client /\ t.session /\ t.client
    BY <1>1, <1>2, <1>6 DEF Ears, Passes
  <2>2. /\ r.replied = s.replied
        /\ \/ r.heard > 0 /\ r.heard <= t.heard + 1
           \/ s.frames.pending /\ ~s.frames.events /\ r = t
    BY <1>1, <2>1 DEF SameSession
  <2>3. Stopped(r)
    BY <1>1, <1>6 DEF Passes, Stopped
  <2> QED
    BY <2>2, <2>3 DEF SameSession, Shape
<1> QED
  BY <1>3, <1>4, <1>5, <1>6 DEF Stops, r

\* A machine set going from here, once its client is told, goes.
LEMMA NoteResumedGoes ==
    ASSUME NEW s, NEW t, Shape(s), Shape(t), SameSession(s, t), ~Stopped(t),
           t.skip = c.pc, ~t.moved, t.mode = "step" => t.shown = c.pc
    PROVE  LET r == NoteResumed(t)
           IN  Goes(s, r) /\ r.src = t.src /\ r.mode = t.mode
<1> DEFINE r == NoteResumed(t)
<1>1. /\ Passes(t, r)
      /\ ~r.announced
      /\ r.client \/ ~t.client =>
            /\ r.session = t.session
            /\ IF t.client /\ t.announced THEN r.heard = 0 /\ ~r.replied
               ELSE r.heard = t.heard /\ r.replied = t.replied
  BY NoteResumedPasses
<1> HIDE DEF r
<1>2. Ears(s) => Ears(r)
  BY <1>1 DEF Passes, Gone, Ears, SameSession, Shape
<1>3. Keeps(s, r)
  BY <1>1, <1>2 DEF Passes, Keeps, SameSession
<1>4. /\ r.mode = t.mode /\ ~Stopped(r) /\ r.src = t.src
      /\ r.skip = c.pc /\ ~r.moved /\ r.wp = s.wp
      /\ r.mode = "step" => r.shown = c.pc
  BY <1>1 DEF Passes, Freed, Stopped, SameSession
<1>5. Ears(s) /\ r.session => r.heard = 0 /\ (r.replied => s.replied)
  <2> SUFFICES ASSUME Ears(s), r.session
               PROVE  r.heard = 0 /\ (r.replied => s.replied)
    OBVIOUS
  <2>1. r.client /\ t.session /\ t.client
    BY <1>1, <1>2 DEF Ears, Passes
  <2>2. CASE t.announced
    BY <1>1, <2>1, <2>2
  <2>3. CASE ~t.announced
    <3>1. ~(t.heard > 0) /\ t.heard \in Nat
      BY <2>1, <2>3 DEF Ears, SameSession, Shape
    <3>2. r.heard = t.heard /\ r.replied = s.replied
      BY <1>1, <2>1, <2>3 DEF SameSession
    <3> QED
      BY <3>1, <3>2
  <2> QED
    BY <2>2, <2>3
<1> QED
  BY <1>3, <1>4, <1>5 DEF Goes, r

\* DEBUGContinue
LEMMA ContinueGoes ==
    ASSUME NEW s, Shape(s)
    PROVE  LET r == Continue(s) IN Goes(s, r) /\ r.mode = "run" /\ ~r.src.on
<1> DEFINE t == [ArmSkip(ClearStep(s)) EXCEPT !.src.on = FALSE, !.mode = "run"]
<1>1. /\ Shape(t) /\ SameSession(s, t) /\ ~Stopped(t) /\ t.mode = "run"
      /\ t.skip = c.pc /\ ~t.moved /\ ~t.src.on
  BY DEF Shape, Fields, SourceFields, SameSession, Stopped, ArmSkip, ClearStep
<1> HIDE DEF t
<1>2. Goes(s, NoteResumed(t)) /\ NoteResumed(t).src = t.src /\ NoteResumed(t).mode = t.mode
  BY <1>1, NoteResumedGoes
<1> QED
  BY <1>1, <1>2 DEF Continue, t

\* DEBUGStepInto
LEMMA StepIntoGoes ==
    ASSUME NEW s, Shape(s)
    PROVE  LET r == StepInto(s) IN Goes(s, r) /\ r.src = s.src /\ r.mode = "step"
<1> DEFINE t == [Show(ArmSkip(s)) EXCEPT !.mode = "step"]
<1>1. /\ Shape(t) /\ SameSession(s, t) /\ ~Stopped(t) /\ t.mode = "step"
      /\ t.skip = c.pc /\ ~t.moved /\ t.src = s.src /\ t.shown = c.pc
  BY DEF Shape, Fields, SourceFields, SameSession, Stopped, ArmSkip, Show
<1> HIDE DEF t
<1>2. Goes(s, NoteResumed(t)) /\ NoteResumed(t).src = t.src /\ NoteResumed(t).mode = t.mode
  BY <1>1, NoteResumedGoes
<1> QED
  BY <1>1, <1>2 DEF StepInto, t

\* Running to a temporary target
LEMMA RunToGoes ==
    ASSUME NEW s, Shape(s), NEW pc, NEW owner
    PROVE  LET r == RunTo(s, pc, owner) IN Goes(s, r) /\ r.src = s.src
<1> DEFINE t == [ArmSkip(s) EXCEPT !.step = pc, !.stepOwner = owner, !.mode = "run"]
<1>1. /\ Shape(t) /\ SameSession(s, t) /\ ~Stopped(t) /\ t.mode = "run"
      /\ t.skip = c.pc /\ ~t.moved /\ t.src = s.src
  BY DEF Shape, Fields, SourceFields, SameSession, Stopped, ArmSkip
<1> HIDE DEF t
<1>2. Goes(s, NoteResumed(t)) /\ NoteResumed(t).src = t.src /\ NoteResumed(t).mode = t.mode
  BY <1>1, NoteResumedGoes
<1> QED
  BY <1>1, <1>2 DEF RunTo, t

\* DEBUGStepOver
LEMMA StepOverGoes ==
    ASSUME NEW s, Shape(s), NEW owner
    PROVE  LET r == StepOver(s, owner) IN Goes(s, r) /\ r.src = s.src
BY RunToGoes, StepIntoGoes DEF StepOver

\* DEBUGStepOut
LEMMA StepOutGoes ==
    ASSUME NEW s, Shape(s), NEW owner
    PROVE  LET r == StepOut(s, owner) IN Goes(s, r) /\ r.src = s.src
<1>1. CASE Frames = {}
  BY <1>1, StepIntoGoes DEF StepOut
<1>2. CASE Frames # {}
  <2> DEFINE pc == c.stack[CHOOSE i \in Frames : \A j \in Frames : j <= i].ret
  <2>1. StepOut(s, owner) = RunTo(s, pc, owner)
    BY <1>2 DEF StepOut
  <2> HIDE DEF pc
  <2> QED
    BY <2>1, RunToGoes
<1> QED
  BY <1>1, <1>2

\* What differs in the execution control alone does not matter to either.
LEMMA GoesFrom ==
    ASSUME NEW s, NEW t, NEW r, SameSession(s, t), Goes(t, r)
    PROVE  Goes(s, r)
<1>1. Ears(s) => Ears(t)
  BY DEF Ears, SameSession
<1> QED
  BY <1>1 DEF Goes, Keeps, SameSession

\* The same of a stop.
LEMMA StopsFrom ==
    ASSUME NEW s, NEW t, NEW r, SameSession(s, t), t.skip = s.skip, t.moved = s.moved, Stops(t, r)
    PROVE  Stops(s, r)
<1>1. Ears(s) => Ears(t)
  BY DEF Ears, SameSession
<1> QED
  BY <1>1 DEF Stops, Keeps, SameSession

-----------------------------------------------------------------------------
(* The stages of the check.                                                *)

\* A source step goes on from here.
LEMMA SourceStepGoes ==
    ASSUME NEW s, Shape(s), s.src.on
    PROVE  LET r == SourceGoesOn(s) IN Goes(s, r) /\ r.src.on
<1> DEFINE t == [s EXCEPT !.src.budget = @ - 1]
           r == SourceGoesOn(s)
<1>1. Shape(t) /\ SameSession(s, t) /\ t.src.on
  BY DEF Shape, Fields, SourceFields, SameSession
<1>2. \/ \E owner : r = StepOut(t, owner) \/ r = StepOver(t, owner)
      \/ r = StepInto(t)
  BY DEF SourceGoesOn
<1> HIDE DEF t, r
<1>3. Goes(t, r) /\ r.src = t.src
  BY <1>1, <1>2, StepOutGoes, StepOverGoes, StepIntoGoes
<1>4. Goes(s, r)
  BY <1>1, <1>3, GoesFrom
<1> QED
  BY <1>1, <1>3, <1>4 DEF r

\* A step that has retired goes on, by line, or the machine is stopped.
GoesOn(s, r) == s.src.on /\ Goes(s, r) /\ r.src.on

\* A step has retired: the next one of a source step, or a stop.
LEMMA RetireCases ==
    ASSUME NEW s, Shape(s)
    PROVE  Stops(s, Retire(s)) \/ GoesOn(s, Retire(s))
<1>1. CASE SourceContinues(s)
  BY <1>1, SourceStepGoes DEF Retire, SourceContinues, GoesOn
<1>2. CASE ~SourceContinues(s)
  <2> DEFINE t == [s EXCEPT !.src.on = FALSE, !.mode = "stop"]
  <2>1. /\ Shape(t) /\ SameSession(s, t) /\ Stopped(t) /\ ~t.src.on
        /\ t.skip = s.skip /\ t.moved = s.moved
    BY DEF Shape, Fields, SourceFields, SameSession, Stopped
  <2>2. Retire(s) = Announce(t)
    BY <1>2 DEF Retire
  <2> HIDE DEF t
  <2> QED
    BY <2>1, <2>2, AnnounceStops
<1> QED
  BY <1>1, <1>2

\* An interrupt is followed, or nothing is done.
LEMMA FollowCases ==
    ASSUME NEW s, Shape(s)
    PROVE  LET r == FollowInterrupt(s)
           IN  r = s \/ (c.entered /\ (opts.breakOn \/ ~Stopped(s)) /\ Stops(s, r))
<1> SUFFICES ASSUME FollowInterrupt(s) # s
             PROVE  c.entered /\ (opts.breakOn \/ ~Stopped(s)) /\ Stops(s, FollowInterrupt(s))
  OBVIOUS
<1> DEFINE t == [Show(s) EXCEPT !.mode = "stop", !.step = None, !.src.on = FALSE]
<1>1. /\ Shape(t) /\ SameSession(s, t) /\ Stopped(t) /\ ~t.src.on
      /\ t.skip = s.skip /\ t.moved = s.moved
  BY DEF Shape, Fields, SourceFields, SameSession, Stopped, Show
<1>2. c.entered /\ (opts.breakOn \/ ~Stopped(s)) /\ FollowInterrupt(s) = Announce(t)
  BY DEF FollowInterrupt
<1> HIDE DEF t
<1> QED
  BY <1>1, <1>2, AnnounceStops

\* A watched store's stop is told.
Reports(s, r) ==
    /\ Keeps(s, r)
    /\ ~r.wp /\ r.src = s.src /\ r.skip = s.skip /\ r.moved = s.moved
    /\ \/ r.mode = s.mode
       \/ r.mode = "run" /\ ~HasUI /\ s.client /\ ~r.client /\ r.bps = NoBps
    /\ Ears(s) /\ r.session =>
          /\ r.mode = s.mode /\ r.replied = s.replied
          /\ r.heard <= s.heard + 1
          /\ r.heard > 0 \/ (s.frames.pending /\ ~s.frames.events /\ r.heard = s.heard)

\* A watched store's stop is told, or nothing is done.
LEMMA ReportWatchCases ==
    ASSUME NEW s, Shape(s)
    PROVE  LET r == ReportWatch(s)
           IN  (~s.wp /\ r = s) \/ (s.wp /\ Reports(s, r))
<1>1. CASE ~s.wp
  BY <1>1 DEF ReportWatch
<1>2. CASE s.wp
  <2> DEFINE t == [Show(s) EXCEPT !.wp = FALSE]
             r == Announce(t)
  <2>1. /\ Shape(t) /\ ~t.wp /\ t.src = s.src /\ t.skip = s.skip /\ t.moved = s.moved
        /\ t.mode = s.mode /\ t.client = s.client /\ t.session = s.session
        /\ t.announced = s.announced /\ t.heard = s.heard /\ t.replied = s.replied
        /\ t.bps = s.bps /\ t.frames = s.frames
    BY DEF Shape, Fields, SourceFields, Show
  <2>2. ReportWatch(s) = r
    BY <1>2 DEF ReportWatch
  <2> HIDE DEF t
  <2>3. /\ Passes(t, r)
        /\ ~t.client => r = t
        /\ r.client => /\ r.replied = t.replied
                       /\ r.session = t.session
                       /\ \/ r.announced /\ r.heard > 0 /\ r.heard <= t.heard + 1
                          \/ t.frames.pending /\ ~t.frames.events /\ r = t
    BY <2>1, AnnouncePasses
  <2> HIDE DEF r
  <2>4. Ears(s) => Ears(r)
    BY <2>1, <2>3 DEF Passes, Gone, Ears
  <2>5. Keeps(s, r)
    BY <2>1, <2>3, <2>4 DEF Passes, Keeps
  <2>6. \/ r.mode = s.mode
        \/ r.mode = "run" /\ ~HasUI /\ s.client /\ ~r.client /\ r.bps = NoBps
    BY <2>1, <2>3 DEF Passes, Freed
  <2>7. ~r.wp /\ r.src = s.src /\ r.skip = s.skip /\ r.moved = s.moved
    BY <2>1, <2>3 DEF Passes
  <2>8. ASSUME Ears(s), r.session
        PROVE  /\ r.mode = s.mode /\ r.replied = s.replied
               /\ r.heard <= s.heard + 1
               /\ r.heard > 0 \/ (s.frames.pending /\ ~s.frames.events /\ r.heard = s.heard)
    <3>1. r.client /\ t.session /\ t.client
      BY <2>3, <2>4, <2>8 DEF Ears, Passes
    <3>2. /\ r.replied = s.replied
          /\ \/ r.heard > 0 /\ r.heard <= t.heard + 1
             \/ s.frames.pending /\ ~s.frames.events /\ r = t
      BY <2>1, <2>3, <3>1
    <3>3. r.mode = s.mode
      BY <2>1, <2>3, <2>8 DEF Passes
    <3> QED
      BY <2>1, <3>2, <3>3 DEF Shape
  <2> QED
    BY <1>2, <2>2, <2>5, <2>6, <2>7, <2>8 DEF Reports
<1> QED
  BY <1>1, <1>2

\* A step is over, or nothing is done, as wherever it has just begun.
LEMMA RetireStepCases ==
    ASSUME NEW s, Shape(s)
    PROVE  LET r == RetireStep(s)
           IN  \/ r = s /\ (s.mode = "step" => s.shown = c.pc)
               \/ s.mode = "step" /\ s.shown # c.pc /\ (Stops(s, r) \/ GoesOn(s, r))
<1>1. CASE s.mode = "step" /\ s.shown # c.pc
  <2> DEFINE t == Show(s)
             r == Retire(t)
  <2>1. /\ Shape(t) /\ SameSession(s, t) /\ t.skip = s.skip /\ t.moved = s.moved /\ t.src = s.src
    BY DEF Shape, Fields, SourceFields, SameSession, Show
  <2>2. RetireStep(s) = r
    BY <1>1 DEF RetireStep
  <2> HIDE DEF t
  <2>3. Stops(t, r) \/ GoesOn(t, r)
    BY <2>1, RetireCases
  <2> HIDE DEF r
  <2>4. CASE Stops(t, r)
    BY <1>1, <2>1, <2>2, <2>4, StopsFrom
  <2>5. CASE GoesOn(t, r)
    BY <1>1, <2>1, <2>2, <2>5, GoesFrom DEF GoesOn
  <2> QED
    BY <2>3, <2>4, <2>5
<1>2. CASE ~(s.mode = "step" /\ s.shown # c.pc)
  BY <1>2 DEF RetireStep
<1> QED
  BY <1>1, <1>2

\* The resume guard is dropped only once the CPU has moved on.
LEMMA DropSkipCases ==
    ASSUME NEW s, Shape(s)
    PROVE  LET r == DropSkip(s)
           IN  /\ Shape(r) /\ SameSession(s, r)
               /\ r.mode = s.mode /\ r.shown = s.shown /\ r.src = s.src /\ r.moved = s.moved
               /\ \/ r.skip = s.skip /\ (s.skip = None \/ (c.pc = s.skip /\ (~s.moved \/ c.waiting)))
                  \/ r.skip = None
BY DEF DropSkip, Shape, Fields, SameSession

\* An arrival at a breakpoint stops; one at a step's target stops or goes on.
LEMMA ArrivalCases ==
    ASSUME NEW s, Shape(s)
    PROVE  LET r == TestArrival(s)
           IN  \/ r = s /\ ~(Arrives(s) /\ "stops" \in BpHere(s))
               \/ Arrives(s) /\ Stops(s, r)
               \/ Arrives(s) /\ GoesOn(s, r) /\ "stops" \notin BpHere(s)
<1>1. CASE ~Arrives(s)
  BY <1>1 DEF TestArrival
<1>2. CASE Arrives(s) /\ "stops" \in BpHere(s)
  <2> DEFINE t == [ClearStep(Show(s)) EXCEPT !.src.on = FALSE, !.mode = "stop"]
  <2>1. /\ Shape(t) /\ SameSession(s, t) /\ Stopped(t) /\ ~t.src.on
        /\ t.skip = s.skip /\ t.moved = s.moved
    BY DEF Shape, Fields, SourceFields, SameSession, Stopped, Show, ClearStep
  <2>2. TestArrival(s) = Announce(t)
    BY <1>2 DEF TestArrival, Arrive
  <2> HIDE DEF t
  <2> QED
    BY <1>2, <2>1, <2>2, AnnounceStops
<1>3. CASE Arrives(s) /\ "stops" \notin BpHere(s) /\ s.step = c.pc
  <2> DEFINE t == ClearStep(Show(s))
             r == Retire(t)
  <2>1. /\ Shape(t) /\ SameSession(s, t) /\ t.skip = s.skip /\ t.moved = s.moved /\ t.src = s.src
    BY DEF Shape, Fields, SourceFields, SameSession, Show, ClearStep
  <2>2. TestArrival(s) = r
    BY <1>3 DEF TestArrival, Arrive
  <2> HIDE DEF t
  <2>3. Stops(t, r) \/ GoesOn(t, r)
    BY <2>1, RetireCases
  <2> HIDE DEF r
  <2>4. CASE Stops(t, r)
    BY <1>3, <2>1, <2>2, <2>4, StopsFrom
  <2>5. CASE GoesOn(t, r)
    BY <1>3, <2>1, <2>2, <2>5, GoesFrom DEF GoesOn
  <2> QED
    BY <2>3, <2>4, <2>5
<1>4. CASE Arrives(s) /\ "stops" \notin BpHere(s) /\ s.step # c.pc
  BY <1>4 DEF TestArrival, Arrive
<1> QED
  BY <1>1, <1>2, <1>3, <1>4

\* A machine stopped already is only shown again.
Rests(s, r) ==
    /\ Stopped(s)
    /\ Shape(r) /\ SameSession(s, r)
    /\ Stopped(r) /\ ~r.src.on /\ r.skip = s.skip /\ r.moved = s.moved

\* The Break key or a pause stops a machine that runs.
LEMMA BreakCases ==
    ASSUME NEW s, Shape(s)
    PROVE  Rests(s, Break(s)) \/ (~Stopped(s) /\ Stops(s, Break(s)))
<1> DEFINE t == [Show(s) EXCEPT !.src.on = FALSE, !.mode = "stop"]
<1>1. /\ Shape(t) /\ SameSession(s, t) /\ Stopped(t) /\ ~t.src.on
      /\ t.skip = s.skip /\ t.moved = s.moved
  BY DEF Shape, Fields, SourceFields, SameSession, Stopped, Show
<1>2. Break(s) = IF Stopped(s) THEN t ELSE Announce(t)
  BY DEF Break
<1> HIDE DEF t
<1>3. CASE Stopped(s)
  BY <1>1, <1>2, <1>3 DEF Rests
<1>4. CASE ~Stopped(s)
  BY <1>1, <1>2, <1>4, AnnounceStops
<1> QED
  BY <1>3, <1>4

\* A request for frames is answered, or the client is lost over the answer.
Replies(s, r) ==
    /\ s.frames.pending /\ Stopped(s)
    /\ Shape(r)
    /\ r.client => s.client /\ r.session = s.session
    /\ r.session => s.session /\ r.bps = s.bps
    /\ ~r.frames.pending
    /\ r.bps = s.bps \/ r.bps = NoBps
    /\ Ears(r)
    /\ r.src.on => s.src.on
    /\ r.skip = s.skip /\ r.moved = s.moved /\ r.wp = s.wp
    /\ Stopped(r) \/ (r.mode = "run" /\ ~HasUI /\ s.client /\ ~r.client /\ r.bps = NoBps)
    /\ r.session => /\ Stopped(r) /\ r.replied
                    /\ r.heard <= s.heard + 1
                    /\ ~s.frames.byFrames => r.heard = s.heard

\* step_poll: a reply that is due is made.
LEMMA StepPollCases ==
    ASSUME NEW s, Shape(s), Ears(s)
    PROVE  LET r == StepPoll(s)
           IN  \/ r = s /\ ~(s.frames.pending /\ Stopped(s))
               \/ Replies(s, r)
<1>1. CASE ~(s.frames.pending /\ Stopped(s))
  BY <1>1 DEF StepPoll
<1>2. CASE s.frames.pending /\ Stopped(s)
  <2> DEFINE t == IF s.frames.byFrames THEN Break(s) ELSE s
             u == [t EXCEPT !.frames.pending = FALSE, !.replied = TRUE]
             q == Say(u)
             r == StepPoll(s)
  <2>1. /\ Shape(t) /\ SameSession(s, t) /\ Stopped(t)
        /\ t.skip = s.skip /\ t.moved = s.moved /\ (t.src.on => s.src.on)
    BY <1>2, BreakCases DEF Rests, SameSession
  <2>2. r = q \/ (s.frames.byFrames /\ r = Announce(q))
    BY <1>2 DEF StepPoll
  <2> HIDE DEF t
  <2>3. /\ Shape(u) /\ u.client = s.client /\ u.session = s.session /\ u.announced = s.announced
        /\ u.heard = s.heard /\ u.replied /\ u.bps = s.bps /\ ~u.frames.pending
        /\ u.mode = t.mode /\ u.skip = s.skip /\ u.moved = s.moved /\ u.wp = s.wp /\ u.src = t.src
    BY <2>1 DEF Shape, Fields, FrameFields, SourceFields, SameSession
  <2>4. s.session /\ s.client
    BY <1>2 DEF Ears
  <2> HIDE DEF u
  <2>5. Passes(u, q) /\ (q = u \/ Gone(q))
    BY <2>3, <2>4, SayPasses
  <2> HIDE DEF q, r
  <2>6. Replies(s, q)
    <3>1. CASE q = u
      <4>1. Ears(u)
        BY <2>3, <2>4 DEF Ears
      <4>2. Shape(u) /\ Stopped(u) /\ u.heard <= s.heard + 1
        BY <2>1, <2>3 DEF Stopped, Shape
      <4> QED
        BY <1>2, <2>1, <2>3, <2>4, <3>1, <4>1, <4>2 DEF Replies
    <3>2. CASE Gone(q)
      <4>1. Ears(q)
        BY <3>2 DEF Gone, Ears
      <4>2. Stopped(q) \/ (q.mode = "run" /\ ~HasUI /\ s.client /\ ~q.client /\ q.bps = NoBps)
        BY <2>1, <2>3, <2>5 DEF Passes, Freed, Stopped
      <4> QED
        BY <1>2, <2>1, <2>3, <2>5, <3>2, <4>1, <4>2 DEF Replies, Passes, Gone
    <3> QED
      BY <2>5, <3>1, <3>2
  <2>7. ASSUME s.frames.byFrames, r = Announce(q)
        PROVE  Replies(s, r)
    <3>1. /\ Passes(q, r)
          /\ ~q.client => r = q
          /\ r.client => /\ r.replied = q.replied
                         /\ r.session = q.session
                         /\ \/ r.announced /\ r.heard > 0 /\ r.heard <= q.heard + 1
                            \/ q.frames.pending /\ ~q.frames.events /\ r = q
      BY <2>5, <2>7, AnnouncePasses DEF Passes
    <3>2. CASE ~q.client
      BY <2>6, <3>1, <3>2
    <3>3. CASE q.client /\ ~r.client
      <4>1. Gone(r)
        BY <3>1, <3>3 DEF Passes
      <4>2. Ears(r)
        BY <4>1 DEF Gone, Ears
      <4>3. Stopped(r) \/ (r.mode = "run" /\ ~HasUI /\ s.client /\ ~r.client /\ r.bps = NoBps)
        BY <2>4, <2>6, <3>1, <3>3 DEF Replies, Passes, Freed, Stopped
      <4> QED
        BY <1>2, <2>6, <3>1, <4>1, <4>2, <4>3 DEF Replies, Passes, Gone
    <3>4. CASE q.client /\ r.client
      <4>1. q = u
        BY <2>5, <3>4 DEF Gone
      <4>2. r.replied /\ r.announced /\ r.heard > 0 /\ r.heard <= s.heard + 1
        BY <2>3, <3>1, <3>4, <4>1
      <4>3. Ears(r)
        BY <2>6, <3>1, <3>4, <4>2 DEF Replies, Passes, Ears
      <4>4. Stopped(r)
        BY <2>1, <2>3, <2>4, <3>1, <3>4, <4>1 DEF Passes, Stopped, Freed
      <4> QED
        BY <1>2, <2>6, <2>7, <3>1, <4>2, <4>3, <4>4 DEF Replies, Passes
    <3> QED
      BY <3>2, <3>3, <3>4
  <2> QED
    BY <2>2, <2>6, <2>7 DEF r
<1> QED
  BY <1>1, <1>2

-----------------------------------------------------------------------------
(* Requests.                                                               *)

\* A reply keeps the session, or ends it.
LEMMA SayKeeps ==
    ASSUME NEW s, Shape(s), Ears(s)
    PROVE  LET r == Say(s)
           IN  Passes(s, r) /\ Ears(r) /\ Keeps(s, r) /\ (r = s \/ Gone(r))
<1>1. Passes(s, Say(s)) /\ (Say(s) = s \/ Gone(Say(s)))
  BY SayPasses DEF Ears
<1>2. Ears(Say(s))
  BY <1>1 DEF Ears, Gone
<1> QED
  BY <1>1, <1>2 DEF Passes, Keeps

\* A request for frames that is taken over pends no longer, and its client keeps
\* its session or is lost.
LEMMA CancelledOK ==
    ASSUME NEW s, Shape(s), Ears(s)
    PROVE  LET q == Cancelled(s)
           IN  /\ Shape(q) /\ Ears(q)
               /\ ~q.frames.pending
               /\ q.client => s.client /\ q.session = s.session
               /\ q.session => s.session
               /\ q.bps = s.bps \/ q.bps = NoBps
               /\ q.wp = s.wp /\ q.src = s.src /\ q.skip = s.skip /\ q.moved = s.moved
               /\ q.mode = s.mode \/ (q.mode = "run" /\ ~HasUI)
<1>1. CASE ~s.frames.pending
  BY <1>1 DEF Cancelled
<1>2. CASE s.frames.pending
  <2> DEFINE t == [s EXCEPT !.frames.pending = FALSE]
             q == Say(t)
  <2>1. /\ Shape(t) /\ ~t.frames.pending
        /\ t.client = s.client /\ t.session = s.session /\ t.bps = s.bps
        /\ t.announced = s.announced /\ t.heard = s.heard /\ t.replied = s.replied
        /\ t.wp = s.wp /\ t.src = s.src /\ t.skip = s.skip /\ t.moved = s.moved
        /\ t.mode = s.mode
    BY DEF Shape, Fields, FrameFields
  <2>2. Cancelled(s) = q
    BY <1>2 DEF Cancelled
  <2> HIDE DEF t
  <2>3. Ears(t)
    BY <2>1 DEF Ears
  <2>4. Passes(t, q) /\ Ears(q)
    BY <2>1, <2>3, SayKeeps
  <2> HIDE DEF q
  <2> QED
    BY <2>1, <2>2, <2>4 DEF Passes, Freed
<1> QED
  BY <1>1, <1>2

\* A machine set going still goes once the request is answered.
LEMMA GoesSay ==
    ASSUME NEW s, NEW t, Shape(s), Ears(s), Goes(s, t)
    PROVE  LET r == Say(t) IN Goes(s, r) /\ r.src = t.src /\ r.mode = t.mode
<1> DEFINE r == Say(t)
<1>1. Shape(t) /\ Ears(t)
  BY DEF Goes, Keeps
<1>2. Passes(t, r) /\ Ears(r) /\ Keeps(t, r) /\ (r = t \/ Gone(r))
  BY <1>1, SayKeeps
<1> HIDE DEF r
<1>3. r.mode = t.mode
  BY <1>2 DEF Passes, Freed, Goes, Stopped
<1>4. Keeps(s, r)
  BY <1>2 DEF Goes, Keeps
<1>5. CASE r = t
  BY <1>5 DEF r
<1>6. CASE Gone(r)
  BY <1>2, <1>3, <1>4, <1>6 DEF Goes, Passes, Gone, Stopped, r
<1> QED
  BY <1>2, <1>5, <1>6

\* A request that says itself that the machine runs.
LEMMA AskedOK ==
    ASSUME NEW s, Shape(s), Ears(s)
    PROVE  LET r == Asked(s)
           IN  /\ Shape(r) /\ Ears(r)
               /\ r.heard = 0 /\ ~r.replied /\ ~r.announced
               /\ r.client = s.client /\ r.session = s.session /\ r.bps = s.bps
               /\ r.frames = s.frames /\ r.wp = s.wp /\ r.src = s.src /\ r.mode = s.mode
               /\ r.skip = s.skip /\ r.moved = s.moved /\ r.shown = s.shown
<1> DEFINE r == Asked(s)
<1>1. /\ Shape(r)
      /\ r.heard = 0 /\ ~r.replied /\ ~r.announced
      /\ r.client = s.client /\ r.session = s.session /\ r.bps = s.bps
      /\ r.frames = s.frames /\ r.wp = s.wp /\ r.src = s.src /\ r.mode = s.mode
      /\ r.skip = s.skip /\ r.moved = s.moved /\ r.shown = s.shown
  BY DEF Asked, Shape, Fields
<1> HIDE DEF r
<1>2. Ears(r)
  BY <1>1 DEF Ears
<1> QED
  BY <1>1, <1>2 DEF r

\* After such a request the machine runs, unheard of.
Resumes(s, r) ==
    /\ Shape(r) /\ Ears(r)
    /\ r.client => s.client /\ r.session = s.session
    /\ r.session => s.session
    /\ r.frames = s.frames \/ ~r.frames.pending
    /\ r.bps = s.bps \/ r.bps = NoBps
    /\ ~Stopped(r)
    /\ r.skip = c.pc /\ ~r.moved
    /\ r.mode = "step" => r.shown = c.pc
    /\ r.wp = s.wp
    /\ r.session => r.heard = 0 /\ ~r.replied

\* A source step begins with the session as it is.
LEMMA BeginSourceOK ==
    ASSUME NEW s, Shape(s), NEW over, NEW owner
    PROVE  LET t == BeginSource(s, over, owner)
           IN  Shape(t) /\ SameSession(s, t) /\ t.mode = s.mode
BY DEF BeginSource, Shape, Fields, SourceFields, SameSession

\* DEBUGStepIntoAuto
LEMMA StepIntoAutoGoes ==
    ASSUME NEW s, Shape(s)
    PROVE  LET r == StepIntoAuto(s)
           IN  Goes(s, r) /\ r.mode = "step" /\ (r.src.on => ByLine(s) \/ s.src.on)
<1>1. CASE ByLine(s)
  <2> DEFINE t == BeginSource(s, FALSE, "ui")
  <2>1. Shape(t) /\ SameSession(s, t)
    BY BeginSourceOK
  <2>2. StepIntoAuto(s) = StepInto(t)
    BY <1>1 DEF StepIntoAuto
  <2> HIDE DEF t
  <2>3. Goes(t, StepInto(t)) /\ StepInto(t).mode = "step"
    BY <2>1, StepIntoGoes
  <2> QED
    BY <1>1, <2>1, <2>2, <2>3, GoesFrom
<1>2. CASE ~ByLine(s)
  BY <1>2, StepIntoGoes DEF StepIntoAuto
<1> QED
  BY <1>1, <1>2

\* DEBUGStepOverAuto
LEMMA StepOverAutoGoes ==
    ASSUME NEW s, Shape(s), NEW owner
    PROVE  LET r == StepOverAuto(s, owner)
           IN  Goes(s, r) /\ (r.src.on => ByLine(s) \/ s.src.on)
<1>1. CASE ByLine(s)
  <2> DEFINE t == BeginSource(s, TRUE, owner)
  <2>1. Shape(t) /\ SameSession(s, t)
    BY BeginSourceOK
  <2>2. StepOverAuto(s, owner) = StepOver(t, owner)
    BY <1>1 DEF StepOverAuto
  <2> HIDE DEF t
  <2>3. Goes(t, StepOver(t, owner))
    BY <2>1, StepOverGoes
  <2> QED
    BY <1>1, <2>1, <2>2, <2>3, GoesFrom
<1>2. CASE ~ByLine(s)
  BY <1>2, StepOverGoes DEF StepOverAuto
<1> QED
  BY <1>1, <1>2

\* What a request sets going, its client need not be told of.
LEMMA GoesResumes ==
    ASSUME NEW s, NEW t, Shape(s), Ears(s), Goes(Asked(s), t)
    PROVE  LET r == Say(t) IN Resumes(s, r) /\ r.src = t.src /\ r.mode = t.mode
<1> DEFINE a == Asked(s)
           r == Say(t)
<1>1. /\ Shape(a) /\ Ears(a) /\ ~a.replied
      /\ a.client = s.client /\ a.session = s.session /\ a.bps = s.bps /\ a.wp = s.wp
      /\ a.frames = s.frames
  BY AskedOK
<1> HIDE DEF a
<1>2. Goes(a, r) /\ r.src = t.src /\ r.mode = t.mode
  BY <1>1, GoesSay DEF a
<1> HIDE DEF r
<1>3. Resumes(s, r)
  BY <1>1, <1>2 DEF Goes, Keeps, Resumes
<1> QED
  BY <1>2, <1>3 DEF r

\* So does a request that takes over from one for frames.
LEMMA TakesOver ==
    ASSUME NEW s, Shape(s), Ears(s), NEW r, Resumes(Cancelled(s), r)
    PROVE  Resumes(s, r) /\ ~r.frames.pending
<1> DEFINE q == Cancelled(s)
<1>1. /\ ~q.frames.pending
      /\ q.client => s.client /\ q.session = s.session
      /\ q.session => s.session
      /\ q.bps = s.bps \/ q.bps = NoBps
      /\ q.wp = s.wp
  BY CancelledOK
<1>2. Resumes(q, r)
  OBVIOUS
<1> HIDE DEF q
<1> QED
  BY <1>1, <1>2 DEF Resumes

\* continue
LEMMA ContinueResumes ==
    ASSUME NEW s, Shape(s), Ears(s)
    PROVE  LET r == Say(Continue(Asked(Cancelled(s))))
           IN  Resumes(s, r) /\ ~r.frames.pending /\ ~r.src.on /\ r.mode = "run"
<1> DEFINE q == Cancelled(s)
<1>1. Shape(q) /\ Ears(q)
  BY CancelledOK
<1>2. Shape(Asked(q))
  BY <1>1, AskedOK
<1> HIDE DEF q
<1>3. LET r == Say(Continue(Asked(q))) IN Resumes(q, r) /\ ~r.src.on /\ r.mode = "run"
  BY <1>1, <1>2, ContinueGoes, GoesResumes
<1> QED
  BY <1>3, TakesOver DEF q

\* stepIn
LEMMA StepInResumes ==
    ASSUME NEW s, Shape(s), Ears(s)
    PROVE  LET r == Say(StepIntoAuto(Asked(Cancelled(s))))
           IN  Resumes(s, r) /\ ~r.frames.pending /\ r.mode = "step"
               /\ (r.src.on => opts.byLine \/ s.src.on)
               /\ (~ByLine(s) /\ r.src.on => s.src.on)
<1> DEFINE q == Cancelled(s)
<1>1. Shape(q) /\ Ears(q) /\ q.src = s.src
  BY CancelledOK
<1>2. Shape(Asked(q)) /\ Asked(q).src = s.src
  BY <1>1, AskedOK
<1> HIDE DEF q
<1>3. LET t == StepIntoAuto(Asked(q))
      IN  Goes(Asked(q), t) /\ t.mode = "step" /\ (t.src.on => ByLine(s) \/ s.src.on)
  BY <1>2, StepIntoAutoGoes DEF ByLine
<1>4. LET r == Say(StepIntoAuto(Asked(q)))
      IN  Resumes(q, r) /\ r.mode = "step" /\ (r.src.on => ByLine(s) \/ s.src.on)
  BY <1>1, <1>3, GoesResumes
<1> QED
  BY <1>4, TakesOver DEF q, ByLine

\* next
LEMMA NextResumes ==
    ASSUME NEW s, Shape(s), Ears(s)
    PROVE  LET r == Say(StepOverAuto(Asked(Cancelled(s)), "dap"))
           IN  Resumes(s, r) /\ ~r.frames.pending /\ (r.src.on => opts.byLine \/ s.src.on)
<1> DEFINE q == Cancelled(s)
<1>1. Shape(q) /\ Ears(q) /\ q.src = s.src
  BY CancelledOK
<1>2. Shape(Asked(q)) /\ Asked(q).src = s.src
  BY <1>1, AskedOK
<1> HIDE DEF q
<1>3. LET t == StepOverAuto(Asked(q), "dap")
      IN  Goes(Asked(q), t) /\ (t.src.on => opts.byLine \/ s.src.on)
  BY <1>2, StepOverAutoGoes DEF ByLine
<1>4. LET r == Say(StepOverAuto(Asked(q), "dap"))
      IN  Resumes(q, r) /\ (r.src.on => opts.byLine \/ s.src.on)
  BY <1>1, <1>3, GoesResumes
<1> QED
  BY <1>4, TakesOver DEF q

\* stepOut
LEMMA StepOutResumes ==
    ASSUME NEW s, Shape(s), Ears(s)
    PROVE  LET r == Say(StepOut(Asked(Cancelled(s)), "dap"))
           IN  Resumes(s, r) /\ ~r.frames.pending /\ (r.src.on => s.src.on)
<1> DEFINE q == Cancelled(s)
<1>1. Shape(q) /\ Ears(q) /\ q.src = s.src
  BY CancelledOK
<1>2. Shape(Asked(q)) /\ Asked(q).src = s.src
  BY <1>1, AskedOK
<1> HIDE DEF q
<1>3. LET t == StepOut(Asked(q), "dap") IN Goes(Asked(q), t) /\ t.src = s.src
  BY <1>2, StepOutGoes
<1>4. LET r == Say(StepOut(Asked(q), "dap"))
      IN  Resumes(q, r) /\ (r.src.on => s.src.on)
  BY <1>1, <1>3, GoesResumes
<1> QED
  BY <1>4, TakesOver DEF q

\* x16/step: in the state it is asked from, the frames are pending already.
Counting(s, n, events) ==
    [s EXCEPT !.frames = [pending |-> TRUE, left |-> n, byFrames |-> FALSE, events |-> events]]

\* x16/step sets the machine going, with the frames asked for pending.
LEMMA FramesResumes ==
    ASSUME NEW s, Shape(s), Ears(s), s.session, NEW n, NEW events
    PROVE  LET q == Counting(s, n, events)
               r == ReqFrames(s, n, events)
           IN  /\ Resumes(q, r) /\ ~r.src.on /\ r.mode = "run"
               /\ ~q.frames.byFrames /\ q.client = s.client /\ q.session = s.session
               /\ q.bps = s.bps /\ q.wp = s.wp
<1> DEFINE q == Counting(s, n, events)
           r == ReqFrames(s, n, events)
           a == Asked(q)
           t == Continue(a)
<1>1. /\ Shape(q) /\ ~q.frames.byFrames /\ q.client = s.client /\ q.session = s.session
      /\ q.bps = s.bps /\ q.wp = s.wp /\ q.announced = s.announced /\ q.heard = s.heard
      /\ q.replied = s.replied
  BY DEF Counting, Shape, Fields, FrameFields, SourceFields
<1>2. r = t \/ r = Say(t)
  BY DEF ReqFrames, Counting
<1> HIDE DEF q, r
<1>3. Ears(q)
  BY <1>1 DEF Ears
<1>4. Resumes(q, Say(t)) /\ ~Say(t).src.on /\ Say(t).mode = "run"
  <2>1. Shape(a)
    BY <1>1, <1>3, AskedOK
  <2> QED
    BY <1>1, <1>3, <2>1, ContinueGoes, GoesResumes
<1>5. Resumes(q, t) /\ ~t.src.on /\ t.mode = "run"
  <2>1. /\ Shape(a) /\ Ears(a) /\ ~a.replied
        /\ a.client = q.client /\ a.session = q.session /\ a.bps = q.bps /\ a.wp = q.wp
        /\ a.frames = q.frames
    BY <1>1, <1>3, AskedOK
  <2>2. Goes(a, t) /\ t.mode = "run" /\ ~t.src.on
    BY <2>1, ContinueGoes
  <2> HIDE DEF a, t
  <2> QED
    BY <2>1, <2>2 DEF Goes, Keeps, Resumes
<1> QED
  BY <1>1, <1>2, <1>4, <1>5 DEF q, r

\* A request that may stop the machine, or tell of a stop again, or set it
\* going from its first stop.
Answers(s, r) ==
    /\ Keeps(s, r) /\ Ears(r)
    /\ r.skip = s.skip /\ r.moved = s.moved /\ r.wp = s.wp
    /\ r.src.on => s.src.on
    /\ \/ Stopped(r)
       \/ r.mode = s.mode
       \/ r.mode = "run" /\ (~Stopped(s) \/ (~HasUI /\ s.client /\ ~r.client /\ r.bps = NoBps))
    /\ r.session =>
          /\ r.replied = s.replied
          /\ r.heard <= s.heard + 1
          /\ Stopped(s) /\ s.heard > 0 => r.heard = s.heard
          /\ Stopped(r) => r.heard > 0 \/ (s.frames.pending /\ ~s.frames.events /\ r.heard = s.heard)
          /\ ~Stopped(r) => ~Stopped(s) /\ r.heard = s.heard

\* Announcing a stop within a session.
LEMMA AnnounceKeeps ==
    ASSUME NEW s, Shape(s), Ears(s)
    PROVE  LET r == Announce(s)
           IN  /\ Passes(s, r) /\ Keeps(s, r) /\ Ears(r)
               /\ r.session => /\ r.replied = s.replied
                               /\ r.heard <= s.heard + 1
                               /\ r.heard > 0 \/ (s.frames.pending /\ ~s.frames.events /\ r = s)
<1> DEFINE r == Announce(s)
<1>1. /\ Passes(s, r)
      /\ ~s.client => r = s
      /\ r.client => /\ r.replied = s.replied
                     /\ r.session = s.session
                     /\ \/ r.announced /\ r.heard > 0 /\ r.heard <= s.heard + 1
                        \/ s.frames.pending /\ ~s.frames.events /\ r = s
  BY AnnouncePasses
<1> HIDE DEF r
<1>2. Ears(r)
  BY <1>1 DEF Passes, Gone, Ears
<1>3. Keeps(s, r)
  BY <1>1, <1>2 DEF Passes, Keeps
<1>4. ASSUME r.session
      PROVE  /\ r.replied = s.replied
             /\ r.heard <= s.heard + 1
             /\ r.heard > 0 \/ (s.frames.pending /\ ~s.frames.events /\ r = s)
  <2>1. r.client
    BY <1>2, <1>4 DEF Ears
  <2> QED
    BY <1>1, <2>1 DEF Shape
<1> QED
  BY <1>1, <1>2, <1>3, <1>4 DEF r

\* Keeping the session is transitive.
LEMMA KeepsOn ==
    ASSUME NEW s, NEW t, NEW r, Keeps(s, t), Keeps(t, r)
    PROVE  Keeps(s, r)
BY DEF Keeps

\* The session ended, and the machine was let go.
LetGo(s, r) == r.mode = "run" /\ ~HasUI /\ s.client /\ ~r.client /\ r.bps = NoBps

\* pause: the machine is stopped, or the client lost and the machine let go.
LEMMA PauseAnswers ==
    ASSUME NEW s, Shape(s), Ears(s), s.session
    PROVE  LET r == ReqPause(s) IN Answers(s, r) /\ (Stopped(r) \/ LetGo(s, r))
<1> DEFINE b == Break(s)
           t == Say(b)
           r == ReqPause(s)
<1>1. Rests(s, b) \/ (~Stopped(s) /\ Stops(s, b))
  BY BreakCases
<1>2. r = IF Stopped(s) /\ ~t.announced THEN Announce(t) ELSE t
  BY DEF ReqPause
<1> HIDE DEF b
<1>3. Shape(b) /\ Ears(b) /\ Keeps(s, b)
  BY <1>1 DEF Rests, Stops, Keeps, SameSession, Ears
<1>4. Passes(b, t) /\ Ears(t) /\ Keeps(b, t) /\ (t = b \/ Gone(t))
  BY <1>3, SayKeeps
<1> HIDE DEF t, r
<1>5. Shape(t) /\ Keeps(s, t)
  BY <1>3, <1>4, KeepsOn DEF Passes
<1>6. CASE Gone(t)
  <2>1. r = t
    BY <1>2, <1>5, <1>6, AnnouncePasses DEF Gone
  <2>2. s.client
    BY DEF Ears
  <2>3. Stopped(t) \/ LetGo(s, t)
    <3>1. CASE b.mode = "stop"
      BY <1>4, <1>6, <2>2, <3>1 DEF Passes, Freed, Gone, Stopped, LetGo
    <3>2. CASE b.mode # "stop"
      <4>1. b.mode = "run" /\ ~HasUI /\ b.bps = NoBps
        BY <1>1, <3>2 DEF Rests, Stops, Stopped
      <4> QED
        BY <1>4, <1>6, <2>2, <4>1 DEF Passes, Freed, Gone, Stopped, LetGo
    <3> QED
      BY <3>1, <3>2
  <2>4. /\ t.skip = s.skip /\ t.moved = s.moved /\ t.wp = s.wp /\ ~t.src.on
    BY <1>1, <1>4 DEF Rests, Stops, Passes, SameSession
  <2> QED
    BY <1>4, <1>5, <1>6, <2>1, <2>3, <2>4 DEF Answers, LetGo, Gone, r
<1>7. CASE t = b /\ Rests(s, b)
  <2>1. /\ Stopped(s) /\ Stopped(t) /\ ~t.src.on /\ t.skip = s.skip /\ t.moved = s.moved
        /\ SameSession(s, t)
    BY <1>7 DEF Rests
  <2>2. CASE t.announced
    <3>1. r = t /\ s.heard > 0
      BY <1>2, <2>1, <2>2 DEF Ears, SameSession
    <3> QED
      BY <1>4, <1>5, <2>1, <3>1 DEF Answers, SameSession, Shape, r
  <2>3. CASE ~t.announced
    <3>1. r = Announce(t) /\ ~(s.heard > 0)
      BY <1>2, <2>1, <2>3 DEF Ears, SameSession
    <3>2. /\ Passes(t, r) /\ Keeps(t, r) /\ Ears(r)
          /\ r.session => /\ r.replied = t.replied
                          /\ r.heard <= t.heard + 1
                          /\ r.heard > 0 \/ (t.frames.pending /\ ~t.frames.events /\ r = t)
      BY <1>4, <1>5, <3>1, AnnounceKeeps
    <3>3. Keeps(s, r)
      BY <1>5, <3>2, KeepsOn
    <3>4. Stopped(r) \/ LetGo(s, r)
      BY <2>1, <3>2 DEF Passes, Freed, LetGo, Stopped, SameSession
    <3>5. r.skip = s.skip /\ r.moved = s.moved /\ r.wp = s.wp /\ ~r.src.on
      BY <2>1, <3>2 DEF Passes, SameSession
    <3>6. ASSUME r.session
          PROVE  Stopped(r) /\ r.mode = t.mode
      BY <2>1, <3>2, <3>6 DEF Passes, Stopped
    <3>7. ASSUME r.session
          PROVE  /\ r.replied = s.replied
                 /\ r.heard <= s.heard + 1
                 /\ r.heard > 0 \/ (s.frames.pending /\ ~s.frames.events /\ r.heard = s.heard)
      BY <2>1, <3>2, <3>7 DEF SameSession
    <3> QED
      BY <2>1, <3>1, <3>2, <3>3, <3>4, <3>5, <3>6, <3>7 DEF Answers, LetGo, r
  <2> QED
    BY <2>2, <2>3
<1>8. CASE t = b /\ ~Stopped(s) /\ Stops(s, b)
  <2>1. r = t /\ Stops(s, r)
    BY <1>2, <1>8
  <2> QED
    BY <1>4, <1>8, <2>1 DEF Stops, Answers, LetGo, Stopped, r
<1> QED
  BY <1>1, <1>4, <1>6, <1>7, <1>8

\* configurationDone: a stop is told, made or left alone.
LEMMA ConfiguredAnswers ==
    ASSUME NEW s, Shape(s), Ears(s), s.session, NEW onEntry
    PROVE  Answers(s, ReqConfigured(s, onEntry))
<1> DEFINE t == Say(s)
           r == ReqConfigured(s, onEntry)
           h == [s EXCEPT !.mode = "stop"]
           g == [s EXCEPT !.mode = "run"]
<1>1. Passes(s, t) /\ Ears(t) /\ Keeps(s, t) /\ (t = s \/ Gone(t))
  BY SayKeeps
<1>2. r = IF ~t.client THEN t
          ELSE IF Stopped(t) THEN (IF t.announced THEN t ELSE Announce(t))
          ELSE IF onEntry THEN Announce([t EXCEPT !.mode = "stop"])
          ELSE [t EXCEPT !.mode = "run"]
  BY DEF ReqConfigured
<1> HIDE DEF t, r
<1>3. s.client
  BY DEF Ears
<1>4. CASE Gone(t)
  <2>1. r = t
    BY <1>2, <1>4 DEF Gone
  <2>2. Answers(s, t)
    BY <1>1, <1>4 DEF Answers, Passes, Gone, Freed
  <2> QED
    BY <2>1, <2>2 DEF r
<1>5. CASE t = s /\ Stopped(s) /\ s.announced
  <2>1. r = s
    BY <1>2, <1>3, <1>5
  <2>2. s.heard > 0 /\ s.heard <= s.heard + 1
    BY <1>5 DEF Ears, Shape
  <2> QED
    BY <1>1, <1>5, <2>1, <2>2 DEF Answers, r
<1>6. CASE t = s /\ Stopped(s) /\ ~s.announced
  <2>1. r = Announce(s) /\ ~(s.heard > 0)
    BY <1>2, <1>3, <1>6 DEF Ears
  <2>2. /\ Passes(s, r) /\ Keeps(s, r) /\ Ears(r)
        /\ r.session => /\ r.replied = s.replied
                        /\ r.heard <= s.heard + 1
                        /\ r.heard > 0 \/ (s.frames.pending /\ ~s.frames.events /\ r = s)
    BY <2>1, AnnounceKeeps
  <2>3. /\ r.skip = s.skip /\ r.moved = s.moved /\ r.wp = s.wp /\ r.src = s.src
        /\ r.mode = s.mode \/ (r.mode = "run" /\ ~HasUI /\ s.client /\ ~r.client /\ r.bps = NoBps)
        /\ r.session => Stopped(r)
    BY <1>6, <2>2 DEF Passes, Freed, Stopped
  <2> QED
    BY <2>1, <2>2, <2>3 DEF Answers, r
<1>7. CASE t = s /\ ~Stopped(s) /\ onEntry
  <2>1. /\ Shape(h) /\ SameSession(s, h) /\ Stopped(h) /\ h.src = s.src
        /\ h.skip = s.skip /\ h.moved = s.moved
    BY DEF Shape, Fields, SourceFields, SameSession, Stopped
  <2>2. r = Announce(h)
    BY <1>2, <1>3, <1>7
  <2> HIDE DEF h
  <2>3. Ears(h) /\ Keeps(s, h)
    BY <2>1 DEF Ears, Keeps, SameSession
  <2>4. /\ Passes(h, r) /\ Keeps(h, r) /\ Ears(r)
        /\ r.session => /\ r.replied = h.replied
                        /\ r.heard <= h.heard + 1
                        /\ r.heard > 0 \/ (h.frames.pending /\ ~h.frames.events /\ r = h)
    BY <2>1, <2>2, <2>3, AnnounceKeeps
  <2>5. Keeps(s, r)
    BY <2>3, <2>4, KeepsOn
  <2>6. /\ r.skip = s.skip /\ r.moved = s.moved /\ r.wp = s.wp /\ r.src = s.src
        /\ Stopped(r) \/ (r.mode = "run" /\ ~Stopped(s))
        /\ r.session => Stopped(r)
    BY <1>7, <2>1, <2>4 DEF Passes, Freed, Stopped, SameSession
  <2>7. ASSUME r.session
        PROVE  /\ r.replied = s.replied
               /\ r.heard <= s.heard + 1
               /\ r.heard > 0 \/ (s.frames.pending /\ ~s.frames.events /\ r.heard = s.heard)
    BY <2>1, <2>4, <2>7 DEF SameSession
  <2> QED
    BY <1>7, <2>4, <2>5, <2>6, <2>7 DEF Answers, r
<1>8. CASE t = s /\ ~Stopped(s) /\ ~onEntry
  <2>1. /\ Shape(g) /\ SameSession(s, g) /\ g.mode = "run" /\ g.src = s.src
        /\ g.skip = s.skip /\ g.moved = s.moved
    BY DEF Shape, Fields, SourceFields, SameSession
  <2>2. r = g
    BY <1>2, <1>3, <1>8
  <2> HIDE DEF g
  <2>3. Ears(g) /\ Keeps(s, g)
    BY <2>1 DEF Ears, Keeps, SameSession
  <2>4. g.heard = s.heard /\ g.heard <= s.heard + 1
    BY <2>1 DEF SameSession, Shape
  <2> QED
    BY <1>8, <2>1, <2>2, <2>3, <2>4 DEF Answers, SameSession, Stopped, r
<1> QED
  BY <1>1, <1>4, <1>5, <1>6, <1>7, <1>8

\* A request that ends the session.
Ends(s, r) ==
    /\ Shape(r) /\ Ears(r)
    /\ r.client => s.client
    /\ ~r.session /\ ~r.frames.pending
    /\ r.bps = NoBps
    /\ r.skip = s.skip /\ r.moved = s.moved /\ r.wp = s.wp /\ r.src = s.src
    /\ r.mode = s.mode \/ (r.mode = "run" /\ ~HasUI)

\* terminate and disconnect end the session.
LEMMA EndsOK ==
    ASSUME NEW s, Shape(s), Ears(s)
    PROVE  Ends(s, ReqTerminate(s)) /\ Ends(s, ReqDisconnect(s))
<1> DEFINE t == Say(s)
           q == Released(t)
           u == [q EXCEPT !.session = FALSE]
           g == [u EXCEPT !.mode = "run"]
<1>1. Passes(s, t) /\ Ears(t) /\ (t = s \/ Gone(t))
  BY SayKeeps
<1>2. /\ ReqTerminate(s) = IF HasUI THEN u ELSE g
      /\ ReqDisconnect(s) = IF Stopped(u) /\ ~HasUI THEN g ELSE u
  BY DEF ReqTerminate, ReqDisconnect, Resume
<1> HIDE DEF t
<1>3. /\ Shape(q) /\ q.bps = NoBps /\ ~q.frames.pending /\ ~q.announced
      /\ q.mode = t.mode /\ q.skip = t.skip /\ q.moved = t.moved
      /\ q.src = t.src /\ q.wp = t.wp /\ q.client = t.client
      /\ q.heard = t.heard /\ q.replied = t.replied
  BY <1>1, ReleasedOK DEF Passes
<1> HIDE DEF q
<1>4. /\ Shape(u) /\ u.bps = NoBps /\ u.frames = q.frames /\ ~u.announced /\ ~u.session
      /\ u.mode = t.mode /\ u.skip = t.skip /\ u.moved = t.moved
      /\ u.src = t.src /\ u.wp = t.wp /\ u.client = t.client
      /\ u.heard = t.heard /\ u.replied = t.replied
  BY <1>3 DEF Shape, Fields
<1> HIDE DEF u
<1>5. Ears(u)
  BY <1>1, <1>3, <1>4 DEF Ears
<1>6. Ends(s, u)
  BY <1>1, <1>3, <1>4, <1>5 DEF Ends, Passes, Freed
<1>7. ASSUME ~HasUI
      PROVE  Ends(s, g)
  <2>1. /\ Shape(g) /\ SameSession(u, g) /\ g.mode = "run" /\ g.src = u.src
        /\ g.skip = u.skip /\ g.moved = u.moved
    BY <1>4 DEF Shape, Fields, SourceFields, SameSession
  <2> HIDE DEF g
  <2>2. Ears(g)
    BY <1>5, <2>1 DEF Ears, SameSession
  <2> QED
    BY <1>6, <1>7, <2>1, <2>2 DEF Ends, SameSession
<1> QED
  BY <1>2, <1>6, <1>7

\* terminate takes over from a request for frames first.
LEMMA TerminateEnds ==
    ASSUME NEW s, Shape(s), Ears(s)
    PROVE  Ends(s, ReqTerminate(Cancelled(s)))
<1> DEFINE q == Cancelled(s)
           r == ReqTerminate(q)
<1>1. /\ Shape(q) /\ Ears(q)
      /\ q.client => s.client
      /\ q.wp = s.wp /\ q.src = s.src /\ q.skip = s.skip /\ q.moved = s.moved
      /\ q.mode = s.mode \/ (q.mode = "run" /\ ~HasUI)
  BY CancelledOK
<1> HIDE DEF q
<1>2. Ends(q, r)
  BY <1>1, EndsOK
<1> HIDE DEF r
<1>3. Ends(s, r)
  BY <1>1, <1>2 DEF Ends
<1> QED
  BY <1>3 DEF q, r

\* A set of breakpoints replaced, and the reply.
LEMMA BreakpointsOK ==
    ASSUME NEW s, Shape(s), Ears(s), NEW b
    PROVE  LET t == [s EXCEPT !.bps = b]
               r == Say(t)
           IN  /\ Passes(t, r) /\ Ears(r) /\ (r = t \/ Gone(r))
               /\ Shape(t) /\ Ears(t)
               /\ t.mode = s.mode /\ t.shown = s.shown /\ t.skip = s.skip /\ t.moved = s.moved
               /\ t.src = s.src /\ t.wp = s.wp /\ t.client = s.client /\ t.session = s.session
               /\ t.heard = s.heard /\ t.replied = s.replied /\ t.frames = s.frames
<1> DEFINE t == [s EXCEPT !.bps = b]
<1>1. /\ Shape(t)
      /\ t.mode = s.mode /\ t.shown = s.shown /\ t.skip = s.skip /\ t.moved = s.moved
      /\ t.src = s.src /\ t.wp = s.wp /\ t.client = s.client /\ t.session = s.session
      /\ t.heard = s.heard /\ t.replied = s.replied /\ t.frames = s.frames
      /\ t.announced = s.announced
  BY DEF Shape, Fields
<1> HIDE DEF t
<1>2. Ears(t)
  BY <1>1 DEF Ears
<1> QED
  BY <1>1, <1>2, SayKeeps DEF t
=============================================================================
