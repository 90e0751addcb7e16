----------------------------- MODULE IrqContext -----------------------------
(***************************************************************************)
(* Interrupt context tracking (src/src/cpu/irq_ctx.c): the record the      *)
(* debugger keeps of which interrupt handlers are running.  interrupt6502  *)
(* reports an entry with the stack pointer it started from, rti() reports  *)
(* a leave with the stack pointer it ended at, and the module pairs them.  *)
(*                                                                         *)
(* The guest is modelled only as far as the tracker can be right or wrong  *)
(* about it: a stack pointer that the program may move at will, and the    *)
(* set of handlers whose frames are still on the stack.  One unit of stack *)
(* stands for one interrupt frame; the vector and the interrupted PC a     *)
(* frame also records are data the tracker only hands back.                *)
(***************************************************************************)
EXTENDS Naturals, FiniteSets

CONSTANTS
    CtxMax,     \* CPU_IRQ_CTX_MAX: frames with a recorded stack pointer
    DepthMax,   \* CPU_IRQ_DEPTH_MAX: where the depth saturates
    SpTop       \* the highest value the stack pointer takes

ASSUME SizeAssumption ==
    /\ CtxMax \in Nat \ {0}
    /\ DepthMax \in Nat
    /\ CtxMax < DepthMax
    /\ SpTop \in Nat

Sp == 0 .. SpTop

VARIABLES
    frames,       \* the recorded stack pointers, an array of CtxMax slots
    depth,        \* handlers believed open, recorded or not
    justEntered,  \* cpu_irq_just_entered
    sp,           \* the guest's stack pointer
    live          \* the stack pointers the handlers really running started from

vars == <<frames, depth, justEntered, sp, live>>
tracker == <<frames, depth, justEntered>>

\* Slots of frames that describe an open handler.
Recorded == IF depth < CtxMax THEN depth ELSE CtxMax

TypeOK ==
    /\ frames \in [0 .. CtxMax - 1 -> Sp]
    /\ depth \in 0 .. DepthMax
    /\ justEntered \in BOOLEAN
    /\ sp \in Sp
    /\ live \subseteq Sp

Init ==
    /\ frames = [i \in 0 .. CtxMax - 1 |-> 0]
    /\ depth = 0
    /\ justEntered = FALSE
    /\ sp \in Sp
    /\ live = {}

-----------------------------------------------------------------------------
(* Faults the properties are there to catch, each the body a plausible     *)
(* slip would give the definition named with it.                           *)

\* TrackLeave popping the innermost frame without matching the pointer.
TrackLeavePopping(s) ==
    /\ depth' = IF depth = 0 THEN 0 ELSE depth - 1
    /\ UNCHANGED <<frames, justEntered>>

-----------------------------------------------------------------------------
(* What the tracker does.                                                  *)

\* The retirement loop of cpu_irq_ctx_enter: d is the depth left once every
\* frame the stack has risen past is dropped.  Levels above the array go with
\* the deepest recorded frame, or not at all.
RetiresTo(d, s) ==
    /\ d # depth => d < Recorded
    /\ d > 0 => frames[(IF d < CtxMax THEN d ELSE CtxMax) - 1] > s
    /\ \A i \in 0 .. CtxMax - 1 : d <= i /\ i < Recorded => frames[i] <= s

\* cpu_irq_ctx_enter, with the saturation that keeps the counter an int.
TrackEnter(s) ==
    \E d \in 0 .. depth :
        /\ RetiresTo(d, s)
        /\ frames' = IF d < CtxMax THEN [frames EXCEPT ![d] = s] ELSE frames
        /\ depth' = IF d < DepthMax THEN d + 1 ELSE d
        /\ justEntered' = TRUE

\* The open frames recorded at exactly the pointer a return ended at.
Matching(s) == {i \in 0 .. CtxMax - 1 : i < depth /\ frames[i] = s}

\* cpu_irq_ctx_leave: nothing open; an unrecorded level; a match, searched
\* from the innermost frame outwards; no match.
TrackLeave(s) ==
    /\ \/ /\ depth = 0
          /\ depth' = 0
       \/ /\ depth > CtxMax
          /\ depth' = depth - 1
       \/ /\ depth \in 1 .. CtxMax
          /\ \E i \in Matching(s) :
                /\ \A j \in Matching(s) : j <= i
                /\ depth' = i
       \/ /\ depth \in 1 .. CtxMax
          /\ Matching(s) = {}
          /\ depth' = depth
    /\ UNCHANGED <<frames, justEntered>>

-----------------------------------------------------------------------------
(* The machine.                                                            *)

\* A handler runs for as long as its frame is below the stack's top.
StillOnStack(hs, s) == {h \in hs : h > s}

\* interrupt6502: reported before anything is pushed.
Interrupt ==
    /\ sp > 0
    /\ TrackEnter(sp)
    /\ live' = live \cup {sp}
    /\ sp' = sp - 1

\* rti: reported once the frame has been pulled.  The frame need not be one an
\* interrupt pushed: a handler can push three bytes and return to itself.
Rti ==
    /\ sp < SpTop
    /\ sp' = sp + 1
    /\ live' = StillOnStack(live, sp + 1)
    /\ TrackLeave(sp + 1)

\* Pushes, pulls, RTS out of a handler, TXS: the tracker hears of none of it.
MoveStack ==
    /\ \E s \in Sp :
        /\ sp' = s
        /\ live' = StillOnStack(live, s)
    /\ UNCHANGED tracker

\* reset6502 abandons every handler and leaves the stack pointer anywhere.
Reset ==
    /\ frames' = [i \in 0 .. CtxMax - 1 |-> 0]
    /\ depth' = 0
    /\ justEntered' = FALSE
    /\ sp' \in Sp
    /\ live' = {}

\* cpu_irq_take_entered_flag, read by the debugger at every full status check.
TakeEnteredFlag ==
    /\ justEntered
    /\ justEntered' = FALSE
    /\ UNCHANGED <<frames, depth, sp, live>>

Next ==
    \/ Interrupt
    \/ Rti
    \/ MoveStack
    \/ Reset
    \/ TakeEnteredFlag

Spec == Init /\ [][Next]_vars

-----------------------------------------------------------------------------
(* Properties.                                                             *)

\* Open frames are strictly decreasing in the stack pointer, so at most one
\* can match a return (the comments in cpu_irq_ctx_enter and _leave).
Decreasing ==
    \A i, j \in 0 .. CtxMax - 1 :
        i < j /\ j < Recorded => frames[i] > frames[j]

\* The tracker never forgets a handler that is running: it is recorded, or it
\* was taken below the deepest recorded frame of a full array and is counted
\* among the levels above it.
LiveAccountedFor ==
    \A h \in live :
        \/ \E i \in 0 .. CtxMax - 1 : i < Recorded /\ frames[i] = h
        \/ depth >= CtxMax /\ frames[CtxMax - 1] > h

\* cpu_in_interrupt() errs towards "yes": it never answers no while a handler
\* is running ("Too low would claim no interrupt is running while one is").
NeverTooLow == live # {} => depth > 0

\* A balanced return from a recorded handler lands on its own frame: every
\* frame nested inside it, abandoned or not, is closed with it.
BalancedReturnUnwinds ==
    [][ Rti /\ depth <= CtxMax =>
          \A i \in 0 .. CtxMax - 1 :
              i < depth /\ frames[i] = sp' => depth' = i ]_vars
=============================================================================
