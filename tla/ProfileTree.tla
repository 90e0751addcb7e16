---------------------------- MODULE ProfileTree ----------------------------
(***************************************************************************)
(* The calling-context tree of the profiler (profile_cct.c): which routine *)
(* the clocks of a capture belong to, by the path of calls that led there. *)
(* The CPU tells it of calls, returns and interrupts; it pairs them by     *)
(* stack pointer on a stack of its own, while the guest may do anything to *)
(* the real one: drop return addresses, jump through an RTS, start anew.   *)
(*                                                                         *)
(* A call and a return take effect after their instruction's clock is      *)
(* counted, an interrupt and RTI before; so the queue is empty between     *)
(* instructions, and is left out.  Every instruction takes one clock, and  *)
(* what is pushed takes one place of the stack.                            *)
(***************************************************************************)
EXTENDS Naturals, SequencesExt, Sublists

CONSTANTS
    StackTop,       \* the highest stack pointer
    Routines,       \* the keys of routines and handlers
    MaxOpen,        \* frames the shadow stack holds, MAX_FRAMES
    MaxNested,      \* interrupts that keep clocks of their own, MAX_LEVELS - 1
    NormalLimit,    \* nodes that paths may take
    PoolSize,       \* and those besides that stand for paths without one
    MaxTime,        \* bound on the clocks of a capture
    MaxVideoFrames  \* bound on its frames

ASSUME TreeAssumption ==
    /\ StackTop \in Nat /\ MaxOpen \in Nat \ {0} /\ MaxNested \in Nat
    /\ NormalLimit \in Nat /\ PoolSize \in Nat /\ NormalLimit < PoolSize
    /\ MaxVideoFrames \in Nat \ {0}

VARIABLES
    tree,       \* the profiler's state
    stack       \* the guest's: its pointer, and the routines it is really in

treeVars == <<tree, stack>>

\* The two roots, the key of folded paths, and no node.
MainRoot == 1
IrqRoot  == 2
OtherKey == "[other]"

VideoFrame == 0 .. MaxVideoFrames

\* calls (not in the code): the clocks of the node's calls, by the frame each
\* ended in.
NewNode(parent, key) ==
    [parent |-> parent, key |-> key, self |-> 0, acc |-> 0, accFrame |-> 0, frameMax |-> 0,
     calls |-> [f \in VideoFrame |-> 0]]

EmptyTree ==
    [nodes |-> << NewNode(0, "main"), NewNode(0, "irq") >>, open |-> <<>>, cur |-> MainRoot,
     level |-> 0, spent |-> [l \in 0 .. MaxNested |-> 0], frame |-> 0, finished |-> FALSE]

(***************************************************************************)
(* Nodes.                                                                  *)
(***************************************************************************)
ChildrenOf(t, parent, key) ==
    {n \in DOMAIN t.nodes : t.nodes[n].parent = parent /\ t.nodes[n].key = key}

\* A path that no node is left for is folded into its parent's [other].
FoldedKey(t, parent, key) ==
    IF ChildrenOf(t, parent, key) # {} \/ Len(t.nodes) < NormalLimit THEN key ELSE OtherKey

WithChild(t, parent, key) ==
    IF ChildrenOf(t, parent, key) # {} \/ Len(t.nodes) = PoolSize
    THEN t
    ELSE [t EXCEPT !.nodes = Append(@, NewNode(parent, key))]

\* Where not even that is left, into the parent.
Child(t, parent, key) ==
    LET found == ChildrenOf(t, parent, key)
    IN  IF found = {} THEN parent ELSE CHOOSE n \in found : TRUE

(***************************************************************************)
(* Frames.                                                                 *)
(***************************************************************************)
Larger(m, n) == IF m < n THEN n ELSE m

\* flush_frame_acc
FrameFlushed(node, frame) ==
    IF node.accFrame = frame THEN node
    ELSE [node EXCEPT !.frameMax = Larger(@, node.acc), !.acc = 0, !.accFrame = frame]

Took(node, frame, taken) ==
    [FrameFlushed(node, frame) EXCEPT !.acc = @ + taken, !.calls[frame] = @ + taken]

FramePopped(t) ==
    LET f == Last(t.open)
    IN  [t EXCEPT !.open = Front(@),
                  !.nodes[f.node] = Took(@, t.frame, t.spent[f.level] - f.start),
                  !.level = IF f.irq /\ @ > 0 THEN @ - 1 ELSE @,
                  !.cur = f.resume]

\* From the innermost on, as long as they are to go.
Popped(t, going) ==
    LET after[n \in 0 .. Len(t.open)] ==
            IF n = 0 THEN t
            ELSE LET u == after[n - 1]
                 IN  IF u.open # <<>> /\ Last(u.open) \in going THEN FramePopped(u) ELSE u
    IN  after[Len(t.open)]

\* Every frame the stack has risen past.
Retired(t, sp) == Popped(t, {f \in Range(t.open) : f.sp <= sp})

\* Where there is no room the outermost frame is forgotten.
Pushed(t, f) == [t EXCEPT !.open = Append(IF Len(@) = MaxOpen THEN Tail(@) ELSE @, f)]

Opened(t, parent, key, sp, irq) ==
    LET folded == FoldedKey(t, parent, key)
        u      == WithChild(t, parent, folded)
        n      == Child(u, parent, folded)
        level  == IF irq /\ t.level < MaxNested THEN t.level + 1 ELSE t.level
    IN  [Pushed(u, [irq |-> irq, node |-> n, resume |-> t.cur, sp |-> sp, level |-> level,
                    start |-> t.spent[level]])
            EXCEPT !.cur = n, !.level = level]

\* apply_call, cct_irq_enter
Called(t, key, sp) == LET u == Retired(t, sp) IN Opened(u, u.cur, key, sp, FALSE)

Interrupted(t, key, sp) == Opened(Retired(t, sp), IrqRoot, key, sp, TRUE)

\* A slip: a return pops whatever is innermost.
ReturnedBlindly(t, sp) == IF t.open = <<>> THEN t ELSE FramePopped(t)

\* apply_return, for RTS and RTI.  Below the innermost frame nothing returned:
\* the guest jumped.
Returned(t, sp) ==
    IF t.open = <<>> \/ Last(t.open).sp > sp THEN t ELSE Retired(t, sp)

(***************************************************************************)
(* Clocks.                                                                 *)
(***************************************************************************)

\* cct_step, without the queue.
Ticked(t) == [t EXCEPT !.nodes[t.cur].self = @ + 1, !.spent[t.level] = @ + 1]

\* cct_finish: open calls end here, in the last frame.
ClosedAll(t) == Popped(t, Range(t.open))

\* A slip: the last frame's calls are not looked at.
FinishedEarly(t) ==
    [ClosedAll(t) EXCEPT !.cur = MainRoot, !.level = 0, !.finished = TRUE]

Finished(t) ==
    LET u == ClosedAll(t)
    IN  [u EXCEPT !.cur = MainRoot, !.level = 0, !.finished = TRUE, !.frame = @ + 1,
                  !.nodes = [n \in DOMAIN @ |-> FrameFlushed(@[n], u.frame + 1)]]

\* The values from one place to another, added up.
Total(values, from, to) ==
    LET upTo[i \in from - 1 .. to] == IF i < from THEN 0 ELSE upTo[i - 1] + values[i]
    IN  upTo[to]

\* Which nodes are n and its descendants.
Below(t, n) ==
    LET below[m \in DOMAIN t.nodes] == m = n \/ (t.nodes[m].parent # 0 /\ below[t.nodes[m].parent])
    IN  below

\* A node's incl: its own clocks and its descendants', which come after it.
Inclusive(t, n) ==
    LET below == Below(t, n)
    IN  Total([m \in DOMAIN t.nodes |-> IF below[m] THEN t.nodes[m].self ELSE 0], 1, Len(t.nodes))

(***************************************************************************)
(* The guest.                                                              *)
(***************************************************************************)
Clock(t) == FoldFunction(LAMBDA a, b : a + b, 0, t.spent)

InTime == ~tree.finished /\ Clock(tree) < MaxTime

\* The routines whose return addresses are still on the stack.
StillIn(routines, sp) == Picked(routines, {i \in DOMAIN routines : routines[i].sp > sp})

StackAt(sp) == [sp |-> sp, in |-> StillIn(stack.in, sp)]

StackIn(key, irq) ==
    [sp |-> stack.sp - 1, in |-> Append(stack.in, [sp |-> stack.sp, key |-> key, irq |-> irq])]

\* JSR, and its clock the caller's.
CallRoutine ==
    /\ InTime /\ stack.sp > 0
    /\ \E key \in Routines :
          tree' = Called(Ticked(tree), key, stack.sp) /\ stack' = StackIn(key, FALSE)

\* RTS, as a return or as a jump to what the guest pushed; its clock is the
\* callee's.
ReturnFrom ==
    /\ InTime /\ stack.sp < StackTop
    /\ tree' = Returned(Ticked(tree), stack.sp + 1)
    /\ stack' = StackAt(stack.sp + 1)

\* An interrupt, between instructions.
TakeInterrupt ==
    /\ InTime /\ stack.sp > 0
    /\ \E key \in Routines :
          tree' = Interrupted(tree, key, stack.sp) /\ stack' = StackIn(key, TRUE)

\* BRK, whose clock is the handler's.
Break ==
    /\ InTime /\ stack.sp > 0
    /\ \E key \in Routines :
          tree' = Ticked(Interrupted(tree, key, stack.sp)) /\ stack' = StackIn(key, TRUE)

\* RTI, whose clock belongs to the code it returns to.
ReturnFromInterrupt ==
    /\ InTime /\ stack.sp < StackTop
    /\ tree' = Ticked(Returned(tree, stack.sp + 1))
    /\ stack' = StackAt(stack.sp + 1)

\* Any other instruction: it may push, pull or set the stack pointer.
OtherInstruction ==
    /\ InTime
    /\ tree' = Ticked(tree)
    /\ \E sp \in 0 .. StackTop : stack' = StackAt(sp)

\* cct_close_frame
EndVideoFrame ==
    /\ ~tree.finished /\ tree.frame < MaxVideoFrames - 1
    /\ tree' = [tree EXCEPT !.frame = @ + 1]
    /\ UNCHANGED stack

\* The capture stops.
FinishCapture ==
    /\ ~tree.finished
    /\ tree' = Finished(tree)
    /\ UNCHANGED stack

\* And another starts, wherever the guest is (cct_reset).
StartCapture ==
    /\ tree.finished
    /\ tree' = EmptyTree
    /\ stack' = [stack EXCEPT !.in = <<>>]

TreeInit == tree = EmptyTree /\ stack = [sp |-> StackTop, in |-> <<>>]

TreeNext ==
    \/ CallRoutine \/ ReturnFrom \/ TakeInterrupt \/ Break \/ ReturnFromInterrupt
    \/ OtherInstruction \/ EndVideoFrame \/ FinishCapture \/ StartCapture

TreeSpec == TreeInit /\ [][TreeNext]_treeVars

(***************************************************************************)
(* Properties.                                                             *)
(***************************************************************************)

\* Whatever the guest does to its stack, every routine it is in has a frame of
\* its own, under its own name or [other] while there is a node left, in the order
\* it was entered; frames it left without a return may stand among them until an event above them
\* (profile_cct.h: "TXS resets or longjmps heal at the next event above the
\* stale frames", and a computed jump "pops nothing").
RoutinesTracked ==
    ~tree.finished =>
        /\ \A i, j \in DOMAIN tree.open : i < j => tree.open[i].sp > tree.open[j].sp
        /\ \A i \in DOMAIN stack.in : \E j \in DOMAIN tree.open :
              /\ tree.open[j].sp = stack.in[i].sp /\ tree.open[j].irq = stack.in[i].irq
              /\ \/ tree.nodes[tree.open[j].node].key \in {stack.in[i].key, OtherKey}
                 \/ Len(tree.nodes) = PoolSize

\* Two accounts of the same clocks agree in the report: what the calls of a path
\* took, worked out from its interrupt level's clocks when each ended, is the
\* sum of its nodes' own clocks.  So an interrupt "never inflates the routine
\* it interrupted" (profile_cct.h), no call is counted twice or left open, and
\* the worst frame is the worst.
AccountsAgree ==
    tree.finished /\ Len(tree.nodes) < PoolSize =>
        \A n \in DOMAIN tree.nodes \ {MainRoot, IrqRoot} :
            LET calls == tree.nodes[n].calls
            IN  /\ Inclusive(tree, n) = Total(calls, 0, MaxVideoFrames)
                /\ \A f \in VideoFrame : calls[f] <= tree.nodes[n].frameMax
                /\ \E f \in VideoFrame : calls[f] = tree.nodes[n].frameMax
============================================================================
