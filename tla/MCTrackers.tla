----------------------------- MODULE MCTrackers -----------------------------
(***************************************************************************)
(* What the debugger learns of the guest by following it, checked one at a *)
(* time in one run: the interrupt context, with a two-slot array so that   *)
(* nesting past it takes three interrupts; the profiler's call tree; both  *)
(* together over one guest; the breakpoints it arrives at; who the         *)
(* profiler's recorders run for; the debug info of the programs that are   *)
(* loaded; and the DOS device that loads them.  But for the two taken      *)
(* together they share no state; a behaviour is one's, chosen at the start. *)
(***************************************************************************)
EXTENDS IrqContext, ProfileTree, Recorders, HostFs

CONSTANTS
    Trackers,        \* which of them to start
    Orderly,         \* the guest leaves handlers by RTI only, and no capture
                     \* starts in one
    ANY, ui,         \* of the breakpoints
    A, B, C, D, E    \* host files: three with debug info, two without

VARIABLES
    which,
    hist,            \* clocks the histogram has counted in and out of handlers
    table, pcMap, conds, stopped    \* BreakpointArrival's

arrivalVars == <<table, pcMap, conds, stopped>>

\* One banked address of a gen1 machine, where at most two entries answer an
\* arrival: the one for any bank and the one for the bank mapped.
Arrivals == INSTANCE BreakpointArrival WITH
        AddrTop <- 0, BankedFrom <- 0, PBank <- {0}, X16Bank <- {1}, MappedBank <- {1, 2},
        Owner <- {ui}, Gen2 <- FALSE, MaxEntries <- 2, Ignores <- {0, 1}, MaxHits <- 2

ASSUME Arrivals!ArrivalAssumption

-----------------------------------------------------------------------------
(* The profiler's two accounts of the same clocks: the histogram asks the  *)
(* interrupt context in which of the two to put an instruction's clocks    *)
(* (perf_hist.c perf_hist_step_), the tree knows it from its own frames.   *)

NoClocks == [main |-> 0, irq |-> 0]

Counted ==
    hist' = IF depth' > 0 THEN [hist EXCEPT !.irq = @ + 1] ELSE [hist EXCEPT !.main = @ + 1]

\* The interrupt context's stack pointer is the guest's, and so is what it
\* does with it: RTI may take an orderly guest no further than out of the
\* innermost handler, where other instructions keep it.
Innermost == {h \in live : \A g \in live : h <= g}

StaysIn  == Orderly => \A h \in Innermost : stack'.sp < h
ReturnsTo == Orderly => \A h \in Innermost : stack'.sp <= h

\* A capture starts wherever the guest is, or outside handlers.
FollowCapture ==
    /\ StartCapture
    /\ Orderly => live = {}
    /\ hist' = NoClocks
    /\ UNCHANGED vars

\* What the guest does between captures.
Unprofiled ==
    /\ tree.finished
    /\ stack' \in [sp : 0 .. StackTop, in : {<<>>}]
    /\ \/ Interrupt
       \/ Rti /\ ReturnsTo
       \/ MoveStack /\ StaysIn
    /\ UNCHANGED <<tree, hist>>

FollowBoth ==
    /\ \/ (CallRoutine \/ ReturnFrom \/ OtherInstruction) /\ StaysIn /\ MoveStack /\ Counted
       \/ TakeInterrupt /\ Interrupt /\ UNCHANGED hist
       \/ Break /\ Interrupt /\ Counted
       \/ ReturnFromInterrupt /\ ReturnsTo /\ Rti /\ Counted
       \/ (EndVideoFrame \/ FinishCapture) /\ UNCHANGED <<vars, hist>>
       \/ FollowCapture
       \/ Unprofiled
    /\ sp' = stack'.sp

\* "Self time in the tree is the same cycles as the histogram, split by call
\* path instead of by address: the totals must agree" (profile_session.c).
\* Violated by a guest that leaves a handler otherwise than by RTI, or while a
\* capture starts in one.
TotalsMatch ==
    which = "both" /\ tree.finished =>
        /\ Inclusive(tree, MainRoot) = hist.main
        /\ Inclusive(tree, IrqRoot) = hist.irq

-----------------------------------------------------------------------------
(* The capture's configurations, and what memory may be lacking for.       *)
Captures ==
    {[recorders |-> {"hist", "waterfall"}, frames |-> 0, onMarker |-> TRUE],
     [recorders |-> {"hist", "tree", "budget", "vram"}, frames |-> 2, onMarker |-> FALSE]}

Lacking == {{}, {"tree", "waterfall"}, {"budget"}}

(* The host's files.                                                       *)
HostFiles == {A, B, C, D, E}

\* A runs from below the bank window into it; B and C are overlays linked at
\* the same place in it.
Extents == [f \in HostFiles |->
    CASE f = A -> {1, 2} [] f \in {B, C} -> {2, 3} [] OTHER -> {}]

\* A file to read, one to write, unless it is LOAD's, and the directory; or a
\* program with debug info and a file without.
FileNames  == {"D", "E", "$"}
ChunkNames == {"A", "D"}

FilesNamed(names) ==
    [n \in names |-> CASE n = "A" -> A [] n = "D" -> D [] n = "E" -> E [] OTHER -> Nil]

FilesOf    == FilesNamed(FileNames)
ChunkFiles == FilesNamed(ChunkNames)

ModeOf    == [n \in FileNames |-> IF n = "E" THEN {"w"} ELSE {}]
ChunkMode == [n \in ChunkNames |-> {}]

SizeOf == [f \in HostFiles |-> IF f = E THEN 1 ELSE 2]

HostTargets == {[addr |-> 1, bank |-> 0], [addr |-> 3, bank |-> 1]}

HostSeeks == {[channel |-> 2, pos |-> 0]}

-----------------------------------------------------------------------------
TrackersInit ==
    /\ which \in Trackers
    /\ Init /\ TreeInit /\ RecordersInit /\ HostInit /\ Arrivals!ArrivalInit
    /\ hist = NoClocks
    \* The choices of the parts that do not run.
    /\ which # "context" => sp = StackTop
    /\ which \notin {"loads", "host"} => enabled

TrackersNext ==
    \/ which = "context" /\ Next
       /\ UNCHANGED <<which, treeVars, hist, recorderVars, hostVars, arrivalVars>>
    \/ which = "tree" /\ TreeNext
       /\ UNCHANGED <<which, vars, hist, recorderVars, hostVars, arrivalVars>>
    \/ which = "both" /\ FollowBoth
       /\ UNCHANGED <<which, recorderVars, hostVars, arrivalVars>>
    \/ which = "recorders" /\ RecordersNext
       /\ UNCHANGED <<which, vars, treeVars, hist, hostVars, arrivalVars>>
    \/ which = "loads" /\ DbgNext /\ UNCHANGED <<busVars, chans, landed, run>>
       /\ UNCHANGED <<which, vars, treeVars, hist, recorderVars, arrivalVars>>
    \/ which = "host" /\ HostNext
       /\ UNCHANGED <<which, vars, treeVars, hist, recorderVars, arrivalVars>>
    \/ which = "arrivals" /\ Arrivals!ArrivalNext
       /\ UNCHANGED <<which, vars, treeVars, hist, recorderVars, hostVars>>

trackersVars == <<which, vars, treeVars, hist, recorderVars, hostVars, arrivalVars>>

TrackersSpec == TrackersInit /\ [][TrackersNext]_trackersVars

\* BreakpointArrival's properties (debug_bp_on_arrival), by the names the
\* configurations give.
StopsExactlyWhenDue == Arrivals!StopsExactlyWhenDue
EveryArrivalCounts  == Arrivals!EveryArrivalCounts

\* HostFs's LoadsAsLanded, where loads come from the file system (ieee.c
\* MACPTR): what a finished load is said to be is one run of one file's bytes.
HostLoadsAsLanded == which = "host" => LoadsAsLanded
=============================================================================
