----------------------------- MODULE SaveState -----------------------------
(***************************************************************************)
(* Save states (savestate.c) and the time they are taken in: the CPU's     *)
(* clock, what of it the devices were given, frames, and the counts a      *)
(* client is told (main.c emulator_loop, debug_server.c).                  *)
(*                                                                         *)
(* A machine is its clocks and where VERA is in the frame; the rest of it  *)
(* is known by how long it has run (total), what its devices were given    *)
(* (given), and whether an instruction ran since a frame ended (ran),      *)
(* which are history.  A stored state is cut into chunks, of which the     *)
(* first tells the build and the machine's configuration; the devices' own are   *)
(* left out.                                                               *)
(***************************************************************************)
EXTENDS Naturals, FiniteSets, Sequences

CONSTANTS
    Wrap,         \* values of the CPU's clock, 2^32
    FrameClocks,  \* clocks of a frame
    Costs,        \* clocks of an instruction
    IrqCost,      \* of taking an interrupt, 7
    Charge,       \* of a host file operation
    Slots,        \* names of slots
    MaxStored,    \* SAVESTATE_MAX_SLOTS, and a bound on the slots and files in use
    Paths,        \* names of state files
    Cuts,         \* how many chunks are in a file whose writing failed
    MaxTotal,     \* bound on the clocks run
    MaxSteps      \* bound on the frames a client asks for

\* What a state is made of, in the order it is written and read.
Chunks == << "X16S", "CPU ", "MAIN", "VERA", "DAP " >>

Whole == Len(Chunks)

\* The clock goes round in far more than a frame, and a frame is longer than
\* what an interrupt takes.
ASSUME StateAssumption ==
    /\ {Wrap, FrameClocks, IrqCost, Charge} \subseteq Nat /\ 0 < FrameClocks
    /\ Costs \subseteq Nat \ {0} /\ Costs # {}
    /\ \A n \in Costs : FrameClocks + n + IrqCost + Charge < Wrap
    /\ IrqCost <= FrameClocks
    /\ Cuts \subseteq 0 .. Whole - 1
    /\ Slots \cap Paths = {}

VARIABLES
    machine,    \* the machine, with the server's counts of its time
    halted,     \* currentMode is DMODE_STOP
    step,       \* the pending x16/step: frames left, or Nothing
    updating,   \* a frame has ended and video_update is under way
    served,     \* the DAP server is enabled
    card,       \* an SD card is attached
    stored,     \* what slots and files hold
    promised    \* what machine each of them was told to hold, or Nothing

stateVars == <<machine, halted, step, updating, served, card, stored, promised>>

Nothing == [kind |-> "nothing"]   \* no state, and no step
Targets == Slots \cup Paths

(***************************************************************************)
(* The clock.                                                              *)
(***************************************************************************)
Since(now, then) == (now + Wrap - then) % Wrap

\* emulated_cycles
Folded(m) == [m EXCEPT !.cycles = @ + Since(m.clock, m.seen), !.seen = m.clock]

Spend(m, n) == [m EXCEPT !.clock = (@ + n) % Wrap, !.total = @ + n]

\* step6502, and the devices stepped by all the clocks since they last were.
Advanced(m, n) ==
    LET s == Spend(m, n)
        clocks == Since(s.clock, m.old)
        scan == m.scan + clocks
    IN  [s EXCEPT !.old = s.clock, !.given = @ + clocks, !.ran = TRUE,
                  !.scan = IF scan >= FrameClocks THEN scan - FrameClocks ELSE scan]

EndsFrame(m, n) == m.scan + Since(Spend(m, n).clock, m.old) >= FrameClocks

\* debug_server_frame_end
FrameEnded(m) ==
    [Folded(m) EXCEPT !.frames = @ + 1, !.ended = m.clock, !.known = TRUE, !.ran = FALSE]

AtBoundary(m) == m.known /\ m.clock = m.ended

\* irq6502, if something asks for one.
Interrupted(m) == {m, Spend(m, IrqCost)}

\* The bound on time; and the 32-bit clock does not go round within a frame
\* (debug_server.c: it is read "far more often than the 32-bit clock can wrap").
HasTime(n) ==
    /\ machine.total + n + IrqCost <= MaxTotal
    /\ Since(machine.clock, machine.ended) + n + IrqCost < Wrap

-----------------------------------------------------------------------------
(* The emulator's loop.                                                    *)

RunInstruction(n) ==
    /\ ~halted /\ ~updating /\ HasTime(n)
    /\ IF EndsFrame(machine, n)
       THEN machine' = Advanced(machine, n)
       ELSE machine' \in Interrupted(Advanced(machine, n))
    /\ updating' = EndsFrame(machine, n)
    /\ UNCHANGED <<halted, step, served, card, stored, promised>>

\* handle_ieee_intercept: a call the host answered takes as long as it took, in
\* the drag's loop too.  The guest has executed something to make the call.
HostCall ==
    /\ ~halted /\ (updating => ~served) /\ HasTime(Charge)
    /\ Since(machine.clock, machine.old) <= IrqCost
    /\ machine' = Spend(machine, Charge)
    /\ UNCHANGED <<halted, step, updating, served, card, stored, promised>>

\* The window is dragged in the middle of video_update or of timing_update's
\* sleep, and the machine goes on from inside.  Not beside a DAP server.
Drag(n) ==
    /\ updating /\ ~halted /\ ~served /\ HasTime(n)
    /\ \E m \in Interrupted(Advanced(machine, n)) :
           machine' = IF EndsFrame(machine, n) THEN FrameEnded(m) ELSE m
    /\ UNCHANGED <<halted, step, updating, served, card, stored, promised>>

\* The frame is counted, and the machine stops after the last one asked for;
\* what is left of the pass may take an interrupt.
FrameOver ==
    /\ updating
    /\ machine' \in Interrupted(FrameEnded(machine))
    /\ updating' = FALSE
    /\ IF step # Nothing /\ ~halted
       THEN step' = [step EXCEPT !.left = @ - 1] /\ halted' = (step.left = 1)
       ELSE UNCHANGED <<step, halted>>
    /\ UNCHANGED <<served, card, stored, promised>>

\* A person's keys, with the frame, or a client's restart, in a poll, which has
\* counted the clock first.  The clock goes on, and VERA starts a frame.
Reset ==
    /\ updating \/ served
    /\ machine' = [(IF updating THEN machine ELSE Folded(machine)) EXCEPT !.scan = 0]
    /\ UNCHANGED <<halted, step, updating, served, card, stored, promised>>

\* Attached or taken out, by a key.
SwapCard ==
    /\ updating
    /\ card' = ~card
    /\ UNCHANGED <<machine, halted, step, updating, served, stored, promised>>

-----------------------------------------------------------------------------
(* Requests.                                                               *)

Pause ==
    /\ ~halted /\ halted' = TRUE
    /\ UNCHANGED <<machine, step, updating, served, card, stored, promised>>

Continue ==
    /\ halted /\ ~updating /\ step = Nothing
    /\ halted' = FALSE
    /\ UNCHANGED <<machine, step, updating, served, card, stored, promised>>

StepFrames(k) ==
    /\ served /\ halted /\ ~updating /\ step = Nothing
    /\ step' = [left |-> k] /\ halted' = FALSE
    /\ UNCHANGED <<machine, updating, served, card, stored, promised>>

\* step_poll, once the machine has stopped.  After the last frame the clock is
\* taken again: an interrupt may have moved it.
StepPoll ==
    /\ step # Nothing /\ halted /\ ~updating
    /\ step' = Nothing
    /\ machine' = IF step.left = 0
                  THEN [Folded(machine) EXCEPT !.ended = machine.clock, !.known = TRUE]
                  ELSE Folded(machine)
    /\ UNCHANGED <<halted, updating, served, card, stored, promised>>

Ready == served /\ halted /\ ~updating /\ step = Nothing

(***************************************************************************)
(* States.  savestate_write only reads, but for the fold.                  *)
(***************************************************************************)
Snapshot(parts) ==
    [machine |-> Folded(machine), build |-> "ours", card |-> card, parts |-> parts]

\* A slip: a card is not part of the configuration.
AnyCard(s) == s.parts > 0 /\ s.build = "ours"

\* savestate_check: the header is this build's and this machine's, and the
\* chunks are those it would write.
HeaderMatches(s) == s.parts > 0 /\ s.build = "ours" /\ s.card = card

Check(s) == HeaderMatches(s) /\ s.parts = Whole

\* A slip: the clock comes back without what the devices are still owed.
ClockAlone(m, s, tag) ==
    CASE tag = "CPU " -> [m EXCEPT !.clock = s.clock, !.total = s.total]
      [] tag = "VERA" -> [m EXCEPT !.scan = s.scan, !.given = s.given, !.ran = s.ran]
      [] tag = "DAP " -> [m EXCEPT !.frames = s.frames, !.cycles = s.cycles,
                                   !.seen = m.clock, !.ended = m.clock, !.known = TRUE]
      [] OTHER -> m

\* One chunk's loader, given what those before it have loaded.
LoadChunk(m, s, tag) ==
    CASE tag = "CPU " -> [m EXCEPT !.clock = s.clock, !.total = s.total]
      [] tag = "MAIN" -> [m EXCEPT !.old = s.old]
      [] tag = "VERA" -> [m EXCEPT !.scan = s.scan, !.given = s.given, !.ran = s.ran]
      [] tag = "DAP " -> [m EXCEPT !.frames = s.frames, !.cycles = s.cycles,
                                   !.seen = m.clock, !.ended = m.clock, !.known = TRUE]
      [] OTHER -> m

\* savestate_read, of a whole state: each loader finds what those before it left.
Applied(s) ==
    LET cpu  == LoadChunk(Folded(machine), s.machine, "CPU ")
        main == LoadChunk(cpu, s.machine, "MAIN")
        vera == LoadChunk(main, s.machine, "VERA")
    IN  LoadChunk(vera, s.machine, "DAP ")

-----------------------------------------------------------------------------
InUse == {t \in Targets : stored[t] # Nothing}

HasRoom(t) == t \in InUse \/ Cardinality(InUse) < MaxStored

\* A slot in use is replaced, a new one needs room.  Without memory the slot
\* is given up, whatever it held.
SaveSlot(s) ==
    /\ Ready /\ AtBoundary(machine)
    /\ HasRoom(s)
    /\ \E t \in {Snapshot(Whole), Nothing} :
           /\ stored' = [stored EXCEPT ![s] = t]
           /\ promised' = [promised EXCEPT ![s] = t]
    /\ machine' = Folded(machine)
    /\ UNCHANGED <<halted, step, updating, served, card>>

\* The file is opened for writing first, and what it held is gone; writing may
\* fail at any chunk.
SaveFile(p) ==
    /\ Ready /\ AtBoundary(machine) /\ HasRoom(p)
    /\ \E parts \in Cuts \cup {Whole} :
           /\ stored' = [stored EXCEPT ![p] = Snapshot(parts)]
           /\ promised' = [promised EXCEPT ![p] = IF parts = Whole THEN Snapshot(Whole) ELSE Nothing]
    /\ machine' = Folded(machine)
    /\ UNCHANGED <<halted, step, updating, served, card>>

\* Another build saves a state of its own there.
OthersFile(p) ==
    /\ served /\ stored[p] # Nothing
    /\ stored' = [stored EXCEPT ![p].build = "theirs"]
    /\ promised' = [promised EXCEPT ![p] = Nothing]
    /\ UNCHANGED <<machine, halted, step, updating, served, card>>

\* savestate_slot_load, savestate_file_load: from any pause.
LoadState(t) ==
    /\ Ready /\ stored[t] # Nothing
    /\ machine' = IF Check(stored[t]) THEN Applied(stored[t]) ELSE Folded(machine)
    /\ UNCHANGED <<halted, step, updating, served, card, stored, promised>>

-----------------------------------------------------------------------------
StateInit ==
    /\ machine = [clock |-> 0, old |-> 0, total |-> 0, given |-> 0, scan |-> 0, ran |-> FALSE,
                  frames |-> 0, cycles |-> 0, seen |-> 0, ended |-> 0, known |-> FALSE]
    /\ halted \in BOOLEAN /\ step = Nothing /\ updating = FALSE
    /\ served \in BOOLEAN /\ card \in BOOLEAN
    /\ stored = [t \in Targets |-> Nothing]
    /\ promised = stored

StateNext ==
    \/ \E n \in Costs : RunInstruction(n) \/ Drag(n)
    \/ HostCall \/ FrameOver \/ Reset \/ SwapCard
    \/ Pause \/ Continue \/ StepPoll
    \/ \E k \in 1 .. MaxSteps : StepFrames(k)
    \/ \E s \in Slots : SaveSlot(s)
    \/ \E p \in Paths : SaveFile(p) \/ OthersFile(p)
    \/ \E t \in Targets : LoadState(t)

StateSpec == StateInit /\ [][StateNext]_stateVars

(***************************************************************************)
(* Properties                                                              *)
(***************************************************************************)
StateTypeOK ==
    /\ machine \in [clock : 0 .. Wrap - 1, old : 0 .. Wrap - 1, total : Nat, given : Nat,
                    scan : Nat, ran : BOOLEAN, frames : Nat, cycles : Nat,
                    seen : 0 .. Wrap - 1, ended : 0 .. Wrap - 1, known : BOOLEAN]
    /\ {halted, updating, served, card} \subseteq BOOLEAN
    /\ step = Nothing \/ step \in [left : Nat]

\* The clock's three readers agree on the time the machine has run, though it
\* wraps, and through interrupts charged late, host calls, drags, resets and
\* loads: what the devices were given and are still owed (main.c: "would give
\* the devices a different number of cycles than the CPU spent"), and what a
\* client is told (debug_server.c emulated_cycles).
ClocksAgree ==
    /\ machine.given + Since(machine.clock, machine.old) = machine.total
    /\ Folded(machine).cycles = machine.total

\* A load brings back exactly the machine the last save there was told to keep,
\* where a frame had just ended; and if there is none, or it was another
\* machine's, nothing changes (savestate.h: "the machine is untouched then";
\* debug_server.c: "It never reads a mid-frame stop as a boundary").
LoadsWhatWasSaved ==
    [][ \A t \in Targets :
          LoadState(t) =>
            IF promised[t] # Nothing /\ promised[t].card = card
            THEN Folded(machine') = promised[t].machine /\ AtBoundary(machine') /\ ~machine'.ran
            ELSE Folded(machine') = Folded(machine) ]_stateVars
=============================================================================
