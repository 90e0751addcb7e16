# A model of the Commander X16 emulator

TLA+ modules, TLC configurations and TLAPS proofs about the X16 emulator in
`src/`. The emulator is a single-threaded interpreter of a 65C02/65C816 with
its devices, and around it a source-level debugger: a text and a graphical
interface, and a server for the Debug Adapter Protocol (DAP) that an editor
connects to. Interpreting instructions is sequential code that unit tests reach
well. What tests reach badly is the debugger's shared state: one breakpoint
table with many owners, one run state with three parties that may change it in
the middle of somebody else's step, breakpoints whose addresses move when the
guest loads a program, and a record of nested interrupts over a stack the guest
may do anything to. That is modelled first. Beside it are the devices whose
queues, timers and protocols meet a guest, a host's thread or a reset in an
order of their own, and the profiler, which follows the same guest by other
means. What is left is in *Not modelled* and *Plan*.

- [Inventory](#inventory)
- [Modules](#modules)
- [Runs](#runs)
- [Theorems](#theorems)
- [Disagreements](#disagreements)
- [Not modelled](#not-modelled)
- [Plan](#plan)

## Inventory

Paths are below `src/src/`. "Status" is what `PROJECT.json` says of the part.

| Component | State it keeps | Operations | Status |
|---|---|---|---|
| Interrupt context, `cpu/irq_ctx.c` | nesting depth, stack pointers of the open frames, an "entered" flag | enter, leave, reset, take the flag | partly (not its save and load) |
| Breakpoint table, `debug_core.c` | an array of (pc, program bank, window selector) with owners and an enabled flag; a bitmap of PCs; condition records keyed like the breakpoints but stored apart | add, remove, clear an owner, delete, toggle, enable, arrive, set and clear conditions, budgets and dumps, forget | partly (what a condition compares and a dump writes is data) |
| Watchpoint table, `debug_core.c` | a second array, of ranges with an access, a bank, a filter and owners; cached answers to "could this store matter" | add, remove, clear an owner, replace a client's list, filter, store | partly (reads, ranges across banks) |
| Execution control, `debugger.c/.h` | run mode, step target and its owner, resume guard, source step, pending watchpoint stop, last position shown | status check before every instruction, its inline shortcut, continue, step into/over/out, run to, break, source steps, text debugger's keys | partly |
| DAP session, `debug_server.c` | socket, session flag, "this stop was announced", stop-on-entry | accept, requests, events, drop, disconnect, terminate | partly |
| DAP breakpoints, `debug_server.c` | list of source lines with their addresses, list of functions, claims in the table | set source/function/instruction breakpoints, invalidate, retry, move to a bank, release | partly |
| Program loads, `dbg_load.c` | bytes seen per channel, registry of merged debug infos, policy | note open/bytes/close, poll, replace, discard | partly (files a `.dbg` is looked for in, texts) |
| Debug info, `dbg_info.c`, `rom_syms.c`, `source_view.c`, `disasm.c` | parsed files, lines, symbols, segments and their observed banks | parse, merge, unload, look up | not modelled (a constant of `DapBreakpoints`) |
| FAT index of the SD image, `sdcard_fat.c`, `makecart.c` | a read-only index for panels and trace | look up | not modelled |
| Frame-stepping request `x16/step`, `debug_server.c` | pending flag, frames left, "the count ran out", events wanted | request, frame end, poll that completes it, a request that takes over, release | partly (not restart and `goto`, which also cancel it) |
| CPU core, `cpu/fake6502.c` | registers, waiting flag, clock | step, irq, nmi, reset | only what the debugger sees of it |
| Memory and banks, `memory.c`, `cartridge.c` | RAM, bank registers, cartridge | read, write, map | not modelled |
| VERA video, `video.c` | registers, two scan counters, interrupt flags, VRAM | register access, step, raise and acknowledge, forecast the next interrupt | partly (counters and interrupts; drawing, ports and FX are data) |
| VERA audio, `vera_pcm.c`, `vera_psg.c` | PCM FIFO with loop mode, rate phase | write, render, restart, reset | partly (the FIFO) |
| Audio output, `audio.c`, `ymglue.cpp`, `wav_recorder.c` | positions of the sources, ring of mixed buffers read by the audio thread | step, render, callback, load a state | partly (samples and the recorder are data) |
| I2C, SMC, RTC, `i2c.c`, `smc.c`, `rtc.c`, `keyboard.c` | bit-level bus state, byte position, keyboard and mouse rings, default answer | line edges, register reads and writes, key and mouse events, reset | partly (not the clock chip) |
| VIA and joysticks, `via.c`, `joystick.c` | timers, interrupt flags, shift register | step, read, write | partly (the timers) |
| SD card, `sdcard.c`, `vera_spi.c` | command buffer, response, multi-block read, byte in flight | select, byte exchange, attach, detach, reset | partly (not its save and load) |
| IEC file system, `ieee.c`, `serial.c`, `files.c` | channels, LISTEN/TALK state, command buffer | secondary addresses, byte in, byte out, block read | partly (reading files and loads; DOS commands and writes are not) |
| MIDI UARTs, `midi.c` | driver's queue, FIFOs, transmitter interrupt, running status | driver's messages, bits, register access, reset | partly (line settings, modem lines, synthesiser) |
| Save states, `savestate.c`, `savestate_io.h` | slots, order of chunks | save, check, load | partly (time, header, chunks and slots; the devices' own chunks are data) |
| Profiling, `profile_*.c`, `perf_*.c`, `sprite_trace.c`, `vera_bandwidth.c` | calling-context tree, histogram, rings of frames, who asked for what | call, return, interrupt, frame end, capture, arm and release | partly (the tree, captures and recorders; what is recorded is data) |
| Main loop, `main.c`, `timing.c` | the clock the devices were last given | poll, execute, frame end, interrupt, the same under a window drag | partly (order in `RunControl`, clocks in `SaveState`; options and pacing are not) |
| Input scripts, test bench | a cursor, standard input | play, read | not modelled |
| Windows and panels, `render_*`, `debug_ui/` | widgets | draw, keys | not modelled, but for their run-state keys |

How they interact. `main.c` calls `DEBUGPollStatus` before each instruction.
Its shortcut reads the table's bitmap; the full check asks
`debug_bp_on_arrival`, takes the interrupt-entered flag of `irq_ctx.c`, and
serves the DAP socket and the interface. A store checks watchpoints from inside
the instruction. The file system tells `dbg_load.c` what was loaded; the next
poll merges the `.dbg` file found beside it, and `debug_server.c` invalidates,
re-arms or moves its breakpoints, all through the owner-counted calls of
`debug_core.c`. Nothing here is concurrent in the sense of threads (only the
audio callback and the MIDI driver have threads of their own): the hazards come
from calls in an order nobody wrote a test for.

Between instructions `main.c` steps the devices by the clocks the last one took:
`video_step`, `via1_step`, `i2c_step` with the lines the VIA drives, `vera_spi_step`,
`audio_step`, `midi_serial_step`; their interrupt lines are or-ed and given to the
CPU. The profiler's hooks sit in the CPU's calls, returns and interrupts
(`flow_hook`), in every step (`perf_hist_step_`) and at the frame's end.

What is hard, and the properties that say it is right, is listed line by line
in `PROJECT.json` under `hazards`.

## Modules

| Module | Models | Checked by | Proved in |
|---|---|---|---|
| `IrqContext` | `cpu/irq_ctx.c`, over a guest that may do anything to its stack | `trackers` | `TrackerProofs` |
| `BreakpointClaims` | what the table promises: claims of independent owners | as the abstraction of the next | |
| `BreakpointTable` | the array, bitmap and key normalisation of `debug_core.c` | `breakpoint_table` | `BreakpointTableProofs` |
| `BreakpointArrival` | the table together with condition records, and an arrival (extends `BreakpointTable`) | `trackers` | `BreakpointTableProofs` |
| `WatchpointTable` | the watchpoints of `debug_core.c` and the lists clients give | `breakpoint_table` | `WatchpointTableProofs` |
| `RunControl` | `debugger.c`, the main loop, the session and `x16/step` of `debug_server.c` | `run_control`, `run_frames`, `run_lines`, `run_orphan` | `RunControlProofs`, `RunStopProofs` |
| `DapBreakpoints` | the breakpoint lists of `debug_server.c` over claims, and program loads | `dap_breakpoints`, `dap_records`, `dap_reload` | `DapBreakpointsProofs` |
| `Sublists` | leaving entries out of an array, for the tables and lists above | with `WatchpointTable` and `DapBreakpoints` | `SublistProofs` |
| `DebugLoad` | `dbg_load.c`: what is seen of a load, and the registry of merged debug info | `trackers` | `TrackerProofs` |
| `HostFs` | the DOS device of `ieee.c` that loads programs (extends `DebugLoad`) | `trackers` | `TrackerProofs` |
| `ProfileTree` | the calling-context tree of `profile_cct.c` over a guest | `trackers` | `TrackerProofs` |
| `Recorders` | captures, and who the profiler's recorders run for | `trackers` | `TrackerProofs` |
| `SdProtocol` | what an SD card promises, by commands and packets | as the abstraction of the next | |
| `SdCard` | `sdcard.c` and `vera_spi.c`, byte by byte | `devices` | `DeviceProofs` |
| `SmcAnswers` | the controller's rings and answers, shared by the next two | | `DeviceProofs` |
| `SmcProtocol` | what the controller and its bus promise, by transfers of bytes | as the abstraction of the next | |
| `SmcBus` | `i2c.c` and `smc.c`, edge by edge | `devices` | `DeviceProofs` |
| `ViaTimers` | timers of `via.c`, stepped by instructions, against single clocks | `devices`, `via_timers` | |
| `AudioRing` | `audio.c`: sources, mixer, ring and the host's callback | `devices` | |
| `MidiUart` | `midi.c`: the driver's queue and a port's bits and interrupt | `devices` | `DeviceProofs` |
| `PcmFifo` | the PCM queue of `vera_pcm.c` | `devices` | `DeviceProofs` |
| `VeraIrq` | scan counters, interrupts and their forecast in `video.c` (extends `PcmFifo`) | `devices`, `field_forecast` | `DeviceProofs` |
| `SaveState` | `savestate.c`, the clocks of `main.c` and the counts of `debug_server.c` | `devices` | `DeviceProofs` |

An `MC` module gives the constants of each its small instance. `MCTrackers` and `MCDevices`
each check several components in one run: a behaviour is one component's,
chosen at the start (`Trackers`, `Devices`), and the others stand still. The one
exception is `"both"` in `MCTrackers`, which runs `IrqContext` and `ProfileTree`
over one stack: `FollowBoth` joins each instruction of the one to what it is to
the other, and counts the histogram's clocks from `irq_ctx.c`'s depth as
`perf_hist_step_` does, to be compared with the tree's own. Operators whose
comment begins "As if" (or that stand under "Faults") are plausible slips of
the definition they precede; each breaks a property of a run, which shows that
the property speaks about the code.

**IrqContext.** `depth` and `frames` are the statics of `irq_ctx.c`; `sp` is
the stack pointer, and `live`, which the code does not have, is the set of
handlers really running, by the stack pointer they were entered at. The
interrupt and the RTI are whole: the frame's push, `cpu_irq_ctx_enter` with its
retirement of frames the stack has risen past, the unwinding to an exact match
in `cpu_irq_ctx_leave`. Between them the guest moves its stack anywhere, so
handlers are abandoned, frames fabricated, and returns made without one. The
vector, the return address and the lifetime count decide nothing and are left
out; the stack is 0 .. `SpTop`, which stands for the 256 or 65536 bytes of the
stack, and does not wrap.

**BreakpointTable** keeps the array as a sequence because order matters to
`BreakpointArrival`, and the bitmap as a set of PCs beside it, updated by each
call as the code does: a new entry sets a bit, an erased one rebuilds the map.
`debug_bp_add_for` that finds no memory changes nothing, which is the absence
of a step; `MaxEntries` bounds the array. The refinement mapping to
`BreakpointClaims` is `ClaimsOf`/`OffOf`.

**BreakpointArrival** adds `conds`, the records in use. What a condition
compares is abstracted to the set of keys whose condition holds now; a failed
allocation is the set `oom`; `MaxHits` bounds the 32-bit counts.

**RunControl.** One action of `Next` is a piece of the loop between two places
where another party can act. `phase` says where the loop is. The debugger's
statics and the session's are one record `d`, and each function of the code
that changes them is an operator from record to record, so that a handler is
the composition the code makes. `c` is a small guest: a program of calls,
returns, stores and WAIs given by constants. `opts` holds the settings, which
include the local interface ("none", "text" or "graphical"), and is chosen at
the start. `obs` is bookkeeping for the properties. A breakpoint either stops
(`"stops"`), or is tested and lets the machine run on (`"passes"`), which is
what `BreakpointArrival` decides. Modelled as nondeterminism: when a running
machine polls the socket (`DEBUG_POLL_INTERVAL`), when a client stops reading
or vanishes, when an interrupt comes. Assumed: a client makes its run-state
requests inside its session; accepting a connection and `initialize` are one
step; the user's breakpoints and the settings do not change during a behaviour
(the client's do); `"none"` means nobody is at the keyboard. `d.frames`
is the deferred `x16/step`: the request starts the machine, `FrameEnd` counts
down between the interface's turn and the interrupt, and `StepPoll` replies
where the code calls `step_poll`, at the start of a visit and after each
message. A request that takes execution over (`continue`, `next`, `stepIn`,
`stepOut`, `terminate`) first answers a pending one as cancelled (`Cancelled`,
`dispatch_dap`), so that what it sets running is not counted; `d.replied` (not in the code) says that the last reply told the client
of a stop, and a frame that ends while no such request is pending is no step.
Not modelled: `goto` and restart (both cancel a pending `x16/step` as well),
loading a state, reset and STP.

**DapBreakpoints.** `d.claims` is the core table as `BreakpointClaims` has it,
`d.recs` the condition records, `d.bps` the list of source lines in its order,
`d.funcs` the functions, `d.seg` the bank the banked segment was observed in.
`info` is what `dbg_info.c` answers. A load is one action of the whole of
`dbg_load_poll`: invalidate what it replaced, unload and merge, retry the
unverified, and move what is now known to be in a bank. Entries are taken out of
a list with `OthersOf`, which is `Sublists`' `Picked`: what `SelectSeq` computes,
stated by the places that stay so that the provers can reason about it. `Sessions`
is how often a client may connect, at least once. Not in the code: `gone`
(claims a person deleted), `over` (keys where an instruction breakpoint stated
the condition last) and `shown` in an entry (whether the client was last told
"verified"). Assumed: a client is connected through loads; a request names each
line once; the lists do not fill up and memory does not run out. Hit conditions
are left to `BreakpointArrival`.

**WatchpointTable.** `watches` is the second array of `debug_core.c`, entries
with one key, length, switch, filter and a set of owners; who calls it is the
command line, the graphical debugger and a client through data breakpoints and
its console. The actions are the callers' whole requests: `setDataBreakpoints`
lets go of the last list, adds each entry until the table is full and then
states the filters. Whether a store stops is judged on the entries themselves (extent,
bank, filter); the cached activity that lets a store skip them, which every call
recomputes, is left out, and so is what a filter compares.

**DebugLoad** is `dbg_load.c` and as much of the store it keeps in step
(`dbg_info.c`) as that takes. `collecting` is what a channel has seen of a load,
`registry` the modules known to be merged, `lines` and `segments` the copies of
their records, `bank` the observed bank. A poll is one step: what a load
displaces is unloaded before what is merged, and the merge may fail part-way
(`Readings`). **HostFs** extends it with the DOS device of `ieee.c`, one
intercepted KERNAL call an action: the bus state, the channels with their name,
directions and handle, the directory listing, the seek in the command buffer,
and MACPTR, which moves a block and tells `dbg_load.c` where. `landed` and `run`
record where bytes really went. An extent `{}` stands for a file without debug
info and for a `.dbg` itself. Left out: writes and MCIOUT, the DOS commands
other than P (seek) and their texts, the history rows, the handle of `-prg`,
and a name on channel 15. As in the code, a machine reset leaves the command
buffer, and `discard_range` does not look at the RAM bank.

**SdProtocol, SdCard.** The protocol is a card that gets whole commands and
whole packets and answers with what its state promises; `SdCard` gets bytes
through VERA's data register, of which one is in flight, while the guest may
deselect, deselect in mid-frame or poll, the user may swap the image, and the
machine may be reset. `ImplementsProtocol` is the refinement: `Handle` with a
complete frame is the protocol's command or packet, every other byte a stutter
or a delivered byte. Frames are two or three bytes for the code's 6 and 515.
`KeepsToProtocol` is what a guest's driver does: it sends only to a selected
card and after the last byte has arrived, stops a multiple read before it asks
for anything else, sends one packet for one write command, and deselects with
nothing in flight; and the user changes the image only between frames. The
machine may be reset at any time. Without it the same checks fail, in
`MCSdReset`. As in the code a CMD24 out of range is accepted (the branch at
`sdcard.c:550` is never taken) and attaching does not clear the idle state.

**SmcAnswers, SmcProtocol, SmcBus.** `SmcAnswers` has what the controller and
its promise share: two rings of bytes, a default answer, what a read takes from
where. `SmcProtocol` moves whole bytes; `SmcBus` moves lines, one at a time as
`i2c_step` sees them, with keys and mouse motion between any two edges, and a
guest that goes through one of `Programs` as the KERNAL does. The refinement
maps the bus to bytes given and taken. A key or packet is dropped whole when its
ring is full, and the mouse's position is moved on all the same; a read of
several bytes answers by the default from the second on. The clock chip on the
same wires is left out.

**ViaTimers** steps the timers by an instruction's clocks as `via_step` does,
and in the property by single clocks; a register holds two bits' worth
(`Digits`), steps take up to `MaxClocks`. Writing T1C-H while the counter stands
past zero leaves it there; T2 in pulse mode stands, since nothing drives PB6.
Ports, handshake, the enable register and the shift register are left out.

**AudioRing** keeps, for each source, how far it is ahead of its reader, and for
the ring how far the writer is ahead of the host's callback, which takes a
buffer whenever it likes; a machine without a sound device is the same without
`Callback`. `BeginStep`/`Turn` are `audio_step`'s rounds, `Flush` a guest's
access to a sound register, `LoadAudio` a state being loaded. The numbers are
scaled together: 14 samples of 8 units, 3 and 4 units a clock, buffers of 14
frames, host rates that make the one or the other source fall behind.

**MidiUart** has the queue between the driver's thread and the port (a mutex
makes each message one step) with the running status of both ends, and the port
bit by bit with its FIFOs and the transmitter interrupt. `FirstDue` is
`midi_serial_iir_check`: of the interrupts enabled and due the first is named, an
overrun before received data before the transmitter, and `AskInterrupt` reads
that name and withdraws the transmitter's whichever it is. `told` says that the
guest knows of an empty transmitter, from the identification or the line status;
`missed` that its own read took that back and said another thing. `reader` parses
what was taken as MIDI does. Line settings are 8N1; the modem lines with their
interrupt, which comes last in that order, and the bytes' meaning are left out. `midi_serial_init` takes no lock when
the machine is reset while the driver may be adding a message; the model's reset
is atomic.

**PcmFifo, VeraIrq.** `pcm` is the ring with its three indices, the sample size,
the loop flag and a count of bytes accepted, by which bytes are named; a sample
falling due is an action of its own, since the rate is data. `VeraIrq` steps
both scan counters by pixels, takes the one the mode names, and raises VSYNC,
LINE and, where sprites met on a visible line, SPRCOL. A step may be wider than
a line: a call of the host's adds its real time to the clock in one lump
(`main.c:2338`), and `video_step` takes one line off its position however much is
in it, so the beam is behind (`BeamBehind`) and makes up a line a step.
`forecast` is the answer `video_next_irq` last gave, what is left of it, and
whether its source has been raised since; a write to mode, enables or
compare line makes it void. AFLOW is read off the queue. The four high bits that
say which sprites met, and everything drawn, are data; rounding of clocks to
pixels is left out.

**SaveState** has the machine as its clocks: the CPU's, which wraps, what the
devices were last given of it (`old_clockticks6502`), VERA's place in the frame,
and what the server has counted and where it saw a frame end. How long the
machine has run, what its devices were given and whether anything ran since a
frame ended are history, and go with the chunk they belong to. `RunInstruction`
and `Drag` are the two loops, `HostCall` what a call of the file system costs,
`FrameOver` the end of a frame with the interrupt that may follow in the same
pass. Saving and loading are `Ready`'s, in a pause with no step pending; a file
may be cut short (`Cuts`), written by another build, or read with another card
in. Five of the twenty chunks are kept, in their order. That the 32-bit clock
does not go round within one frame is assumed (`HasTime`), as the code does.
Runs without a window, which have no frames, NMI, and saves refused because a
channel is busy are left out.

**ProfileTree** is `profile_cct.c` with the hooks that feed it, over a guest
with a real stack (`stack.in`) that drops return addresses, jumps through RTS,
leaves handlers and moves its pointer. The pending operation of an instruction
is applied within the action. Clocks are one an instruction and one stack place
is one push. A guest that drops return addresses and pushes others in their
place leaves frames the tracker cannot see are stale until an event above them.
**Recorders** is the capture's state machine (`profile_capture.c`,
`profile_session.c`) with the switches it shares: the panel's, a DAP client's
and its own. What is recorded is left out but for the budget's ring, whose
frames know whether the machine ran in them before and during the capture. A
capture's time limit may pass at any frame.

## Runs

Fairness is assumed in one run, `run_frames`, for `FramesEnd`: the emulator loop
goes on (`WF_vars(Loop)`, it is a `for (;;)` whose waits are bounded at 10 ms), and
a running machine with frames to count comes to the end of one
(`SF_vars(FrameEnd)`: VERA ends a frame every so many cycles, strong because the
loop passes that point with most instructions and only some of them end a
frame). Neither a client, a user, a guest nor the host's audio thread owes the
emulator anything, so no other fairness is justified; that a stopped machine can
be started again, or that a waiting guest will be told, is stated as an
invariant instead (`NeverOrphaned`; `NothingStalls`, but for what the guest's own
read takes back). Deadlock is checked in
every run.

| Run | Instance | What it shows |
|---|---|---|
| `trackers` | seven behaviours, 638,000 states. Interrupts: 2 recorded frames, depth saturating at 4, a stack of 5. The call tree: two routines, a stack of 2, 4 frames, 3 nested interrupts, a pool of 6 nodes. Both over one stack. Arrivals: one banked address, one bank and ANY, budgets 0 and 1, hits to 2, failed allocations. Captures of up to 2 frames that may want for memory, a ring of 2. Loads: five files, two channels, four addresses of which two are banked, two banks | Every limit is met: a full array of frames, saturation and a return past unrecorded levels, a full pool, two entries that match one arrival in either order at, below and past their budgets, a load that ends in another bank than it began in |
| `breakpoint_table` | one address outside and one inside the banked window, two banks and ANY, two program banks, two owners, two entries, the first-generation machine; and two watches with a client's two lists | 9,600 states. All orders of calls; of two entries that share a PC, in either order, one is erased and the other stays. Longer tables and the second generation (`Gen2`) are covered by the proofs for breakpoints |
| `run_control` | a guest of eight addresses (a loop that calls, stores and waits, a routine without source, a handler), stack of two, source steps of three instructions; a user at either interface, a client alone, stepping instructions or a frame, a client beside a user of the panel (without interrupts) or of the text interface (with them) | 1.9 million states. Breakpoints stand behind the WAI, on a later instruction of a line, on a jump to itself |
| `run_frames` | a guest of four addresses (a loop that stores and waits, a handler), a client that asks for one or two frames with or without events: alone with a breakpoint and interrupts, alone with a watched store, beside a user of the text interface, and, one frame at a time, beside a user of the panel | 693,000 states. The count runs out, or a breakpoint, a store, a pause, the user, the socket or a request that takes over ends it first, in the same pass of the loop and in another |
| `dap_breakpoints` | two files of one base name, two lines, one banked, a function at the same address, two banks, two sessions, a person toggling one key | 73,000 states |
| `dap_records` | two unrelated files, conditions, bank pins (a pin comes with a condition), instruction breakpoints with and without dumps, dumps whose file cannot be opened | 160,000 states |
| `devices` | nine behaviours, 878,000 states. A card of 2 blocks; key ring of 2 places, mouse ring of 10, transfers of 3 bytes; 2-digit timers and instructions of up to 4 clocks; 14 samples, 3 host buffers and three host rates; FIFOs of 2 bytes of 2 bits, a trigger level of 2, line status and received data enabled with the transmitter's interrupt; a PCM queue of 5 bytes, samples of 1, 2 and 4; 4 lines of 4 pixels, steps of 1 pixel and of 9, a beam up to 9 pixels along a line (`MaxBehind`); a clock that wraps at 6, frames of 2 clocks, one state kept at a time in a slot or a file | Rings wrap and are full and empty more than once; a mouse packet meets a full ring; a timer passes zero in the middle of an instruction and at its end; the queue runs dry with part of a sample in it; a read of the identification names another interrupt than the transmitter's; a forecast runs across the end of a frame, and is made or falls due while the beam is two lines behind; the clock goes round between a save and its load, and a load goes back across it |
| `run_lines`, `run_orphan`, `dap_reload`, `via_timers`, `field_forecast` | as above, with the one setting that matters | see *Disagreements* |

The other configurations beside them each show one counterexample, and are listed there too.
The type invariants of the modules with proofs are proved, and those of the
others can be added to any configuration.

What the passing runs leave out, because each meets a disagreement listed below:

- `run_control`: a watched store with source steps, with break-on-interrupt, and
  with a client beside a user; frames run with events under break-on-interrupt.
  Nor does it let a user resume a machine a client stopped with `x16/step` and
  no events: of that resume the client is not told, which `debug_server.c:4886`
  states as intended.
- `dap_breakpoints` and `dap_records` have `Reloads = FALSE`: a load describes
  new ranges or shows a bank, and never takes away what a breakpoint rests on;
  `dap_breakpoints` states no bank in a condition.
- `trackers`: a guest in disorder over its handlers (`Orderly`), a panel that
  starts captures, a histogram someone else already uses, loads in separate
  chunks (`Consecutive`).
- `devices`: an interrupt the guest's own read took back (`missed`), a controller
  reset in the middle of a command (`ResetsBetween`), a
  guest that breaks the card's protocol (`KeepsToProtocol`), a host at three
  times the usual rate.

## Theorems

Proved by TLAPS for every value of the constants that the named assumption of
each module allows (`SizeAssumption`, `TableAssumption`, `ArrivalAssumption`,
`TreeAssumption`, `RecordersAssumption`, `ExtentAssumption`, `HostAssumption`, `RunAssumption`,
`DapAssumption`, `WatchAssumption`, `PcmAssumption`, `MidiAssumption`,
`StateAssumption`, `CardAssumption`, `VeraAssumption`, `RingAssumption`,
`BusAssumption`: types of the parameters,
that markers are not values, that a module's extent is an interval, that a
client is not one of the owners on this side, and for the clock that it does not
go round within a frame). A theorem that needs more of the settings states it as
a hypothesis, given below with the reason; the settings it shuts out are those
in which TLC finds the property violated, and `trackers`, `run_control`, `run_frames` (for
`FramesCounted`), `dap_breakpoints` and `dap_records` check instances that
satisfy what their property's theorem asks, unless said otherwise.

**IrqContext.** The inductive invariant `IInv` is type correctness, frames
strictly decreasing, the frames within the depth, every live handler recorded or
beyond a full array, and every live handler above the stack pointer. The last is
why retiring is sound: an entry retires exactly the frames at or below the
pointer, and no live handler can be there. `NeverTooLow` and
`BalancedReturnUnwinds` follow.

**BreakpointTable.** `IInv` is `TypeOK`, `WellFormed` and `PcMapExact` together;
well-formedness is what makes removing one entry remove one key, so that the
bitmap can be rebuilt from the rest and the mapping to claims loses exactly what
it should. `ShortcutSound` states what the bitmap is for. `Refinement` proves
`Spec => Claims!ClaimsSpec`: each call maps to a claim, a drop, a switch, or a
stutter, one lemma per operation. `Independence` needs more than the refinement,
which would let a call by one owner be a drop by another: it names the call, and
follows from the lemmas that say which claims it drops.

**BreakpointArrival.** `ArrivalInv` is the table's `IInv` with the types of the
records, which exist under normalised keys. `StopsExactlyWhenDue` is then about
the loop: an entry before the first that stops counts a hit on the way, in the
record of its own key, which no entry behind it has, since a table has a key
once and the entries that answer one arrival differ in theirs; so what the loop
finds when it gets to an entry is what the entry had at the start.

**ProfileTree.** `TreeInv` says of a capture under way that frames lie at
falling stack pointers, so that what `retire` takes is exactly what the stack has
risen past, and that each routine whose return address is still on the stack
has a frame under its name; a guest's frame that goes has lost its return
address by the same move. `RoutinesTracked` needs as many frames as the stack has places
(`StackTop <= MaxOpen`), which is 1024 for the 256 bytes of a 65C02's: the first
frame lies at most at the top, so that with falling pointers the array is never full.
`AccountsAgree` (`ClocksAreAccountedFor`) needs that as well, and that no
interrupt is taken past the deepest level counted (`NestingHeld`, an action
property of the guest: past it the two sides of the account do differ, see
*Disagreements*). While a capture runs and the pool has nodes left, its invariant
`AccInv` says of the tree (`Tidy`) that a node comes after its parent; of the open
frames (`PathOK`) that the level counts the interrupts among them, and that each
one's node is a child of the node of the frame below it, or of the interrupts'
root; of each node (`ChargedAt`) that the clocks spent in it and below it are what
its finished calls took and what its open frames have yet to be charged with; and
that its worst frame is the largest of those that are over (`WorstKept`). One
instruction adds its clocks to a whole path while a return settles a single frame, so
the third part needs the second. The sums are partial sums (`Total`, a recursive
function); what the proof needs of them is shown by the choice of a least
counterexample.

**Recorders.** `RecInv` says of the claims (`ClaimsFollow`) that a recorder runs
for somebody, that a capture's claim is there while it runs and its mask asks,
and of the switches only captures use (`OwnFollow`) that they are on for that
long. Arming claims one recorder after another and may fail at each: `Held`
is what an unfinished arming and its undoing have in common. The histogram has
one switch, put back to what it was (`HistFollows`), and `RecordersFollowWants`
holds where no client uses it meanwhile (`~HistogramInUse`). `SumInv` says that
of the ring as many of the newest frames as the capture counted, and the open
one once the guest ran, are not over before it; that the frame a capture starts
in has not run yet is the hypothesis `~PanelStarts`. Both are disagreements
listed below.

**DebugLoad, HostFs.** `LoadInv`: a module in the registry has one copy of its
segment and no other's lies in its extent, and it alone has lines there; so no
two of them overlap, and a module is forgotten by the same load that takes
its first address. `RegistryIsLive` is that. It needs (`Whole`) that
nothing has to be unloaded before a first debug file was accepted: some was there
from the start, or all are read whole (the disagreement of `RecordsOnce`).
`BankFollows` also needs that the loaded segment is the only one that begins at
the address and has the size; a shorter one that does would lie in the
module's extent. For any store of loads by itself, and for the loads of
`HostFs`. `LoadsAsLanded` holds by `HostInv` where guests transfer to consecutive
places (`Consecutive`): what a channel that can be read has collected is the
run of bytes its handle has moved, and a seek, a transfer elsewhere and a new
handle end both.

**RunControl.** The debugger's record is untyped but for its fields (`Shape`),
which is all an EXCEPT needs; for each handler a few lemmas say what it keeps,
whom it tells and when it stops, and each action of the loop is taken through
the handlers it calls, stage by stage of the full check. On that rest:

- `CpuOK` (the guest's PC and its return addresses stay in the program) is
  inductive; with it each stage of the full check is the identity where
  `DEBUGNothingToDo` holds, which is `ShortcutIsCheck`. The invariant is needed
  because "no step target" must not equal a PC.
- `CountedOnce` needs no hypothesis. The invariant `Counted` says when an
  arrival may have been counted already: not while the processor waits, nor
  after an interrupt, nor between the instruction and the poll, and at a poll
  only of a machine that has stopped there.
- `BreakpointsStop` holds by `StopInv` (a resume guard that did not move with
  the machine, and a visit to a stopping breakpoint, mean that the machine was
  seen stopped there) under `PlainOptions`: source steps are taken without a
  client, and a machine without an interface has no breakpoints of a person. A
  `continue` in the middle of a source step clears the resume guard's reason
  without testing what the step passed, the disagreement `MCRunLines` shows.
- `OneInstruction` holds by `SingleInv` (after a command to step, the machine
  has stopped, or stands where it was given, or has not been visited since its
  one instruction) under `StepOptions`: no source steps beside a client, and no
  watched store beside a graphical user. The last is stricter than the run: TLC
  finds the property violated by a user who steps out of a watched store's stop
  in a program whose handler begins with a jump to itself, which the run's
  program does not have. `Marked` supplies that a watched store's mark means the
  machine was just stopped and not checked since.
- `ClientKnows` and `AnnouncedOnce` hold by `KnowsInv` under `KnowsOptions`.
  `Owed` says that a session whose machine has stopped was told, or is owed it
  by a watched store's mark or a pending `x16/step`; `Informed`, that a session
  was told of a stopped machine only, at most once, and that no two of mark,
  count and telling go together, so that nothing tells a second time.
  `KnowsOptions` shuts out what breaks this: a watch or
  break-on-interrupt beside a graphical user, a watch with break-on-interrupt,
  frames counted under break-on-interrupt, and frames counted while a person may
  resume the machine (that resume is not announced, as `debug_server.c:4886`
  intends).
- `FramesCounted` needs no hypothesis (`FramesInv`): what counts is a request
  still its own, which one that takes over has cancelled first.

**DapBreakpoints.** `TypeInv` has the type of every list and one entry for a
line. `ListInv` adds `Keeping`: a verified entry is shown and its key is where
some debug info put it (`Bound`); a shown entry holds its claim or a person
deleted it, and each claim of a source is some shown entry's (`Book`); and its
record has the condition it states, unless an instruction breakpoint restated it
(`Told`). The last two are stated but for a set of places in the list that a
request has not done with yet, so that a request that works through the list
preserves them entry by entry; a load goes through its passes in the order of
`dbg_load_poll`. The theorems take `Reloads = FALSE`, as the two runs do: a load
that takes away what a breakpoint rests on breaks them (`MCDapReload`,
`MCDapReturn`).

- `PendingCatchesUp` follows from `Caught` with that alone.
- `ShownIsArmed` and `ArmedIsShown` also need (`KeepOptions`) that lines which
  share an address in one debug info share it in all, and that where any do no
  condition pins a bank: of two breakpoints on one key, moving one drops the
  claim of both (`MCDapRebank`).
- `ConditionAsStated` needs (`ApartOptions`) that no two lines share an address
  (`MCDapShared`), and that either no function or no key a person may delete is
  in play: a function breakpoint that moves takes along the condition record of
  a key, even where a person deleted the line's claim on it.
- `DumpsAreAsked` is proved for one session, with `DumpInv`; a second inherits
  the first's dumps (`MCDapDumps`).

**WatchpointTable.** `WatchInv` has the types of the entries, and that none is a
client's while no client is connected. What an owner's watches stop is a function
of them without their places and their other owners (`Profile`), and every call
on behalf of one owner but the narrowing of a filter keeps the profile of all
others; that is why `OthersUntouched` and `WatchesAsAsked` speak of lists without
conditions, and `MCWatchNarrowed` of what conditions do. A request adds its list entry by entry:
`TrailExists` and `Trail` take the table along the list, for lists of any length,
by the choice of a least counterexample.

**Sublists.** `PickedOf` says of a shortened list that its entries are those
that stay, in their order, and of what length. Increasing enumerations exist and
are unique, by induction over the set's size written as the choice of a least
counterexample.

**Devices.** `PlaysInOrder`: the read index is `count` behind the write index,
and the last bytes written are the last accepted, as many as the queue holds and
as many as stand from 0 to the write index, which is what a loop plays again.
`NothingStalls`: the guest was told of an empty transmitter or its interrupt is
pending or a byte is on its way, or its own read of the identification named
another interrupt and took this one back, and a waiting receiver's timer runs.
`ClocksAgree`: each of the three readers of the clock is as far behind as what
it was not given yet, modulo the wrap, where `StateAssumption` keeps what is
outstanding below one turn; `LoadsWhatWasSaved` follows from what is in a slot
being what was promised. `ImplementsProtocol`: the card has taken in of the guest's
frame what has arrived, and a read does not go on under a write, so each byte of a
frame is a stutter of `SdProtocol` and its last is the command or the packet; it
takes the hypothesis `KeepsToProtocol`, which `devices` sets and `MCSdReset`
does not. `VgaForecastComesTrue`: until it has come, a forecast is of the source
whose line comes next and what is left of it is the way there from the beam, or
nothing for a beam that is further along than that; so
a write that enables, disables or moves a source must forecast anew, the
beam's own steps take off what they advance, and one that is due and has not
come has a beam more than a line's width along. Steps are of any width. `ImplementsBytes`: `BusInv` says for
each phase of the guest where the bus stands in its byte, its mode and its count;
the last k bits the bus holds are the first k of the byte being sent, and what the
guest has taken of a byte it reads and what the bus still holds are that byte, so
each line change is a stutter of `SmcProtocol` but the one that ends a byte
written or begins a byte read. The place in a command is past its start only
between its first byte and its second, or the read. Hypotheses: resets find the
controller between commands (`ResetsBetween`, which `devices` sets and
`MCSmcReset` does not), and `PoliteGuests`, which the guest's programs in
`devices` are: a third byte written would land in the first place again, and a
register's number after which nothing is read leaves the place where it is for
the next transfer. `PacketsWhole`: `MouseInv` says that the ring holds what is left
of the packet under way and whole packets after it, and that what the guest has
read of a packet is as far along as the controller's count says, so the next byte
given is the packet's next and a packet that comes in the meantime goes behind it
whole or not at all. It speaks of whole bytes, and each line change is a step of
`SmcProtocol` or a stutter, so it is shown over that module's steps. The further
hypothesis is `MouseGuests`: packets are taken in the mode the same program has set,
each to its end, and no other transfer reads the mouse or changes its identity; the
guest's programs in `devices` are such. A guest that stopped in the middle would get the rest with its
next read.

Only model-checked, and why (the last item is about names alone):

- `FramesEnd` is liveness, which the prover does not reach.
- `TimersCountClocks` is about a RECURSIVE definition. `TotalsMatch` sums over the
  whole tree, and needs a guest that leaves its handlers in order; `MessagesWhole`
  parses a sequence by a fold. Either would need an induction of its own.
- `NothingLaps` depends on the rates themselves: at others it fails (see below).
- `HostLoadsAsLanded`, `OthersUntouched`, `WatchesAsAsked` and `StopsExactlyWhenDue`
  are a run's names for what the theorems `LoadsReportedAsLanded`,
  `WatchersKeepTheirs`, `ClientsWatchWhatTheyAsked` and `ArrivalsStopWhenDue` state
  in the modules themselves.

## Disagreements

Found while modelling. The first five are runs that end in a counterexample
and are listed in `PROJECT.json`; for the others the property is in the module
and the configuration that shows the counterexample is kept beside it, or the
table says what to change in which. `MCRun*` go with `MCRunControl`, `MCDap*`
with `MCDapBreakpoints`, `MCWatchNarrowed` with `MCBreakpointTable`,
`MCHostChunks` with `MCTrackers`, `MCViaTimers` with `ViaTimers`, and
`MCSdReset`, `MCSmcReset` and `MCFieldForecast` with `MCDevices`.

The debugger:

| Configuration | Property | What happens |
|---|---|---|
| `MCRunLines` | `SourceStepsStop` | every instruction of a source step arms the resume guard at the address just reached, so a breakpoint further along the same line is never tested (`debugger.c:787`; comment at 696) |
| `MCRunOrphan` | `NeverOrphaned` | a client that leaves in the middle of a plain step lets the step stop with nobody there (`debug_server.c:4653`; comment at 4641) |
| `MCDapReload` | `ArmedIsShown` | an invalidated breakpoint keeps `verified` with address 0, and the next `setBreakpoints` arms `$0000` (`debug_server.c:300`; comment at 1261) |
| `MCViaTimers` | `ClocksAreCounted` | a step that ends one clock past T1's zero takes one clock off where it took more, and counts the rest again off the reloaded timer (`via.c:179`; `tests/test_via_timers.c:3`) |
| `MCFieldForecast` | `ForecastComesTrue` | in a television mode the forecast of the next line interrupt is a line late for an odd compare line and a line early in the second field (`video.c:2958`; comment at 2956) |
| `MCDapReturn` | `PendingCatchesUp` | an invalidated breakpoint is not armed again when its program comes back (comment at `debug_server.c:265`) |
| `MCDapDiscard` | `ShownIsDescribed` | a load nothing describes unloads debug info and leaves the breakpoints in it armed and shown (`dbg_load.c:182`; comment at 358) |
| `MCDapRebank` | `ShownIsArmed` | of two source breakpoints sharing a key, moving one drops the claim of both (`debug_server.c:358`; comment at 1243) |
| `MCDapFunctions` | `FunctionsUnconditional` | a function breakpoint inherits the condition a removed breakpoint left (`debug_server.c:3965`; `debug_core.h:260`) |
| `MCDapDumps` | `DumpsAreAsked` | a session's end leaves its dumps on the records (`debug_server.c:4588`; comment at 4168) |
| `MCDapShared` | `ConditionAsStated` | of two files' breakpoints at one address, the one that stays keeps the other's condition (`debug_server.c:1266`; comment at 1248) |
| `MCRunControl`, `Options <- WatchLineOptions`, `ClientBps <- NoClientBps` | `OneInstruction` | a watchpoint stops a source step without ending it; the next plain step goes on to the next line (`debugger.c:658`) |
| `MCRunControl`, `Options <- WatchOptions`, `ClientBps <- NoClientBps` | `ClientKnows` | a person continues in the frame end after a watched store, and the stop is announced while the machine runs (`debugger.c:331`) |
| `MCRunControl`, `Options <- StackOptions`, `ClientBps <- NoClientBps` | `AnnouncedOnce` | an interrupt whose own pushes hit a watchpoint is announced twice (`debugger.c:331`; comment at 219) |
| `MCRunControl`, `Options <- BreakFramesOptions`, `ClientBps <- NoClientBps` | `AnnouncedOnce` | an interrupt taken after the last frame of an `x16/step` with events is announced under break-on-interrupt, and so is the end of the step (`debugger.c:307`; comments at `debugger.c:219` and `debug_server.c:2453`) |
| `MCTrackers`, `Trackers = {"arrivals"}`, invariant `EveryArrivalCounts` | `EveryArrivalCounts` | an arrival that one entry stops is not counted by the entries behind it (`debug_core.c:565`; `debug_core.h:243`) |
| `MCWatchNarrowed` | `ConditionsTouchNobody` | a watch that two owners share has one filter: a client's condition narrows what the other's watch stops for |
| `MCHostChunks` | `OnlyReplacedIsDropped` | a program that reads a data file through one buffer, block by block, is taken to have overwritten everything from there to as far as the file is long (`dbg_load.c:151`) |
| `MCTrackers`, `AtStart = {}`, invariant `RecordsOnce` | `RecordsOnce`, `RegistryIsLive` | nothing is unloaded before a first debug file was accepted, so one found half written is appended to by the next reading of it (`dbg_info.c:2099`; `dbg_load.c:61`) |
| `MCTrackers`, invariant `BusyIsInUse` | `BusyIsInUse` | a directory listing given up half-way counts as being read, and keeps every later state from being saved (`ieee.c:2554`) |

The profiler:

| Configuration | Property | What happens |
|---|---|---|
| `MCTrackers`, `MaxNested = 1` | `AccountsAgree` | past 16 nested interrupts the level is capped on the way in and not on the way out, and a handler's clocks count as the program's (`profile_cct.h:33`) |
| `MCTrackers`, `MaxOpen = 1` | `RoutinesTracked` | past the limit of 1024 open frames a routine has none, which a 65C02's stack does not reach |
| `MCTrackers`, `Orderly = FALSE` | `TotalsMatch` | a handler left other than by RTI, or a capture started in one, makes tree and histogram differ; the code then says so itself in `treeConsistent` (`profile_session.c:467`) |
| `MCTrackers`, `PanelStarts = TRUE` | `SummaryIsOfCapture` | a capture a person starts while a frame's last instructions are over and the frame is not counts that frame as its first (`profile_session.c:413`) |
| `MCTrackers`, `HistogramInUse = TRUE` | `RecordersFollowWants` | the histogram has one switch: a client that uses it during a capture, or leaves, changes it for the other (`debug_server.c:4609`; `profile_session.c:282`) |
| `MCTrackers`, invariant `PolledIsKept` | `PolledIsKept` | a client that finds the statistics running is not entered as wanting them, and loses them when the panel closes (`debug_server.c:3197`; `perf_budget.h:226`) |

The devices:

| Configuration | Property | What happens |
|---|---|---|
| `MCSdReset` | `IdleMeansIdle` | GO_IDLE_STATE, which "resets the SD memory card", leaves a multiple read running (`sdcard.c:485`) |
| `MCSdReset`, without that invariant | `WritesAsAsked` | a multiple read that was never stopped moves the block number on, and a write then goes to another block than its command named |
| `MCSmcReset` | `ImplementsBytes`, `PacketsWhole` | a reset in the middle of a command leaves the position within it and the packet's count (`smc.c:27`, `smc.c:31`) |
| `MCDevices`, `Devices = {"audio"}`, `Rates <- FastRates`, invariant `RingConsistent` | `RingConsistent` | at a host rate well above VERA's (8/3 of it in this configuration) one round makes more than a buffer of frames, and the ring is written past its reader |
| `MCDevices`, invariant `SilenceIsEmpty` | `SilenceIsEmpty` | a ring that is exactly full looks empty to the callback |
| `MCDevices`, invariant `TransmitterTells` | `TransmitterTells` | reading the identification withdraws the transmitter's interrupt also when the read named another, or none because this one was not yet enabled when that was last worked out, and a guest that goes by it is not told (`midi.c:784`, `midi.c:619`) |
| `MCDevices`, invariant `NeverLate` | `NeverLate` | after a host call the beam is behind the clock and makes up a line an instruction, and an interrupt forecast for that time comes late (`video.c:2058`, `main.c:2338`) |
| `MCDevices`, invariant `LoopsAsAsked` | `LoopsAsAsked` | a reset of the PCM queue leaves it looping (`vera_pcm.c:48`) |

Seen in reading, beyond what is modelled: `ieee_state_load` leaves the channels
a guest had open, and saves are then refused (`ieee.c:2573`); loading a state
resets the histogram and not the tree of a capture under way
(`savestate.c:361`, `profile_session.c:456`); on the very line of an enabled
interrupt `video_next_irq` answers 0 for the whole of the line (with
`forecast.lines > 0` dropped from `VgaForecastComesTrue` TLC shows it); a quiet
interface's tick disarms an open Performance panel 30 frames into a capture; a
slot save that runs out of memory gives up what the slot held (`savestate.c:436`); a
capture started by a marker charges the store that started it to bank 0
(`main.c:3083`); a MIDI real-time byte in the middle of a message is taken as a
parameter by `midi_byte_out`.

## Not modelled

- Instruction semantics, rendering, synthesis, the parser of debug info, the
  disassembler and the panels: sequential computation over data, without state
  that several parties share. They are most of the lines of the repository, and
  are better served by the unit tests it has.
- Windows, files and sockets themselves. What a failed open, a full socket or a
  dropped connection does to the emulator's own state is modelled.
- Text: messages, formats, names. A name is a member of a small set.
- What restart, `goto` and a loaded state do to the debugger's run state, the
  devices' own chunks, the clock chip, the joysticks' shift register
  and the serial bus's lines: state machines that would fit here and are not
  written yet.

## Plan

In order of importance.

1. `NeverOrphaned` where no step is under way.
2. `RunControl` completed: restart, `goto`, and a load under a stopped
   debugger; the other devices' chunks in `SaveState`.
3. The clock chip beside the controller on one bus, the joysticks, the serial
   bus's lines.
