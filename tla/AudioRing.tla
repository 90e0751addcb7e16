----------------------------- MODULE AudioRing -----------------------------
(***************************************************************************)
(* How sound gets from the emulated chips to the host (audio.c).  The CPU's *)
(* clocks move the heads of the sources; when there is no more room, and   *)
(* whenever the guest touches a sound register, what they have produced is *)
(* resampled into a ring of frames, which the host's audio thread empties. *)
(*                                                                         *)
(* Two sources stand for three: the MIDI synthesiser runs in lockstep with *)
(* VERA.  A position is kept as its distance from the one that follows it; *)
(* the code keeps it modulo its buffer, and sees no more of it than that.  *)
(***************************************************************************)
EXTENDS Naturals

CONSTANTS
    Samples,    \* samples in a source's buffer, SAMPLES_PER_BUFFER
    Unit,       \* units of a position in one sample, 2^SAMP_POS_FRAC_BITS
    Vera, Ym,   \* units each source produces in a clock
    Rates,      \* host rates: the units of each that make one frame
    Buffers,    \* buffers in the ring
    MaxStep     \* clocks of the longest step

ASSUME AudioAssumption ==
    /\ Samples \in Nat \ (0 .. 5) /\ Unit \in Nat \ {0}
    /\ Vera \in Nat \ {0} /\ Ym \in Nat /\ Ym >= Vera
    /\ Rates \subseteq [vera : Nat \ {0}, ym : Nat \ {0}]
    /\ Buffers \in Nat \ {0} /\ MaxStep \in Nat

VARIABLES
    vera, ym,   \* units each source is ahead of the reader of its buffer
    rate,       \* what makes one frame for the host
    gap,        \* frames from rdidx to wridx, around the ring
    written,    \* buffer_written, in frames
    clocks      \* left of the step under way

audioVars == <<vera, ym, rate, gap, written, clocks>>

\* The sources' buffers and the ring, in their own units.
Span == Samples * Unit
RingSize == Samples * Buffers

\* What the resampling filter looks at beyond a frame's place.
Filter == 4 * Unit

Fewest(S) == CHOOSE n \in S : \A m \in S : n <= m

(***************************************************************************)
(* audio_render: what the sources hold becomes frames.                     *)
(***************************************************************************)
Frames(lag, each) == ((lag % Span) - Filter) \div each

\* A source that holds more than one frame beyond those taken skips one.
CatchUp(lag, each, taken) == IF Frames(lag, each) - taken > 1 THEN each ELSE 0

\* When more was written than the ring holds, the reader is moved on.
NoSkip(n) == 0

Skipped(n) == IF n > RingSize THEN (n \div RingSize) * Samples ELSE 0

\* Mixing, for sources that are v and y ahead.
Rendered(v, y) ==
    IF v % Span < Filter \/ y % Span < Filter
    THEN vera' = v /\ ym' = y /\ UNCHANGED <<gap, written>>
    ELSE LET taken == Fewest({Frames(v, rate.vera), Frames(y, rate.ym)})
             skip  == Skipped(written + taken)
         IN  /\ vera' = v - taken * rate.vera - CatchUp(v, rate.vera, taken)
             /\ ym' = y - taken * rate.ym - CatchUp(y, rate.ym, taken)
             /\ written' = written + taken - skip
             /\ gap' = (gap + taken + RingSize * Buffers - skip) % RingSize

(***************************************************************************)
(* The emulation's side.                                                   *)
(***************************************************************************)

\* The clocks until the YM2151, the faster source, would fill its buffer.
RoomToTheBrim(y) == ((2 * Span - (y % Span) - 1) % Span) \div Ym

Room(y) == ((2 * Span - (y % Span) - Unit) % Span) \div Ym

\* audio_step, from the main loop.
BeginStep ==
    /\ clocks = 0
    /\ clocks' \in 1 .. MaxStep
    /\ UNCHANGED <<vera, ym, rate, gap, written>>

\* One turn of its loop.
Turn ==
    /\ clocks > 0
    /\ LET n == Fewest({clocks, Room(ym)})
           v == vera + n * Vera
           y == ym + n * Ym
       IN  /\ clocks' = clocks - n
           /\ IF n < clocks
              THEN Rendered(v, y)
              ELSE vera' = v /\ ym' = y /\ UNCHANGED <<gap, written>>
    /\ UNCHANGED <<rate>>

\* audio_render from a sound register, or at the end of a frame.
Flush ==
    /\ clocks = 0
    /\ Rendered(vera, ym)
    /\ UNCHANGED <<rate, clocks>>

\* A saved state is loaded: one saved at the start, or as late after it as
\* nothing had been read yet.
LoadAudio ==
    /\ clocks = 0
    /\ \E k \in {0, Room(0)} : vera' = k * Vera /\ ym' = k * Ym
    /\ gap' = 0 /\ written' = 0
    /\ UNCHANGED <<rate, clocks>>

(***************************************************************************)
(* The host's audio thread, if there is a device, while nothing is mixed.  *)
(***************************************************************************)
Callback ==
    /\ LET played == Fewest({Samples, gap})
       IN  gap' = gap - played /\ written' = written - played
    /\ UNCHANGED <<vera, ym, rate, clocks>>

AudioInit ==
    /\ vera = 0 /\ ym = 0
    /\ rate \in Rates
    /\ gap = 0 /\ written = 0
    /\ clocks = 0

AudioNext == BeginStep \/ Turn \/ Flush \/ LoadAudio \/ Callback

AudioSpec == AudioInit /\ [][AudioNext]_audioVars

(***************************************************************************)
(* Properties.                                                             *)
(***************************************************************************)

\* No source runs around its buffer into the sample being read, and no reader
\* past its source, at any host rate, through rounding, skips and loads,
\* though room is looked for in one of the buffers only (audio.c audio_step:
\* "Only the source with the higest sample rate (YM2151) is needed").
NoSourceLaps == vera \in 0 .. Span - Unit /\ ym \in 0 .. Span - Unit

\* The ring is not written over before it is read, and the count of what is in
\* it agrees with its ends (audio.c audio_render: "Prevent the buffer from
\* overflowing by skipping the read pointer ahead").  Violated at host rates
\* that make more than a buffer of frames of a source's buffer.
RingConsistent == written <= RingSize /\ gap = written % RingSize

\* Nothing on the way of sound laps what reads it.
NothingLaps == NoSourceLaps /\ RingConsistent

\* The host plays silence only when nothing is waiting.  Violated: a ring that
\* is exactly full looks empty.
SilenceIsEmpty == written > 0 => gap > 0
============================================================================
