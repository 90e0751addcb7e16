------------------------------ MODULE VeraIrq ------------------------------
(***************************************************************************)
(* VERA's interrupts and the beam they follow (video.c): two scan counters *)
(* run side by side, one for a VGA picture and one for the two fields of a *)
(* television's, and the one the mode names raises VSYNC and LINE.  The    *)
(* debugger's forecast of the next interrupt is made from the same         *)
(* counters by other arithmetic.                                           *)
(*                                                                         *)
(* Which colours a line gets is data; of drawing, what is left is that     *)
(* sprites may collide on a visible line.                                  *)
(***************************************************************************)
EXTENDS PcmFifo, Integers

CONSTANTS
    Scan,         \* lines of a picture, SCAN_HEIGHT
    Visible,      \* those shown, SCREEN_HEIGHT
    VgaWidth,     \* pixels of a line, VGA_SCAN_WIDTH
    HalfWidth,    \* NTSC_HALF_SCAN_WIDTH
    Low, High,    \* NTSC_Y_OFFSET_LOW and NTSC_Y_OFFSET_HIGH
    LowLines,     \* values of the IRQLINE_L register, 256 in the code
    Steps,        \* pixels an instruction takes, or a call of the host's in one lump
    MaxBehind     \* how far behind the clock the beam is followed

ASSUME VeraAssumption ==
    /\ {Scan, Visible, Low, High} \subseteq Nat /\ {VgaWidth, HalfWidth} \subseteq Nat \ {0}
    /\ Visible < Scan /\ Low < High
    /\ LowLines \in Nat \ {0} /\ 2 * LowLines <= Scan
    /\ Steps \subseteq Nat \ {0} /\ MaxBehind \in Nat

VARIABLES
    beam,       \* where the counters stand
    irq,        \* mode, enables, pending flags, compare line
    forecast    \* what the debugger was told, and the pixels left of it

veraVars == <<pcmVars, beam, irq, forecast>>

Vsync == "VSYNC"
Line == "LINE"
Collision == "SPRCOL"
Flow == "AFLOW"

NoForecast == [source |-> "none", left |-> 0, lines |-> 0, came |-> FALSE]

\* video_get_irq_out; the almost-empty flag is the queue's own.
IrqOut == (irq.isr \cup (IF AlmostEmpty THEN {Flow} ELSE {})) \cap irq.ien # {}

\* The picture's line a field counter is on.
FieldLine(y) == IF y < Scan THEN y - Low ELSE y - High

CurrentLine(b) == IF irq.ntsc THEN FieldLine(b.field) ELSE b.y

\* Fields hold every other line.
Compare == IF irq.ntsc THEN irq.line - (irq.line % 2) ELSE irq.line

(***************************************************************************)
(* video_step                                                              *)
(***************************************************************************)
\* A step ends one line at most, however wide it is: what is over stays in the
\* position, and the beam makes up a line a step.
BeamBehind == IF irq.ntsc THEN beam.half > HalfWidth ELSE beam.x > VgaWidth

\* A counter that starts over at the last line of a picture.
NextLineEarly(y) == (y + 1) % (Scan - 1)

NextLine(y) == (y + 1) % Scan

Moved(px) ==
    LET over == beam.x + px > VgaWidth
        overHalf == beam.half + px > HalfWidth
    IN  [x |-> IF over THEN beam.x + px - VgaWidth ELSE beam.x + px,
         y |-> IF over THEN NextLine(beam.y) ELSE beam.y,
         half |-> IF overHalf THEN beam.half + px - HalfWidth ELSE beam.half + px,
         field |-> IF overHalf THEN (beam.field + 1) % (2 * Scan) ELSE beam.field]

LineEnds(b) == IF irq.ntsc THEN b.field # beam.field ELSE b.y # beam.y

\* update_isr_and_coll
Raises(y, colliding) ==
    (IF y = Visible THEN {Vsync} ELSE {})
        \cup (IF y = Visible /\ colliding THEN {Collision} ELSE {})
        \cup (IF y = Compare THEN {Line} ELSE {})

\* A forecast is followed until it is due, and then for as long as the beam is
\* behind and it has not come.
Followed(px, raised) ==
    IF forecast = NoForecast \/ (forecast.left < 0 /\ (forecast.came \/ ~BeamBehind))
    THEN NoForecast
    ELSE [forecast EXCEPT !.left = IF px > @ THEN -1 ELSE @ - px,
                          !.came = @ \/ forecast.source \in raised]

VideoStep(px, hit) ==
    LET b == Moved(px)
        colliding == irq.colliding \/ hit
        raised == IF LineEnds(b) THEN Raises(CurrentLine(b), colliding) ELSE {}
    IN  /\ hit => LineEnds(b) /\ CurrentLine(beam) \in 0 .. Visible - 1
        /\ beam' = b
        /\ irq' = IF ~LineEnds(b) THEN irq
                  ELSE [irq EXCEPT !.isr = @ \cup raised,
                                   !.colliding = colliding /\ CurrentLine(b) # Visible]
        /\ forecast' = Followed(px, raised)
        /\ UNCHANGED pcmVars

(***************************************************************************)
(* video_next_irq                                                          *)
(***************************************************************************)
\* The line it takes the beam to be on.
SupposedLine == IF irq.ntsc THEN (beam.field % Scan) - Low ELSE beam.y

LinesUntil(target) == (target - SupposedLine + Scan) % Scan

Forecast ==
    LET lines == {LinesUntil(IF s = Vsync THEN Visible ELSE irq.line) :
                     s \in irq.ien \cap {Vsync, Line}}
        best == CHOOSE n \in lines : \A m \in lines : n <= m
        left == IF irq.ntsc THEN best * HalfWidth - beam.half ELSE best * VgaWidth - beam.x
    IN  [source |-> IF Vsync \in irq.ien /\ LinesUntil(Visible) = best THEN Vsync ELSE Line,
         left |-> IF left < 0 THEN 0 ELSE left,
         lines |-> best, came |-> FALSE]

Look ==
    /\ irq.ien \cap {Vsync, Line} # {}
    /\ forecast = NoForecast
    /\ forecast' = Forecast
    /\ UNCHANGED <<pcmVars, beam, irq>>

(***************************************************************************)
(* The guest's registers.  A forecast is for the settings it was made from. *)
(***************************************************************************)
Setting(i) == irq' = i /\ forecast' = NoForecast /\ UNCHANGED <<pcmVars, beam>>

\* IEN, which holds the compare line's ninth bit.
WriteIen(enables, high) ==
    Setting([irq EXCEPT !.ien = enables, !.line = high * LowLines + (@ % LowLines)])

WriteIrqLine(low) == Setting([irq EXCEPT !.line = (@ \div LowLines) * LowLines + low])

\* ISR: the flags written as ones go.
Acknowledge(flags) ==
    /\ irq' = [irq EXCEPT !.isr = @ \ flags]
    /\ UNCHANGED <<pcmVars, beam, forecast>>

\* DC_VIDEO
SetMode(ntsc) == Setting([irq EXCEPT !.ntsc = ntsc])

IrqAtRest == [ntsc |-> FALSE, ien |-> {}, isr |-> {}, line |-> 0, colliding |-> FALSE]

AtTop == [x |-> 0, y |-> 0, half |-> 0, field |-> 0]

\* video_reset, from CTRL or with the machine.
ResetVera ==
    /\ beam' = AtTop /\ irq' = IrqAtRest /\ forecast' = NoForecast
    /\ ResetPcm

\* The guest's sound, beside the picture.
Sound == PcmNext /\ UNCHANGED <<beam, irq, forecast>>

VeraInit == beam = AtTop /\ irq = IrqAtRest /\ forecast = NoForecast /\ PcmInit

Screen ==
    \/ \E px \in Steps, hit \in BOOLEAN :
          Moved(px).x <= MaxBehind /\ Moved(px).half <= MaxBehind /\ VideoStep(px, hit)
    \/ Look
    \/ \E enables \in SUBSET {Vsync, Line}, high \in 0 .. 1 : WriteIen(enables, high)
    \/ \E low \in 0 .. LowLines - 1 : WriteIrqLine(low)
    \/ \E flags \in {{Vsync}, {Line}, {Vsync, Line, Collision}} : Acknowledge(flags)
    \/ \E ntsc \in BOOLEAN : SetMode(ntsc)
    \/ ResetVera

VeraNext == Sound \/ Screen

-----------------------------------------------------------------------------
\* When a forecast is due its source has been raised and the processor was
\* interrupted, or the beam is behind and has that line still to make up; until
\* it is due no enabled source is raised.
ForecastHolds ==
    NoForecast \notin {forecast, forecast'} =>
        IF forecast'.left < 0
        THEN /\ forecast'.came \/ BeamBehind'
             /\ forecast'.came /\ ~forecast.came => IrqOut'
        ELSE (irq'.isr \ irq.isr) \cap irq.ien \subseteq {Collision}

\* In a VGA picture the next interrupt comes on the clock the debugger said
\* (video_next_irq against video_step and update_isr_and_coll), or where a call
\* of the host's put the beam behind the clock, before that has caught up; except
\* when the debugger looks on the very line of an enabled interrupt, of which it
\* says "now" for as long as the line lasts.
VgaForecastComesTrue == [][~irq.ntsc /\ forecast.lines > 0 => ForecastHolds]_veraVars

\* A forecast that is due has come, however wide the steps.  Not so: after a call
\* of the host's the beam is behind, and the interrupt with it.
NeverLate == ~irq.ntsc /\ forecast.lines > 0 /\ forecast.left < 0 => forecast.came

\* The same in every mode.  Not so: "in the same space as the compares in
\* update_isr_and_coll()" (video.c:2956), a field's second half and a compare on
\* an odd line are not.
ForecastComesTrue == [][forecast.lines > 0 => ForecastHolds]_veraVars
=============================================================================
