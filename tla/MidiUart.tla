------------------------------ MODULE MidiUart ------------------------------
(***************************************************************************)
(* One serial port of the MIDI card (midi.c): what the host's MIDI driver  *)
(* hears, on a thread of its own, is put into a queue as a stream of bytes *)
(* with running status, which the port takes a bit at a time; and what the *)
(* guest sends leaves by the transmitter.                                  *)
(*                                                                         *)
(* The line is set as MIDI wants it.  What the bytes in the receiver are,  *)
(* what the synthesiser makes of those sent, and the modem lines with      *)
(* their interrupt, which is named last of all, are left out.              *)
(***************************************************************************)
EXTENDS Naturals, SequencesExt

CONSTANTS
    HeardSize,    \* places in midi_event_fifo, 256
    FifoSize,     \* places in the port's own queues, 16
    CharBits,     \* bits of a character, 10
    Levels,       \* how many bytes the receiver may wait for, 1, 4, 8 or 14
    Enables,      \* what the guest enables together
    Messages      \* what the driver hears, each a status byte and its data

ASSUME MidiAssumption ==
    /\ HeardSize \in Nat \ {0} /\ FifoSize \in Nat \ {0} /\ CharBits \in Nat \ {0, 1}
    /\ Levels \subseteq Nat /\ Enables \subseteq SUBSET {"status", "data", "thre"}
    /\ Messages \subseteq Seq(0 .. 255) \ {<<>>}

VARIABLES
    uart,       \* the port
    told,       \* the guest was told that the last byte it sent has gone
    missed,     \* not in the code: that was taken back, and another thing said
    reader,     \* MIDI's reading of the bytes the port has taken
    accepted    \* messages accepted whose bytes it has not taken

midiVars == <<uart, told, missed, reader, accepted>>

\* Of an overrun, of bytes received and of an empty transmitter.
Interrupts == {"status", "data", "thre"}

\* Status bytes that are not a channel's.
SysEx == 240
TimeCode == 241
TuneRequest == 246
SysExEnd == 247
Clocking == 248      \* the first of the real-time messages

(***************************************************************************)
(* handle_midi_event: a message becomes bytes, or is dropped.              *)
(***************************************************************************)

\* midi_event_enqueue_normal, _short: the status only where it is another.
\* After a message dropped the next one states its own again.
Running(u, m) ==
    IF Len(u.heard) >= HeardSize - (Len(m) - 1)
    THEN [u EXCEPT !.last = 0]
    ELSE [u EXCEPT !.heard = @ \o (IF u.last = m[1] THEN Tail(m) ELSE m), !.last = m[1]]

Single(u, m) == IF Len(u.heard) >= HeardSize THEN u ELSE [u EXCEPT !.heard = @ \o m]

Exclusive(u, m) == IF Len(u.heard) >= HeardSize - 1 - Len(m) THEN u ELSE [u EXCEPT !.heard = @ \o m]

\* A slip: system messages leave the running status as it was.
HeardOnTop(u, m) ==
    CASE m[1] = SysEx -> Exclusive(u, m)
      [] m[1] >= TuneRequest -> Single(u, m)
      [] OTHER -> Running(u, m)

Heard(u, m) ==
    CASE m[1] = SysEx -> [Exclusive(u, m) EXCEPT !.last = 0]
      [] m[1] = TuneRequest -> [Single(u, m) EXCEPT !.last = 0]
      [] m[1] >= Clocking -> Single(u, m)
      [] m[1] = TimeCode -> [Running(u, m) EXCEPT !.last = 0]
      [] OTHER -> Running(u, m)

(***************************************************************************)
(* How MIDI reads a stream of bytes: d.out is what it has made of it.      *)
(***************************************************************************)
Unread == [status |-> 0, params |-> <<>>, out |-> <<>>]

DataOf(status) == IF status \div 16 = 12 \/ status \div 16 = 13 \/ status = TimeCode THEN 1 ELSE 2

Fed(d, b) ==
    LET params == Append(d.params, b)
    IN  CASE b >= Clocking -> [d EXCEPT !.out = Append(@, <<b>>)]
          [] b = TuneRequest -> [status |-> 0, params |-> <<>>, out |-> Append(d.out, <<b>>)]
          [] b = SysExEnd ->
                [status |-> 0, params |-> <<>>, out |-> Append(d.out, <<d.status>> \o params)]
          [] b >= 128 /\ b < TuneRequest -> [d EXCEPT !.status = b, !.params = <<>>]
          [] b < 128 /\ (d.status = SysEx \/ Len(params) < DataOf(d.status)) ->
                [d EXCEPT !.params = params]
          [] OTHER ->
                [status |-> IF d.status = TimeCode THEN 0 ELSE d.status, params |-> <<>>,
                 out |-> Append(d.out, <<d.status>> \o params)]

(***************************************************************************)
(* One bit of midi_serial_step.                                            *)
(***************************************************************************)
Down(n) == IF n = 0 THEN 0 ELSE n - 1

Places(u) == IF u.fifo THEN FifoSize ELSE 1

\* Bytes enough have come, or some and then nothing for a while.
DataDue(u) == u.in > 0 /\ (~u.fifo \/ u.in >= u.level \/ (u.timing /\ u.timeout = 0))

\* midi_serial_iir_check: the first that is due and enabled is named, and stays so
\* until this is asked again.
FirstDue(u) ==
    LET due == {i \in u.ier : \/ i = "status" /\ u.oe
                              \/ i = "data" /\ DataDue(u)
                              \/ i = "thre" /\ u.thre}
    IN  IF "status" \in due THEN "status"
        ELSE IF "data" \in due THEN "data"
        ELSE IF "thre" \in due THEN "thre"
        ELSE "none"

Checked(u) == [u EXCEPT !.named = FirstDue(u)]

\* The transmitter: the next byte leaves when the last has, and the guest is to
\* be told when none is left, or a little after it wrote the first.
Transmitted(u) ==
    LET bits == Down(u.outBits)
    IN  IF u.out = 0
        THEN [u EXCEPT !.outBits = bits, !.threBits = Down(@), !.thre = @ \/ u.threBits = 1]
        ELSE IF bits > 0 THEN [u EXCEPT !.outBits = bits]
        ELSE [u EXCEPT !.out = @ - 1, !.outBits = CharBits,
                       !.thre = @ \/ (u.out = 1 /\ u.threBits = 0)]

\* The receiver takes a byte from the driver's queue, and loses it where there
\* is no room.
Receives(u) == u.heard # <<>> /\ Down(u.inBits) = 0

Received(u) ==
    IF ~Receives(u)
    THEN [u EXCEPT !.inBits = IF u.heard = <<>> THEN @ ELSE Down(@), !.timeout = Down(@)]
    ELSE LET room == u.in < Places(u)
         IN  [u EXCEPT !.heard = Tail(@), !.inBits = CharBits, !.in = IF room THEN @ + 1 ELSE @,
                       !.oe = @ \/ ~room, !.timing = @ \/ room,
                       !.timeout = IF room THEN 4 * CharBits ELSE Down(@)]

Hear ==
    \E m \in Messages :
        LET u == Heard(uart, m)
        IN  /\ uart' = u
            /\ accepted' = IF Len(u.heard) > Len(uart.heard) THEN Append(accepted, m) ELSE accepted
            /\ UNCHANGED <<told, missed, reader>>

Bit ==
    LET taken == Fed([reader EXCEPT !.out = <<>>], uart.heard[1])
    IN  /\ uart' = Checked(Received(Transmitted(uart)))
        /\ IF Receives(uart)
           THEN /\ reader' = [taken EXCEPT !.out = <<>>]
                /\ accepted' = SubSeq(accepted, Len(taken.out) + 1, Len(accepted))
           ELSE UNCHANGED <<reader, accepted>>
        /\ UNCHANGED <<told, missed>>

(***************************************************************************)
(* The guest's registers.                                                  *)
(***************************************************************************)

\* midi_serial_dequeue_ibyte
TakeByte ==
    /\ uart.in > 0
    /\ uart' = Checked([uart EXCEPT !.in = @ - 1, !.timing = uart.in > 1,
                                    !.timeout = IF uart.in > 1 THEN 4 * CharBits ELSE @])
    /\ UNCHANGED <<told, missed, reader, accepted>>

\* midi_serial_enqueue_obyte, where there is room.
Sent(u) ==
    [u EXCEPT !.out = @ + 1, !.thre = FALSE,
              !.threBits = IF u.out > 0 THEN 0 ELSE IF u.fifo THEN CharBits - 1 ELSE @]

SendByte ==
    /\ IF uart.out < Places(uart)
       THEN uart' = Checked(Sent(uart)) /\ told' = FALSE /\ missed' = FALSE
       ELSE uart' = Checked(uart) /\ UNCHANGED <<told, missed>>
    /\ UNCHANGED <<reader, accepted>>

\* Reading the interrupt identification says what was named, and withdraws the
\* transmitter's whichever that was.
AskInterrupt ==
    LET gone == uart.thre /\ uart.out = 0
    IN  /\ uart' = Checked([uart EXCEPT !.thre = FALSE])
        /\ told' = (told \/ (gone /\ uart.named = "thre"))
        /\ missed' = (~told' /\ (missed \/ gone))
        /\ UNCHANGED <<reader, accepted>>

\* The line status tells of an empty transmitter, and forgets an overrun.
ReadLineStatus ==
    /\ uart' = [uart EXCEPT !.oe = FALSE]
    /\ told' = (told \/ uart.out = 0)
    /\ missed' = (~told' /\ missed)
    /\ UNCHANGED <<reader, accepted>>

\* The interrupt enable register: what is named stays until something else happens.
WriteIer ==
    /\ \E ier \in Enables : uart' = [uart EXCEPT !.ier = ier]
    /\ UNCHANGED <<told, missed, reader, accepted>>

\* A slip: emptying the transmitter tells nobody.
ControlledQuietly(u, level, emptyIn, emptyOut) ==
    [u EXCEPT !.fifo = level > 0, !.level = IF level > 0 THEN level ELSE 1,
              !.in = IF emptyIn THEN 0 ELSE @, !.out = IF emptyOut THEN 0 ELSE @]

\* The FIFO control register; without FIFOs one byte is enough to be told of.
Controlled(u, level, emptyIn, emptyOut) ==
    [u EXCEPT !.fifo = level > 0, !.level = IF level > 0 THEN level ELSE 1,
              !.in = IF emptyIn THEN 0 ELSE @, !.out = IF emptyOut THEN 0 ELSE @,
              !.thre = @ \/ u.threBits = 0]

ControlFifo ==
    /\ \E level \in Levels \cup {0}, emptyIn, emptyOut \in BOOLEAN :
          uart' = Checked(Controlled(uart, level, emptyIn, emptyOut))
    /\ UNCHANGED <<told, missed, reader, accepted>>

\* midi_serial_init, while the driver is not in its handler.
AtReset ==
    [heard |-> <<>>, last |-> 0, fifo |-> FALSE, in |-> 0, inBits |-> CharBits, timing |-> FALSE,
     timeout |-> 0, out |-> 0, outBits |-> 0, thre |-> FALSE, threBits |-> 0,
     ier |-> {}, oe |-> FALSE, level |-> 1, named |-> "none"]

ResetMidi ==
    /\ uart' = AtReset /\ told' = TRUE /\ missed' = FALSE
    /\ reader' = Unread /\ accepted' = <<>>

MidiInit ==
    uart = AtReset /\ told = TRUE /\ missed = FALSE /\ reader = Unread /\ accepted = <<>>

MidiNext ==
    \/ Hear \/ Bit \/ TakeByte \/ SendByte \/ AskInterrupt \/ ReadLineStatus \/ WriteIer
    \/ ControlFifo \/ ResetMidi

MidiSpec == MidiInit /\ [][MidiNext]_midiVars

(***************************************************************************)
(* Properties.                                                             *)
(***************************************************************************)

\* What the driver's queue holds reads, from where the port has got to, as the
\* messages that were accepted and nothing else: none is cut short by a full
\* queue, none comes under another's status, and none waits for a byte that is
\* not there (midi.c, midi_event_enqueue_normal and its siblings).
MessagesWhole ==
    LET all == FoldLeft(Fed, reader, uart.heard)
    IN  all.out = accepted /\ all.params = <<>>

\* Of an empty transmitter the guest was told, is being told, or will be.  A read
\* of the interrupt identification that names another interrupt, or none because
\* this one was not enabled when it was last asked, takes this one back (midi.c,
\* midi_serial_read), and then it is not so.
TransmitterTells == uart.out = 0 => told \/ uart.thre \/ uart.threBits > 0

\* A guest driven by interrupts is left waiting by nothing else: a byte in the
\* receiver will time out if it is not enough to be told of at once, and unless
\* its own read missed it the guest hears of an empty transmitter, through late
\* interrupts, writes, and resets of the queues.
NothingStalls ==
    /\ uart.in > 0 => uart.timing
    /\ TransmitterTells \/ missed
=============================================================================
