------------------------------ MODULE HostFs ------------------------------
(***************************************************************************)
(* The DOS device the emulator serves from the host's files (ieee.c): the  *)
(* KERNAL's serial-bus calls, intercepted one at a time, the channels they *)
(* open, and what each call tells the debugger about a program coming into *)
(* memory (dbg_load.c, in DebugLoad).  The intercept and the poll that     *)
(* follows it in the main loop are one step.                               *)
(*                                                                         *)
(* A name is a file with a mode, the directory, or nothing; it arrives in  *)
(* one call.  What is in the files, the text of the error channel, the     *)
(* paths, the history rows and the DOS commands other than the seek are    *)
(* left out.                                                               *)
(***************************************************************************)
EXTENDS DebugLoad, Functions

CONSTANTS
    Names,      \* what a guest may send as a name
    File,       \* name -> the host file it means, Nil for the directory
    Mode,       \* name -> what its suffix asks for, a subset of {"r", "w"}
    Refused,    \* names that do not resolve, or would overwrite a file
    Missing,    \* host files that cannot be opened
    Size,       \* host file -> its length
    Seeks,      \* the seeks guests send: a channel and a position
    Targets,    \* where they have a file put: an address and a bank
    BankCount,  \* RAM bank numbers wrap here, 256 in the code
    Consecutive     \* guests talk or listen, and carry on where a transfer ended

ASSUME HostAssumption ==
    /\ Channels \subseteq 0 .. 14
    /\ File \in [Names -> Files \cup {Nil}] /\ Mode \in [Names -> SUBSET {"r", "w"}]
    /\ Size \in [Files -> Nat \ {0}] /\ BankCount \in Nat \ {0}
    /\ Targets \subseteq [addr : 1 .. Top, bank : Banks]
    /\ Consecutive \in BOOLEAN

VARIABLES
    listening, talking, opening,   \* the bus, as this device sees it
    channel,    \* the channel last addressed
    nameSent,      \* a name has come for the open under way
    chans,      \* channel -> its name, directions and host handle
    listing,    \* the directory listing has more to give
    command,    \* the seek waiting in the command buffer
    landed,     \* history: where the bytes of an open handle went
    run         \* history: where those of the load just finished went

busVars == <<listening, talking, opening, channel, nameSent, listing, command>>

hostVars == <<dbgVars, busVars, chans, landed, run>>

CommandChannel == 15

Shut == [name |-> Nil, read |-> FALSE, write |-> FALSE, file |-> Nil, can |-> {}, pos |-> 0]

\* A history of bytes: none yet, or not one run any more.
Nowhere == [first |-> Nil, next |-> Nil, count |-> 0, straight |-> TRUE]

Crooked == [Nowhere EXCEPT !.straight = FALSE]

IsDirectory(name) == name # Nil /\ File[name] = Nil

\* The place n bytes on: the bank window is left at its end for its start, in
\* the next bank.
Onward(p, n) ==
    LET at == p.addr + n
        lo == CHOOSE a \in Window : \A b \in Window : a <= b
        w  == Cardinality(Window)
    IN  IF Window = {} \/ p.addr >= lo + w \/ at < lo + w
        THEN [p EXCEPT !.addr = at]
        ELSE [addr |-> lo + ((at - lo) % w), bank |-> (p.bank + ((at - lo) \div w)) % BankCount]

(***************************************************************************)
(* Opening and closing.                                                    *)
(***************************************************************************)

\* cclose: the handle goes, and with it a load that is not complete.
Close(c) == [chans EXCEPT ![c] = [@ EXCEPT !.name = Nil, !.file = Nil, !.can = {}, !.pos = 0]]

\* Channels 0 and 1 are for LOAD and SAVE whatever the suffix says.
Directions(c, name) ==
    IF c <= 1 THEN {IF c = 0 THEN "r" ELSE "w"}
    ELSE IF name = Nil \/ Mode[name] = {} THEN {"r"} ELSE Mode[name]

\* copen: an empty name and a refused one leave the old handle; a listing
\* opens none.  A file opened for reading is announced before it is known
\* whether it could be opened.
Open(c, name) ==
    LET ways  == Directions(c, name)
        ready == [chans[c] EXCEPT !.name = name, !.read = "r" \in ways, !.write = "w" \in ways]
        found == File[name] \notin Missing
    IN  IF name = Nil \/ name \in Refused
        THEN /\ chans' = [chans EXCEPT ![c] = ready]
             /\ UNCHANGED <<collecting, listing, landed>>
        ELSE IF IsDirectory(name)
        THEN /\ "w" \notin ways
             /\ chans' = [chans EXCEPT ![c] = ready]
             /\ listing' \in BOOLEAN
             /\ UNCHANGED <<collecting, landed>>
        ELSE /\ chans' = [chans EXCEPT ![c] =
                            [ready EXCEPT !.file = IF found THEN File[name] ELSE Nil,
                                          !.can = IF found THEN ways ELSE {},
                                          !.pos = 0]]
             /\ collecting' = IF "r" \in ways THEN Begin(c, File[name]) ELSE collecting
             /\ landed' = [landed EXCEPT ![c] = Nowhere]
             /\ UNCHANGED listing

\* cseek: what has landed is no longer one run.
Seek(to) ==
    IF to = Nil \/ to.channel \notin Channels \/ chans[to.channel].file = Nil
    THEN UNCHANGED <<chans, collecting, landed>>
    ELSE /\ chans' = [chans EXCEPT ![to.channel].pos = to.pos]
         /\ collecting' = Abandon(to.channel)
         /\ landed' = [landed EXCEPT ![to.channel] = Crooked]

\* No load is finished, and nothing becomes of one.
Quiet ==
    /\ Unfinished
    /\ run' = Nowhere
    /\ UNCHANGED enabled

(***************************************************************************)
(* The calls.                                                              *)
(***************************************************************************)
Listen ==
    /\ Consecutive => ~talking
    /\ listening' = TRUE
    /\ Quiet
    /\ UNCHANGED <<collecting, talking, opening, channel, nameSent, listing, command, chans, landed>>

Talk ==
    /\ Consecutive => ~listening
    /\ talking' = TRUE
    /\ Quiet
    /\ UNCHANGED <<collecting, listening, opening, channel, nameSent, listing, command, chans, landed>>

\* SECOND after LISTEN: write, close or open.
Second(c, what) ==
    /\ listening
    /\ Consecutive => ~opening
    /\ channel' = c
    /\ opening' = (what = "open")
    /\ nameSent' = FALSE
    /\ IF what = "close" /\ c \in Channels
       THEN /\ chans' = Close(c)
            /\ collecting' = Abandon(c)
            /\ landed' = [landed EXCEPT ![c] = Nowhere]
       ELSE UNCHANGED <<chans, collecting, landed>>
    /\ Quiet
    /\ UNCHANGED <<listening, talking, listing, command>>

TalkSecond(c) ==
    /\ talking
    /\ channel' = c
    /\ Quiet
    /\ UNCHANGED <<collecting, listening, talking, opening, nameSent, listing, command, chans, landed>>

\* CIOUT: a name while opening; the channel's name is overwritten at once.
SendName(name) ==
    /\ listening /\ opening /\ ~nameSent /\ channel \in Channels
    /\ nameSent' = TRUE
    /\ chans' = [chans EXCEPT ![channel].name = name]
    /\ Quiet
    /\ UNCHANGED <<collecting, listening, talking, opening, channel, listing, command, landed>>

\* CIOUT to the command channel: a seek is not ended by a return, and bytes
\* that follow one in the buffer are never looked at.
SendCommand(to) ==
    /\ listening /\ ~opening /\ channel = CommandChannel
    /\ command' = IF command = Nil THEN to ELSE command
    /\ Quiet
    /\ UNCHANGED <<collecting, listening, talking, opening, channel, nameSent, listing, chans, landed>>

\* UNLISTEN ends a name and opens, or ends a command and runs it.
Unlisten ==
    /\ listening
    /\ listening' = FALSE
    /\ opening' = FALSE /\ nameSent' = FALSE
    /\ \/ /\ opening /\ channel \in Channels
          /\ Open(channel, IF nameSent THEN chans[channel].name ELSE Nil)
          /\ UNCHANGED command
       \/ /\ ~opening /\ channel = CommandChannel
          /\ Seek(command)
          /\ command' = Nil
          /\ UNCHANGED listing
       \/ /\ ~opening /\ channel # CommandChannel
          /\ UNCHANGED <<chans, collecting, landed, listing, command>>
    /\ Quiet
    /\ UNCHANGED <<talking, channel>>

Untalk ==
    /\ talking
    /\ talking' = FALSE
    /\ Quiet
    /\ UNCHANGED <<collecting, listening, opening, channel, nameSent, listing, command, chans, landed>>

Left(c) == Size[chans[c].file] - chans[c].pos

\* n bytes of the handle are read; the last one closes the channel.
Consumed(c, n) ==
    IF n = Left(c)
    THEN [Close(c) EXCEPT ![c].read = FALSE]
    ELSE [chans EXCEPT ![c].pos = @ + n]

\* The history of the bytes that leave a handle after them open.
Still(l, n) == [landed EXCEPT ![channel] = IF n = Left(channel) THEN Nowhere ELSE l]

\* n bytes that went where a load does not put them.
Astray(n) ==
    Still(IF landed[channel].count = 0 THEN landed[channel] ELSE Crooked, n)

Readable(c) ==
    /\ c \in Channels
    /\ chans[c].read /\ ~IsDirectory(chans[c].name)
    /\ chans[c].file # Nil /\ "r" \in chans[c].can
    /\ Left(c) > 0

\* ACPTR: one byte, into the processor; never reported as a load.
ReadByte ==
    /\ talking
    /\ Consecutive /\ channel \in Channels => landed[channel].count = 0
    /\ \/ /\ channel \in Channels /\ chans[channel].read
          /\ IsDirectory(chans[channel].name)
          /\ listing' \in {FALSE, listing}
          /\ UNCHANGED <<chans, collecting, landed>>
       \/ /\ Readable(channel)
          /\ chans' = Consumed(channel, 1)
          /\ collecting' = IF Left(channel) = 1 THEN Abandon(channel) ELSE collecting
          /\ landed' = Astray(1)
          /\ UNCHANGED listing
    /\ Quiet
    /\ UNCHANGED <<listening, talking, opening, channel, nameSent, command>>

\* The history of a channel's bytes, n more of them from place p on.
Landing(l, p, n) ==
    IF ~l.straight \/ (l.count > 0 /\ l.next # p) THEN Crooked
    ELSE [first |-> IF l.count = 0 THEN p ELSE l.first,
          next |-> Onward(p, n),
          count |-> l.count + n,
          straight |-> TRUE]

\* MACPTR: n bytes into memory, each told to the debugger; the last byte of
\* the file finishes the load before it closes the channel.
ReadBlock(p, n) ==
    LET r    == Noted(collecting[channel], p.addr, p.bank, n)
        last == n = Left(channel)
    IN  /\ talking /\ Readable(channel)
        /\ n <= Left(channel)
        /\ IF Consecutive /\ landed[channel].count > 0
           THEN p = landed[channel].next
           ELSE p \in Targets
        /\ chans' = Consumed(channel, n)
        /\ collecting' = [collecting EXCEPT ![channel] = IF last THEN Idle ELSE r]
        /\ landed' = Still(Landing(landed[channel], p, n), n)
        /\ run' = IF last THEN Landing(landed[channel], p, n) ELSE Nowhere
        /\ Poll(IF last THEN r ELSE NoLoad)
        /\ UNCHANGED <<busVars, enabled>>

\* MACPTR in stream mode, every byte to one address: not reported.
Stream(n) ==
    /\ talking /\ Readable(channel)
    /\ n <= Left(channel)
    /\ Consecutive => landed[channel].count = 0
    /\ chans' = Consumed(channel, n)
    /\ collecting' = IF n = Left(channel) THEN Abandon(channel) ELSE collecting
    /\ landed' = Astray(n)
    /\ Quiet
    /\ UNCHANGED busVars

\* XMACPTR into another bank of the 65816: the load is given up.
ReadFar(n) ==
    /\ talking /\ Readable(channel)
    /\ n <= Left(channel)
    /\ chans' = Consumed(channel, n)
    /\ collecting' = Abandon(channel)
    /\ landed' = Still(Crooked, n)
    /\ Quiet
    /\ UNCHANGED busVars

\* A machine reset closes every channel and forgets what was mid-flight; the
\* listing, the channel addressed and the command buffer stay.
ResetHost ==
    /\ chans' = [c \in Channels |-> [chans[c] EXCEPT !.name = Nil, !.file = Nil, !.can = {}, !.pos = 0]]
    /\ collecting' = [c \in Channels |-> Idle]
    /\ listening' = FALSE /\ talking' = FALSE /\ opening' = FALSE /\ nameSent' = FALSE
    /\ landed' = [c \in Channels |-> Nowhere]
    /\ Quiet
    /\ UNCHANGED <<channel, listing, command>>

\* The debugger is switched on or off; its other operation on the store,
\* Replace, touches nothing of this device.
Debugger ==
    /\ Follow
    /\ run' = Nowhere
    /\ UNCHANGED <<busVars, chans, landed>>

HostInit ==
    /\ DbgInit
    /\ listening = FALSE /\ talking = FALSE /\ opening = FALSE
    /\ channel = 0 /\ nameSent = FALSE
    /\ chans = [c \in Channels |-> Shut]
    /\ listing = FALSE /\ command = Nil
    /\ landed = [c \in Channels |-> Nowhere]
    /\ run = Nowhere

HostNext ==
    \/ Listen \/ Talk \/ Unlisten \/ Untalk \/ ReadByte \/ ResetHost \/ Debugger
    \/ \E c \in Channels \cup {CommandChannel} :
          TalkSecond(c) \/ \E what \in {"write", "close", "open"} : Second(c, what)
    \/ \E name \in Names : SendName(name)
    \/ \E to \in Seeks : SendCommand(to)
    \/ \E n \in 1 .. Top :
          \/ Stream(n) \/ ReadFar(n)
          \/ \E p \in Targets \cup {l.next : l \in Range(landed)} : ReadBlock(p, n)

HostSpec == HostInit /\ [][HostNext]_hostVars

(***************************************************************************)
(* Properties.                                                             *)
(***************************************************************************)

\* What a finished load is said to be, its file, where it starts, in which
\* bank, and its size, is one run of that file's bytes, to its end: through
\* two channels at once, seeks, reopened and reset channels, transfers to
\* elsewhere and a debugger switched on half-way.  For guests that transfer a
\* file to consecutive places (ieee.c MACPTR, dbg_load.c dbg_load_note_byte).
LoadsAsLanded ==
    pending.path # Nil =>
        /\ run.straight
        /\ run.first = [addr |-> pending.addr, bank |-> pending.bank]
        /\ run.count = pending.size

\* Debug info goes only when every byte it describes was overwritten, or
\* other debug info takes its place (dbg_load.c discard_range: "Unload the
\* debug info of any module it completely replaced").  Violated by a program
\* that reads a data file through one buffer, block by block.
OnlyReplacedIsDropped ==
    [][ LET ev == pending'
        IN  ev.path # Nil /\ Extent[ev.path] = {} =>
                \A f \in registry \ registry' :
                    /\ run'.straight
                    /\ Extent[f] \subseteq ev.addr .. ev.addr + ev.size - 1 ]_hostVars

\* The device is busy only while something is being read or addressed
\* (ieee.c ieee_state_busy: "a directory listing is being read").  Violated:
\* a listing given up half-way keeps every later state from being saved.
Busy ==
    \/ listening \/ talking \/ opening \/ listing
    \/ \E c \in Channels : chans[c].file # Nil

BusyIsInUse ==
    Busy => \/ listening \/ talking
            \/ \E c \in Channels : chans[c].file # Nil \/ IsDirectory(chans[c].name)
===========================================================================
