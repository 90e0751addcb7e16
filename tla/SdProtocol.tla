----------------------------- MODULE SdProtocol -----------------------------
(***************************************************************************)
(* What an SD card in SPI mode promises a guest that keeps to the protocol *)
(* (the commands src/src/sdcard.c answers): every command is answered by   *)
(* its own reply and nothing else, a multiple read delivers the blocks in  *)
(* order until it is stopped or runs off the card, and a data packet goes  *)
(* to the block its write command named.                                   *)
(*                                                                         *)
(* What a byte stands for is in SdCard; a block's 512 bytes and checksum   *)
(* are one byte here.                                                      *)
(***************************************************************************)
EXTENDS Integers, Sequences

CONSTANTS
    Block,    \* the blocks of the card, 0 .. n - 1
    None      \* no block

FF == 255           \* the idle line
StartBlock == 254   \* data token before a block
OutOfRange == 8     \* error token instead of a block

VARIABLES
    disk,      \* the blocks' contents
    due,       \* the bytes of the reply still to come
    next,      \* the block to be sent when they have, or None
    target,    \* the block a write command named and no packet has filled, or None
    app,       \* the next command is an application command
    idle,      \* the card has not been initialised since it was told to go idle
    known,     \* the card has been initialised since it was attached
    heard,     \* the last byte the card put on the line
    frame      \* what the guest is clocking into the card

protocolVars == <<disk, due, next, target, app, idle, known, heard>>

\* R1 for most commands; idle as the command leaves it.
Reply(n, idling) ==
    CASE n = 13 -> IF known THEN <<0, 0>> ELSE <<31, 255>>
      [] n = 58 -> <<192, 255, 128, 0>>
      [] n = 8 -> <<1, 0, 0, 1, 170>>
      [] OTHER -> IF idling THEN <<1>> ELSE <<0>>

BlockAt(b) == IF b \in Block THEN <<StartBlock, disk[b]>> ELSE <<OutOfRange>>
After(b) == IF b \in Block THEN b + 1 ELSE None

-----------------------------------------------------------------------------
\* The reply to a command, and the block that follows it.
Answer(reply, then) == due' = reply /\ next' = then /\ heard' = FF

\* A command n with argument a.  Whatever was still due is not sent.
Command(n, a) ==
    /\ app' = (n = 55 /\ ~app)
    /\ target' = IF n = 24 /\ ~app THEN a ELSE None
    /\ idle' = ((n = 0 /\ ~app) \/ (idle /\ ~(n = 41 /\ app)))
    /\ known' = (known \/ (n = 41 /\ app))
    /\ CASE n = 17 /\ ~app -> Answer(<<0>> \o BlockAt(a), None)
         [] n = 18 /\ ~app -> Answer(<<0>> \o BlockAt(a), After(a))
         [] OTHER -> Answer(Reply(IF app THEN 128 + n ELSE n, idle'), None)
    /\ UNCHANGED disk

\* A data packet.
Packet(d) ==
    /\ disk' = IF target \in Block THEN [disk EXCEPT ![target] = d] ELSE disk
    /\ target' = None
    /\ heard' = FF
    /\ UNCHANGED <<due, next, app, idle, known>>

\* The guest clocks a byte out of the card.
Deliver ==
    /\ heard' = IF due = <<>> THEN FF ELSE Head(due)
    /\ IF Len(due) = 1 /\ next # None
         THEN due' = BlockAt(next) /\ next' = After(next)
         ELSE due' = (IF due = <<>> THEN due ELSE Tail(due)) /\ UNCHANGED next
    /\ UNCHANGED <<disk, target, app, idle, known>>

\* A byte in the middle of a frame, a byte with no card attached, or a reset of
\* the machine.
Silent == heard' = FF /\ UNCHANGED <<disk, due, next, target, app, idle, known>>

\* A card is taken out, or put in.
Swap ==
    /\ known' \in {known, FALSE}
    /\ UNCHANGED <<disk, due, next, target, app, idle, heard>>

Init ==
    /\ disk = [b \in Block |-> 0]
    /\ due = <<>>
    /\ next = None
    /\ target = None
    /\ app = FALSE
    /\ idle = TRUE
    /\ known = FALSE
    /\ heard = FF

Step ==
    \/ Len(frame) = 2 /\ Command(frame[1] - 64, frame[2])
    \/ Len(frame) = 3 /\ frame[1] = StartBlock /\ Packet(frame[2])
    \/ Deliver
    \/ Silent
    \/ Swap

ProtocolSpec == Init /\ [][Step]_protocolVars
=============================================================================
