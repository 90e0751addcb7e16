------------------------------- MODULE SdCard -------------------------------
(***************************************************************************)
(* The SD card (src/src/sdcard.c) behind VERA's SPI registers              *)
(* (src/src/vera_spi.c), driven by a guest, a user who attaches and        *)
(* detaches the image from the keyboard, and the machine's reset.          *)
(*                                                                         *)
(* Bytes are the code's, but frames are shorter: a command is its first    *)
(* byte and one byte of argument (6 in the code), a data packet its token, *)
(* one byte of data and one of checksum (515), a block read its token and  *)
(* one byte (515).  The card's file is never short of what its size says.  *)
(***************************************************************************)
EXTENDS Integers, SequencesExt

CONSTANTS
    Blocks,     \* blocks on the card
    Data,       \* what the guest writes
    Request,    \* the commands it sends, each a number and an argument
    KeepsToProtocol,    \* guest and user keep to the protocol
    None        \* no block, and no byte

ASSUME CardAssumption ==
    /\ Blocks \in Nat /\ Data \subseteq 0 .. 255 /\ Request \subseteq (0 .. 63) \X Nat
    /\ KeepsToProtocol \in BOOLEAN /\ None \notin Nat

Block == 0 .. Blocks - 1
FF == 255
StartBlock == 254
OutOfRange == 8
CommandLen == 2
PacketLen == 3

\* The frames a guest sends: commands, data packets, and packets without the
\* token, which the card takes in and ignores.
Frame ==
    {<<64 + r[1], r[2]>> : r \in Request}
    \cup {<<t, d, 0>> : t \in {StartBlock, 0}, d \in Data}

VARIABLES
    disk,       \* the blocks of the image
    attached,   \* sdcard_attached, and an open sdcard_file
    rxbuf,      \* rxbuf[0 .. rxbuf_idx - 1]
    lba,
    lastCmd,    \* last_cmd, 128 added to an application command
    isAcmd,
    isIdle,
    isInitialized,
    ongoing,    \* ongoing_multiblock_read
    response,   \* what is left of the response; empty where it is NULL
    ss, autotx,
    wire,       \* the byte in flight (busy, sending_byte), or None
    received,   \* received_byte
    frame,      \* the frame the guest is sending, or empty
    sent,       \* how many of its bytes it has put in the data register
    named       \* the block its last command named for writing, until a packet fills it

cardVars == <<disk, attached, rxbuf, lba, lastCmd, isAcmd, isIdle, isInitialized, ongoing, response>>
spiVars == <<ss, autotx, wire, received>>
guestVars == <<frame, sent, named>>
sdVars == <<cardVars, spiVars, guestVars>>

-----------------------------------------------------------------------------
(* The card.  sdcard_select is only called when the card is selected, and  *)
(* a byte is only sent when it is, so `selected' is true wherever it is    *)
(* tested.                                                                 *)

\* loadBlock
LoadBlock(b) == IF b \in Block THEN <<StartBlock, disk[b]>> ELSE <<OutOfRange>>

\* set_response_r1, _r2, _r3 and _r7
Reply(n, idle) ==
    CASE n = 13 -> IF isInitialized THEN <<0, 0>> ELSE <<31, 255>>
      [] n = 58 -> <<192, 255, 128, 0>>
      [] n = 8 -> <<1, 0, 0, 1, 170>>
      [] OTHER -> IF idle THEN <<1>> ELSE <<0>>

\* What is clocked out, and what is left to clock out: at the end of a block of
\* a multiple read the next one is loaded, until one cannot be.
Respond ==
    /\ received' = IF response = <<>> THEN FF ELSE Head(response)
    /\ IF Len(response) = 1 /\ ongoing
         THEN /\ lba' = lba + 1
              /\ response' = LoadBlock(lba + 1)
              /\ ongoing' = (lba + 1 \in Block)
         ELSE /\ response' = (IF response = <<>> THEN response ELSE Tail(response))
              /\ UNCHANGED <<lba, ongoing>>
    /\ UNCHANGED <<disk, attached, rxbuf, lastCmd, isAcmd, isIdle, isInitialized>>

\* STOP_TRANSMISSION
Stopped(n) == n = 12

\* READ_SINGLE_BLOCK and READ_MULTIPLE_BLOCK
Read(n, a) ==
    /\ n \in {17, 18}
    /\ lba' = a
    /\ response' = <<0>> \o LoadBlock(a)
    /\ ongoing' = ((ongoing \/ n = 18) /\ a \in Block)
    /\ UNCHANGED <<isIdle, isInitialized>>

\* WRITE_BLOCK.  Its test for a block past the end asks for a frame that has
\* just been reset, so every block is accepted.
Write(n, a) ==
    /\ n = 24
    /\ lba' = a
    /\ response' = Reply(n, isIdle)
    /\ UNCHANGED <<isIdle, isInitialized, ongoing>>

\* The rest of the switch.
Answer(n) ==
    /\ n \notin {17, 18, 24}
    /\ isIdle' = (n = 0 \/ (isIdle /\ n # 128 + 41))
    /\ isInitialized' = (isInitialized \/ n = 128 + 41)
    /\ ongoing' = (ongoing /\ ~Stopped(n))
    /\ response' = Reply(n, isIdle')
    /\ UNCHANGED lba

\* A command frame is complete; 128 is added to an application command.
Execute(rx) ==
    LET n == rx[1] - 64 + (IF isAcmd THEN 128 ELSE 0)
    IN  /\ lastCmd' = n
        /\ isAcmd' = (n = 55)
        /\ rxbuf' = <<>>
        /\ received' = FF
        /\ Read(n, rx[2]) \/ Write(n, rx[2]) \/ Answer(n)
        /\ UNCHANGED <<disk, attached>>

\* Whether a packet is written anywhere.
Stores(rx) == lastCmd = 24 /\ rx[1] = StartBlock /\ lba \in Block

\* A data packet is complete.
Store(rx) ==
    /\ disk' = IF Stores(rx) THEN [disk EXCEPT ![lba] = rx[2]] ELSE disk
    /\ rxbuf' = <<>>
    /\ received' = FF
    /\ UNCHANGED <<attached, lba, lastCmd, isAcmd, isIdle, isInitialized, ongoing, response>>

IsCommand(rx) == rx[1] \in 64 .. 127 /\ Len(rx) = CommandLen
IsPacket(rx) == Len(rx) = PacketLen

Collect(rx) ==
    /\ rxbuf' = rx
    /\ received' = FF
    /\ UNCHANGED <<disk, attached, lba, lastCmd, isAcmd, isIdle, isInitialized, ongoing, response>>

\* sdcard_handle, or what vera_spi_step makes of an empty slot.
Handle(byte) ==
    LET rx == Append(rxbuf, byte)
    IN  IF ~attached THEN received' = FF /\ UNCHANGED cardVars
        ELSE IF rxbuf = <<>> /\ byte = FF THEN Respond
        ELSE IF IsCommand(rx) THEN Execute(rx)
        ELSE IF IsPacket(rx) THEN Store(rx)
        ELSE Collect(rx)

-----------------------------------------------------------------------------
(* VERA's SPI registers, and who uses them.                                *)

\* The byte completes a command, or a packet with its token.
Commands(byte) == attached /\ IsCommand(Append(rxbuf, byte))
Fills(byte) == attached /\ IsPacket(Append(rxbuf, byte)) /\ rxbuf[1] = StartBlock
Named(byte) == IF rxbuf[1] = 64 + 24 /\ ~isAcmd THEN byte ELSE None

\* The protocol is broken by a command that leaves a multiple read unstopped, or
\* by a second packet for one write command.
Breaks(byte) ==
    \/ Commands(byte) /\ ongoing /\ (isAcmd \/ rxbuf[1] - 64 \notin {12, 18})
    \/ Fills(byte) /\ lastCmd = 24 /\ named = None

\* vera_spi_step: the byte in flight arrives, its answer is in the register.
Transfer ==
    /\ wire # None
    /\ wire' = None
    /\ Handle(wire)
    /\ named' = IF Commands(wire) THEN Named(wire) ELSE IF Fills(wire) THEN None ELSE named
    /\ IF sent = Len(frame) THEN frame' = <<>> /\ sent' = 0 ELSE UNCHANGED <<frame, sent>>
    /\ UNCHANGED <<ss, autotx>>

\* The guest begins a frame.
BeginFrame ==
    /\ frame = <<>>
    /\ wire = None /\ ss
    /\ frame' \in Frame
    /\ UNCHANGED <<cardVars, spiVars, sent, named>>

\* A byte for the card: nothing is sent while one is in flight or the card is
\* not selected.
Put(byte) == wire' = IF ss /\ wire = None THEN byte ELSE wire

\* vera_spi_write(0, ...): the next byte of the frame, or an idle byte between
\* frames.  A guest that does not wait for the one in flight loses the byte.
Send ==
    /\ frame # <<>> => sent < Len(frame)
    /\ Put(IF frame = <<>> THEN FF ELSE frame[sent + 1])
    /\ sent' = IF frame = <<>> THEN sent ELSE sent + 1
    /\ KeepsToProtocol => ss /\ wire = None /\ ~Breaks(wire')
    /\ UNCHANGED <<cardVars, ss, autotx, received, frame, named>>

\* vera_spi_read(0): in auto-tx mode a read starts the next transfer.
ReadData ==
    /\ autotx
    /\ Put(FF)
    /\ KeepsToProtocol => frame = <<>>
    /\ UNCHANGED <<cardVars, ss, autotx, received, frame, sent, named>>

\* A slip: what was received of a frame kept when the card is selected anew.
SelectKeeping == UNCHANGED rxbuf

\* sdcard_select
Select == rxbuf' = <<>>

\* vera_spi_write(1, ...).  The guest gives its frame up with the card.
Control(sel, auto) ==
    /\ <<sel, auto>> # <<ss, autotx>>
    /\ ss' = sel
    /\ autotx' = auto
    /\ IF sel /\ ~ss THEN Select ELSE UNCHANGED rxbuf
    /\ IF sel # ss THEN frame' = <<>> /\ sent' = 0 ELSE UNCHANGED <<frame, sent>>
    /\ KeepsToProtocol /\ sel # ss => wire = None
    /\ UNCHANGED <<disk, attached, lba, lastCmd, isAcmd, isIdle, isInitialized, ongoing,
                   response, wire, received, named>>

\* vera_spi_init, from machine_reset: the card hears nothing of it.
ResetSpi ==
    /\ ss' = FALSE /\ wire' = None /\ autotx' = FALSE /\ received' = FF
    /\ frame' = <<>> /\ sent' = 0
    /\ UNCHANGED <<cardVars, named>>

\* The card may change hands without harm between frames, when it has nothing
\* to say and expects nothing.
Settled ==
    /\ frame = <<>> /\ wire = None
    /\ response = <<>> /\ ~isAcmd
    /\ lastCmd = 24 => named = None

\* sdcard_attach and sdcard_detach, from the keyboard.
Attach ==
    /\ ~attached
    /\ attached' = TRUE
    /\ isInitialized' = FALSE
    /\ KeepsToProtocol => Settled
    /\ UNCHANGED <<disk, rxbuf, lba, lastCmd, isAcmd, isIdle, ongoing, response, spiVars, guestVars>>

Detach ==
    /\ attached
    /\ attached' = FALSE
    /\ KeepsToProtocol => Settled
    /\ UNCHANGED <<disk, rxbuf, lba, lastCmd, isAcmd, isIdle, isInitialized, ongoing, response,
                   spiVars, guestVars>>

CardInit ==
    /\ disk = [b \in Block |-> 0]
    /\ attached \in BOOLEAN
    /\ rxbuf = <<>> /\ lba = 0 /\ lastCmd = 0
    /\ isAcmd = FALSE /\ isIdle = TRUE /\ isInitialized = FALSE
    /\ ongoing = FALSE /\ response = <<>>
    /\ ss = FALSE /\ autotx = FALSE /\ wire = None /\ received = FF
    /\ frame = <<>> /\ sent = 0 /\ named = None

CardNext ==
    \/ Transfer
    \/ BeginFrame
    \/ Send
    \/ ReadData
    \/ \E sel, auto \in BOOLEAN : Control(sel, auto)
    \/ ResetSpi
    \/ Attach
    \/ Detach

CardSpec == CardInit /\ [][CardNext]_sdVars

-----------------------------------------------------------------------------
(* Properties.                                                             *)

\* The protocol's card, as the guest knows it.
Protocol == INSTANCE SdProtocol WITH
    due <- response,
    next <- IF ongoing THEN lba + 1 ELSE None,
    target <- named,
    app <- isAcmd,
    idle <- isIdle,
    known <- isInitialized,
    heard <- received

\* The card implements the protocol for every guest that keeps to it, however
\* often it is deselected mid-frame, reset or taken out in between.
ImplementsProtocol == Protocol!ProtocolSpec

\* GO_IDLE_STATE "Resets the SD Memory Card" (sdcard.c): no read is still going
\* on after it.  The code leaves a multiple read running.
IdleMeansIdle == lastCmd = 0 => ~ongoing

\* A packet changes the block its write command named and no other, whatever
\* went before.  In the code a read that was never stopped moves lba on.
WritesAsAsked ==
    [][disk' # disk => named \in Block /\ \E d \in 0 .. FF : disk' = [disk EXCEPT ![named] = d]]_sdVars
=============================================================================
