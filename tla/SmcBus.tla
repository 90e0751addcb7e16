------------------------------- MODULE SmcBus -------------------------------
(***************************************************************************)
(* The two-wire bus between the machine and its system management          *)
(* controller, bit by bit (i2c.c i2c_step, smc.c), with a guest that       *)
(* drives the lines through the VIA as the KERNAL does: data changes only  *)
(* while the clock is low, but for a start and a stop; what a controller   *)
(* reads it acknowledges, except the last byte; a byte that is not         *)
(* acknowledged ends a transfer.                                           *)
(*                                                                         *)
(* The real-time clock, the third party on the wires, is left out; another *)
(* address stands for a device that is not there.                          *)
(***************************************************************************)
EXTENDS SmcAnswers

CONSTANTS
    Keys,          \* key codes
    Programs,      \* what guests do: sequences of transfers
    DataLen,       \* places in i2c_data, I2C_DATA_LEN
    ResetsBetween  \* the machine is reset only where the controller is settled

ASSUME BusAssumption ==
    /\ Keys \subseteq 0 .. 255 /\ DataLen \in Nat \ {0}
    /\ Programs \subseteq
         Seq([device : 0 .. 127, bytes : Seq(0 .. 255), reads : Nat, last : Nat]) \ {<<>>}

VARIABLES
    queues,    \* the controller's queues and registers
    data,      \* the first two places of i2c_data
    pos,       \* i2c_data_pos
    bus,       \* the bus's own state
    wires,     \* the lines the guest drives, as i2c_step last saw them
    plan,      \* transfers the guest has still to do
    guest,     \* where it is in the first of them
    got,       \* the bytes that one has read
    parity     \* which mouse packet comes next

smcVars == <<queues, data, pos, bus, wires, plan, guest, got, parity>>

NoTransfer == -1

\* The bus at rest; "out" is the line it answers on.
AtRest == [state |-> NoTransfer, readMode |-> FALSE, value |-> 0, count |-> 0, device |-> 0, out |-> 0]

NotStarted == [phase |-> "idle", reading |-> FALSE, sent |-> 0, bit |-> 0, shifted |-> 0]

(***************************************************************************)
(* The controller's two bytes.                                             *)
(***************************************************************************)
Stored(byte) == IF pos < 2 THEN [data EXCEPT ![pos + 1] = byte] ELSE data

\* A slip: counted, but not kept.
FirstByteLost(byte) ==
    /\ pos' = IF pos < DataLen THEN pos + 1 ELSE pos
    /\ UNCHANGED <<queues, data>>

\* smc_i2c_data for the first byte of a transfer.
FirstByte(byte) ==
    /\ data' = Stored(byte)
    /\ pos' = IF pos < DataLen THEN pos + 1 ELSE pos
    /\ UNCHANGED queues

\* smc_i2c_data and smc_write for a later one.
Written(byte) ==
    /\ queues' = Executed(queues, Stored(byte)[1], Stored(byte)[2])
    /\ data' = [Stored(byte) EXCEPT ![1] = queues'.op]
    /\ pos' = 0

\* smc_read.
Popped ==
    /\ queues' = Answered(queues, data[1]).queues
    /\ data' = [data EXCEPT ![1] = queues'.op]
    /\ pos' = 0

Untouched == UNCHANGED <<queues, data, pos>>

(***************************************************************************)
(* i2c_step, for lines that become c and d.                                *)
(***************************************************************************)
Started(c, d) ==
    IF bus.state = NoTransfer /\ c = 0 /\ d = 0 THEN [bus EXCEPT !.state = 0] ELSE bus

Ended(c, d) ==
    IF bus.state = 1 /\ c = 1 /\ d = 1 /\ wires.data = 0
    THEN [bus EXCEPT !.state = NoTransfer, !.count = 0, !.readMode = FALSE]
    ELSE Started(c, d)

Out(b, byte) ==
    [b EXCEPT !.out = byte \div 128, !.value = (2 * byte) % 256, !.state = @ + 1]

In(b, d) ==
    [b EXCEPT !.out = 1, !.value = (2 * @ + d) % 256, !.state = @ + 1]

Refusing(b) == [b EXCEPT !.state = 0, !.out = 1, !.count = 0, !.readMode = FALSE]

Accepting(b) == [b EXCEPT !.state = 0, !.out = 0, !.count = @ + 1]

\* The clock rises within a transfer.
Rise(b, d) ==
    \/ /\ b.state < 8 /\ b.readMode
       /\ IF b.state = 0
          THEN /\ Popped
               /\ bus' = Out(b, Answered(queues, data[1]).byte)
          ELSE /\ Untouched
               /\ bus' = Out(b, b.value)
    \/ /\ b.state < 8 /\ ~b.readMode
       /\ bus' = In(b, d)
       /\ Untouched
    \/ /\ b.state = 8 /\ b.readMode
       /\ bus' = IF d = 1 THEN Refusing(b) ELSE [b EXCEPT !.state = 0, !.out = 1]
       /\ Untouched
    \/ /\ b.state = 8 /\ ~b.readMode /\ b.count = 0
       /\ LET addressed == [b EXCEPT !.device = b.value \div 2, !.readMode = (b.value % 2 = 1)]
          IN  bus' = IF addressed.device = Smc THEN Accepting(addressed) ELSE Refusing(addressed)
       /\ Untouched
    \/ /\ b.state = 8 /\ ~b.readMode /\ b.count > 0
       /\ bus' = Accepting(b)
       /\ IF b.count = 1 THEN FirstByte(b.value) ELSE Written(b.value)

Drive(c, d) ==
    /\ wires' = [clock |-> c, data |-> d]
    /\ LET b == Ended(c, d)
       IN  IF b.state # NoTransfer /\ c = 1 /\ wires.clock = 0
           THEN Rise(b, d)
           ELSE bus' = b /\ Untouched

(***************************************************************************)
(* The guest's side of a transfer.                                         *)
(***************************************************************************)
MoreToRead(transfer, bytes) ==
    /\ Len(bytes) < transfer.reads
    /\ transfer.last \in 1 .. Len(bytes) => bytes[transfer.last] # 0

AddressByte == 2 * Head(plan).device + (IF guest.reading THEN 1 ELSE 0)

\* The byte being sent.
Sending == IF guest.sent = 0 THEN AddressByte ELSE Head(plan).bytes[guest.sent]

Receiving == guest.reading /\ guest.sent > 0

\* What the guest puts on the data line for its next bit.
NextBit ==
    IF Receiving
    THEN IF guest.bit = 8 /\ MoreToRead(Head(plan), got) THEN 0 ELSE 1
    ELSE IF guest.bit = 8 THEN 1
    ELSE (Sending \div 2 ^ (7 - guest.bit)) % 2

Undecided ==
    /\ guest.phase = "idle" /\ plan = <<>>
    /\ plan' \in Programs
    /\ guest' = [NotStarted EXCEPT !.reading = (Head(plan').bytes = <<>>)]
    /\ UNCHANGED <<queues, data, pos, bus, wires, got, parity>>

StartData ==
    /\ guest.phase = "idle" /\ plan # <<>>
    /\ Drive(1, 0)
    /\ guest' = [guest EXCEPT !.phase = "start"]
    /\ UNCHANGED <<plan, got, parity>>

StartClock ==
    /\ guest.phase = "start"
    /\ Drive(0, 0)
    /\ guest' = [guest EXCEPT !.phase = "low"]
    /\ UNCHANGED <<plan, got, parity>>

SetBit ==
    /\ guest.phase = "low"
    /\ Drive(0, NextBit)
    /\ guest' = [guest EXCEPT !.phase = "set"]
    /\ UNCHANGED <<plan, got, parity>>

ClockHigh ==
    /\ guest.phase = "set"
    /\ Drive(1, wires.data)
    /\ guest' = [guest EXCEPT !.phase = "high"]
    /\ UNCHANGED <<plan, got, parity>>

\* The part goes on after a byte that went through.
GoesOn ==
    IF Receiving THEN MoreToRead(Head(plan), got)
    ELSE /\ bus.out = 0
         /\ guest.reading \/ guest.sent < Len(Head(plan).bytes)

\* The guest looks at the answering line, and lowers the clock.
ClockLow ==
    /\ guest.phase = "high"
    /\ Drive(0, wires.data)
    /\ LET bits  == 2 * guest.shifted + bus.out
           whole == Receiving /\ guest.bit = 7
       IN  /\ guest' =
                 IF guest.bit < 8
                 THEN [guest EXCEPT !.phase = "low", !.bit = @ + 1,
                                    !.shifted = IF ~Receiving \/ whole THEN 0 ELSE bits]
                 ELSE IF GoesOn
                 THEN [guest EXCEPT !.phase = "low", !.bit = 0, !.sent = IF guest.reading THEN 1 ELSE @ + 1]
                 ELSE [guest EXCEPT !.phase = "stop", !.bit = 0,
                                    \* sent = 0: not acknowledged, nothing more of this transfer
                                    !.sent = IF ~Receiving /\ bus.out = 1 THEN 0 ELSE 1]
           /\ got' = IF whole THEN Append(got, bits) ELSE got
    /\ UNCHANGED <<plan, parity>>

StopData ==
    /\ guest.phase = "stop"
    /\ Drive(0, 0)
    /\ guest' = [guest EXCEPT !.phase = "stopping"]
    /\ UNCHANGED <<plan, got, parity>>

StopClock ==
    /\ guest.phase = "stopping"
    /\ Drive(1, 0)
    /\ guest' = [guest EXCEPT !.phase = "ending"]
    /\ UNCHANGED <<plan, got, parity>>

\* The stop itself; what was written is read back in a transfer of its own.
Stop ==
    /\ guest.phase = "ending"
    /\ Drive(1, 1)
    /\ IF ~guest.reading /\ guest.sent > 0 /\ Head(plan).reads > 0
       THEN /\ guest' = [NotStarted EXCEPT !.reading = TRUE]
            /\ UNCHANGED <<plan, got>>
       ELSE /\ plan' = Tail(plan)
            /\ guest' = [NotStarted EXCEPT !.reading = plan' # <<>> /\ Head(plan').bytes = <<>>]
            /\ got' = <<>>
    /\ UNCHANGED parity

\* After a reset of the machine, via1_init lets the clock go, and the guest the
\* data line; the bus may see the two changes as one.
LetGo ==
    /\ guest.phase = "reset"
    /\ \/ Drive(1, 1) /\ guest' = NotStarted
       \/ wires.clock = 0 /\ Drive(1, wires.data) /\ UNCHANGED guest
    /\ UNCHANGED <<plan, got, parity>>

(***************************************************************************)
(* The user and the frame.                                                 *)
(***************************************************************************)
KeyTyped ==
    /\ \E key \in Keys : queues' = KeyEvent(queues, key)
    /\ UNCHANGED <<data, pos, bus, wires, plan, guest, got, parity>>

MouseMoved ==
    /\ queues' = MouseEvent(queues, parity)
    /\ parity' = 1 - parity
    /\ UNCHANGED <<data, pos, bus, wires, plan, guest, got>>

\* i2c_reset_state: the bus and the rings, but neither the lines last seen,
\* nor i2c_data_pos, mse_count and default_read_state.
ResetSmc ==
    /\ ResetsBetween => pos = 0 /\ queues.mseCount = 0 /\ ~queues.mid
    /\ queues' = Flushed(queues)
    /\ bus' = [bus EXCEPT !.state = NoTransfer, !.readMode = FALSE, !.value = 0, !.count = 0]
    /\ plan' = <<>> /\ got' = <<>>
    /\ guest' = [NotStarted EXCEPT !.phase = "reset"]
    /\ UNCHANGED <<data, pos, wires, parity>>

SmcInit ==
    /\ queues = AtPowerOn
    /\ data = <<0, 0>> /\ pos = 0
    /\ bus = AtRest
    /\ wires = [clock |-> 1, data |-> 1]
    /\ plan = <<>> /\ guest = NotStarted /\ got = <<>> /\ parity = 0

SmcNext ==
    \/ Undecided \/ StartData \/ StartClock \/ SetBit \/ ClockHigh \/ ClockLow
    \/ StopData \/ StopClock \/ Stop \/ LetGo
    \/ KeyTyped \/ MouseMoved \/ ResetSmc

SmcSpec == SmcInit /\ [][SmcNext]_smcVars

(***************************************************************************)
(* Properties.                                                             *)
(***************************************************************************)

\* The byte on its way to the guest, as much of it as was put on the line
\* and what the bus still holds of it.
InTransit == Receiving /\ (guest.bit \in 1 .. 7 \/ (guest.bit = 0 /\ guest.phase = "high"))

ByteInTransit ==
    IF guest.phase = "high"
    THEN (2 * guest.shifted + bus.out) * 2 ^ (7 - guest.bit) + bus.value \div 2 ^ (guest.bit + 1)
    ELSE guest.shifted * 2 ^ (8 - guest.bit) + bus.value \div 2 ^ guest.bit

\* The bytes of a transfer that were written and read.
BytesWritten ==
    IF plan # <<>> /\ guest.reading THEN Len(Head(plan).bytes)
    ELSE IF bus.count > 0 THEN bus.count - 1 ELSE 0

BytesRead == IF InTransit THEN Append(got, ByteInTransit) ELSE got

Bytes == INSTANCE SmcProtocol WITH asked <- data[1], place <- BytesWritten, got <- BytesRead

\* Bits on two wires carry whole bytes: each byte written reaches its
\* register once and in order, each byte read is that register's next answer,
\* with keys, mouse packets and resets coming between any two line changes
\* (i2c.c i2c_step, smc.c smc_read, smc_write).  For resets that find the
\* controller between commands.
ImplementsBytes == Bytes!ProtocolSpec

\* What a guest reads of the mouse is one packet's bytes in their order, or a
\* single zero; never the end of one packet and the start of the next (smc.c
\* mse_count, i2c.c mouse_send).  For resets that find no packet begun.
PacketsWhole ==
    (plan # <<>> /\ Head(plan).last \in 1 .. Len(got)) =>
        LET bytes == SubSeq(got, Head(plan).last, Len(got))
        IN  \/ bytes = <<0>>
            \/ \E p \in {0, 1} : bytes = SubSeq(Packet(p, PacketSize(queues)), 1, Len(bytes))
=============================================================================
