----------------------------- MODULE SmcAnswers -----------------------------
(***************************************************************************)
(* The queues of the system management controller and what each of its     *)
(* registers answers or does (smc.c, and the rings of i2c.c), as functions *)
(* of one record.  The version numbers, the LEDs, the power button and     *)
(* switching off are left out: they touch nothing kept here.               *)
(***************************************************************************)
EXTENDS Integers, Sequences

CONSTANTS
    KeyRing,     \* places in the keyboard ring, KBD_SIZE
    MouseRing    \* places in the mouse ring, MSE_SIZE

ASSUME RingAssumption == KeyRing \in Nat \ {0} /\ MouseRing \in Nat \ {0}

\* The controller's address, and its registers.
Smc == 66

PowerButton  == 1
ResetButton  == 2
ReadKey      == 7
SetMouse     == 32
ReadMouse    == 33
MouseId      == 34
SetDefault   == 64
DefaultKey   == 65
DefaultMouse == 66
DefaultBoth  == 67

\* kbd, mse      what is in the rings
\* mseCount      bytes of the current packet given out
\* mouse         the mouse's id, which decides the size of a packet
\* op, mid       the default register, and whether its key was given
\* wantsReset    the machine is to be reset at the end of the frame
AtPowerOn ==
    [kbd |-> <<>>, mse |-> <<>>, mseCount |-> 0, mouse |-> 3, op |-> DefaultKey, mid |-> FALSE,
     wantsReset |-> FALSE]

PacketSize(q) == IF q.mouse = 3 THEN 4 ELSE 3

\* A ring of n places holds n - 1 bytes; one more is dropped.
Add(ring, byte, n) == IF Len(ring) < n - 1 THEN Append(ring, byte) ELSE ring

Next1(ring) == IF ring = <<>> THEN 0 ELSE Head(ring)
Rest(ring) == IF ring = <<>> THEN ring ELSE Tail(ring)

\* The bytes of a packet; p tells one packet from the next, and only the
\* first byte of a packet has bit 3 and no bit above it.
Packet(p, size) == [i \in 1 .. size |-> 8 + 16 * (i - 1) + p]

\* handle_keyboard
KeyEvent(q, key) == [q EXCEPT !.kbd = Add(@, key, KeyRing)]

\* mouse_send: a packet is queued whole or dropped whole.
MouseEvent(q, p) ==
    IF Len(q.mse) < MouseRing - PacketSize(q)
    THEN [q EXCEPT !.mse = @ \o Packet(p, PacketSize(q))]
    ELSE q

Given(byte, q) == [byte |-> byte, queues |-> q]

Key(q) == Given(Next1(q.kbd), [q EXCEPT !.kbd = Rest(@)])

\* A slip: the turn goes back to the keys after every byte.
MouseByteInTurns(q) ==
    IF q.mseCount = 0 /\ Len(q.mse) < PacketSize(q)
    THEN Given(0, [q EXCEPT !.mid = FALSE])
    ELSE Given(Next1(q.mse), [q EXCEPT !.mse = Rest(@), !.mid = FALSE,
                                       !.mseCount = (@ + 1) % PacketSize(q)])

\* A packet is begun only when all of it is there, and then given to its end.
MouseByte(q) ==
    IF q.mseCount = 0 /\ Len(q.mse) < PacketSize(q)
    THEN Given(0, [q EXCEPT !.mid = FALSE])
    ELSE LET ends == q.mseCount + 1 = PacketSize(q)
         IN  Given(Next1(q.mse), [q EXCEPT !.mse = Rest(@),
                                           !.mseCount = IF ends THEN 0 ELSE (@ + 1) % 256,
                                           !.mid = @ /\ ~ends])

\* smc_read of register op.
Answered(q, op) ==
    CASE op = DefaultBoth /\ ~q.mid -> Key([q EXCEPT !.mid = TRUE])
      [] (op = DefaultBoth /\ q.mid) \/ op \in {DefaultMouse, ReadMouse} -> MouseByte(q)
      [] op = DefaultKey -> Key([q EXCEPT !.mid = FALSE])
      [] op = ReadKey -> Key(q)
      [] op = MouseId -> Given(q.mouse, q)
      [] OTHER -> Given(255, q)

\* smc_write of byte to register op.  A new mouse id empties the mouse ring
\* and leaves the count of the packet being given.
Executed(q, op, byte) ==
    CASE op = SetMouse -> [q EXCEPT !.mouse = IF byte \in {3, 4} THEN 3 ELSE 0, !.mse = <<>>]
      [] op = SetDefault -> [q EXCEPT !.op = byte, !.mid = FALSE]
      [] <<op, byte>> \in {<<PowerButton, 1>>, <<ResetButton, 0>>} -> [q EXCEPT !.wantsReset = TRUE]
      [] OTHER -> q

\* i2c_reset_state, as far as the queues go.
Flushed(q) == [q EXCEPT !.kbd = <<>>, !.mse = <<>>, !.wantsReset = FALSE]
=============================================================================
