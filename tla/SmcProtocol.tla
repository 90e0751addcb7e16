---------------------------- MODULE SmcProtocol ----------------------------
(***************************************************************************)
(* What the bus promises a guest: each byte it writes reaches the system   *)
(* management controller as it was sent, the first of a transfer naming a  *)
(* register and the second its new value; each byte it reads is that       *)
(* register's next answer, none lost and none twice.                       *)
(***************************************************************************)
EXTENDS SmcAnswers

CONSTANTS
    Keys,        \* key codes
    Programs     \* what guests do: sequences of transfers

VARIABLES
    queues,      \* the controller's queues and registers
    asked,       \* the register the next byte read comes from
    plan,        \* transfers the guest has still to do
    place,       \* bytes of the first that were written
    got,         \* bytes of it that were read
    parity       \* which packet comes next

protocolVars == <<queues, asked, plan, place, got, parity>>

\* A transfer: to whom, the bytes to write, how many to read, and the place
\* of the byte read that, being zero, is the last.
Writing == Head(plan).bytes
Reading == Head(plan).reads

\* A transfer to another address does nothing.
Answers(transfer) == transfer.device = Smc

MoreToRead(transfer, bytes) ==
    /\ Len(bytes) < transfer.reads
    /\ transfer.last \in 1 .. Len(bytes) => bytes[transfer.last] # 0

Begin ==
    /\ plan = <<>>
    /\ plan' \in Programs
    /\ UNCHANGED <<queues, asked, place, got, parity>>

WriteByte ==
    /\ plan # <<>> /\ Answers(Head(plan)) /\ place < Len(Writing)
    /\ place' = place + 1
    /\ LET byte == Writing[place + 1]
       IN  IF place = 0
           THEN asked' = byte /\ UNCHANGED queues
           ELSE /\ queues' = Executed(queues, asked, byte)
                /\ asked' = queues'.op
    /\ UNCHANGED <<plan, got, parity>>

ReadByte ==
    /\ plan # <<>> /\ Answers(Head(plan))
    /\ place = Len(Writing) /\ MoreToRead(Head(plan), got)
    /\ LET a == Answered(queues, asked)
       IN  /\ got' = Append(got, a.byte)
           /\ queues' = a.queues
           /\ asked' = a.queues.op
    /\ UNCHANGED <<plan, place, parity>>

End ==
    /\ plan # <<>>
    /\ Answers(Head(plan)) => place = Len(Writing) /\ ~MoreToRead(Head(plan), got)
    /\ plan' = Tail(plan) /\ place' = 0 /\ got' = <<>>
    /\ UNCHANGED <<queues, asked, parity>>

KeyTyped ==
    /\ \E key \in Keys : queues' = KeyEvent(queues, key)
    /\ UNCHANGED <<asked, plan, place, got, parity>>

MouseMoved ==
    /\ queues' = MouseEvent(queues, parity)
    /\ parity' = 1 - parity
    /\ UNCHANGED <<asked, plan, place, got>>

Reset ==
    /\ queues' = Flushed(queues)
    /\ plan' = <<>> /\ place' = 0 /\ got' = <<>>
    /\ UNCHANGED <<asked, parity>>

ProtocolInit ==
    /\ queues = AtPowerOn /\ asked = 0
    /\ plan = <<>> /\ place = 0 /\ got = <<>> /\ parity = 0

ProtocolNext == Begin \/ WriteByte \/ ReadByte \/ End \/ KeyTyped \/ MouseMoved \/ Reset

ProtocolSpec == ProtocolInit /\ [][ProtocolNext]_protocolVars
=============================================================================
