----------------------------- MODULE ViaTimers -----------------------------
(***************************************************************************)
(* The interval timers of a 65C22 (via.c).  The machine steps them by the  *)
(* clocks of a whole instruction at once, and the code works out how often *)
(* T1 ran through zero and its latch on the way; what that must come to is *)
(* what the same clocks do one at a time.                                  *)
(*                                                                         *)
(* A register holds one of Digits values, a counter two digits.  The shift *)
(* register, the handshake lines and PB7, which nothing reads, are left    *)
(* out; nothing drives PB6, so that a T2 that counts its pulses stands.    *)
(***************************************************************************)
EXTENDS Naturals

CONSTANTS
    Digits,     \* values of a register, 256 in the code
    MaxClocks   \* bound on the clocks of one step

ASSUME ViaAssumption == Digits \in Nat \ {0, 1} /\ MaxClocks \in 1 .. Digits * Digits

VARIABLE via

Digit == 0 .. Digits - 1
AllOnes == Digits * Digits - 1

Word(high, low) == Digits * high + low

Least(m, n) == IF m < n THEN m ELSE n

\* via_init leaves latches and counters as they were.
Restarted(v) ==
    [v EXCEPT !.freeRun = FALSE, !.counting = FALSE, !.m1 = FALSE,
              !.running1 = FALSE, !.running2 = FALSE, !.flag1 = FALSE, !.flag2 = FALSE]

(***************************************************************************)
(* via_step                                                                *)
(***************************************************************************)
Latch(v) == Word(v.high1, v.low1)

\* A slip: the clock on which the counter takes its latch not counted.
PeriodShort(v) == Latch(v) + 1

\* From one pass through zero to the next.
Period(v) == Latch(v) + 2

\* T1 runs past zero: its flag, if it was started, and in one-shot mode no
\* flag after that.
PastZero(v) ==
    [v EXCEPT !.flag1 = @ \/ v.running1, !.running1 = @ /\ v.freeRun]

\* The loop over T1's clocks.  A counter that is past zero (m1) takes its
\* latch on the next clock.
RECURSIVE SteppedT1(_, _)
SteppedT1(v, n) ==
    LET rest ==
            IF v.m1 THEN Least(n, Latch(v) + 1)
            ELSE IF n - v.count1 = 1 THEN 1
            ELSE Least(n, v.count1 + Period(v))
        then ==
            IF v.m1 THEN [v EXCEPT !.count1 = Latch(v) + 1 - rest, !.m1 = FALSE]
            ELSE IF n - v.count1 = 1
            THEN [PastZero(v) EXCEPT !.count1 = AllOnes, !.m1 = TRUE]
            ELSE [PastZero(v) EXCEPT !.count1 = @ + Period(v) - rest]
    IN  IF n = 0 THEN v
        ELSE IF ~v.m1 /\ v.count1 >= n THEN [v EXCEPT !.count1 = @ - n]
        ELSE SteppedT1(then, n - rest)

\* T2 counts once, and then on from its highest value.
SteppedT2(v, n) ==
    IF v.counting THEN v
    ELSE IF v.count2 >= n THEN [v EXCEPT !.count2 = @ - n]
    ELSE [v EXCEPT !.flag2 = @ \/ v.running2, !.running2 = FALSE,
                   !.count2 = (AllOnes + 1 + @ - n) % (AllOnes + 1)]

Stepped(v, n) == SteppedT2(SteppedT1(v, n), n)

(***************************************************************************)
(* The guest's registers, and time.                                        *)
(***************************************************************************)

\* T1C-L and T1L-L are one register, the latch.
WriteT1Low == \E d \in Digit : via' = [via EXCEPT !.low1 = d]

WriteT1Latch == \E d \in Digit : via' = [via EXCEPT !.high1 = d, !.flag1 = FALSE]

\* T1C-H starts the timer; m1 stays.
WriteT1High ==
    \E d \in Digit : via' = [via EXCEPT !.high1 = d, !.flag1 = FALSE,
                                        !.count1 = Word(d, via.low1), !.running1 = TRUE]

WriteT2Low == \E d \in Digit : via' = [via EXCEPT !.low2 = d]

WriteT2High ==
    \E d \in Digit : via' = [via EXCEPT !.flag2 = FALSE, !.count2 = Word(d, via.low2),
                                        !.running2 = TRUE]

WriteControl ==
    \E freeRun, counting \in BOOLEAN :
        via' = [via EXCEPT !.freeRun = freeRun, !.counting = counting]

\* Reading a counter's low half, or writing the flag register, clears flags.
ClearFlags ==
    \E one, two \in BOOLEAN :
        via' = [via EXCEPT !.flag1 = @ /\ ~one, !.flag2 = @ /\ ~two]

Instruction == \E n \in 1 .. MaxClocks : via' = Stepped(via, n)

ResetVia == via' = Restarted(via)

ViaInit ==
    via = [low1 |-> 0, high1 |-> 0, count1 |-> 0, m1 |-> FALSE, running1 |-> FALSE, flag1 |-> FALSE,
           low2 |-> 0, count2 |-> 0, running2 |-> FALSE, flag2 |-> FALSE,
           freeRun |-> FALSE, counting |-> FALSE]

ViaNext ==
    \/ WriteT1Low \/ WriteT1Latch \/ WriteT1High \/ WriteT2Low \/ WriteT2High
    \/ WriteControl \/ ClearFlags \/ Instruction \/ ResetVia

ViaSpec == ViaInit /\ [][ViaNext]_via

(***************************************************************************)
(* Properties.                                                             *)
(***************************************************************************)

\* What n clocks do, one at a time.
Clocked(v, n) ==
    LET f[i \in 0 .. n] == IF i = 0 THEN v ELSE Stepped(f[i - 1], 1)
    IN  f[n]

\* However many clocks an instruction takes, through whatever the guest wrote
\* and however often T1 reloads, counters and flags are as if the clocks had
\* come singly (tests/test_via_timers.c: "Both count down at the PHI2 rate and
\* raise an interrupt flag at zero").  Violated by an instruction that ends
\* one clock past T1's zero: the loop leaves only that clock out of its count,
\* and T1 ends as many n early as it had left.
ClocksAreCounted == \A n \in 1 .. MaxClocks : Stepped(via, n) = Clocked(via, n)

\* That is the only such instruction, and T1's flag and T2 are right even then.
EndsPastZero(n) == ~via.m1 /\ via.count1 > 0 /\ n = via.count1 + 1

ClocksAreCountedElse ==
    \A n \in 1 .. MaxClocks :
        LET s == Stepped(via, n)
            c == Clocked(via, n)
        IN  IF EndsPastZero(n)
            THEN [s EXCEPT !.count1 = c.count1, !.m1 = c.m1] = c
            ELSE s = c
============================================================================
