------------------------------ MODULE PcmFifo ------------------------------
(***************************************************************************)
(* VERA's queue of PCM bytes (vera_pcm.c): the guest writes them, playback *)
(* takes a sample's worth at a time, and what is in the ring's storage can *)
(* be played again, once or for ever.  Bytes are numbered as accepted.     *)
(*                                                                         *)
(* How often a sample is due (the rate and its phase), and what volume and *)
(* format make of its bytes, is data.                                      *)
(***************************************************************************)
EXTENDS Naturals

CONSTANTS
    PcmSize,      \* bytes of storage, PCM_FIFO_SIZE
    Few,          \* fewer than these are almost none, 1024 in the code
    SampleSizes,  \* bytes of a sample, one of 1, 2 and 4
    MaxAccepted   \* bound on the bytes accepted

ASSUME PcmAssumption ==
    /\ PcmSize \in Nat \ {0, 1} /\ Few \in 1 .. PcmSize - 1
    /\ SampleSizes \subseteq 1 .. PcmSize - 1 /\ 1 \in SampleSizes

VARIABLES
    pcm,        \* the FIFO
    looping     \* the guest asked for a loop since VERA was reset

pcmVars == <<pcm, looping>>

Place == 0 .. PcmSize - 1

Emptied(p) == [p EXCEPT !.wr = 0, !.rd = 0, !.count = 0]

\* What a restart would be that played all the storage.
FromTheTopWhole(p) == [p EXCEPT !.rd = 0, !.count = PcmSize - 1]

\* Everything from the start of the storage to where the next byte goes.
FromTheTop(p) == [p EXCEPT !.rd = 0, !.count = p.wr]

FifoReset(p) == [Emptied(p) EXCEPT !.size = 1]

\* Reading from the queue n bytes, which are there.
Took(p, n) == [p EXCEPT !.rd = (p.rd + n) % PcmSize, !.count = p.count - n]

\* Part of a sample is thrown away.
Sampled(p) ==
    LET q == IF p.count < p.size THEN [p EXCEPT !.count = 0, !.rd = p.wr] ELSE Took(p, p.size)
    IN  IF p.loop /\ q.count = 0 THEN FromTheTop(q) ELSE q

AlmostEmpty == pcm.count < Few

-----------------------------------------------------------------------------
\* A full queue drops the byte.
WriteFifo ==
    /\ pcm.accepted < MaxAccepted
    /\ pcm.count < PcmSize - 1
    /\ pcm' = [pcm EXCEPT !.ring[pcm.wr] = pcm.accepted + 1, !.accepted = @ + 1,
                          !.wr = (@ + 1) % PcmSize, !.count = @ + 1]
    /\ UNCHANGED looping

\* AUDIO_CTRL: empty the queue, or play it again, or both for a loop.
WriteCtrl(reset, restart, size) ==
    LET p == [pcm EXCEPT !.loop = reset /\ restart, !.size = size]
    IN  /\ pcm' = IF restart THEN FromTheTop(p) ELSE IF reset THEN Emptied(p) ELSE p
        /\ looping' = (reset /\ restart)

\* A sample is due.
PlaySample ==
    /\ pcm.count > 0
    /\ pcm' = Sampled(pcm)
    /\ UNCHANGED looping

ResetPcm ==
    /\ pcm' = FifoReset(pcm)
    /\ looping' = FALSE

PcmInit ==
    /\ pcm = [ring |-> [i \in Place |-> 0], wr |-> 0, rd |-> 0, count |-> 0, size |-> 1,
              loop |-> FALSE, accepted |-> 0]
    /\ looping = FALSE

PcmNext ==
    \/ WriteFifo
    \/ \E reset, restart \in BOOLEAN, size \in SampleSizes : WriteCtrl(reset, restart, size)
    \/ PlaySample
    \/ ResetPcm

-----------------------------------------------------------------------------
\* Whatever was dropped, emptied, thrown away or played again, what is queued
\* is the latest bytes accepted, in their order and none twice or missing
\* (pcm_write_fifo, read_fifo, fifo_restart and pcm_render's underruns).
PlaysInOrder ==
    /\ pcm.count \in Place
    /\ \A i \in 0 .. pcm.count - 1 :
           pcm.ring[(pcm.rd + i) % PcmSize] = pcm.accepted - pcm.count + i + 1

\* Sound repeats only where the guest asked for it since the reset.  Not so:
\* pcm_reset leaves `loop` as it was.
LoopsAsAsked == pcm.loop => looping
=============================================================================
