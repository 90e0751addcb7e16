---------------------------- MODULE DeviceProofs ----------------------------
(***************************************************************************)
(* Proofs about VERA's FIFO for every size of ring and sample, about the   *)
(* MIDI port for every size of its FIFOs and every message, about the      *)
(* machine's clocks and their save states for every width of the clock,    *)
(* cost of an instruction and length of a frame, and that the SD card      *)
(* implements the protocol for every size of card, request and byte, for a *)
(* guest that keeps to it, that a VGA picture's interrupts come when       *)
(* forecast, for every size of picture, and that the controller's bus      *)
(* carries whole bytes, for any transfers, and whole packets of the mouse. *)
(***************************************************************************)
EXTENDS Integers, VeraIrq, MidiUart, SaveState, SdCard, SmcBus, TLAPS

PcmSpec == PcmInit /\ [][PcmNext]_pcmVars

Fifo == [ring : [Place -> Nat], wr : Place, rd : Place, count : Place,
         size : SampleSizes, loop : BOOLEAN, accepted : Nat]

\* The place k bytes before w.
Behind(w, k) == IF k <= w THEN w - k ELSE w - k + PcmSize

\* The last n bytes written are the last n accepted.
Latest(p, n) == \A k \in 1 .. n : p.ring[Behind(p.wr, k)] = p.accepted - k + 1

Ordered(p) ==
    /\ p \in Fifo
    /\ p.rd = Behind(p.wr, p.count)
    /\ Latest(p, p.count)
    /\ Latest(p, p.wr)

PcmInv == Ordered(pcm) /\ looping \in BOOLEAN

\* The sizes the FIFO is built from.
LEMMA PcmSizes ==
    /\ PcmSize \in Nat /\ PcmSize > 1 /\ 1 \in SampleSizes
    /\ \A n \in SampleSizes : n \in Nat /\ n # 0 /\ n < PcmSize
BY PcmAssumption

\* The places of the ring, 0 and 1 among them.
LEMMA PcmPlaces == Place = 0 .. PcmSize - 1 /\ {0, 1} \subseteq Place /\ PcmSize - 1 \in Place
BY PcmSizes DEF Place

\* Two places added wrap at most once.
LEMMA WrapOnce ==
    ASSUME NEW a \in Place, NEW b \in Place
    PROVE  /\ a + b < PcmSize => (a + b) % PcmSize = a + b
           /\ ~(a + b < PcmSize) => (a + b) % PcmSize = a + b - PcmSize
<1>1. PcmSize \in Nat \ {0}
  BY PcmSizes
<1>2. a \in Nat /\ b \in Nat /\ a + b < PcmSize + PcmSize
  BY PcmSizes, PcmPlaces
<1> QED BY <1>1, <1>2, SMT

\* At reset the ring holds what was accepted: nothing.
LEMMA PcmStart == PcmInit => PcmInv
<1> SUFFICES ASSUME PcmInit PROVE PcmInv
  OBVIOUS
<1>1. pcm \in Fifo /\ looping \in BOOLEAN
  BY PcmSizes, PcmPlaces DEF PcmInit, Fifo
<1>2. pcm.rd = 0 /\ pcm.wr = 0 /\ pcm.count = 0
  BY DEF PcmInit
<1>3. Latest(pcm, 0) /\ Behind(0, 0) = 0
  BY DEF Latest, Behind
<1> QED BY <1>1, <1>2, <1>3 DEF PcmInv, Ordered

\* A place behind a place is a place, another one unless it is 0 behind.
LEMMA BehindIn ==
    ASSUME NEW w \in Place, NEW k \in Place
    PROVE  Behind(w, k) \in Place /\ (k # 0 => Behind(w, k) # w) /\ Behind(w, 0) = w
BY PcmSizes DEF Place, Behind

\* n bytes on from the place c behind is the place c - n behind.
LEMMA Onward ==
    ASSUME NEW w \in Place, NEW c \in Place, NEW n \in Place, n <= c
    PROVE  (Behind(w, c) + n) % PcmSize = Behind(w, c - n)
<1> DEFINE b == Behind(w, c)
           r == (b + n) % PcmSize
<1>1. b \in Place
  BY BehindIn
<1>2. (c <= w => b = w - c) /\ (~(c <= w) => b = w - c + PcmSize)
  BY DEF Behind
<1> HIDE DEF b
<1>3. (b + n < PcmSize => r = b + n) /\ (~(b + n < PcmSize) => r = b + n - PcmSize)
  BY <1>1, WrapOnce, Zenon
<1> HIDE DEF r
<1>4. r = Behind(w, c - n)
  BY <1>1, <1>2, <1>3, PcmSizes, PcmPlaces DEF Behind
<1> QED BY <1>4 DEF r, b

\* After a write every byte is one further behind.
LEMMA BehindNext ==
    ASSUME NEW v \in Place, NEW w \in Place, NEW k \in 0 .. PcmSize - 2,
           w = IF v + 1 < PcmSize THEN v + 1 ELSE 0
    PROVE  Behind(w, k + 1) = Behind(v, k)
<1>1. CASE v + 1 < PcmSize
  BY <1>1, PcmSizes, PcmPlaces DEF Behind
<1>2. CASE ~(v + 1 < PcmSize)
  <2>1. w = 0 /\ v = PcmSize - 1
    BY <1>2, PcmSizes, PcmPlaces
  <2> QED BY <2>1, PcmSizes, PcmPlaces DEF Behind
<1> QED BY <1>1, <1>2

\* Playing a loop from the top again leaves the last bytes written in order.
LEMMA FromTheTopOrdered ==
    ASSUME NEW p, Ordered(p)
    PROVE  Ordered(FromTheTop(p))
<1> DEFINE q == FromTheTop(p)
<1>1. q \in Fifo /\ q.wr = p.wr /\ q.count = p.wr /\ q.rd = 0 /\ q.ring = p.ring
      /\ q.accepted = p.accepted
  BY PcmPlaces DEF Ordered, Fifo, FromTheTop
<1>2. p.wr \in Place
  BY DEF Ordered, Fifo
<1>3. Behind(p.wr, p.wr) = 0
  BY <1>2, PcmSizes, PcmPlaces DEF Behind
<1> HIDE DEF q
<1>4. Ordered(q)
  BY <1>1, <1>3 DEF Ordered, Latest
<1> QED BY <1>4 DEF q

\* So does emptying the queue.
LEMMA EmptiedOrdered ==
    ASSUME NEW p, Ordered(p)
    PROVE  Ordered(Emptied(p))
<1> DEFINE q == Emptied(p)
<1>1. q \in Fifo /\ q.wr = 0 /\ q.count = 0 /\ q.rd = 0
  BY PcmPlaces DEF Ordered, Fifo, Emptied
<1>2. Behind(0, 0) = 0 /\ Latest(q, 0)
  BY DEF Behind, Latest
<1> HIDE DEF q
<1>3. Ordered(q)
  BY <1>1, <1>2 DEF Ordered
<1> QED BY <1>3 DEF q

\* Setting the sample's size or the loop touches no byte.
LEMMA SetOrdered ==
    ASSUME NEW p, Ordered(p), NEW q \in Fifo,
           q.ring = p.ring, q.wr = p.wr, q.rd = p.rd, q.count = p.count,
           q.accepted = p.accepted
    PROVE  Ordered(q)
BY DEF Ordered, Latest

\* A sample taken, dropped or started over leaves the queue in order.
LEMMA SampledOrdered ==
    ASSUME NEW p, Ordered(p)
    PROVE  Ordered(Sampled(p))
<1>0. /\ p.wr \in Place /\ p.rd \in Place /\ p.count \in Place /\ p.size \in Place
      /\ p.size # 0
  BY PcmSizes, PcmPlaces DEF Ordered, Fifo
<1> DEFINE drop == [p EXCEPT !.count = 0, !.rd = p.wr]
<1>1. Ordered(drop)
  <2>1. drop \in Fifo /\ drop.wr = p.wr /\ drop.count = 0 /\ drop.rd = p.wr
        /\ drop.ring = p.ring /\ drop.accepted = p.accepted
    BY PcmPlaces DEF Ordered, Fifo
  <2>2. Behind(p.wr, 0) = p.wr
    BY <1>0, BehindIn, PcmPlaces
  <2> HIDE DEF drop
  <2>3. Latest(drop, 0)
    BY DEF Latest
  <2> QED BY <2>1, <2>2, <2>3 DEF Ordered, Latest
<1> DEFINE took == Took(p, p.size)
<1>2. ASSUME p.count >= p.size
      PROVE  Ordered(took)
  <2>1. p.count - p.size \in Place /\ p.count - p.size < p.count
    BY <1>0, <1>2, PcmSizes DEF Place
  <2>2. (p.rd + p.size) % PcmSize = Behind(p.wr, p.count - p.size)
    <3>1. p.rd = Behind(p.wr, p.count) /\ p.size <= p.count
      BY <1>0, <1>2, PcmPlaces DEF Ordered
    <3> QED BY <1>0, <3>1, Onward
  <2>3. Behind(p.wr, p.count - p.size) \in Place
    BY <1>0, <2>1, BehindIn
  <2>4. took \in Fifo /\ took.wr = p.wr /\ took.count = p.count - p.size
        /\ took.rd = (p.rd + p.size) % PcmSize
        /\ took.ring = p.ring /\ took.accepted = p.accepted
    BY <2>1, <2>2, <2>3 DEF Ordered, Fifo, Took
  <2> HIDE DEF took
  <2>5. Latest(took, took.count)
    BY <1>0, <2>1, <2>4, PcmPlaces DEF Ordered, Latest
  <2> QED BY <2>2, <2>4, <2>5 DEF Ordered, Latest
<1> DEFINE q == IF p.count < p.size THEN drop ELSE took
<1>3. Ordered(q)
  <2> HIDE DEF drop, took
  <2>1. CASE p.count < p.size
    BY <1>1, <2>1
  <2>2. CASE ~(p.count < p.size)
    <3>1. p.count >= p.size
      BY <1>0, <2>2, PcmPlaces
    <3> QED BY <1>2, <2>2, <3>1
  <2> QED BY <2>1, <2>2
<1>4. Sampled(p) = IF p.loop /\ q.count = 0 THEN FromTheTop(q) ELSE q
  BY DEF Sampled
<1> HIDE DEF q
<1> QED BY <1>3, <1>4, FromTheTopOrdered

\* A byte written to VERA's FIFO goes behind the others, or is refused.
LEMMA WriteFifoKeeps == ASSUME PcmInv, WriteFifo PROVE PcmInv'
<1> DEFINE w == IF pcm.wr + 1 < PcmSize THEN pcm.wr + 1 ELSE 0
<1>0. /\ pcm.wr \in Place /\ pcm.count \in Place /\ pcm.count < PcmSize - 1
      /\ pcm.accepted \in Nat /\ pcm.ring \in [Place -> Nat]
  BY DEF PcmInv, Ordered, Fifo, WriteFifo
<1>a. w \in Place /\ pcm.count + 1 \in Place
  BY <1>0, PcmSizes DEF Place
<1>1. (pcm.wr + 1) % PcmSize = w
  <2>1. /\ pcm.wr + 1 < PcmSize => (pcm.wr + 1) % PcmSize = pcm.wr + 1
        /\ ~(pcm.wr + 1 < PcmSize) => (pcm.wr + 1) % PcmSize = pcm.wr + 1 - PcmSize
    BY <1>0, PcmPlaces, WrapOnce, Zenon
  <2>2. ~(pcm.wr + 1 < PcmSize) => pcm.wr + 1 - PcmSize = 0
    BY <1>0, PcmSizes, PcmPlaces
  <2> QED BY <2>1, <2>2
<1> DEFINE ring == [pcm.ring EXCEPT ![pcm.wr] = pcm.accepted + 1]
<1>2. pcm' = [pcm EXCEPT !.ring = ring,
                         !.accepted = pcm.accepted + 1, !.wr = w, !.count = pcm.count + 1]
  BY <1>1 DEF WriteFifo
<1>3. ring \in [Place -> Nat]
  BY <1>0
<1>b. /\ pcm'.ring = ring /\ pcm'.wr = w /\ pcm'.count = pcm.count + 1
      /\ pcm'.accepted = pcm.accepted + 1 /\ pcm'.rd = pcm.rd
  <2> HIDE DEF ring, w
  <2> QED BY <1>2 DEF PcmInv, Ordered, Fifo
<1>c. pcm' \in Fifo
  <2>1. pcm.accepted + 1 \in Nat
    BY <1>0
  <2> HIDE DEF ring, w
  <2> QED BY <1>2, <1>3, <1>a, <2>1 DEF PcmInv, Ordered, Fifo
<1>4. \A k \in 0 .. PcmSize - 2 : Behind(w, k + 1) = Behind(pcm.wr, k)
  BY <1>0, <1>a, BehindNext
<1>d. ring[pcm.wr] = pcm.accepted + 1 /\ \A i \in Place \ {pcm.wr} : ring[i] = pcm.ring[i]
  BY <1>0
<1> HIDE DEF w, ring
<1>5. ASSUME NEW n \in 0 .. PcmSize - 2, Latest(pcm, n)
      PROVE  Latest(pcm', n + 1)
  <2>1. SUFFICES ASSUME NEW k \in 1 .. n + 1
                 PROVE  ring[Behind(w, k)] = pcm'.accepted - k + 1
    BY <1>b DEF Latest
  <2> DEFINE j == k - 1
  <2>2. j \in 0 .. PcmSize - 2 /\ k = j + 1 /\ j \in Place /\ (j # 0 => j \in 1 .. n)
    BY PcmSizes, PcmPlaces
  <2> HIDE DEF j
  <2>3. Behind(w, k) = Behind(pcm.wr, j)
    BY <2>2, <1>4
  <2>4. CASE j = 0
    <3>1. ring[Behind(w, k)] = pcm.accepted + 1
      BY <1>0, <1>d, <2>3, <2>4, BehindIn
    <3> QED BY <1>0, <1>b, <2>2, <2>4, <3>1
  <2>5. CASE j # 0
    <3>1. pcm.ring[Behind(pcm.wr, j)] = pcm.accepted - j + 1
      BY <1>5, <2>2, <2>5 DEF Latest
    <3>2. ring[Behind(w, k)] = pcm.accepted - j + 1
      BY <1>0, <1>d, <2>2, <2>3, <2>5, <3>1, BehindIn
    <3> QED BY <1>0, <1>b, <2>2, <3>2
  <2> QED BY <2>4, <2>5
<1>6. pcm'.rd = Behind(pcm'.wr, pcm'.count)
  <2>1. pcm.count \in 0 .. PcmSize - 2
    BY <1>0, PcmSizes DEF Place
  <2> QED BY <2>1, <1>b, <1>4 DEF PcmInv, Ordered
<1>7. Latest(pcm', pcm'.count)
  <2>1. pcm.count \in 0 .. PcmSize - 2
    BY <1>0, PcmSizes DEF Place
  <2> QED BY <2>1, <1>b, <1>5 DEF PcmInv, Ordered
<1>8. Latest(pcm', pcm'.wr)
  <2>1. CASE pcm.wr + 1 < PcmSize
    <3>1. pcm.wr \in 0 .. PcmSize - 2 /\ w = pcm.wr + 1
      BY <2>1, <1>0, PcmSizes DEF Place, w
    <3> QED BY <1>b, <1>5, <3>1 DEF PcmInv, Ordered
  <2>2. CASE ~(pcm.wr + 1 < PcmSize)
    BY <1>b, <2>2 DEF Latest, w
  <2> QED BY <2>1, <2>2
<1>9. looping' \in BOOLEAN
  BY DEF PcmInv, WriteFifo
<1> QED BY <1>c, <1>6, <1>7, <1>8, <1>9 DEF PcmInv, Ordered, Latest

\* A write to the control register resets, restarts or changes the sample's size.
LEMMA WriteCtrlKeeps ==
    ASSUME PcmInv, NEW reset \in BOOLEAN, NEW restart \in BOOLEAN, NEW size \in SampleSizes,
           WriteCtrl(reset, restart, size)
    PROVE  PcmInv'
<1> DEFINE p == [pcm EXCEPT !.loop = reset /\ restart, !.size = size]
<1>1. /\ p \in Fifo
      /\ p.ring = pcm.ring /\ p.wr = pcm.wr /\ p.rd = pcm.rd /\ p.count = pcm.count
      /\ p.accepted = pcm.accepted
  BY DEF PcmInv, Ordered, Fifo
<1>2. Ordered(p)
  <2> HIDE DEF p
  <2> QED BY <1>1, SetOrdered DEF PcmInv
<1>3. pcm' = (IF restart THEN FromTheTop(p) ELSE IF reset THEN Emptied(p) ELSE p)
      /\ looping' \in BOOLEAN
  BY DEF WriteCtrl
<1> HIDE DEF p
<1>4. Ordered(pcm')
  BY <1>2, <1>3, FromTheTopOrdered, EmptiedOrdered
<1> QED BY <1>3, <1>4 DEF PcmInv

\* VERA's reset.
LEMMA PcmResetKeeps == ASSUME PcmInv, ResetPcm PROVE PcmInv'
<1> DEFINE p == Emptied(pcm)
<1>1. Ordered(p)
  BY EmptiedOrdered DEF PcmInv
<1>2. pcm' = [p EXCEPT !.size = 1] /\ looping' = FALSE
  BY DEF ResetPcm, FifoReset
<1> HIDE DEF p
<1>3. /\ pcm' \in Fifo
      /\ pcm'.ring = p.ring /\ pcm'.wr = p.wr /\ pcm'.rd = p.rd /\ pcm'.count = p.count
      /\ pcm'.accepted = p.accepted
  BY <1>1, <1>2, PcmSizes DEF Ordered, Fifo
<1>4. Ordered(pcm')
  BY <1>1, <1>3, SetOrdered
<1> QED BY <1>2, <1>4 DEF PcmInv

\* Every step keeps the ring what it is.
LEMMA PcmStep == ASSUME PcmInv, [PcmNext]_pcmVars PROVE PcmInv'
<1>1. CASE PlaySample
  BY <1>1, SampledOrdered DEF PlaySample, PcmInv
<1>2. CASE UNCHANGED pcmVars
  BY <1>2 DEF pcmVars, PcmInv, Ordered, Latest
<1> QED BY <1>1, <1>2, WriteFifoKeeps, WriteCtrlKeeps, PcmResetKeeps DEF PcmNext

\* What the ring is, read from the front, is what was accepted, in order.
LEMMA OrderedPlays == ASSUME PcmInv PROVE PlaysInOrder
<1>1. /\ pcm.wr \in Place /\ pcm.rd \in Place /\ pcm.count \in Place
      /\ pcm.accepted \in Nat /\ pcm.rd = Behind(pcm.wr, pcm.count)
  BY DEF PcmInv, Ordered, Fifo
<1>2. ASSUME NEW i \in 0 .. pcm.count - 1
      PROVE  pcm.ring[(pcm.rd + i) % PcmSize] = pcm.accepted - pcm.count + i + 1
  <2> DEFINE k == pcm.count - i
  <2>1. k \in 1 .. pcm.count /\ k \in Place /\ i \in Place /\ i = pcm.count - k
    BY <1>1, PcmPlaces, PcmSizes
  <2> HIDE DEF k
  <2>2. i <= pcm.count /\ k = pcm.count - i
    BY <1>1, <2>1, PcmPlaces
  <2>3. (pcm.rd + i) % PcmSize = Behind(pcm.wr, k)
    <3>1. (Behind(pcm.wr, pcm.count) + i) % PcmSize = Behind(pcm.wr, pcm.count - i)
      BY <1>1, <2>1, <2>2, Onward, Zenon
    <3> QED BY <1>1, <2>2, <3>1
  <2>4. pcm.ring[Behind(pcm.wr, k)] = pcm.accepted - k + 1
    BY <2>1 DEF PcmInv, Ordered, Latest
  <2> QED BY <1>1, <2>1, <2>3, <2>4, PcmPlaces
<1> QED BY <1>1, <1>2 DEF PlaysInOrder

\* VERA's FIFO plays what it accepted, in the order it was written and nothing
\* else, through resets, restarts, loops and overflows (vera_pcm.c).
THEOREM QueuePlaysInOrder == PcmSpec => []PlaysInOrder
<1>1. PcmInv /\ [PcmNext]_pcmVars => PcmInv'
  BY PcmStep
<1>2. PcmInv => PlaysInOrder
  BY OrderedPlays
<1> QED BY <1>1, <1>2, PcmStart, PTL DEF PcmSpec

-----------------------------------------------------------------------------
(* The MIDI port.                                                          *)

Byte == 0 .. 255

Port == [heard : Seq(Byte), last : Byte, fifo : BOOLEAN,
         in : Nat, inBits : Nat, timing : BOOLEAN, timeout : Nat,
         out : Nat, outBits : Nat, thre : BOOLEAN, threBits : Nat,
         ier : SUBSET Interrupts, oe : BOOLEAN, level : Nat, named : Interrupts \cup {"none"}]

\* The receiver's and the transmitter's promises.
ReceiverTold(u) == u.in > 0 => u.timing

TransmitterTold(u, knows) == u.out = 0 => knows \/ u.thre \/ u.threBits > 0

MidiInv ==
    /\ uart \in Port /\ told \in BOOLEAN /\ missed \in BOOLEAN
    /\ ReceiverTold(uart) /\ TransmitterTold(uart, told \/ missed)

\* The sizes the port is built from.
LEMMA MidiSizes ==
    /\ CharBits \in Nat /\ CharBits > 1 /\ FifoSize \in Nat
    /\ Messages \subseteq Seq(Byte) \ {<<>>}
    /\ Levels \subseteq Nat /\ Enables \subseteq SUBSET Interrupts
BY MidiAssumption DEF Byte, Interrupts

\* A counter counted down is a counter, and not 0 before its time.
LEMMA DownIn == ASSUME NEW n \in Nat PROVE Down(n) \in Nat /\ (n > 1 => Down(n) > 0)
BY DEF Down

\* Hearing a message touches neither end of the port.
LEMMA HeardIn ==
    ASSUME NEW u \in Port, NEW m \in Messages
    PROVE  /\ Heard(u, m) \in Port
           /\ Heard(u, m).in = u.in /\ Heard(u, m).timing = u.timing
           /\ Heard(u, m).out = u.out /\ Heard(u, m).thre = u.thre
           /\ Heard(u, m).threBits = u.threBits
<1>1. m \in Seq(Byte) /\ m # <<>> /\ m[1] \in Byte /\ Tail(m) \in Seq(Byte)
  BY MidiSizes
<1> DEFINE Same(v) == /\ v \in Port /\ v.in = u.in /\ v.timing = u.timing /\ v.out = u.out
                      /\ v.thre = u.thre /\ v.threBits = u.threBits
<1>2. ASSUME NEW h \in Seq(Byte) PROVE Same([u EXCEPT !.heard = h])
  BY DEF Port
<1>3. ASSUME NEW h \in Seq(Byte), NEW l \in Byte PROVE Same([u EXCEPT !.heard = h, !.last = l])
  BY DEF Port
<1>4. ASSUME NEW l \in Byte PROVE Same([u EXCEPT !.last = l])
  BY DEF Port
<1>5. ASSUME NEW v, Same(v) PROVE Same([v EXCEPT !.last = 0])
  <2>1. v \in Port /\ 0 \in Byte
    BY <1>5 DEF Byte
  <2>2. [v EXCEPT !.last = 0] \in Port
    BY <2>1 DEF Port
  <2> QED BY <1>5, <2>1, <2>2 DEF Port
<1>6. u.heard \in Seq(Byte) /\ 0 \in Byte
  BY DEF Port, Byte
<1>7. u.heard \o m \in Seq(Byte) /\ u.heard \o Tail(m) \in Seq(Byte)
  BY <1>1, <1>6
<1>8. Same(u)
  OBVIOUS
<1> HIDE DEF Same
<1>9. Same(Running(u, m))
  <2> DEFINE h == u.heard \o (IF u.last = m[1] THEN Tail(m) ELSE m)
  <2>1. h \in Seq(Byte)
    BY <1>7
  <2>2. Running(u, m) = [u EXCEPT !.last = 0] \/ Running(u, m) = [u EXCEPT !.heard = h, !.last = m[1]]
    BY DEF Running
  <2> HIDE DEF h
  <2> QED BY <1>1, <1>3, <1>4, <1>6, <2>1, <2>2
<1>10. Same(Single(u, m)) /\ Same(Exclusive(u, m))
  BY <1>2, <1>7, <1>8 DEF Single, Exclusive
<1>11. Same(Heard(u, m))
  BY <1>5, <1>9, <1>10 DEF Heard
<1> QED BY <1>11 DEF Same

\* Naming an interrupt touches neither end of the port.
LEMMA CheckedTells ==
    ASSUME NEW u \in Port, NEW knows \in BOOLEAN, TransmitterTold(u, knows), ReceiverTold(u)
    PROVE  /\ Checked(u) \in Port
           /\ TransmitterTold(Checked(u), knows) /\ ReceiverTold(Checked(u))
<1> DEFINE n == FirstDue(u)
<1>1. n \in Interrupts \cup {"none"}
  BY DEF FirstDue, Interrupts
<1>2. Checked(u) = [u EXCEPT !.named = n]
  BY DEF Checked
<1> HIDE DEF n
<1>3. /\ Checked(u) \in Port /\ Checked(u).in = u.in /\ Checked(u).timing = u.timing
      /\ Checked(u).out = u.out /\ Checked(u).thre = u.thre /\ Checked(u).threBits = u.threBits
  BY <1>1, <1>2 DEF Port
<1> QED BY <1>3 DEF TransmitterTold, ReceiverTold

\* A character sent, or a step of one, leaves both ends of the port told.
LEMMA TransmittedTells ==
    ASSUME NEW u \in Port, NEW knows \in BOOLEAN, TransmitterTold(u, knows), ReceiverTold(u)
    PROVE  /\ Transmitted(u) \in Port
           /\ TransmitterTold(Transmitted(u), knows) /\ ReceiverTold(Transmitted(u))
<1> DEFINE bits == Down(u.outBits)
           v == Transmitted(u)
<1>1. bits \in Nat /\ u.threBits \in Nat /\ u.out \in Nat /\ u.thre \in BOOLEAN
      /\ Down(u.threBits) \in Nat /\ CharBits \in Nat
  BY DownIn, MidiSizes DEF Port
<1> HIDE DEF bits
<1>2. CASE u.out = 0
  <2> DEFINE t == u.thre \/ u.threBits = 1
             d == Down(u.threBits)
  <2>1. v = [u EXCEPT !.outBits = bits, !.threBits = d, !.thre = t]
    BY <1>2 DEF Transmitted, bits
  <2>2. t \in BOOLEAN /\ d \in Nat /\ (knows \/ t \/ d > 0)
    <3>1. u.threBits > 0 => u.threBits = 1 \/ d > 0
      BY <1>1, DownIn
    <3>2. knows \/ u.thre \/ u.threBits > 0
      BY <1>2 DEF TransmitterTold
    <3> QED BY <1>1, <3>1, <3>2
  <2> HIDE DEF t, d, v
  <2>3. v \in Port /\ v.thre = t /\ v.threBits = d /\ v.out = u.out /\ v.in = u.in
        /\ v.timing = u.timing
    BY <1>1, <2>1, <2>2 DEF Port
  <2>4. TransmitterTold(v, knows) /\ ReceiverTold(v)
    BY <2>2, <2>3 DEF TransmitterTold, ReceiverTold
  <2> QED BY <2>3, <2>4 DEF v
<1>3. CASE u.out # 0 /\ bits > 0
  <2>1. v = [u EXCEPT !.outBits = bits]
    BY <1>3 DEF Transmitted, bits
  <2> HIDE DEF v
  <2>2. v \in Port /\ v.out = u.out /\ v.in = u.in /\ v.timing = u.timing
    BY <1>1, <2>1 DEF Port
  <2>3. TransmitterTold(v, knows) /\ ReceiverTold(v)
    BY <1>3, <2>2 DEF TransmitterTold, ReceiverTold
  <2> QED BY <2>2, <2>3 DEF v
<1>4. CASE u.out # 0 /\ ~(bits > 0)
  <2> DEFINE t == u.thre \/ (u.out = 1 /\ u.threBits = 0)
  <2>1. v = [u EXCEPT !.out = u.out - 1, !.outBits = CharBits, !.thre = t]
    BY <1>4 DEF Transmitted, bits
  <2>2. t \in BOOLEAN /\ u.out - 1 \in Nat /\ (u.out - 1 = 0 => t \/ u.threBits > 0)
    <3>1. u.out - 1 \in Nat /\ (u.out - 1 = 0 => u.out = 1) /\ (u.threBits = 0 \/ u.threBits > 0)
      BY <1>1, <1>4
    <3> QED BY <1>1, <3>1
  <2> HIDE DEF t, v
  <2>3. v \in Port /\ v.thre = t /\ v.threBits = u.threBits /\ v.out = u.out - 1 /\ v.in = u.in
        /\ v.timing = u.timing
    BY <1>1, <2>1, <2>2 DEF Port
  <2>4. TransmitterTold(v, knows) /\ ReceiverTold(v)
    BY <2>2, <2>3 DEF TransmitterTold, ReceiverTold
  <2> QED BY <2>3, <2>4 DEF v
<1> QED BY <1>2, <1>3, <1>4

\* So does a character received.
LEMMA ReceivedTells ==
    ASSUME NEW u \in Port, NEW knows \in BOOLEAN, TransmitterTold(u, knows), ReceiverTold(u)
    PROVE  /\ Received(u) \in Port
           /\ TransmitterTold(Received(u), knows) /\ ReceiverTold(Received(u))
<1> DEFINE v == Received(u)
<1>1. /\ Down(u.inBits) \in Nat /\ Down(u.timeout) \in Nat /\ u.in \in Nat
      /\ u.inBits \in Nat /\ u.timing \in BOOLEAN /\ CharBits \in Nat /\ 4 * CharBits \in Nat
      /\ u.heard \in Seq(Byte)
  BY DownIn, MidiSizes DEF Port
<1>2. CASE ~Receives(u)
  <2> DEFINE b == IF u.heard = <<>> THEN u.inBits ELSE Down(u.inBits)
             t == Down(u.timeout)
  <2>1. v = [u EXCEPT !.inBits = b, !.timeout = t]
    BY <1>2 DEF Received
  <2>2. b \in Nat /\ t \in Nat
    BY <1>1
  <2> HIDE DEF b, t, v
  <2>3. v \in Port /\ v.thre = u.thre /\ v.threBits = u.threBits /\ v.out = u.out /\ v.in = u.in
        /\ v.timing = u.timing
    BY <2>1, <2>2 DEF Port
  <2>4. TransmitterTold(v, knows) /\ ReceiverTold(v)
    BY <2>3 DEF TransmitterTold, ReceiverTold
  <2> QED BY <2>3, <2>4 DEF v
<1>3. CASE Receives(u)
  <2> DEFINE room == u.in < Places(u)
             h == Tail(u.heard)
             n == IF room THEN u.in + 1 ELSE u.in
             g == u.timing \/ room
             o == u.oe \/ ~room
             t == IF room THEN 4 * CharBits ELSE Down(u.timeout)
  <2>1. v = [u EXCEPT !.heard = h, !.inBits = CharBits, !.in = n, !.oe = o, !.timing = g,
                      !.timeout = t]
    BY <1>3 DEF Received
  <2>2. h \in Seq(Byte) /\ n \in Nat /\ g \in BOOLEAN /\ o \in BOOLEAN /\ t \in Nat
        /\ (n > 0 => g)
    <3>1. h \in Seq(Byte)
      BY <1>1, <1>3 DEF Receives
    <3>2. n \in Nat /\ t \in Nat
      BY <1>1
    <3>3. n > 0 => g
      BY DEF ReceiverTold
    <3> QED BY <1>1, <3>1, <3>2, <3>3
  <2> HIDE DEF room, h, n, g, o, t, v
  <2>3. v \in Port /\ v.thre = u.thre /\ v.threBits = u.threBits /\ v.out = u.out /\ v.in = n
        /\ v.timing = g
    BY <1>1, <2>1, <2>2 DEF Port
  <2>4. TransmitterTold(v, knows) /\ ReceiverTold(v)
    BY <2>2, <2>3 DEF TransmitterTold, ReceiverTold
  <2> QED BY <2>3, <2>4 DEF v
<1> QED BY <1>2, <1>3

\* At reset neither end waits for anything.
LEMMA MidiAtReset ==
    /\ AtReset \in Port
    /\ ReceiverTold(AtReset) /\ TransmitterTold(AtReset, TRUE)
<1>1. /\ <<>> \in Seq(Byte) /\ 0 \in Byte /\ 0 \in Nat /\ 1 \in Nat /\ CharBits \in Nat
      /\ {} \in SUBSET Interrupts /\ "none" \in Interrupts \cup {"none"} /\ FALSE \in BOOLEAN
  BY MidiSizes DEF Byte
<1>2. AtReset \in Port
  BY <1>1, Zenon DEF AtReset, Port
<1>3. ReceiverTold(AtReset)
  BY DEF AtReset, ReceiverTold
<1>4. TransmitterTold(AtReset, TRUE)
  BY DEF TransmitterTold
<1> QED BY <1>2, <1>3, <1>4

\* The port out of reset has told the guest all there is to tell.
LEMMA MidiStart == MidiInit => MidiInv
<1> SUFFICES ASSUME MidiInit PROVE MidiInv
  OBVIOUS
<1>1. uart = AtReset /\ told = TRUE /\ missed = FALSE
  BY DEF MidiInit
<1>2. (told \/ missed) = TRUE
  BY <1>1
<1> QED BY <1>1, <1>2, MidiAtReset DEF MidiInv

\* Every step leaves each end timing, idle, or told of by an interrupt.
LEMMA MidiStep == ASSUME MidiInv, [MidiNext]_midiVars PROVE MidiInv'
<1> DEFINE knows == told \/ missed
<1>0. /\ uart \in Port /\ told \in BOOLEAN /\ missed \in BOOLEAN /\ knows \in BOOLEAN
      /\ ReceiverTold(uart) /\ TransmitterTold(uart, knows)
  BY DEF MidiInv
<1>a. uart.in \in Nat /\ uart.out \in Nat /\ uart.threBits \in Nat /\ uart.thre \in BOOLEAN
      /\ CharBits \in Nat /\ CharBits > 1 /\ 4 * CharBits \in Nat /\ uart.timeout \in Nat
  BY <1>0, MidiSizes DEF Port
<1>b. ASSUME NEW v \in Port, ReceiverTold(v), NEW k \in BOOLEAN, TransmitterTold(v, k),
             uart' = v \/ uart' = Checked(v), told' \in BOOLEAN, missed' \in BOOLEAN,
             (told' \/ missed') = k
      PROVE  MidiInv'
  <2>1. uart' \in Port /\ ReceiverTold(uart') /\ TransmitterTold(uart', k)
    BY <1>b, CheckedTells
  <2> QED BY <1>b, <2>1 DEF MidiInv
<1>1. CASE Hear
  <2>1. PICK m \in Messages : uart' = Heard(uart, m) /\ told' = told /\ missed' = missed
    BY <1>1 DEF Hear
  <2>2. /\ uart' \in Port /\ uart'.in = uart.in /\ uart'.timing = uart.timing
        /\ uart'.out = uart.out /\ uart'.thre = uart.thre /\ uart'.threBits = uart.threBits
    BY <1>0, <2>1, HeardIn
  <2>3. ReceiverTold(uart') /\ TransmitterTold(uart', knows)
    BY <1>0, <2>2 DEF ReceiverTold, TransmitterTold
  <2> QED BY <1>0, <1>b, <2>1, <2>2, <2>3
<1>2. CASE Bit
  <2> DEFINE v == Transmitted(uart)
             w == Received(v)
  <2>1. uart' = Checked(w) /\ told' = told /\ missed' = missed
    BY <1>2 DEF Bit
  <2>2. v \in Port /\ ReceiverTold(v) /\ TransmitterTold(v, knows)
    BY <1>0, TransmittedTells
  <2> HIDE DEF v
  <2>3. w \in Port /\ ReceiverTold(w) /\ TransmitterTold(w, knows)
    BY <1>0, <2>2, ReceivedTells
  <2> HIDE DEF w
  <2> QED BY <1>0, <1>b, <2>1, <2>3
<1>3. CASE TakeByte
  <2> DEFINE g == uart.in > 1
             t == IF uart.in > 1 THEN 4 * CharBits ELSE uart.timeout
             v == [uart EXCEPT !.in = uart.in - 1, !.timing = g, !.timeout = t]
  <2>1. uart' = Checked(v) /\ told' = told /\ missed' = missed /\ uart.in > 0
    BY <1>3 DEF TakeByte
  <2>2. uart.in - 1 \in Nat /\ g \in BOOLEAN /\ t \in Nat /\ (uart.in - 1 > 0 => g)
    BY <1>a, <2>1
  <2> HIDE DEF g, t
  <2>3. v \in Port /\ v.in = uart.in - 1 /\ v.timing = g /\ v.out = uart.out
        /\ v.thre = uart.thre /\ v.threBits = uart.threBits
    BY <1>0, <2>2 DEF Port
  <2> HIDE DEF v
  <2>4. ReceiverTold(v) /\ TransmitterTold(v, knows)
    BY <1>0, <2>2, <2>3 DEF ReceiverTold, TransmitterTold
  <2> QED BY <1>0, <1>b, <2>1, <2>3, <2>4
<1>4. CASE SendByte /\ uart.out < Places(uart)
  <2> DEFINE b == IF uart.out > 0 THEN 0 ELSE IF uart.fifo THEN CharBits - 1 ELSE uart.threBits
             v == [uart EXCEPT !.out = uart.out + 1, !.thre = FALSE, !.threBits = b]
  <2>1. uart' = Checked(v) /\ told' = FALSE /\ missed' = FALSE
    BY <1>4 DEF SendByte, Sent
  <2>2. uart.out + 1 \in Nat /\ b \in Nat /\ uart.out + 1 # 0
    BY <1>a
  <2> HIDE DEF b
  <2>3. v \in Port /\ v.in = uart.in /\ v.timing = uart.timing /\ v.out = uart.out + 1
    BY <1>0, <2>2 DEF Port
  <2> HIDE DEF v
  <2>4. ReceiverTold(v) /\ TransmitterTold(v, FALSE)
    BY <1>0, <2>2, <2>3 DEF ReceiverTold, TransmitterTold
  <2> QED BY <1>b, <2>1, <2>3, <2>4
<1>5. CASE SendByte /\ ~(uart.out < Places(uart))
  <2>1. uart' = Checked(uart) /\ told' = told /\ missed' = missed
    BY <1>5 DEF SendByte
  <2> QED BY <1>0, <1>b, <2>1
<1>6. CASE AskInterrupt
  <2> DEFINE gone == uart.thre /\ uart.out = 0
             v == [uart EXCEPT !.thre = FALSE]
             k == told' \/ missed'
  <2>1. /\ uart' = Checked(v)
        /\ told' = (told \/ (gone /\ uart.named = "thre"))
        /\ missed' = (~told' /\ (missed \/ gone))
    BY <1>6 DEF AskInterrupt
  <2>2. v \in Port /\ v.in = uart.in /\ v.timing = uart.timing
        /\ v.out = uart.out /\ v.threBits = uart.threBits
    BY <1>0 DEF Port
  <2>3. k \in BOOLEAN /\ told' \in BOOLEAN /\ missed' \in BOOLEAN /\ (knows \/ gone => k)
    BY <1>0, <1>a, <2>1
  <2> HIDE DEF v, k
  <2>4. ReceiverTold(v) /\ TransmitterTold(v, k)
    BY <1>0, <2>2, <2>3 DEF ReceiverTold, TransmitterTold
  <2> QED BY <1>b, <2>1, <2>2, <2>3, <2>4 DEF k
<1>7. CASE ReadLineStatus
  <2> DEFINE v == [uart EXCEPT !.oe = FALSE]
             k == told' \/ missed'
  <2>1. uart' = v /\ told' = (told \/ uart.out = 0) /\ missed' = (~told' /\ missed)
    BY <1>7 DEF ReadLineStatus
  <2>2. v \in Port /\ v.in = uart.in /\ v.timing = uart.timing
        /\ v.out = uart.out /\ v.thre = uart.thre /\ v.threBits = uart.threBits
    BY <1>0 DEF Port
  <2>3. k \in BOOLEAN /\ told' \in BOOLEAN /\ missed' \in BOOLEAN /\ (knows => k)
    BY <1>0, <2>1
  <2> HIDE DEF v, k
  <2>4. ReceiverTold(v) /\ TransmitterTold(v, k)
    BY <1>0, <2>2, <2>3 DEF ReceiverTold, TransmitterTold
  <2> QED BY <1>b, <2>1, <2>2, <2>3, <2>4 DEF k
<1>8. CASE WriteIer
  <2>1. PICK ier \in Enables :
          uart' = [uart EXCEPT !.ier = ier] /\ told' = told /\ missed' = missed
    BY <1>8 DEF WriteIer
  <2>2. ier \in SUBSET Interrupts
    BY <2>1, MidiSizes
  <2>3. uart' \in Port /\ uart'.in = uart.in /\ uart'.timing = uart.timing
        /\ uart'.out = uart.out /\ uart'.thre = uart.thre /\ uart'.threBits = uart.threBits
    BY <1>0, <2>1, <2>2 DEF Port
  <2>4. ReceiverTold(uart') /\ TransmitterTold(uart', knows)
    BY <1>0, <2>3 DEF ReceiverTold, TransmitterTold
  <2> QED BY <1>0, <1>b, <2>1, <2>3, <2>4
<1>9. CASE ControlFifo
  <2>1. PICK level \in Levels \cup {0}, emptyIn \in BOOLEAN, emptyOut \in BOOLEAN :
          uart' = Checked(Controlled(uart, level, emptyIn, emptyOut))
    BY <1>9 DEF ControlFifo
  <2> DEFINE n == IF emptyIn THEN 0 ELSE uart.in
             o == IF emptyOut THEN 0 ELSE uart.out
             t == uart.thre \/ uart.threBits = 0
             f == level > 0
             l == IF level > 0 THEN level ELSE 1
             v == [uart EXCEPT !.fifo = f, !.level = l, !.in = n, !.out = o, !.thre = t]
  <2>2. uart' = Checked(v) /\ told' = told /\ missed' = missed
    BY <1>9, <2>1 DEF Controlled, ControlFifo
  <2>3. n \in Nat /\ o \in Nat /\ t \in BOOLEAN /\ (n > 0 => uart.in > 0)
        /\ (t \/ uart.threBits > 0)
    BY <1>a
  <2>4. f \in BOOLEAN /\ l \in Nat
    BY <2>1, MidiSizes
  <2> HIDE DEF n, o, t, f, l
  <2>5. v \in Port /\ v.in = n /\ v.timing = uart.timing /\ v.out = o
        /\ v.thre = t /\ v.threBits = uart.threBits
    BY <1>0, <2>3, <2>4 DEF Port
  <2> HIDE DEF v
  <2>6. ReceiverTold(v) /\ TransmitterTold(v, knows)
    BY <1>0, <2>3, <2>5 DEF ReceiverTold, TransmitterTold
  <2> QED BY <1>0, <1>b, <2>2, <2>5, <2>6
<1>10. CASE ResetMidi
  <2>1. uart' = AtReset /\ told' = TRUE /\ missed' = FALSE
    BY <1>10 DEF ResetMidi
  <2>2. (told' \/ missed') = TRUE /\ told' \in BOOLEAN /\ missed' \in BOOLEAN
    BY <2>1
  <2> QED BY <1>b, <2>1, <2>2, MidiAtReset
<1>11. CASE UNCHANGED midiVars
  BY <1>0, <1>11 DEF midiVars, MidiInv
<1> QED BY <1>1, <1>2, <1>3, <1>4, <1>5, <1>6, <1>7, <1>8, <1>9, <1>10, <1>11 DEF MidiNext

\* The MIDI port is not left waiting for an interrupt that does not come: what is
\* in either FIFO is timed, or the guest has been told of it, unless its own read
\* of the identification named another interrupt and took this one back (midi.c,
\* midi_serial_read).
THEOREM MidiNeverStalls == MidiSpec => []NothingStalls
<1>1. MidiInv => NothingStalls
  BY DEF MidiInv, ReceiverTold, TransmitterTold, NothingStalls, TransmitterTells
<1>2. MidiInv /\ [MidiNext]_midiVars => MidiInv'
  BY MidiStep
<1> QED BY <1>1, <1>2, MidiStart, PTL DEF MidiSpec

-----------------------------------------------------------------------------
(* The machine's clocks and the save states.                               *)

Clock == 0 .. Wrap - 1

Machine == [clock : Clock, old : Clock, total : Nat, given : Nat, scan : Nat, ran : BOOLEAN,
            frames : Nat, cycles : Nat, seen : Clock, ended : Clock, known : BOOLEAN]

State == [machine : Machine, build : {"ours", "theirs"}, card : BOOLEAN, parts : Cuts \cup {Whole}]

\* What the devices are still owed; how far the clock is past the frame's end;
\* what a client has not been told of yet.
Lag(m)    == Since(m.clock, m.old)
Away(m)   == Since(m.clock, m.ended)
Untold(m) == Since(m.clock, m.seen)

\* A machine whose clocks agree.
Agrees(m) ==
    /\ m \in Machine
    /\ m.given + Lag(m) = m.total
    /\ m.cycles + Untold(m) = m.total
    /\ Untold(m) <= Away(m)
    /\ m.ran => Away(m) > 0
    /\ Lag(m) <= 2 * IrqCost + Charge

\* A machine as it is kept.
Kept(m) ==
    /\ Agrees(m)
    /\ m.seen = m.clock /\ m.ended = m.clock /\ m.known /\ ~m.ran

StoreOK(t) ==
    IF promised[t] = Nothing
    THEN stored[t] = Nothing \/ (stored[t].build # "ours" \/ stored[t].parts # Whole)
    ELSE /\ stored[t] = promised[t]
         /\ stored[t] \in State /\ Kept(stored[t].machine)
         /\ stored[t].build = "ours" /\ stored[t].parts = Whole

StepOK ==
    \/ step = Nothing
    \/ /\ step \in [left : Nat]
       /\ step.left = 0 => halted /\ ~updating /\ ~machine.ran

StateInv ==
    /\ Agrees(machine)
    /\ updating => Lag(machine) <= IrqCost + Charge
    /\ {halted, updating, served, card} \subseteq BOOLEAN
    /\ StepOK
    /\ stored \in [Targets -> State \cup {Nothing}]
    /\ promised \in [Targets -> State \cup {Nothing}]
    /\ \A t \in Targets : StoreOK(t)

-----------------------------------------------------------------------------
(* The clock.                                                              *)

\* The bounds on a step and a frame, and that neither comes near a wrap.
LEMMA Sizes ==
    /\ Wrap \in Nat \ {0} /\ IrqCost \in Nat /\ Charge \in Nat /\ FrameClocks \in Nat
    /\ Costs \subseteq Nat \ {0}
    /\ \A n \in Costs : n + 2 * IrqCost + Charge < Wrap
    /\ 2 * IrqCost + Charge < Wrap
<1>1. Wrap \in Nat /\ IrqCost \in Nat /\ Charge \in Nat /\ FrameClocks \in Nat
      /\ Costs \subseteq Nat \ {0} /\ Costs # {} /\ IrqCost <= FrameClocks
      /\ \A n \in Costs : FrameClocks + n + IrqCost + Charge < Wrap
  BY StateAssumption
<1>2. \A n \in Costs : n + 2 * IrqCost + Charge < Wrap
  BY <1>1
<1>3. PICK n \in Costs : n + 2 * IrqCost + Charge < Wrap
  BY <1>1, <1>2
<1> QED BY <1>1, <1>2, <1>3

\* A clock below twice the wrap wraps at most once.
LEMMA ClockWraps ==
    ASSUME NEW x \in Nat, x < Wrap + Wrap
    PROVE  /\ x < Wrap => x % Wrap = x
           /\ ~(x < Wrap) => x % Wrap = x - Wrap
BY Sizes, SMT

\* How far apart two readings of the clock are, without the remainder.
LEMMA SinceIs ==
    ASSUME NEW now \in Clock, NEW then \in Clock
    PROVE  /\ Since(now, then) \in Clock
           /\ then <= now => Since(now, then) = now - then
           /\ now < then => Since(now, then) = now + Wrap - then
<1> DEFINE x == now + Wrap - then
<1>1. x \in Nat /\ x < Wrap + Wrap /\ (x < Wrap <=> now < then)
  BY Sizes DEF Clock
<1> HIDE DEF x
<1>2. (x < Wrap => x % Wrap = x) /\ (~(x < Wrap) => x % Wrap = x - Wrap)
  BY <1>1, ClockWraps, Zenon
<1> DEFINE r == x % Wrap
<1>3. Since(now, then) = r
  BY DEF Since, x
<1>4. (x < Wrap => r = x) /\ (~(x < Wrap) => r = x - Wrap)
  BY <1>2
<1> HIDE DEF r
<1> QED BY <1>1, <1>3, <1>4, Sizes DEF Clock, x

\* While it has not gone round since, time spent adds to what has passed.
LEMMA SinceGrows ==
    ASSUME NEW now \in Clock, NEW then \in Clock, NEW n \in Nat,
           Since(now, then) + n < Wrap
    PROVE  /\ (now + n) % Wrap \in Clock
           /\ Since((now + n) % Wrap, then) = Since(now, then) + n
<1>1. n < Wrap
  BY SinceIs, Sizes DEF Clock
<1> DEFINE x == now + n
           later == x % Wrap
<1>2. x \in Nat /\ x < Wrap + Wrap
  BY <1>1, Sizes DEF Clock
<1> HIDE DEF x
<1>3. (x < Wrap => later = x) /\ (~(x < Wrap) => later = x - Wrap)
  BY <1>2, ClockWraps, Zenon
<1> HIDE DEF later
<1>4. later \in Clock
  BY <1>2, <1>3, Sizes DEF Clock
<1>5. /\ then <= now => Since(now, then) = now - then
      /\ now < then => Since(now, then) = now + Wrap - then
      /\ then <= later => Since(later, then) = later - then
      /\ later < then => Since(later, then) = later + Wrap - then
  BY <1>4, SinceIs
<1> DEFINE before == Since(now, then)
           after == Since(later, then)
<1>6. before + n < Wrap
  OBVIOUS
<1> HIDE DEF before, after
<1>7. /\ then <= now => before = now - then
      /\ now < then => before = now + Wrap - then
      /\ then <= later => after = later - then
      /\ later < then => after = later + Wrap - then
  BY <1>5 DEF before, after
<1>8. after = before + n
  BY <1>1, <1>2, <1>3, <1>4, <1>6, <1>7, Sizes DEF Clock, x
<1> QED BY <1>4, <1>8 DEF later, before, after, x

\* No clocks pass between a reading and itself.
LEMMA SinceSelf == ASSUME NEW now \in Clock PROVE Since(now, now) = 0
BY SinceIs, Sizes DEF Clock

-----------------------------------------------------------------------------
(* What happens to a machine.                                              *)

\* What of a machine its clocks' agreement is about.
LEMMA Parts ==
    ASSUME NEW m \in Machine
    PROVE  /\ {m.clock, m.old, m.seen, m.ended} \subseteq Clock
           /\ {m.total, m.given, m.scan, m.frames, m.cycles} \subseteq Nat
           /\ {m.ran, m.known} \subseteq BOOLEAN
           /\ {Lag(m), Away(m), Untold(m)} \subseteq Clock
<1>1. /\ {m.clock, m.old, m.seen, m.ended} \subseteq Clock
      /\ {m.total, m.given, m.scan, m.frames, m.cycles} \subseteq Nat
      /\ {m.ran, m.known} \subseteq BOOLEAN
  BY DEF Machine
<1> QED BY <1>1, SinceIs DEF Lag, Away, Untold

\* The CPU's clocks go on ahead of the devices'.
LEMMA SpendAgrees ==
    ASSUME NEW m, Agrees(m), NEW n \in Nat,
           Lag(m) + n <= 2 * IrqCost + Charge, Away(m) + n < Wrap
    PROVE  /\ Agrees(Spend(m, n))
           /\ Lag(Spend(m, n)) = Lag(m) + n /\ Away(Spend(m, n)) = Away(m) + n
           /\ Spend(m, n).ran = m.ran
<1> DEFINE s == Spend(m, n)
           c == (m.clock + n) % Wrap
<1>0. m \in Machine
  BY DEF Agrees
<1>1. /\ m.clock \in Clock /\ m.old \in Clock /\ m.seen \in Clock /\ m.ended \in Clock
      /\ m.total \in Nat /\ m.given \in Nat /\ m.cycles \in Nat
      /\ Lag(m) \in Clock /\ Away(m) \in Clock /\ Untold(m) \in Clock
  BY <1>0, Parts
<1>2. Lag(m) + n < Wrap /\ Untold(m) + n < Wrap
  BY <1>1, Sizes DEF Agrees, Clock
<1>3. /\ c \in Clock /\ Since(c, m.old) = Lag(m) + n
      /\ Since(c, m.ended) = Away(m) + n /\ Since(c, m.seen) = Untold(m) + n
  BY <1>1, <1>2, SinceGrows DEF Lag, Away, Untold
<1>4. s = [m EXCEPT !.clock = c, !.total = m.total + n]
  BY DEF Spend
<1> HIDE DEF s, c
<1>a. m.total + n \in Nat
  BY <1>1
<1>b. s \in Machine
  BY <1>0, <1>3, <1>4, <1>a DEF Machine
<1>5. /\ s \in Machine /\ s.clock = c /\ s.total = m.total + n /\ s.old = m.old
      /\ s.given = m.given /\ s.cycles = m.cycles /\ s.seen = m.seen /\ s.ended = m.ended
      /\ s.ran = m.ran
  BY <1>0, <1>b, <1>4 DEF Machine
<1>6. Lag(s) = Lag(m) + n /\ Away(s) = Away(m) + n /\ Untold(s) = Untold(m) + n
  BY <1>3, <1>5 DEF Lag, Away, Untold
<1>7. Agrees(s)
  BY <1>1, <1>5, <1>6 DEF Agrees, Clock
<1> QED BY <1>5, <1>6, <1>7 DEF s

\* Folding tells a client all there is.
LEMMA FoldedAgrees ==
    ASSUME NEW m, Agrees(m)
    PROVE  /\ Agrees(Folded(m)) /\ Folded(m).cycles = m.total
           /\ Lag(Folded(m)) = Lag(m) /\ Folded(m).seen = m.clock /\ Folded(m).clock = m.clock
           /\ Folded(m).ended = m.ended /\ Folded(m).ran = m.ran /\ Folded(m).known = m.known
<1> DEFINE f == Folded(m)
<1>0. m \in Machine
  BY DEF Agrees
<1>1. /\ m.clock \in Clock /\ m.ended \in Clock /\ m.total \in Nat /\ m.cycles \in Nat
      /\ Away(m) \in Clock /\ Untold(m) \in Clock
  BY <1>0, Parts
<1>2. f = [m EXCEPT !.cycles = m.cycles + Untold(m), !.seen = m.clock]
  BY DEF Folded, Untold
<1>3. m.cycles + Untold(m) = m.total
  BY DEF Agrees
<1> HIDE DEF f
<1>4. /\ f \in Machine /\ f.clock = m.clock /\ f.total = m.total /\ f.old = m.old
      /\ f.given = m.given /\ f.cycles = m.total /\ f.seen = m.clock /\ f.ended = m.ended
      /\ f.ran = m.ran /\ f.known = m.known
  BY <1>0, <1>1, <1>2, <1>3 DEF Machine
<1>5. Lag(f) = Lag(m) /\ Away(f) = Away(m) /\ Untold(f) = 0
  BY <1>1, <1>4, SinceSelf DEF Lag, Away, Untold
<1>6. Agrees(f)
  BY <1>1, <1>4, <1>5, Sizes DEF Agrees, Clock
<1> QED BY <1>4, <1>5, <1>6 DEF f

\* An interrupt's clocks, or a step without one.
LEMMA InterruptedAgrees ==
    ASSUME NEW m, Agrees(m), Lag(m) <= IrqCost + Charge, Away(m) + IrqCost < Wrap,
           NEW i \in Interrupted(m)
    PROVE  Agrees(i) /\ Lag(i) <= Lag(m) + IrqCost /\ Away(i) >= Away(m) /\ i.ran = m.ran
<1>0. m \in Machine
  BY DEF Agrees
<1>1. Lag(m) \in Clock /\ Away(m) \in Clock
  BY <1>0, Parts
<1>2. CASE i = m
  BY <1>1, <1>2, Sizes DEF Clock
<1>3. CASE i = Spend(m, IrqCost)
  <2>1. Lag(m) + IrqCost <= 2 * IrqCost + Charge
    BY <1>1, Sizes DEF Clock
  <2>2. /\ Agrees(i) /\ Lag(i) = Lag(m) + IrqCost /\ Away(i) = Away(m) + IrqCost
        /\ i.ran = m.ran
    BY <1>3, <2>1, Sizes, SpendAgrees
  <2> QED BY <1>1, <2>2, Sizes DEF Clock
<1> QED BY <1>2, <1>3 DEF Interrupted

\* The devices are given what they are owed, by an instruction of n clocks.
LEMMA AdvancedAgrees ==
    ASSUME NEW m, Agrees(m), NEW n \in Costs, Away(m) + n < Wrap
    PROVE  /\ Agrees(Advanced(m, n)) /\ Lag(Advanced(m, n)) = 0
           /\ Away(Advanced(m, n)) = Away(m) + n
<1> DEFINE c == (m.clock + n) % Wrap
           clocks == Since(c, m.old)
           a == Advanced(m, n)
           sum == m.scan + clocks
           scan == IF sum >= FrameClocks THEN sum - FrameClocks ELSE sum
<1>0. m \in Machine
  BY DEF Agrees
<1>1. /\ m.clock \in Clock /\ m.old \in Clock /\ m.seen \in Clock /\ m.ended \in Clock
      /\ m.total \in Nat /\ m.given \in Nat /\ m.cycles \in Nat /\ m.scan \in Nat
      /\ Lag(m) \in Clock /\ Away(m) \in Clock /\ Untold(m) \in Clock
      /\ n \in Nat /\ n > 0
  BY <1>0, Parts, Sizes
<1>2. Lag(m) + n < Wrap /\ Untold(m) + n < Wrap
  <2>1. n + 2 * IrqCost + Charge < Wrap
    BY Sizes
  <2> QED BY <1>1, <2>1, Sizes DEF Agrees, Clock
<1>3. /\ c \in Clock /\ clocks = Lag(m) + n
      /\ Since(c, m.ended) = Away(m) + n /\ Since(c, m.seen) = Untold(m) + n
  BY <1>1, <1>2, SinceGrows DEF Lag, Away, Untold
<1>4. a = [m EXCEPT !.clock = c, !.total = m.total + n, !.old = c, !.given = m.given + clocks,
                    !.ran = TRUE, !.scan = scan]
  <2> DEFINE t == m.total + n
  <2>1. Spend(m, n) = [m EXCEPT !.clock = c, !.total = t]
    BY DEF Spend
  <2>2. /\ Spend(m, n).clock = c /\ Spend(m, n).total = t
    BY <1>0, <2>1 DEF Machine
  <2>3. a = [Spend(m, n) EXCEPT !.old = c, !.given = m.given + clocks, !.ran = TRUE, !.scan = scan]
    BY <1>0, <2>1, <2>2 DEF Advanced, Machine
  <2> HIDE DEF c, clocks, scan, a, t
  <2>4. a = [m EXCEPT !.clock = c, !.total = t, !.old = c, !.given = m.given + clocks,
                    !.ran = TRUE, !.scan = scan]
    BY <1>0, <2>1, <2>3 DEF Machine
  <2> QED BY <2>4 DEF t
<1> HIDE DEF c, clocks, a
<1>5. scan \in Nat /\ m.total + n \in Nat /\ m.given + clocks \in Nat
  BY <1>1, <1>3, Sizes DEF Clock
<1> HIDE DEF sum, scan
<1>6. a \in Machine
  BY <1>0, <1>3, <1>4, <1>5 DEF Machine
<1>7. /\ a.clock = c /\ a.total = m.total + n /\ a.old = c /\ a.given = m.given + clocks
      /\ a.cycles = m.cycles /\ a.seen = m.seen /\ a.ended = m.ended
  BY <1>0, <1>4 DEF Machine
<1>8. Lag(a) = 0 /\ Away(a) = Away(m) + n /\ Untold(a) = Untold(m) + n
  BY <1>3, <1>7, SinceSelf DEF Lag, Away, Untold
<1>9. Agrees(a)
  BY <1>1, <1>3, <1>6, <1>7, <1>8, Sizes DEF Agrees, Clock
<1> QED BY <1>8, <1>9 DEF a

\* A frame's end counts its cycles and starts the next.
LEMMA FrameEndedAgrees ==
    ASSUME NEW m, Agrees(m)
    PROVE  /\ Agrees(FrameEnded(m)) /\ Lag(FrameEnded(m)) = Lag(m) /\ Away(FrameEnded(m)) = 0
           /\ FrameEnded(m).ran = FALSE
<1> DEFINE f == Folded(m)
           e == FrameEnded(m)
<1>1. /\ Agrees(f) /\ f.cycles = m.total /\ Lag(f) = Lag(m) /\ f.seen = m.clock
      /\ f.clock = m.clock
  BY FoldedAgrees
<1>2. e = [f EXCEPT !.frames = @ + 1, !.ended = m.clock, !.known = TRUE, !.ran = FALSE]
  BY DEF FrameEnded
<1> HIDE DEF f, e
<1>3. f \in Machine /\ m \in Machine /\ f.frames + 1 \in Nat /\ m.clock \in Clock
  BY <1>1, Parts DEF Agrees
<1>4. /\ e \in Machine /\ e.clock = m.clock /\ e.old = f.old /\ e.total = f.total
      /\ e.given = f.given /\ e.cycles = f.cycles /\ e.seen = m.clock /\ e.ended = m.clock
      /\ e.ran = FALSE
  BY <1>1, <1>2, <1>3 DEF Machine
<1>5. Lag(e) = Lag(f) /\ Untold(e) = 0 /\ Away(e) = 0 /\ Untold(f) = 0
  BY <1>1, <1>3, <1>4, SinceSelf DEF Lag, Away, Untold
<1>6. Agrees(e)
  BY <1>1, <1>4, <1>5 DEF Agrees
<1> QED BY <1>1, <1>4, <1>5, <1>6 DEF e

\* Folding again changes nothing.
LEMMA FoldedStays ==
    ASSUME NEW m \in Machine, m.seen = m.clock
    PROVE  Folded(m) = m
<1>1. m.clock \in Clock /\ m.cycles \in Nat
  BY Parts
<1>2. Since(m.clock, m.seen) = 0
  BY <1>1, SinceSelf
<1>3. Folded(m) = [m EXCEPT !.cycles = m.cycles, !.seen = m.clock]
  <2> DEFINE c == m.cycles + Since(m.clock, m.seen)
  <2>1. c = m.cycles
    BY <1>1, <1>2
  <2>2. Folded(m) = [m EXCEPT !.cycles = c, !.seen = m.clock]
    BY DEF Folded
  <2> QED BY <2>1, <2>2
<1> QED BY <1>3 DEF Machine

\* A kept machine comes back whole, whatever was there.
LEMMA AppliedIsKept ==
    ASSUME StateInv, NEW s \in State, Kept(s.machine)
    PROVE  Applied(s) = s.machine
<1> DEFINE k == s.machine
           f == Folded(machine)
           r == [clock |-> k.clock, old |-> k.old, total |-> k.total, given |-> k.given,
                 scan |-> k.scan, ran |-> k.ran, frames |-> k.frames, cycles |-> k.cycles,
                 seen |-> k.clock, ended |-> k.clock, known |-> TRUE]
<1>1. f \in Machine /\ k \in Machine
  BY FoldedAgrees DEF StateInv, Agrees, Kept
<1>2. LoadChunk(f, k, "CPU ") = [f EXCEPT !.clock = k.clock, !.total = k.total]
  BY DEF LoadChunk
<1> DEFINE cpu == [f EXCEPT !.clock = k.clock, !.total = k.total]
<1>3. LoadChunk(cpu, k, "MAIN") = [cpu EXCEPT !.old = k.old]
  BY DEF LoadChunk
<1> DEFINE main == [cpu EXCEPT !.old = k.old]
<1>4. LoadChunk(main, k, "VERA") = [main EXCEPT !.scan = k.scan, !.given = k.given, !.ran = k.ran]
  BY DEF LoadChunk
<1> DEFINE vera == [main EXCEPT !.scan = k.scan, !.given = k.given, !.ran = k.ran]
<1>5. LoadChunk(vera, k, "DAP ")
        = [vera EXCEPT !.frames = k.frames, !.cycles = k.cycles,
                       !.seen = vera.clock, !.ended = vera.clock, !.known = TRUE]
  BY DEF LoadChunk
<1>6. Applied(s) = [vera EXCEPT !.frames = k.frames, !.cycles = k.cycles,
                                !.seen = vera.clock, !.ended = vera.clock, !.known = TRUE]
  BY <1>2, <1>3, <1>4, <1>5 DEF Applied
<1> HIDE DEF f, k
<1>7. vera.clock = k.clock
  BY <1>1 DEF Machine
<1>8. Applied(s) = r
  BY <1>1, <1>6, <1>7 DEF Machine
<1>9. k = r
  <2>1. k.seen = k.clock /\ k.ended = k.clock /\ k.known = TRUE
    BY <1>1, Parts DEF Kept, k
  <2> QED BY <1>1, <2>1 DEF Machine
<1> QED BY <1>8, <1>9 DEF k

-----------------------------------------------------------------------------
(* The steps.                                                              *)

\* At power-on all clocks agree, and nothing is stored.
LEMMA StateStart == StateInit => StateInv
<1> SUFFICES ASSUME StateInit PROVE StateInv
  OBVIOUS
<1>1. machine \in Machine
  BY Sizes DEF StateInit, Machine, Clock
<1>2. /\ machine.clock = 0 /\ machine.old = 0 /\ machine.seen = 0 /\ machine.ended = 0
      /\ machine.given = 0 /\ machine.total = 0 /\ machine.cycles = 0 /\ machine.ran = FALSE
  BY DEF StateInit
<1>3. Lag(machine) = 0 /\ Away(machine) = 0 /\ Untold(machine) = 0
  BY <1>1, <1>2, SinceSelf, Parts DEF Lag, Away, Untold
<1>4. Agrees(machine)
  BY <1>1, <1>2, <1>3, Sizes DEF Agrees
<1> QED BY <1>3, <1>4, Sizes DEF StateInit, StateInv, StepOK, StoreOK

\* Every step moves the machine so that its clocks still agree.
LEMMA MachineStep ==
    ASSUME StateInv, [StateNext]_stateVars
    PROVE  Agrees(machine') /\ (updating' => Lag(machine') <= IrqCost + Charge)
<1> DEFINE m == machine
           Good == Agrees(machine') /\ (updating' => Lag(machine') <= IrqCost + Charge)
<1>0. /\ Agrees(m) /\ Lag(m) \in Clock /\ Away(m) \in Clock
      /\ Lag(m) <= 2 * IrqCost + Charge /\ (updating => Lag(m) <= IrqCost + Charge)
  BY Parts DEF StateInv, Agrees
<1>f. /\ Agrees(Folded(m)) /\ Lag(Folded(m)) = Lag(m)
  BY <1>0, FoldedAgrees
<1>1. ASSUME NEW n \in Costs, RunInstruction(n) PROVE Good
  <2>1. n \in Nat /\ Away(m) + n + IrqCost < Wrap
    BY <1>1, Sizes DEF RunInstruction, HasTime, Away
  <2>2. Away(m) + n < Wrap
    BY <1>0, <2>1, Sizes DEF Clock
  <2> DEFINE a == Advanced(m, n)
  <2>3. Agrees(a) /\ Lag(a) = 0 /\ Away(a) = Away(m) + n
    BY <1>0, <2>2, AdvancedAgrees
  <2>4. machine' = a \/ machine' \in Interrupted(a)
    BY <1>1 DEF RunInstruction
  <2> HIDE DEF a
  <2>5. ASSUME machine' \in Interrupted(a) PROVE Agrees(machine') /\ Lag(machine') <= IrqCost
    <3>1. Lag(a) <= IrqCost + Charge /\ Away(a) + IrqCost < Wrap
      BY <2>1, <2>3, Sizes
    <3>2. Agrees(machine') /\ Lag(machine') <= Lag(a) + IrqCost
      BY <2>3, <2>5, <3>1, InterruptedAgrees
    <3> QED BY <2>3, <3>2, Sizes
  <2>6. Agrees(machine') /\ Lag(machine') \in Clock /\ Lag(machine') <= IrqCost
    BY <2>3, <2>4, <2>5, Sizes, Parts DEF Agrees
  <2> QED BY <2>6, Sizes DEF Clock
<1>2. ASSUME NEW n \in Costs, Drag(n) PROVE Good
  <2>1. n \in Nat /\ Away(m) + n + IrqCost < Wrap
    BY <1>2, Sizes DEF Drag, HasTime, Away
  <2>2. Away(m) + n < Wrap
    BY <1>0, <2>1, Sizes DEF Clock
  <2> DEFINE a == Advanced(m, n)
  <2>3. Agrees(a) /\ Lag(a) = 0 /\ Away(a) = Away(m) + n
    BY <1>0, <2>2, AdvancedAgrees
  <2>4. PICK i \in Interrupted(a) : machine' = i \/ machine' = FrameEnded(i)
    BY <1>2 DEF Drag
  <2> HIDE DEF a
  <2>5. Lag(a) <= IrqCost + Charge /\ Away(a) + IrqCost < Wrap
    BY <2>1, <2>3, Sizes
  <2>6. Agrees(i) /\ Lag(i) <= Lag(a) + IrqCost
    BY <2>3, <2>5, InterruptedAgrees
  <2>7. Agrees(FrameEnded(i)) /\ Lag(FrameEnded(i)) = Lag(i)
    BY <2>6, FrameEndedAgrees
  <2>8. Lag(i) \in Clock /\ Lag(i) <= IrqCost
    BY <2>3, <2>6, Sizes, Parts DEF Agrees
  <2>9. Agrees(machine') /\ Lag(machine') = Lag(i)
    BY <2>4, <2>6, <2>7
  <2> QED BY <2>8, <2>9, Sizes DEF Clock
<1>3. CASE HostCall
  <2>1. Lag(m) <= IrqCost /\ Away(m) + Charge + IrqCost < Wrap /\ machine' = Spend(m, Charge)
    BY <1>3 DEF HostCall, HasTime, Away, Lag
  <2>2. Lag(m) + Charge <= 2 * IrqCost + Charge /\ Away(m) + Charge < Wrap
    BY <1>0, <2>1, Sizes DEF Clock
  <2>3. Agrees(machine') /\ Lag(machine') = Lag(m) + Charge
    BY <1>0, <2>1, <2>2, Sizes, SpendAgrees
  <2> QED BY <1>0, <2>1, <2>3, Sizes DEF Clock
<1>4. CASE FrameOver
  <2> DEFINE e == FrameEnded(m)
  <2>1. Agrees(e) /\ Lag(e) = Lag(m) /\ Away(e) = 0
    BY <1>0, FrameEndedAgrees
  <2>2. machine' \in Interrupted(e) /\ updating /\ updating' = FALSE
    BY <1>4 DEF FrameOver
  <2> HIDE DEF e
  <2>3. Lag(e) <= IrqCost + Charge /\ Away(e) + IrqCost < Wrap
    BY <1>0, <2>1, <2>2, Sizes
  <2>4. Agrees(machine')
    BY <2>1, <2>2, <2>3, InterruptedAgrees
  <2> QED BY <2>2, <2>4
<1>5. CASE Reset
  <2> DEFINE b == IF updating THEN m ELSE Folded(m)
  <2>1. Agrees(b) /\ Lag(b) = Lag(m)
    BY <1>0, <1>f
  <2>2. machine' = [b EXCEPT !.scan = 0] /\ updating' = updating
    BY <1>5 DEF Reset
  <2> HIDE DEF b
  <2>3. b \in Machine
    BY <2>1 DEF Agrees
  <2>4. /\ machine' \in Machine /\ machine'.clock = b.clock /\ machine'.old = b.old
        /\ machine'.total = b.total /\ machine'.given = b.given /\ machine'.cycles = b.cycles
        /\ machine'.seen = b.seen /\ machine'.ended = b.ended /\ machine'.ran = b.ran
    BY <2>2, <2>3 DEF Machine
  <2>5. Agrees(machine') /\ Lag(machine') = Lag(b)
    BY <2>1, <2>4 DEF Agrees, Lag, Away, Untold
  <2> QED BY <1>0, <2>1, <2>2, <2>5
<1>6. CASE StepPoll
  <2> DEFINE f == Folded(m)
  <2>1. CASE step.left = 0
    <3>1. /\ Agrees(f) /\ f.seen = m.clock /\ f.clock = m.clock /\ f.ran = m.ran
          /\ Lag(f) = Lag(m)
      BY <1>0, FoldedAgrees
    <3>2. machine' = [f EXCEPT !.ended = m.clock, !.known = TRUE] /\ updating' = FALSE
          /\ m.ran = FALSE
      BY <1>6, <2>1, Parts, <1>0 DEF StepPoll, StateInv, StepOK, Agrees
    <3> HIDE DEF f
    <3>3. f \in Machine /\ f.clock \in Clock
      BY <3>1, Parts DEF Agrees
    <3>4. /\ machine' \in Machine /\ machine'.clock = f.clock /\ machine'.old = f.old
          /\ machine'.total = f.total /\ machine'.given = f.given /\ machine'.cycles = f.cycles
          /\ machine'.seen = f.clock /\ machine'.ended = f.clock /\ machine'.ran = FALSE
      BY <3>1, <3>2, <3>3 DEF Machine
    <3>5. Lag(machine') = Lag(f) /\ Untold(machine') = 0 /\ Away(machine') = 0 /\ Untold(f) = 0
      BY <3>1, <3>3, <3>4, SinceSelf DEF Lag, Away, Untold
    <3> QED BY <3>1, <3>2, <3>4, <3>5 DEF Agrees
  <2>2. CASE step.left # 0
    BY <1>6, <1>f, <2>2 DEF StepPoll
  <2> QED BY <2>1, <2>2
<1>7. ASSUME NEW t \in Slots, SaveSlot(t) PROVE Good
  BY <1>7, <1>f DEF SaveSlot, Ready
<1>8. ASSUME NEW t \in Paths, SaveFile(t) PROVE Good
  BY <1>8, <1>f DEF SaveFile, Ready
<1>9. ASSUME NEW t \in Targets, LoadState(t) PROVE Good
  <2>1. updating' = FALSE
    BY <1>9 DEF LoadState, Ready, StateInv
  <2>2. CASE Check(stored[t])
    <3>1. stored[t] \in State /\ Kept(stored[t].machine)
      BY <1>9, <2>2 DEF StateInv, StoreOK, LoadState, Check, HeaderMatches
    <3>2. machine' = stored[t].machine
      BY <1>9, <2>2, <3>1, AppliedIsKept DEF LoadState
    <3> QED BY <2>1, <3>1, <3>2 DEF Kept
  <2>3. CASE ~Check(stored[t])
    BY <1>9, <2>1, <2>3, <1>f DEF LoadState
  <2> QED BY <2>2, <2>3
<1>10. ASSUME NEW p \in Paths, OthersFile(p) PROVE Good
  BY <1>0, <1>10 DEF OthersFile
<1>11. ASSUME NEW k \in 1 .. MaxSteps, StepFrames(k) PROVE Good
  BY <1>0, <1>11 DEF StepFrames
<1>12. CASE SwapCard \/ Pause \/ Continue \/ UNCHANGED stateVars
  BY <1>0, <1>12 DEF SwapCard, Pause, Continue, stateVars, Agrees, Lag, Away, Untold
<1> QED BY <1>1, <1>2, <1>3, <1>4, <1>5, <1>6, <1>7, <1>8, <1>9, <1>10, <1>11, <1>12 DEF StateNext

\* Only a frame that ended leaves the last of a step's frames counted.
LEMMA StepStep ==
    ASSUME StateInv, [StateNext]_stateVars
    PROVE  StepOK' /\ {halted, updating, served, card}' \subseteq BOOLEAN
<1> DEFINE Good == StepOK' /\ {halted, updating, served, card}' \subseteq BOOLEAN
<1>0. StepOK /\ {halted, updating, served, card} \subseteq BOOLEAN /\ Agrees(machine)
  BY DEF StateInv
<1>1. ASSUME NEW n \in Costs, RunInstruction(n) PROVE Good
  <2>1. ~halted /\ UNCHANGED <<halted, step, served, card>> /\ updating' \in BOOLEAN
    BY <1>1 DEF RunInstruction, EndsFrame
  <2> QED BY <1>0, <2>1 DEF StepOK
<1>2. ASSUME NEW n \in Costs, Drag(n) PROVE Good
  BY <1>0, <1>2 DEF Drag, StepOK
<1>3. CASE HostCall
  BY <1>0, <1>3 DEF HostCall, StepOK
<1>4. CASE FrameOver
  <2>1. updating /\ updating' = FALSE /\ UNCHANGED <<served, card>>
    BY <1>4 DEF FrameOver
  <2>2. CASE step # Nothing /\ ~halted
    <3>1. step \in [left : Nat] /\ step.left # 0
      BY <1>0, <2>1, <2>2 DEF StepOK
    <3>2. step' = [step EXCEPT !.left = step.left - 1] /\ halted' = (step.left = 1)
      BY <1>4, <2>2 DEF FrameOver
    <3>3. step' \in [left : Nat] /\ step'.left = step.left - 1
      BY <3>1, <3>2
    <3>4. Agrees(FrameEnded(machine)) /\ FrameEnded(machine).ran = FALSE
      BY <1>0, FrameEndedAgrees
    <3>5. machine'.ran = FALSE
      <4> DEFINE e == FrameEnded(machine)
      <4>1. machine' = e \/ machine' = [e EXCEPT !.clock = (@ + IrqCost) % Wrap, !.total = @ + IrqCost]
        BY <1>4 DEF FrameOver, Interrupted, Spend
      <4>2. e \in Machine /\ e.ran = FALSE
        BY <3>4 DEF Agrees
      <4> HIDE DEF e
      <4> QED BY <4>1, <4>2 DEF Machine
    <3>6. step'.left = 0 => halted'
      <4>1. step'.left = 0 => step.left = 1
        BY <3>1, <3>3
      <4> QED BY <3>2, <4>1
    <3>7. halted' \in BOOLEAN
      BY <3>2
    <3>8. StepOK'
      BY <2>1, <3>3, <3>5, <3>6 DEF StepOK
    <3> QED BY <1>0, <2>1, <3>7, <3>8
  <2>3. CASE ~(step # Nothing /\ ~halted)
    <3>1. UNCHANGED <<step, halted>>
      BY <1>4, <2>3 DEF FrameOver
    <3> QED BY <1>0, <2>1, <3>1 DEF StepOK
  <2> QED BY <2>2, <2>3
<1>5. CASE Reset
  <2>1. machine'.ran = machine.ran
    <3> DEFINE b == IF updating THEN machine ELSE Folded(machine)
    <3>1. b \in Machine /\ b.ran = machine.ran
      BY <1>0, FoldedAgrees DEF Agrees
    <3>2. machine' = [b EXCEPT !.scan = 0]
      BY <1>5 DEF Reset
    <3> HIDE DEF b
    <3> QED BY <3>1, <3>2 DEF Machine
  <2> QED BY <1>0, <1>5, <2>1 DEF Reset, StepOK
<1>6. CASE StepPoll
  BY <1>0, <1>6 DEF StepPoll, StepOK
<1>7. ASSUME NEW t \in Slots, SaveSlot(t) PROVE Good
  BY <1>0, <1>7 DEF SaveSlot, Ready, StepOK
<1>8. ASSUME NEW t \in Paths, SaveFile(t) PROVE Good
  BY <1>0, <1>8 DEF SaveFile, Ready, StepOK
<1>9. ASSUME NEW t \in Targets, LoadState(t) PROVE Good
  BY <1>0, <1>9 DEF LoadState, Ready, StepOK
<1>10. ASSUME NEW p \in Paths, OthersFile(p) PROVE Good
  BY <1>0, <1>10 DEF OthersFile, StepOK
<1>11. ASSUME NEW k \in 1 .. MaxSteps, StepFrames(k) PROVE Good
  <2>1. step' = [left |-> k] /\ k \in Nat /\ k # 0
    BY <1>11 DEF StepFrames
  <2>2. step' \in [left : Nat] /\ step'.left # 0
    BY <2>1
  <2> QED BY <1>0, <1>11, <2>2 DEF StepFrames, StepOK
<1>12. CASE SwapCard
  BY <1>0, <1>12 DEF SwapCard, StepOK
<1>13. CASE Pause
  BY <1>0, <1>13 DEF Pause, StepOK
<1>14. CASE Continue
  BY <1>0, <1>14 DEF Continue, StepOK
<1>15. CASE UNCHANGED stateVars
  BY <1>0, <1>15 DEF stateVars, StepOK
<1> QED BY <1>1, <1>2, <1>3, <1>4, <1>5, <1>6, <1>7, <1>8, <1>9, <1>10, <1>11, <1>12, <1>13,
           <1>14, <1>15 DEF StateNext

\* What the slots and files hold.
StoreHolds ==
    /\ stored \in [Targets -> State \cup {Nothing}]
    /\ promised \in [Targets -> State \cup {Nothing}]
    /\ \A t \in Targets : StoreOK(t)

\* At a frame's end a machine is saved that can be kept.
LEMMA SnapshotKept ==
    ASSUME StateInv, AtBoundary(machine), NEW parts \in Cuts \cup {Whole}
    PROVE  /\ Snapshot(parts) \in State /\ Kept(Snapshot(parts).machine)
           /\ Snapshot(parts).build = "ours" /\ Snapshot(parts).parts = parts
<1> DEFINE f == Folded(machine)
<1>1. /\ Agrees(f) /\ f.seen = machine.clock /\ f.clock = machine.clock
      /\ f.ended = machine.ended /\ f.ran = machine.ran /\ f.known = machine.known
  BY FoldedAgrees DEF StateInv
<1>2. machine.known /\ machine.clock = machine.ended /\ machine.clock \in Clock
      /\ machine.ran \in BOOLEAN
  BY Parts DEF AtBoundary, StateInv, Agrees
<1>3. ~machine.ran
  BY <1>2, SinceSelf DEF StateInv, Agrees, Away
<1> HIDE DEF f
<1>4. Kept(f) /\ f \in Machine
  BY <1>1, <1>2, <1>3 DEF Kept, Agrees
<1>5. Snapshot(parts) = [machine |-> f, build |-> "ours", card |-> card, parts |-> parts]
  BY DEF Snapshot, f
<1> QED BY <1>4, <1>5 DEF State, StateInv

\* What is stored was kept, and a load promises no more than it.
LEMMA StoreStep ==
    ASSUME StateInv, [StateNext]_stateVars
    PROVE  StoreHolds'
<1>0. StoreHolds
  BY DEF StateInv, StoreHolds
<1>1. ASSUME UNCHANGED <<stored, promised>> PROVE StoreHolds'
  BY <1>0, <1>1 DEF StoreHolds, StoreOK
<1>2. ASSUME NEW s \in Slots, SaveSlot(s) PROVE StoreHolds'
  <2>1. PICK t \in {Snapshot(Whole), Nothing} :
          /\ stored' = [stored EXCEPT ![s] = t]
          /\ promised' = [promised EXCEPT ![s] = t]
    BY <1>2 DEF SaveSlot
  <2>2. /\ Snapshot(Whole) \in State /\ Kept(Snapshot(Whole).machine)
        /\ Snapshot(Whole).build = "ours" /\ Snapshot(Whole).parts = Whole
    BY <1>2, SnapshotKept DEF SaveSlot
  <2>3. s \in Targets
    BY DEF Targets
  <2> HIDE DEF State
  <2>4. stored' \in [Targets -> State \cup {Nothing}] /\ promised' \in [Targets -> State \cup {Nothing}]
    BY <1>0, <2>1, <2>2 DEF StoreHolds
  <2>5. ASSUME NEW x \in Targets PROVE StoreOK(x)'
    <3>1. CASE x = s
      BY <1>0, <2>1, <2>2, <2>3, <3>1 DEF StoreHolds, StoreOK
    <3>2. CASE x # s
      BY <1>0, <2>1, <3>2 DEF StoreHolds, StoreOK
    <3> QED BY <3>1, <3>2
  <2> QED BY <2>4, <2>5 DEF StoreHolds
<1>3. ASSUME NEW p \in Paths, SaveFile(p) PROVE StoreHolds'
  <2>1. PICK parts \in Cuts \cup {Whole} :
          /\ stored' = [stored EXCEPT ![p] = Snapshot(parts)]
          /\ promised' = [promised EXCEPT ![p] = IF parts = Whole THEN Snapshot(Whole) ELSE Nothing]
    BY <1>3 DEF SaveFile
  <2>2. /\ Snapshot(parts) \in State /\ Kept(Snapshot(parts).machine)
        /\ Snapshot(parts).build = "ours" /\ Snapshot(parts).parts = parts
    BY <1>3, SnapshotKept DEF SaveFile
  <2>3. p \in Targets
    BY DEF Targets
  <2>4. stored' \in [Targets -> State \cup {Nothing}] /\ promised' \in [Targets -> State \cup {Nothing}]
    BY <1>0, <2>1, <2>2 DEF StoreHolds
  <2>5. ASSUME NEW x \in Targets PROVE StoreOK(x)'
    <3>1. CASE x = p
      BY <1>0, <2>1, <2>2, <2>3, <3>1 DEF StoreHolds, StoreOK
    <3>2. CASE x # p
      BY <1>0, <2>1, <3>2 DEF StoreHolds, StoreOK
    <3> QED BY <3>1, <3>2
  <2> QED BY <2>4, <2>5 DEF StoreHolds
<1>4. ASSUME NEW p \in Paths, OthersFile(p) PROVE StoreHolds'
  <2>1. /\ stored' = [stored EXCEPT ![p] = [stored[p] EXCEPT !.build = "theirs"]]
        /\ promised' = [promised EXCEPT ![p] = Nothing]
    BY <1>4 DEF OthersFile
  <2>2. p \in Targets /\ stored[p] \in State
    BY <1>0, <1>4 DEF Targets, StoreHolds, OthersFile
  <2>3. [stored[p] EXCEPT !.build = "theirs"] \in State
        /\ [stored[p] EXCEPT !.build = "theirs"].build = "theirs"
    BY <2>2 DEF State
  <2>4. stored' \in [Targets -> State \cup {Nothing}] /\ promised' \in [Targets -> State \cup {Nothing}]
    BY <1>0, <2>1, <2>3 DEF StoreHolds
  <2>5. ASSUME NEW x \in Targets PROVE StoreOK(x)'
    <3>1. CASE x = p
      BY <1>0, <2>1, <2>2, <2>3, <3>1 DEF StoreHolds, StoreOK
    <3>2. CASE x # p
      BY <1>0, <2>1, <3>2 DEF StoreHolds, StoreOK
    <3> QED BY <3>1, <3>2
  <2> QED BY <2>4, <2>5 DEF StoreHolds
<1>5. CASE StateNext
  BY <1>1, <1>2, <1>3, <1>4, <1>5
     DEF StateNext, RunInstruction, Drag, HostCall, FrameOver, Reset, SwapCard, Pause, Continue,
         StepPoll, StepFrames, LoadState
<1> QED BY <1>1, <1>5 DEF stateVars

\* Every step keeps the clocks in agreement and the store as it should be.
LEMMA StateStep == StateInv /\ [StateNext]_stateVars => StateInv'
<1> SUFFICES ASSUME StateInv, [StateNext]_stateVars PROVE StateInv'
  OBVIOUS
<1> QED BY MachineStep, StepStep, StoreStep DEF StateInv, StoreHolds

-----------------------------------------------------------------------------
(* What follows.                                                           *)

\* A load of one's own state brings the promised machine back; another changes nothing.
LEMMA LoadBringsBack ==
    ASSUME StateInv, NEW t \in Targets, LoadState(t)
    PROVE  IF promised[t] # Nothing /\ promised[t].card = card
           THEN Folded(machine') = promised[t].machine /\ AtBoundary(machine') /\ ~machine'.ran
           ELSE Folded(machine') = Folded(machine)
<1> DEFINE s == stored[t]
<1>1. StoreOK(t) /\ s # Nothing
  BY DEF StateInv, LoadState
<1>2. CASE promised[t] # Nothing /\ promised[t].card = card
  <2>1. /\ s = promised[t] /\ s \in State /\ Kept(s.machine)
        /\ s.build = "ours" /\ s.parts = Whole
    BY <1>1, <1>2 DEF StoreOK
  <2>2. Check(s)
    BY <1>2, <2>1 DEF Check, HeaderMatches, Whole, Chunks
  <2>3. machine' = s.machine
    BY <2>1, <2>2, AppliedIsKept DEF LoadState
  <2>4. Folded(machine') = s.machine
    BY <2>1, <2>3, FoldedStays DEF Kept, Agrees
  <2> QED BY <1>2, <2>1, <2>3, <2>4 DEF Kept, AtBoundary
<1>3. CASE ~(promised[t] # Nothing /\ promised[t].card = card)
  <2>1. ~Check(s)
    BY <1>1, <1>3 DEF StoreOK, Check, HeaderMatches
  <2>2. machine' = Folded(machine)
    BY <2>1 DEF LoadState
  <2>3. Folded(machine) \in Machine /\ Folded(machine).seen = Folded(machine).clock
    BY FoldedAgrees DEF StateInv, Agrees
  <2> QED BY <1>3, <2>2, <2>3, FoldedStays
<1> QED BY <1>2, <1>3

\* The clock the devices are driven by, the frames' cycles and what a client is
\* shown never drift apart, through loads, refused loads and the 32-bit clock's
\* wrap (main.c, emulator_loop; save_state.c).
THEOREM ClocksAlwaysAgree == StateSpec => []ClocksAgree
<1>1. StateInv => ClocksAgree
  BY FoldedAgrees DEF StateInv, Agrees, ClocksAgree, Lag
<1> QED BY <1>1, StateStart, StateStep, PTL DEF StateSpec

\* A state that is loaded is the one that was saved, at a frame's end like the
\* one it was saved at, and a load that fails changes nothing (save_state.c).
THEOREM LoadsBringBack == StateSpec => LoadsWhatWasSaved
<1>1. StateInv /\ [StateNext]_stateVars =>
        [ \A t \in Targets :
            LoadState(t) =>
              IF promised[t] # Nothing /\ promised[t].card = card
              THEN Folded(machine') = promised[t].machine /\ AtBoundary(machine') /\ ~machine'.ran
              ELSE Folded(machine') = Folded(machine) ]_stateVars
  BY LoadBringsBack
<1> QED BY <1>1, StateStart, StateStep, PTL DEF StateSpec, LoadsWhatWasSaved

-----------------------------------------------------------------------------
(* The SD card: what it has taken in of the guest's frame, and that reads  *)
(* and writes do not overlap.                                              *)

\* How many bytes of the frame have arrived.
Arrived == IF wire = None \/ frame = <<>> THEN sent ELSE sent - 1

\* The card has taken in what has arrived of the frame, where there is a card.
TakenIn ==
    /\ rxbuf \in Seq(Nat)
    /\ ss => /\ Len(rxbuf) = IF attached THEN Arrived ELSE 0
             /\ attached => \A i \in 1 .. Arrived : rxbuf[i] = frame[i]

\* The byte in flight is the frame's, or an idle one between frames, and breaks
\* no rule of the protocol.
InFlight ==
    /\ attached \in BOOLEAN /\ ss \in BOOLEAN /\ autotx \in BOOLEAN
    /\ frame \in Frame \cup {<<>>}
    /\ sent \in 0 .. Len(frame)
    /\ wire # None =>
        /\ ss /\ ~Breaks(wire)
        /\ IF frame = <<>> THEN wire = FF ELSE sent > 0 /\ wire = frame[sent]
    /\ ~ss => frame = <<>>

\* Reads and writes do not overlap.
OneAtATime ==
    /\ lba \in Nat /\ lastCmd \in Nat
    /\ isAcmd \in BOOLEAN /\ isIdle \in BOOLEAN /\ isInitialized \in BOOLEAN
    /\ ongoing \in BOOLEAN
    /\ named # None => lastCmd = 24 /\ lba = named /\ ~ongoing

CardInv == TakenIn /\ InFlight /\ OneAtATime

\* What a frame looks like: a command, or a packet.
LEMMA FrameShapes ==
    ASSUME NEW f \in Frame
    PROVE  /\ f \in Seq(Nat) /\ f # <<>> /\ f[1] # FF
           /\ \/ Len(f) = 2 /\ f[1] \in 64 .. 127
              \/ Len(f) = 3 /\ f[1] \in {StartBlock, 0}
<1>1. CASE \E r \in Request : f = <<64 + r[1], r[2]>>
  <2>1. PICK r \in Request : f = <<64 + r[1], r[2]>>
    BY <1>1
  <2>2. r \in (0 .. 63) \X Nat
    BY CardAssumption
  <2>3. r[1] \in 0 .. 63 /\ r[2] \in Nat
    BY <2>2
  <2>4. 64 + r[1] \in 64 .. 127 /\ 64 + r[1] \in Nat
    BY <2>3
  <2> QED BY <2>1, <2>3, <2>4 DEF FF
<1>2. CASE \E t \in {StartBlock, 0}, d \in Data : f = <<t, d, 0>>
  <2>1. PICK t \in {StartBlock, 0}, d \in Data : f = <<t, d, 0>>
    BY <1>2
  <2>2. d \in Nat /\ t \in Nat /\ t # FF
    BY CardAssumption DEF StartBlock, FF
  <2> QED BY <2>1, <2>2 DEF FF, StartBlock
<1> QED BY <1>1, <1>2 DEF Frame

\* A card at power-on has taken in nothing.
LEMMA CardStart == CardInit => CardInv
<1> SUFFICES ASSUME CardInit PROVE CardInv
  OBVIOUS
<1>1. TakenIn
  BY DEF CardInit, TakenIn, Arrived
<1>2. InFlight
  <2>1. Len(<<>>) = 0
    OBVIOUS
  <2>2. /\ attached \in BOOLEAN /\ ss = FALSE /\ autotx = FALSE
        /\ frame = <<>> /\ sent = 0 /\ wire = None
    BY DEF CardInit
  <2>3. frame \in Frame \cup {<<>>} /\ sent \in 0 .. Len(frame)
    BY <2>1, <2>2
  <2> QED BY <2>2, <2>3 DEF InFlight
<1>3. OneAtATime
  BY DEF CardInit, OneAtATime
<1> QED BY <1>1, <1>2, <1>3 DEF CardInv

\* A byte that arrives at the card is an idle one between frames, or makes what
\* the card holds one byte more of the frame.
LEMMA ByteArrives ==
    ASSUME CardInv, wire # None, attached
    PROVE  /\ ss
           /\ frame = <<>> => rxbuf = <<>> /\ wire = FF /\ sent = 0
           /\ frame # <<>> =>
                /\ frame \in Frame /\ sent \in 1 .. Len(frame)
                /\ Append(rxbuf, wire) \in Seq(Nat)
                /\ Len(Append(rxbuf, wire)) = sent
                /\ \A i \in 1 .. sent : Append(rxbuf, wire)[i] = frame[i]
                /\ rxbuf = <<>> => wire # FF
                /\ rxbuf # <<>> => rxbuf[1] = frame[1] /\ sent > 1
<1>1. ss /\ rxbuf \in Seq(Nat)
  BY DEF CardInv, InFlight, TakenIn
<1>2. CASE frame = <<>>
  <2>1. sent = 0 /\ wire = FF
    BY <1>2 DEF CardInv, InFlight
  <2>2. Len(rxbuf) = 0
    BY <1>1, <1>2, <2>1 DEF CardInv, TakenIn, Arrived
  <2> QED BY <1>1, <1>2, <2>1, <2>2
<1>3. CASE frame # <<>>
  <2>1. frame \in Frame /\ sent \in 1 .. Len(frame) /\ wire = frame[sent]
    BY <1>3, FrameShapes DEF CardInv, InFlight
  <2>2. Len(rxbuf) = sent - 1 /\ \A i \in 1 .. sent - 1 : rxbuf[i] = frame[i]
    BY <1>1, <1>3 DEF CardInv, TakenIn, Arrived
  <2>3. frame \in Seq(Nat) /\ frame[1] # FF
    BY <2>1, FrameShapes
  <2>4. wire \in Nat
    BY <2>1, <2>3
  <2>5. Append(rxbuf, wire) \in Seq(Nat) /\ Len(Append(rxbuf, wire)) = sent
    BY <1>1, <2>1, <2>2, <2>3, <2>4
  <2>6. ASSUME NEW i \in 1 .. sent PROVE Append(rxbuf, wire)[i] = frame[i]
    BY <1>1, <2>1, <2>2, <2>3, <2>4
  <2>7. rxbuf = <<>> => wire # FF
    BY <2>1, <2>2, <2>3
  <2>8. rxbuf # <<>> => rxbuf[1] = frame[1] /\ sent > 1
    BY <1>1, <2>1, <2>2, <2>3
  <2> QED BY <1>1, <1>3, <2>1, <2>5, <2>6, <2>7, <2>8
<1> QED BY <1>2, <1>3

\* Bytes that complete a command are those of a command frame.
LEMMA CompletesCommand ==
    ASSUME CardInv, wire # None, attached, frame # <<>>
    PROVE  LET rx == Append(rxbuf, wire)
           IN  IsCommand(rx) <=> sent = 2 /\ frame[1] \in 64 .. 127
BY ByteArrives, FrameShapes DEF IsCommand, CommandLen

\* Bytes that complete a packet are those of a packet frame.
LEMMA CompletesPacket ==
    ASSUME CardInv, wire # None, attached, frame # <<>>
    PROVE  /\ IsPacket(Append(rxbuf, wire)) <=> sent = 3
           /\ sent = 3 => Len(frame) = 3 /\ frame[1] \in {StartBlock, 0}
BY ByteArrives, FrameShapes DEF IsPacket, PacketLen

\* One byte between frames completes nothing.
LEMMA IdleByteIsNothing ==
    ASSUME CardInv, wire # None, attached, frame = <<>>
    PROVE  ~Commands(wire) /\ ~Fills(wire)
<1>1. Len(Append(rxbuf, wire)) = 1
  <2>1. rxbuf = <<>>
    BY ByteArrives
  <2> QED BY <2>1
<1> QED BY <1>1 DEF Commands, Fills, IsCommand, IsPacket, CommandLen, PacketLen
\* The block loaded is the protocol's.
LEMMA SameBlock == ASSUME NEW b PROVE LoadBlock(b) = Protocol!BlockAt(b)
BY DEF LoadBlock, Protocol!BlockAt, StartBlock, OutOfRange, Protocol!StartBlock, Protocol!OutOfRange

\* The reply is the protocol's.
LEMMA SameReply == ASSUME NEW n, NEW idling PROVE Reply(n, idling) = Protocol!Reply(n, idling)
BY DEF Reply, Protocol!Reply

\* The blocks of the card are numbers, and None is not.
LEMMA BlocksAreNumbers == Block \subseteq Nat /\ None \notin Nat /\ None \notin Block
BY CardAssumption DEF Block

\* An idle byte between frames is answered with what the protocol has due.
LEMMA IdleByteDelivers ==
    ASSUME CardInv, Respond, UNCHANGED named
    PROVE  Protocol!Deliver
<1> DEFINE nx == IF ongoing THEN lba + 1 ELSE None
<1>1. lba \in Nat /\ lba + 1 \in Nat /\ lba + 1 # None /\ ongoing \in BOOLEAN
  BY BlocksAreNumbers DEF CardInv, OneAtATime
<1>2. ongoing <=> nx # None
  BY <1>1
<1>3. received' = IF response = <<>> THEN Protocol!FF ELSE Head(response)
  BY DEF Respond, FF, Protocol!FF
<1>4. UNCHANGED <<disk, named, isAcmd, isIdle, isInitialized>>
  BY DEF Respond
<1>5. CASE Len(response) = 1 /\ ongoing
  <2>1. lba' = lba + 1 /\ response' = LoadBlock(lba + 1) /\ ongoing' = (lba + 1 \in Block)
    BY <1>5 DEF Respond
  <2>2. response' = Protocol!BlockAt(nx)
    BY <1>5, <2>1, SameBlock
  <2>3. (IF ongoing THEN lba + 1 ELSE None)' = Protocol!After(nx)
    BY <1>5, <2>1 DEF Protocol!After
  <2> QED BY <1>2, <1>3, <1>4, <1>5, <2>2, <2>3 DEF Protocol!Deliver
<1>6. CASE ~(Len(response) = 1 /\ ongoing)
  <2>1. /\ response' = (IF response = <<>> THEN response ELSE Tail(response))
        /\ UNCHANGED <<lba, ongoing>>
    BY <1>6 DEF Respond
  <2>2. (IF ongoing THEN lba + 1 ELSE None)' = nx
    BY <2>1
  <2> QED BY <1>2, <1>3, <1>4, <1>6, <2>1, <2>2 DEF Protocol!Deliver
<1> QED BY <1>5, <1>6

\* A command that breaks no rule is answered as the protocol answers it.
LEMMA CommandIsAnswered ==
    ASSUME CardInv, NEW r \in 0 .. 63, NEW a \in Nat, NEW rx, rx[1] = 64 + r, rx[2] = a,
           ongoing => ~isAcmd /\ r \in {12, 18},
           Execute(rx),
           named' = IF r = 24 /\ ~isAcmd THEN a ELSE None
    PROVE  Protocol!Command(r, a) /\ OneAtATime'
<1> DEFINE n == rx[1] - 64 + (IF isAcmd THEN 128 ELSE 0)
           nx == IF ongoing THEN lba + 1 ELSE None
<1>1. /\ isAcmd \in BOOLEAN /\ isIdle \in BOOLEAN /\ isInitialized \in BOOLEAN
      /\ ongoing \in BOOLEAN /\ lba \in Nat
  BY DEF CardInv, OneAtATime
<1>2. n = (IF isAcmd THEN 128 + r ELSE r) /\ n \in Nat
  BY <1>1
<1>3. \A k \in 0 .. 63 : n = k <=> r = k /\ ~isAcmd
  BY <1>1, <1>2
<1>4. n = 128 + 41 <=> r = 41 /\ isAcmd
  BY <1>1, <1>2
<1>5. /\ lastCmd' = n /\ isAcmd' = (n = 55) /\ received' = FF /\ UNCHANGED <<disk, attached>>
      /\ Read(n, a) \/ Write(n, a) \/ Answer(n)
  BY DEF Execute
<1> HIDE DEF n
<1>6. isAcmd' = (r = 55 /\ ~isAcmd)
  BY <1>3, <1>5
<1>7. isIdle' = ((r = 0 /\ ~isAcmd) \/ (isIdle /\ ~(r = 41 /\ isAcmd)))
      /\ isInitialized' = (isInitialized \/ (r = 41 /\ isAcmd))
  <2>1. CASE Read(n, a)
    BY <1>1, <1>3, <1>4, <2>1 DEF Read
  <2>2. CASE Write(n, a)
    BY <1>1, <1>3, <1>4, <2>2 DEF Write
  <2>3. CASE Answer(n)
    BY <1>1, <1>3, <1>4, <2>3 DEF Answer
  <2> QED BY <1>5, <2>1, <2>2, <2>3
<1>8. /\ lba' \in Nat /\ ongoing' \in BOOLEAN
      /\ n = 24 => lba' = a /\ ~ongoing'
  <2>1. CASE Read(n, a)
    BY <1>1, <1>3, <2>1 DEF Read
  <2>2. CASE Write(n, a)
    BY <1>1, <1>3, <2>2 DEF Write
  <2>3. CASE Answer(n)
    <3>1. n # 24 /\ lba' = lba /\ ongoing' \in BOOLEAN
      BY <2>3 DEF Answer
    <3> QED BY <1>1, <3>1
  <2> QED BY <1>5, <2>1, <2>2, <2>3
<1> DEFINE Replied ==
      CASE r = 17 /\ ~isAcmd -> Protocol!Answer(<<0>> \o Protocol!BlockAt(a), None)
        [] r = 18 /\ ~isAcmd -> Protocol!Answer(<<0>> \o Protocol!BlockAt(a), Protocol!After(a))
        [] OTHER -> Protocol!Answer(Protocol!Reply(IF isAcmd THEN 128 + r ELSE r, isIdle'), None)
<1>9. Replied
  <2>1. CASE n = 17
    <3>1. response' = <<0>> \o LoadBlock(a) /\ ~ongoing' /\ r = 17 /\ ~isAcmd
      BY <1>1, <1>3, <1>5, <2>1 DEF Read, Write, Answer
    <3>2. Protocol!Answer(<<0>> \o Protocol!BlockAt(a), None)
      BY <1>5, <3>1, SameBlock DEF Protocol!Answer, FF, Protocol!FF
    <3> QED BY <3>1, <3>2
  <2>2. CASE n = 18
    <3>1. response' = <<0>> \o LoadBlock(a) /\ ongoing' = (a \in Block) /\ lba' = a /\ r = 18 /\ ~isAcmd
      BY <1>1, <1>3, <1>5, <2>2 DEF Read, Write, Answer
    <3>2. (IF ongoing THEN lba + 1 ELSE None)' = Protocol!After(a)
      BY <3>1 DEF Protocol!After
    <3>3. Protocol!Answer(<<0>> \o Protocol!BlockAt(a), Protocol!After(a))
      BY <1>5, <3>1, <3>2, SameBlock DEF Protocol!Answer, FF, Protocol!FF
    <3> QED BY <3>1, <3>3
  <2>3. CASE n \notin {17, 18}
    <3>1. response' = Reply(n, isIdle') /\ ~ongoing'
      BY <1>1, <1>2, <1>3, <1>5, <2>3 DEF Read, Write, Answer, Stopped
    <3>2. Protocol!Answer(Protocol!Reply(IF isAcmd THEN 128 + r ELSE r, isIdle'), None)
      BY <1>2, <1>5, <3>1, SameReply DEF Protocol!Answer, FF, Protocol!FF
    <3>3. ~(r = 17 /\ ~isAcmd) /\ ~(r = 18 /\ ~isAcmd)
      BY <1>3, <2>3
    <3> QED BY <3>2, <3>3
  <2> QED BY <2>1, <2>2, <2>3
<1>10. Protocol!Command(r, a)
  BY <1>5, <1>6, <1>7, <1>9, Zenon DEF Protocol!Command
<1>11. named' # None => r = 24 /\ ~isAcmd /\ named' = a
  OBVIOUS
<1>12. isAcmd' \in BOOLEAN /\ isIdle' \in BOOLEAN /\ isInitialized' \in BOOLEAN
  BY <1>1, <1>6, <1>7
<1>13. named' # None => lastCmd' = 24 /\ lba' = named' /\ ~ongoing'
  BY <1>3, <1>5, <1>8, <1>11
<1> QED BY <1>10, <1>2, <1>5, <1>8, <1>12, <1>13 DEF CardInv, OneAtATime

\* No command is named for writing while a read goes on, after an idle byte too.
LEMMA IdleByteKeeps == ASSUME CardInv, Respond, UNCHANGED named PROVE OneAtATime'
<1>1. lba \in Nat /\ ongoing \in BOOLEAN
  BY DEF CardInv, OneAtATime
<1>2. lba' \in Nat /\ ongoing' \in BOOLEAN /\ (~ongoing => ~ongoing' /\ lba' = lba)
  <2>1. CASE Len(response) = 1 /\ ongoing
    BY <1>1, <2>1 DEF Respond
  <2>2. CASE ~(Len(response) = 1 /\ ongoing)
    BY <1>1, <2>2 DEF Respond
  <2> QED BY <2>1, <2>2
<1> QED BY <1>1, <1>2 DEF CardInv, OneAtATime, Respond

\* A packet that breaks no rule is stored where the protocol stores it, and one
\* without its token nowhere.
LEMMA PacketIsStored ==
    ASSUME CardInv, NEW rx, NEW d, rx[1] \in {StartBlock, 0}, rx[2] = d,
           rx[1] = StartBlock => (lastCmd = 24 => named # None),
           Store(rx),
           named' = IF rx[1] = StartBlock THEN None ELSE named
    PROVE  /\ IF rx[1] = StartBlock THEN Protocol!Packet(d) ELSE Protocol!Silent
           /\ OneAtATime'
<1>1. UNCHANGED <<attached, lba, lastCmd, isAcmd, isIdle, isInitialized, ongoing, response>>
      /\ received' = FF
      /\ disk' = IF Stores(rx) THEN [disk EXCEPT ![lba] = rx[2]] ELSE disk
  BY DEF Store
<1>2. UNCHANGED (IF ongoing THEN lba + 1 ELSE None)
  BY <1>1
<1>3. CASE rx[1] = StartBlock
  <2>1. Stores(rx) <=> named \in Block
    BY <1>3, BlocksAreNumbers DEF Stores, CardInv, OneAtATime
  <2>2. named \in Block => lba = named
    BY BlocksAreNumbers DEF CardInv, OneAtATime
  <2>3. disk' = IF named \in Block THEN [disk EXCEPT ![named] = d] ELSE disk
    BY <1>1, <2>1, <2>2
  <2>4. Protocol!Packet(d)
    BY <1>1, <1>2, <1>3, <2>3 DEF Protocol!Packet, FF, Protocol!FF
  <2>5. OneAtATime'
    BY <1>1, <1>3 DEF CardInv, OneAtATime
  <2> QED BY <1>3, <2>4, <2>5
<1>4. CASE rx[1] # StartBlock
  <2>1. disk' = disk /\ named' = named
    BY <1>1, <1>4 DEF Stores
  <2>2. Protocol!Silent
    BY <1>1, <1>2, <2>1 DEF Protocol!Silent, FF, Protocol!FF
  <2>3. OneAtATime'
    BY <1>1, <2>1 DEF CardInv, OneAtATime
  <2> QED BY <1>4, <2>2, <2>3
<1> QED BY <1>3, <1>4

\* What the protocol is shown of a step.
Shown == [Protocol!Step]_(Protocol!protocolVars)

\* A byte that arrives where there is no card changes nothing.
LEMMA NobodyHears ==
    ASSUME CardInv, Transfer, ~attached
    PROVE  CardInv' /\ Shown
<1>1. /\ received' = FF /\ UNCHANGED cardVars /\ UNCHANGED named
      /\ wire # None /\ wire' = None /\ UNCHANGED <<ss, autotx>>
      /\ IF sent = Len(frame) THEN frame' = <<>> /\ sent' = 0 ELSE UNCHANGED <<frame, sent>>
  BY DEF Transfer, Handle, Commands, Fills
<1>2. Protocol!Silent
  BY <1>1 DEF cardVars, Protocol!Silent, FF, Protocol!FF
<1>3. TakenIn'
  BY <1>1 DEF cardVars, CardInv, TakenIn
<1>4. InFlight'
  <2>1. Len(<<>>) = 0
    OBVIOUS
  <2> QED BY <1>1, <2>1 DEF cardVars, CardInv, InFlight
<1>5. OneAtATime'
  BY <1>1 DEF cardVars, CardInv, OneAtATime
<1> QED BY <1>2, <1>3, <1>4, <1>5 DEF CardInv, Shown, Protocol!Step

\* Between frames the card is given a chance to speak.
LEMMA CardSpeaks ==
    ASSUME CardInv, Transfer, attached, frame = <<>>
    PROVE  CardInv' /\ Shown
<1>1. rxbuf = <<>> /\ wire = FF /\ sent = 0 /\ ss /\ ~Commands(wire) /\ ~Fills(wire)
  BY ByteArrives, IdleByteIsNothing DEF Transfer
<1>2. Respond /\ UNCHANGED <<named, ss, autotx>> /\ wire' = None
  BY <1>1 DEF Transfer, Handle
<1>3. frame' = <<>> /\ sent' = 0
  BY <1>1, frame = <<>>, sent = 0 DEF Transfer
<1>4. Protocol!Deliver /\ OneAtATime'
  BY <1>2, IdleByteDelivers, IdleByteKeeps
<1>5. UNCHANGED <<rxbuf, attached>>
  BY <1>2 DEF Respond
<1>6. TakenIn'
  BY <1>1, <1>2, <1>3, <1>5 DEF CardInv, TakenIn, Arrived
<1>7. InFlight'
  BY <1>1, <1>2, <1>3, <1>5 DEF CardInv, InFlight
<1> QED BY <1>4, <1>6, <1>7 DEF CardInv, Shown, Protocol!Step

\* The frame is over: nothing of it is held.
LEMMA NothingHeld ==
    ASSUME rxbuf' = <<>>, wire' = None, frame' = <<>>, sent' = 0,
           UNCHANGED <<attached, ss, autotx>>, CardInv, wire # None
    PROVE  TakenIn' /\ InFlight'
<1>1. Len(<<>>) = 0 /\ <<>> \in Seq(Nat)
  OBVIOUS
<1>2. TakenIn'
  BY <1>1 DEF TakenIn, Arrived
<1>3. InFlight'
  BY <1>1 DEF CardInv, InFlight
<1> QED BY <1>2, <1>3

\* A byte of a frame is collected, completes a command, or completes a packet.
LEMMA CardHears ==
    ASSUME CardInv, Transfer, attached, frame # <<>>
    PROVE  CardInv' /\ Shown
<1> DEFINE rx == Append(rxbuf, wire)
<1>1. /\ wire # None /\ wire' = None /\ Handle(wire) /\ UNCHANGED <<ss, autotx>>
      /\ named' = IF Commands(wire) THEN Named(wire) ELSE IF Fills(wire) THEN None ELSE named
      /\ IF sent = Len(frame) THEN frame' = <<>> /\ sent' = 0 ELSE UNCHANGED <<frame, sent>>
  BY DEF Transfer
<1>2. /\ ss /\ frame \in Frame /\ sent \in 1 .. Len(frame)
      /\ rx \in Seq(Nat) /\ Len(rx) = sent
      /\ \A i \in 1 .. sent : rx[i] = frame[i]
      /\ rxbuf = <<>> => wire # FF
      /\ rxbuf # <<>> => rxbuf[1] = frame[1] /\ sent > 1
      /\ wire = frame[sent] /\ ~Breaks(wire)
  BY <1>1, ByteArrives DEF CardInv, InFlight
<1>3. /\ frame \in Seq(Nat) /\ frame # <<>>
       /\ \/ Len(frame) = 2 /\ frame[1] \in 64 .. 127
          \/ Len(frame) = 3 /\ frame[1] \in {StartBlock, 0}
  BY <1>2, FrameShapes
<1>4. /\ IsCommand(rx) <=> sent = 2 /\ frame[1] \in 64 .. 127
      /\ IsPacket(rx) <=> sent = 3
      /\ sent = 3 => Len(frame) = 3 /\ frame[1] \in {StartBlock, 0}
  BY <1>1, CompletesCommand, CompletesPacket
<1>5. sent > 1 => rxbuf # <<>>
  BY <1>2 DEF CardInv, TakenIn, Arrived
<1>6. Commands(wire) <=> IsCommand(rx)
  BY DEF Commands
<1>7. Fills(wire) <=> IsPacket(rx) /\ rxbuf[1] = StartBlock
  BY DEF Fills
<1>8. IF IsCommand(rx) THEN Execute(rx) ELSE IF IsPacket(rx) THEN Store(rx) ELSE Collect(rx)
  BY <1>1, <1>2 DEF Handle
<1> HIDE DEF rx
<1>9. CASE IsCommand(rx)
  <2>1. sent = 2 /\ Len(frame) = 2 /\ frame[1] \in 64 .. 127 /\ rxbuf # <<>>
    <3>1. sent = 2 /\ frame[1] \in 64 .. 127
      BY <1>4, <1>9
    <3>2. rxbuf # <<>>
      BY <1>5, <3>1
    <3>3. frame[1] \notin {StartBlock, 0}
      <4>1. \A x \in 64 .. 127 : x # StartBlock /\ x # 0
        BY DEF StartBlock
      <4> QED BY <3>1, <4>1
    <3>4. Len(frame) = 2
      BY <1>3, <3>3
    <3> QED BY <3>1, <3>2, <3>4
  <2>2. PICK r \in 0 .. 63 : r = frame[1] - 64
    BY <2>1
  <2>3. rx[1] = 64 + r /\ rxbuf[1] = 64 + r /\ rx[2] = frame[2] /\ wire = frame[2] /\ frame[2] \in Nat
    <3>1. 1 \in 1 .. sent /\ 2 \in 1 .. sent /\ frame[2] \in Nat
      <4>1. frame \in Seq(Nat)
        BY <1>3
      <4>2. 2 \in 1 .. Len(frame)
        BY <2>1
      <4>3. frame[2] \in Nat
        BY <4>1, <4>2
      <4> QED BY <2>1, <4>3
    <3> QED BY <1>2, <2>1, <2>2, <3>1
  <2>4. ongoing => ~isAcmd /\ r \in {12, 18}
    BY <1>2, <1>6, <1>9, <2>2, <2>3 DEF Breaks
  <2>5. named' = IF r = 24 /\ ~isAcmd THEN frame[2] ELSE None
    <3>1. named' = Named(wire)
      BY <1>1, <1>6, <1>9
    <3>2. rxbuf[1] = 64 + 24 <=> r = 24
      BY <2>3
    <3> QED BY <2>3, <3>1, <3>2 DEF Named
  <2>6. Execute(rx)
    BY <1>8, <1>9
  <2>7. Protocol!Command(r, frame[2]) /\ OneAtATime'
    BY <2>3, <2>4, <2>5, <2>6, CommandIsAnswered
  <2>8. Protocol!Command(frame[1] - 64, frame[2])
    BY <2>2, <2>7
  <2>9. rxbuf' = <<>> /\ attached' = attached /\ frame' = <<>> /\ sent' = 0
    BY <1>1, <2>1, <2>6 DEF Execute
  <2>10. TakenIn' /\ InFlight'
    BY <1>1, <2>9, NothingHeld
  <2> QED BY <2>1, <2>7, <2>8, <2>10 DEF CardInv, Shown, Protocol!Step
<1>10. CASE ~IsCommand(rx) /\ IsPacket(rx)
  <2>1. sent = 3 /\ Len(frame) = 3 /\ frame[1] \in {StartBlock, 0} /\ rxbuf[1] = frame[1]
    BY <1>2, <1>4, <1>5, <1>10
  <2>2. rx[1] = frame[1] /\ rx[2] = frame[2]
    BY <1>2, <2>1
  <2>3. Store(rx)
    BY <1>8, <1>10
  <2>4. rx[1] = StartBlock => (lastCmd = 24 => named # None)
    BY <1>2, <1>7, <1>10, <2>1, <2>2 DEF Breaks
  <2>5. named' = IF rx[1] = StartBlock THEN None ELSE named
    BY <1>1, <1>6, <1>7, <1>10, <2>1, <2>2
  <2>6. /\ IF rx[1] = StartBlock THEN Protocol!Packet(frame[2]) ELSE Protocol!Silent
        /\ OneAtATime'
    BY <2>1, <2>2, <2>3, <2>4, <2>5, PacketIsStored
  <2>7. Shown
    BY <2>1, <2>2, <2>6 DEF Shown, Protocol!Step, StartBlock, Protocol!StartBlock
  <2>8. rxbuf' = <<>> /\ attached' = attached /\ frame' = <<>> /\ sent' = 0
    BY <1>1, <2>1, <2>3 DEF Store
  <2>9. TakenIn' /\ InFlight'
    BY <1>1, <2>8, NothingHeld
  <2> QED BY <2>6, <2>7, <2>9 DEF CardInv
<1>11. CASE ~IsCommand(rx) /\ ~IsPacket(rx)
  <2>1. Collect(rx)
    BY <1>8, <1>11
  <2>2. sent < Len(frame)
    <3>1. CASE Len(frame) = 2 /\ frame[1] \in 64 .. 127
      BY <1>2, <1>4, <1>11, <3>1
    <3>2. CASE Len(frame) = 3
      BY <1>2, <1>4, <1>11, <3>2
    <3> QED BY <1>3, <3>1, <3>2
  <2>3. UNCHANGED <<frame, sent>> /\ UNCHANGED named
    BY <1>1, <1>2, <1>6, <1>7, <1>11, <2>2
  <2>4. Protocol!Silent
    BY <2>1, <2>3 DEF Collect, Protocol!Silent, FF, Protocol!FF
  <2>5. OneAtATime'
    BY <2>1, <2>3 DEF CardInv, OneAtATime, Collect
  <2>6. TakenIn'
    BY <1>1, <1>2, <2>1, <2>3 DEF TakenIn, Arrived, Collect
  <2>7. InFlight'
    BY <1>1, <2>1, <2>3 DEF CardInv, InFlight, Collect
  <2> QED BY <2>4, <2>5, <2>6, <2>7 DEF CardInv, Shown, Protocol!Step
<1> QED BY <1>9, <1>10, <1>11

\* A byte in flight arrives.
LEMMA TransferShown == ASSUME CardInv, Transfer PROVE CardInv' /\ Shown
BY NobodyHears, CardSpeaks, CardHears

\* A guest that begins a frame between two transfers is not noticed.
LEMMA BeginFrameShown == ASSUME CardInv, BeginFrame PROVE CardInv' /\ Shown
<1>1. /\ frame = <<>> /\ wire = None /\ ss /\ frame' \in Frame
      /\ UNCHANGED <<cardVars, spiVars, sent, named>>
  BY DEF BeginFrame
<1>2. sent = 0
  <2>1. Len(<<>>) = 0
    OBVIOUS
  <2> QED BY <1>1, <2>1 DEF CardInv, InFlight
<1>3. sent' \in 0 .. Len(frame')
  BY <1>1, <1>2, FrameShapes DEF spiVars
<1>4. TakenIn'
  BY <1>1, <1>2 DEF cardVars, spiVars, CardInv, TakenIn, Arrived
<1>5. InFlight'
  BY <1>1, <1>3 DEF cardVars, spiVars, CardInv, InFlight
<1>6. OneAtATime'
  BY <1>1 DEF cardVars, spiVars, CardInv, OneAtATime
<1>7. UNCHANGED Protocol!protocolVars
  BY <1>1 DEF cardVars, spiVars, Protocol!protocolVars
<1> QED BY <1>4, <1>5, <1>6, <1>7 DEF CardInv, Shown

\* What breaks the protocol depends on the card, which a byte put on the line
\* does not reach yet.
LEMMA SendShown == ASSUME KeepsToProtocol, CardInv, Send PROVE CardInv' /\ Shown
<1>1. /\ frame # <<>> => sent < Len(frame)
      /\ ss /\ wire = None /\ ~Breaks(wire')
      /\ wire' = IF frame = <<>> THEN FF ELSE frame[sent + 1]
      /\ sent' = IF frame = <<>> THEN sent ELSE sent + 1
      /\ UNCHANGED <<cardVars, ss, autotx, received, frame, named>>
  BY DEF Send, Put
<1>2. sent \in 0 .. Len(frame) /\ Len(<<>>) = 0 /\ (frame # <<>> => Len(frame) \in Nat)
  BY FrameShapes DEF CardInv, InFlight
<1>3. frame # <<>> => sent' \in 1 .. Len(frame) /\ wire' = frame[sent'] /\ sent' - 1 = sent
  BY <1>1, <1>2
<1>4. ~Breaks(wire)'
  BY <1>1 DEF cardVars, Breaks, Commands, Fills, IsCommand, IsPacket
<1>5. TakenIn'
  <2>1. Arrived' = Arrived
    <3>1. CASE frame = <<>>
      BY <1>1, <3>1 DEF Arrived
    <3>2. CASE frame # <<>>
      <4>1. Arrived = sent
        BY <1>1 DEF Arrived
      <4>2. wire' # None /\ frame' # <<>>
        <5>1. frame \in Seq(Nat)
          BY <3>2, FrameShapes DEF CardInv, InFlight
        <5>2. wire' \in Nat
          BY <1>3, <3>2, <5>1
        <5> QED BY <1>1, <3>2, <5>2, BlocksAreNumbers
      <4>3. Arrived' = sent' - 1
        BY <4>2 DEF Arrived
      <4> QED BY <1>3, <3>2, <4>1, <4>3
    <3> QED BY <3>1, <3>2
  <2> QED BY <1>1, <2>1 DEF cardVars, CardInv, TakenIn
<1>6. InFlight'
  BY <1>1, <1>2, <1>3, <1>4 DEF cardVars, CardInv, InFlight
<1>7. OneAtATime'
  BY <1>1 DEF cardVars, CardInv, OneAtATime
<1>8. UNCHANGED Protocol!protocolVars
  BY <1>1 DEF cardVars, Protocol!protocolVars
<1> QED BY <1>5, <1>6, <1>7, <1>8 DEF CardInv, Shown

\* An idle byte a read starts by itself breaks nothing between frames.
LEMMA ReadDataShown == ASSUME KeepsToProtocol, CardInv, ReadData PROVE CardInv' /\ Shown
<1>1. /\ frame = <<>> /\ wire' = IF ss /\ wire = None THEN FF ELSE wire
      /\ UNCHANGED <<cardVars, ss, autotx, received, frame, sent, named>>
  BY DEF ReadData, Put
<1>2. wire' # None => ss /\ wire' = FF
  BY <1>1 DEF CardInv, InFlight
<1>3. attached /\ ss => rxbuf = <<>>
  <2>1. sent = 0 /\ Arrived = 0
    <3>1. Len(<<>>) = 0
      OBVIOUS
    <3> QED BY <1>1, <3>1 DEF CardInv, InFlight, Arrived
  <2> QED BY <2>1 DEF CardInv, TakenIn
<1>4. wire' # None => ~Breaks(wire)'
  <2> SUFFICES ASSUME wire' # None PROVE ~Breaks(wire)'
    OBVIOUS
  <2>1. attached' => Len(Append(rxbuf, wire)') = 1
    <3> SUFFICES ASSUME attached' PROVE Len(Append(rxbuf, wire)') = 1
      OBVIOUS
    <3>1. rxbuf' = <<>>
      BY <1>1, <1>2, <1>3 DEF cardVars
    <3> QED BY <3>1
  <2> QED BY <2>1 DEF Breaks, Commands, Fills, IsCommand, IsPacket, CommandLen, PacketLen
<1>5. TakenIn'
  BY <1>1 DEF cardVars, CardInv, TakenIn, Arrived
<1>6. InFlight'
  BY <1>1, <1>2, <1>4 DEF cardVars, CardInv, InFlight
<1>7. OneAtATime'
  BY <1>1 DEF cardVars, CardInv, OneAtATime
<1>8. UNCHANGED Protocol!protocolVars
  BY <1>1 DEF cardVars, Protocol!protocolVars
<1> QED BY <1>5, <1>6, <1>7, <1>8 DEF CardInv, Shown

\* A card selected anew holds nothing of an earlier frame.
LEMMA ControlShown ==
    ASSUME KeepsToProtocol, CardInv, NEW sel \in BOOLEAN, NEW auto \in BOOLEAN, Control(sel, auto)
    PROVE  CardInv' /\ Shown
<1>1. /\ ss' = sel /\ autotx' = auto
      /\ IF sel /\ ~ss THEN rxbuf' = <<>> ELSE UNCHANGED rxbuf
      /\ IF sel # ss THEN frame' = <<>> /\ sent' = 0 ELSE UNCHANGED <<frame, sent>>
      /\ sel # ss => wire = None
      /\ UNCHANGED <<disk, attached, lba, lastCmd, isAcmd, isIdle, isInitialized, ongoing,
                     response, wire, received, named>>
  BY DEF Control, Select
<1>2. OneAtATime'
  BY <1>1 DEF CardInv, OneAtATime
<1>3. UNCHANGED Protocol!protocolVars
  BY <1>1 DEF Protocol!protocolVars
<1>4. CASE sel = ss
  <2>1. UNCHANGED <<rxbuf, frame, sent, ss>>
    BY <1>1, <1>4
  <2>2. TakenIn'
    BY <1>1, <2>1 DEF CardInv, TakenIn, Arrived
  <2>3. wire' # None => ~Breaks(wire)'
    BY <1>1, <2>1 DEF CardInv, InFlight, Breaks, Commands, Fills, IsCommand, IsPacket
  <2>4. InFlight'
    BY <1>1, <2>1, <2>3 DEF CardInv, InFlight
  <2> QED BY <1>2, <1>3, <2>2, <2>4 DEF CardInv, Shown
<1>5. CASE sel # ss
  <2>1. /\ wire' = None /\ frame' = <<>> /\ sent' = 0 /\ Len(<<>>) = 0
        /\ rxbuf' \in Seq(Nat) /\ (ss' => rxbuf' = <<>>)
    <3>1. ss \in BOOLEAN /\ rxbuf \in Seq(Nat)
      BY DEF CardInv, TakenIn, InFlight
    <3>2. wire' = None /\ frame' = <<>> /\ sent' = 0 /\ Len(<<>>) = 0
      BY <1>1, <1>5
    <3>3. rxbuf' \in Seq(Nat) /\ (ss' => rxbuf' = <<>>)
      <4>1. CASE sel
        <5>1. ~ss
          BY <1>5, <4>1, <3>1
        <5> QED BY <1>1, <4>1, <5>1
      <4>2. CASE ~sel
        BY <1>1, <3>1, <4>2
      <4> QED BY <4>1, <4>2
    <3> QED BY <3>2, <3>3
  <2>2. TakenIn'
    BY <1>1, <2>1 DEF CardInv, TakenIn, Arrived
  <2>3. InFlight'
    BY <1>1, <2>1 DEF CardInv, InFlight
  <2> QED BY <1>2, <1>3, <2>2, <2>3 DEF CardInv, Shown
<1> QED BY <1>4, <1>5

\* The machine's reset ends the frame, and the card hears nothing of it.
LEMMA ResetSpiShown == ASSUME CardInv, ResetSpi PROVE CardInv' /\ Shown
<1>1. /\ ss' = FALSE /\ wire' = None /\ autotx' = FALSE /\ received' = FF
      /\ frame' = <<>> /\ sent' = 0 /\ Len(<<>>) = 0
      /\ UNCHANGED <<cardVars, named>>
  BY DEF ResetSpi
<1>2. TakenIn'
  BY <1>1 DEF cardVars, CardInv, TakenIn
<1>3. InFlight'
  <2>1. attached' \in BOOLEAN
    BY <1>1 DEF cardVars, CardInv, InFlight
  <2>2. frame' \in Frame \cup {<<>>} /\ sent' \in 0 .. Len(frame')
    BY <1>1
  <2> QED BY <1>1, <2>1, <2>2 DEF InFlight
<1>4. OneAtATime'
  BY <1>1 DEF cardVars, CardInv, OneAtATime
<1>5. Protocol!Silent
  BY <1>1 DEF cardVars, Protocol!Silent, FF, Protocol!FF
<1> QED BY <1>2, <1>3, <1>4, <1>5 DEF CardInv, Shown, Protocol!Step

\* A card put in or taken out between frames holds nothing of one.
LEMMA Settles ==
    ASSUME CardInv, Settled, attached' \in BOOLEAN, UNCHANGED <<rxbuf, spiVars, guestVars>>
    PROVE  TakenIn' /\ InFlight'
<1>1. /\ frame = <<>> /\ wire = None /\ UNCHANGED <<frame, sent, wire, ss, autotx, rxbuf>>
      /\ Len(<<>>) = 0
  BY DEF Settled, spiVars, guestVars
<1>2. sent = 0 /\ sent' = 0
  BY <1>1 DEF CardInv, InFlight
<1>3. ss => Len(rxbuf) = 0
  BY <1>1, <1>2 DEF CardInv, TakenIn, Arrived, InFlight
<1>4. TakenIn'
  BY <1>1, <1>2, <1>3 DEF CardInv, TakenIn, Arrived
<1>5. InFlight'
  BY <1>1, <1>2 DEF CardInv, InFlight
<1> QED BY <1>4, <1>5

\* A card is put in or taken out.
LEMMA SwapShown ==
    ASSUME KeepsToProtocol, CardInv, Attach \/ Detach
    PROVE  CardInv' /\ Shown
<1>1. /\ Settled /\ attached' \in BOOLEAN /\ isInitialized' \in {isInitialized, FALSE}
      /\ UNCHANGED <<disk, rxbuf, lba, lastCmd, isAcmd, isIdle, ongoing, response, spiVars, guestVars>>
  BY DEF Attach, Detach
<1>2. TakenIn' /\ InFlight'
  BY <1>1, Settles
<1>3. OneAtATime'
  BY <1>1 DEF CardInv, OneAtATime, guestVars
<1>4. Protocol!Swap
  BY <1>1 DEF Protocol!Swap, spiVars, guestVars
<1> QED BY <1>2, <1>3, <1>4 DEF CardInv, Shown, Protocol!Step

\* Every step of the card is one of the protocol's, or none.
LEMMA CardStep ==
    ASSUME KeepsToProtocol, CardInv, [CardNext]_sdVars
    PROVE  CardInv' /\ Shown
<1>1. CASE Transfer
  BY <1>1, TransferShown
<1>2. CASE BeginFrame
  BY <1>2, BeginFrameShown
<1>3. CASE Send
  BY <1>3, SendShown
<1>4. CASE ReadData
  BY <1>4, ReadDataShown
<1>5. CASE \E sel, auto \in BOOLEAN : Control(sel, auto)
  BY <1>5, ControlShown
<1>6. CASE ResetSpi
  BY <1>6, ResetSpiShown
<1>7. CASE Attach \/ Detach
  BY <1>7, SwapShown
<1>8. CASE UNCHANGED sdVars
  <2>1. UNCHANGED <<rxbuf, attached, ss, autotx, wire, frame, sent, lba, lastCmd, isAcmd, isIdle,
                    isInitialized, ongoing, named>>
    BY <1>8 DEF sdVars, cardVars, spiVars, guestVars
  <2>2. TakenIn'
    BY <2>1 DEF CardInv, TakenIn, Arrived
  <2>3. wire' # None => ~Breaks(wire)'
    BY <2>1 DEF CardInv, InFlight, Breaks, Commands, Fills, IsCommand, IsPacket
  <2>4. InFlight'
    BY <2>1, <2>3 DEF CardInv, InFlight
  <2>5. OneAtATime'
    BY <2>1 DEF CardInv, OneAtATime
  <2>6. UNCHANGED Protocol!protocolVars
    BY <1>8 DEF sdVars, cardVars, spiVars, guestVars, Protocol!protocolVars
  <2> QED BY <2>2, <2>4, <2>5, <2>6 DEF CardInv, Shown
<1> QED BY <1>1, <1>2, <1>3, <1>4, <1>5, <1>6, <1>7, <1>8 DEF CardNext

\* The card is the protocol's for a guest that keeps to it, whatever it is
\* interrupted by: every command is answered by its own reply, a multiple read
\* delivers its blocks in order, a packet goes to the block its command named.
THEOREM CardKeepsProtocol == ASSUME KeepsToProtocol PROVE CardSpec => ImplementsProtocol
<1>1. CardInit => Protocol!Init
  BY DEF CardInit, Protocol!Init, FF, Protocol!FF
<1>2. CardInv /\ [CardNext]_sdVars => CardInv' /\ Shown
  BY CardStep
<1>3. CardInv /\ Shown => [Protocol!Step]_(Protocol!protocolVars)
  BY DEF Shown
<1> QED BY <1>1, <1>2, <1>3, CardStart, PTL DEF CardSpec, ImplementsProtocol, Protocol!ProtocolSpec

-----------------------------------------------------------------------------
(* VERA's interrupts: the forecast and the beam.                           *)

VeraSpec == VeraInit /\ [][VeraNext]_veraVars

\* The line a source is raised on in a VGA picture.
LineOf(s) == IF s = Vsync THEN Visible ELSE irq.line

\* The lines from y to line t, around the picture.
Until(t, y) == (t - y + Scan) % Scan

\* The sources a forecast is made of.
Looked == irq.ien \cap {Vsync, Line}

VeraTypes ==
    /\ beam.x \in Nat /\ beam.y \in 0 .. Scan - 1
    /\ DOMAIN irq = {"ntsc", "ien", "isr", "line", "colliding"}
    /\ irq.ntsc \in BOOLEAN /\ irq.ien \subseteq {Vsync, Line} /\ irq.line \in 0 .. 2 * LowLines - 1
    /\ DOMAIN forecast = {"source", "left", "lines", "came"}

\* What is left of a way to a beam at x: the rest of it, nothing where the beam
\* was further when it looked, and a beam further than that once it is due.
Left(left, way, x) ==
    /\ left >= 0 => left = way - x \/ (left = 0 /\ way <= x)
    /\ left < 0 => way < x

\* A forecast that has not come is of the enabled source whose line comes next,
\* and what is left is the way there.
OnItsWay ==
    LET r == Until(LineOf(forecast.source), beam.y)
    IN  /\ forecast.source \in Looked
        /\ Left(forecast.left, r * VgaWidth, beam.x)
        /\ r > 0
        /\ \A s \in Looked : Until(LineOf(s), beam.y) >= r

ForecastInv ==
    /\ VeraTypes
    /\ forecast # NoForecast /\ ~irq.ntsc /\ forecast.lines > 0 =>
         /\ forecast.left \in Int /\ forecast.came \in BOOLEAN
         /\ IF forecast.came THEN forecast.left < 0 ELSE OnItsWay

\* The sizes of a picture.
LEMMA PictureSizes ==
    /\ Scan \in Nat /\ Scan > 1 /\ Visible \in 0 .. Scan - 1
    /\ VgaWidth \in Nat /\ VgaWidth > 0
    /\ LowLines \in Nat /\ LowLines > 0 /\ 2 * LowLines <= Scan
    /\ \A px \in Steps : px \in Nat /\ px > 0
BY VeraAssumption

\* A compare line is one of the picture's, as the vertical blank is.
LEMMA LinesOfPicture == ASSUME VeraTypes, NEW s PROVE LineOf(s) \in 0 .. Scan - 1
BY PictureSizes DEF VeraTypes, LineOf

\* How far it is around a picture.
LEMMA UntilIs ==
    ASSUME NEW t \in 0 .. Scan - 1, NEW y \in 0 .. Scan - 1
    PROVE  /\ Until(t, y) = IF t >= y THEN t - y ELSE t - y + Scan
           /\ Until(t, y) \in 0 .. Scan - 1
<1>1. Scan \in Nat \ {0}
  BY PictureSizes
<1>2. CASE t >= y
  <2>1. t - y + Scan = Scan + (t - y) /\ t - y \in 0 .. Scan - 1
    BY <1>1, <1>2
  <2>2. (t - y + Scan) % Scan = t - y
    BY <1>1, <2>1, SMT
  <2> QED BY <1>2, <2>1, <2>2 DEF Until
<1>3. CASE t < y
  <2>1. t - y + Scan \in 0 .. Scan - 1
    BY <1>1, <1>3
  <2>2. (t - y + Scan) % Scan = t - y + Scan
    BY <1>1, <2>1, SMT
  <2> QED BY <1>3, <2>1, <2>2 DEF Until
<1> QED BY <1>2, <1>3

\* The line after the last is the first.
LEMMA NextLineIs ==
    ASSUME NEW y \in 0 .. Scan - 1
    PROVE  /\ NextLine(y) = IF y + 1 = Scan THEN 0 ELSE y + 1
           /\ NextLine(y) \in 0 .. Scan - 1 /\ NextLine(y) # y
<1>1. Scan \in Nat \ {0} /\ Scan > 1
  BY PictureSizes
<1>2. CASE y + 1 = Scan
  <2>1. (y + 1) % Scan = 0
    BY <1>1, <1>2, SMT
  <2> QED BY <1>1, <1>2, <2>1 DEF NextLine
<1>3. CASE y + 1 # Scan
  <2>1. (y + 1) % Scan = y + 1
    BY <1>1, <1>3, SMT
  <2> QED BY <1>1, <1>3, <2>1 DEF NextLine
<1> QED BY <1>2, <1>3

\* A line nearer.
LEMMA Nearer ==
    ASSUME NEW t \in 0 .. Scan - 1, NEW y \in 0 .. Scan - 1, Until(t, y) > 0
    PROVE  Until(t, NextLine(y)) = Until(t, y) - 1
<1>1. Scan \in Nat /\ Until(t, y) = IF t >= y THEN t - y ELSE t - y + Scan
  BY UntilIs, PictureSizes
<1>2. /\ NextLine(y) \in 0 .. Scan - 1
      /\ NextLine(y) = IF y + 1 = Scan THEN 0 ELSE y + 1
  BY NextLineIs
<1>3. Until(t, NextLine(y)) = IF t >= NextLine(y) THEN t - NextLine(y) ELSE t - NextLine(y) + Scan
  BY <1>2, UntilIs
<1>4. CASE y + 1 = Scan
  <2>1. NextLine(y) = 0
    BY <1>2, <1>4
  <2> QED BY <1>1, <1>3, <1>4, <2>1
<1>5. CASE y + 1 # Scan
  <2>1. NextLine(y) = y + 1
    BY <1>2, <1>5
  <2> QED BY <1>1, <1>3, <2>1
<1> QED BY <1>4, <1>5

\* It is no way only to the line one is on.
LEMMA NoWay ==
    ASSUME NEW t \in 0 .. Scan - 1, NEW y \in 0 .. Scan - 1
    PROVE  Until(t, y) = 0 <=> t = y
<1>1. Scan \in Nat /\ Until(t, y) = IF t >= y THEN t - y ELSE t - y + Scan
  BY UntilIs, PictureSizes
<1> QED BY <1>1

\* A line's width more or less.
LEMMA LineLess ==
    ASSUME NEW r \in Nat, r > 0
    PROVE  /\ r * VgaWidth = (r - 1) * VgaWidth + VgaWidth
           /\ (r - 1) * VgaWidth \in Nat /\ r * VgaWidth \in Nat
           /\ r * VgaWidth >= VgaWidth
<1>1. VgaWidth \in Nat
  BY PictureSizes
<1>2. r - 1 \in Nat
  OBVIOUS
<1>3. r * VgaWidth = (r - 1) * VgaWidth + VgaWidth
  BY <1>1, SMT
<1>4. (r - 1) * VgaWidth \in Nat
  BY <1>1, <1>2, SMT
<1> QED BY <1>1, <1>3, <1>4

\* A step takes its pixels off what is left.
LEMMA LeftOver ==
    ASSUME NEW left \in Int, NEW way \in Nat, NEW x \in Nat, NEW px \in Nat, px > 0,
           Left(left, way, x)
    PROVE  LET after == IF px > left THEN -1 ELSE left - px
           IN  /\ after \in Int
               /\ after >= 0 => after = way - (x + px)
               /\ after < 0 => way < x + px
BY DEF Left

\* At power-on nothing is forecast.
LEMMA VeraStart == VeraInit => ForecastInv
<1> SUFFICES ASSUME VeraInit PROVE ForecastInv
  OBVIOUS
<1>1. beam = AtTop /\ irq = IrqAtRest /\ forecast = NoForecast
  BY DEF VeraInit
<1>2. VeraTypes
  BY <1>1, PictureSizes DEF VeraTypes, AtTop, IrqAtRest, NoForecast
<1> QED BY <1>1, <1>2 DEF ForecastInv

\* The forecast is of the enabled source whose line comes next.
LEMMA LookForecasts ==
    ASSUME VeraTypes, ~irq.ntsc, Looked # {}, forecast' = Forecast, UNCHANGED <<beam, irq>>,
           forecast'.lines > 0
    PROVE  forecast'.left \in Int /\ forecast'.came = FALSE /\ OnItsWay'
<1> DEFINE lines == {LinesUntil(IF s = Vsync THEN Visible ELSE irq.line) : s \in irq.ien \cap {Vsync, Line}}
           best == CHOOSE n \in lines : \A m \in lines : n <= m
           left == best * VgaWidth - beam.x
           f == forecast'
<1>1. lines = {Until(LineOf(s), beam.y) : s \in Looked}
  BY DEF LinesUntil, SupposedLine, Until, LineOf, Looked
<1>2. beam.x \in Nat /\ \A s \in Looked : Until(LineOf(s), beam.y) \in Nat
  <2>1. beam.x \in Nat /\ beam.y \in 0 .. Scan - 1
    BY DEF VeraTypes
  <2>2. ASSUME NEW s PROVE Until(LineOf(s), beam.y) \in Nat
    <3>1. LineOf(s) \in 0 .. Scan - 1
      BY LinesOfPicture
    <3>2. Until(LineOf(s), beam.y) \in 0 .. Scan - 1
      BY <2>1, <3>1, UntilIs
    <3> QED BY <3>2, PictureSizes
  <2> QED BY <2>1, <2>2
<1>3. Looked \subseteq {Vsync, Line} /\ lines \subseteq Nat
  BY <1>1, <1>2 DEF Looked
<1>4. \E n \in lines : \A m \in lines : n <= m
  <2> DEFINE u(s) == Until(LineOf(s), beam.y)
  <2>1. \A s \in Looked : u(s) \in Nat
    BY <1>2
  <2>2. lines = {u(s) : s \in Looked}
    BY <1>1
  <2> HIDE DEF lines, u
  <2>3. CASE Looked = {Vsync}
    BY <2>1, <2>2, <2>3
  <2>4. CASE Looked = {Line}
    BY <2>1, <2>2, <2>4
  <2>5. CASE Looked = {Vsync, Line}
    <3>1. lines = {u(Vsync), u(Line)} /\ u(Vsync) \in Nat /\ u(Line) \in Nat
      BY <2>1, <2>2, <2>5
    <3> QED BY <3>1
  <2> QED BY <1>3, <2>3, <2>4, <2>5
<1>5. best \in lines /\ \A m \in lines : best <= m
  BY <1>4
<1>6. /\ f.source = (IF Vsync \in irq.ien /\ LinesUntil(Visible) = best THEN Vsync ELSE Line)
      /\ f.left = (IF left < 0 THEN 0 ELSE left)
      /\ f.lines = best /\ f.came = FALSE
  BY DEF Forecast
<1> HIDE DEF lines, best
<1>7. best \in Nat /\ best > 0
  BY <1>3, <1>5, <1>6
<1>8. best * VgaWidth \in Nat /\ best * VgaWidth >= VgaWidth /\ VgaWidth \in Nat
  BY <1>7, LineLess, PictureSizes
<1>9. Left(f.left, best * VgaWidth, beam.x) /\ f.left \in Int
  BY <1>2, <1>6, <1>8 DEF Left
<1>10. f.source \in Looked /\ Until(LineOf(f.source), beam.y) = best
  <2>1. PICK s \in Looked : Until(LineOf(s), beam.y) = best
    BY <1>1, <1>5
  <2>2. LinesUntil(Visible) = Until(LineOf(Vsync), beam.y)
    BY DEF LinesUntil, SupposedLine, Until, LineOf
  <2>3. CASE Vsync \in irq.ien /\ LinesUntil(Visible) = best
    BY <1>6, <2>2, <2>3 DEF Looked
  <2>4. CASE ~(Vsync \in irq.ien /\ LinesUntil(Visible) = best)
    <3>1. s = Line
      BY <1>3, <2>1, <2>2, <2>4 DEF Looked
    <3> QED BY <1>6, <2>1, <2>4, <3>1
  <2> QED BY <2>3, <2>4
<1>11. \A s \in Looked : Until(LineOf(s), beam.y) >= best
  BY <1>1, <1>2, <1>5, <1>7
<1>12. Looked' = Looked /\ \A s : LineOf(s)' = LineOf(s)
  BY DEF Looked, LineOf
<1>13. OnItsWay'
  <2>1. Until(LineOf(forecast.source), beam.y)' = best
    BY <1>10 DEF Until, LineOf
  <2> QED BY <1>7, <1>9, <1>10, <1>11, <1>12, <2>1 DEF OnItsWay
<1> QED BY <1>6, <1>9, <1>13

\* The compare lines stay within the picture.
LEMMA TypesKept == ASSUME VeraTypes, [VeraNext]_veraVars PROVE VeraTypes'
<1> USE PictureSizes
<1>1. ASSUME NEW px \in Steps, NEW hit \in BOOLEAN, VideoStep(px, hit) PROVE VeraTypes'
  <2>1. beam'.x = (IF beam.x + px > VgaWidth THEN beam.x + px - VgaWidth ELSE beam.x + px)
        /\ beam'.y = (IF beam.x + px > VgaWidth THEN NextLine(beam.y) ELSE beam.y)
    BY <1>1 DEF VideoStep, Moved
  <2>2. beam'.x \in Nat /\ beam'.y \in 0 .. Scan - 1
    BY <2>1, NextLineIs DEF VeraTypes
  <2>3. \/ irq' = irq
        \/ \E i, c : irq' = [irq EXCEPT !.isr = i, !.colliding = c]
    BY <1>1 DEF VideoStep
  <2>4. \E raised : forecast' = Followed(px, raised)
    BY <1>1 DEF VideoStep
  <2>5. DOMAIN forecast' = {"source", "left", "lines", "came"}
    BY <2>4 DEF Followed, NoForecast, VeraTypes
  <2> QED BY <2>2, <2>3, <2>5 DEF VeraTypes
<1>2. ASSUME Look PROVE VeraTypes'
  BY <1>2 DEF Look, Forecast, VeraTypes
<1>3. ASSUME NEW enables \in SUBSET {Vsync, Line}, NEW high \in 0 .. 1, WriteIen(enables, high)
      PROVE  VeraTypes'
  <2>1. irq.line % LowLines \in 0 .. LowLines - 1
    BY SMT DEF VeraTypes
  <2>2. high * LowLines + (irq.line % LowLines) \in 0 .. 2 * LowLines - 1
    <3>1. CASE high = 0
      BY <2>1, <3>1
    <3>2. CASE high = 1
      BY <2>1, <3>2
    <3> QED BY <3>1, <3>2
  <2> QED BY <1>3, <2>2 DEF WriteIen, Setting, NoForecast, VeraTypes
<1>4. ASSUME NEW low \in 0 .. LowLines - 1, WriteIrqLine(low) PROVE VeraTypes'
  <2>1. irq.line \div LowLines \in {0, 1}
    BY SMT DEF VeraTypes
  <2>2. (irq.line \div LowLines) * LowLines + low \in 0 .. 2 * LowLines - 1
    <3>1. CASE irq.line \div LowLines = 0
      BY <3>1
    <3>2. CASE irq.line \div LowLines = 1
      BY <3>2
    <3> QED BY <2>1, <3>1, <3>2
  <2> QED BY <1>4, <2>2 DEF WriteIrqLine, Setting, NoForecast, VeraTypes
<1>5. ASSUME NEW flags, Acknowledge(flags) PROVE VeraTypes'
  BY <1>5 DEF Acknowledge, VeraTypes
<1>6. ASSUME NEW ntsc \in BOOLEAN, SetMode(ntsc) PROVE VeraTypes'
  BY <1>6 DEF SetMode, Setting, NoForecast, VeraTypes
<1>7. ASSUME ResetVera PROVE VeraTypes'
  BY <1>7 DEF ResetVera, AtTop, IrqAtRest, NoForecast, VeraTypes
<1>8. ASSUME UNCHANGED <<beam, irq, forecast>> PROVE VeraTypes'
  BY <1>8 DEF VeraTypes
<1> QED BY <1>1, <1>2, <1>3, <1>4, <1>5, <1>6, <1>7, <1>8 DEF VeraNext, Sound, Screen, veraVars

\* Time brings what is forecast nearer until its line is reached, which raises
\* it; no enabled source's line is passed before, and it is late only for a beam
\* that is behind.
LEMMA TimePasses ==
    ASSUME VeraTypes, OnItsWay, ~irq.ntsc, forecast # NoForecast, forecast.left \in Int,
           forecast.came = FALSE, NEW px \in Steps, NEW hit \in BOOLEAN,
           VideoStep(px, hit), forecast' # NoForecast
    PROVE  /\ forecast'.left \in Int /\ forecast'.came \in BOOLEAN
           /\ IF forecast'.came THEN forecast'.left < 0 ELSE OnItsWay'
           /\ ForecastHolds
<1> DEFINE s == forecast.source
           r == Until(LineOf(s), beam.y)
           b == Moved(px)
           raised == IF LineEnds(b) THEN Raises(CurrentLine(b), irq.colliding \/ hit) ELSE {}
           after == IF px > forecast.left THEN -1 ELSE forecast.left - px
<1>1. /\ beam.x \in Nat /\ beam.y \in 0 .. Scan - 1
      /\ px \in Nat /\ px > 0 /\ VgaWidth \in Nat
  BY PictureSizes DEF VeraTypes
<1>2. s \in Looked /\ Left(forecast.left, r * VgaWidth, beam.x) /\ r > 0
      /\ \A e \in Looked : Until(LineOf(e), beam.y) >= r
  BY DEF OnItsWay
<1>3. \A e : LineOf(e) \in 0 .. Scan - 1 /\ Until(LineOf(e), beam.y) \in Nat
  <2> SUFFICES ASSUME NEW e
               PROVE  LineOf(e) \in 0 .. Scan - 1 /\ Until(LineOf(e), beam.y) \in Nat
    OBVIOUS
  <2>1. LineOf(e) \in 0 .. Scan - 1
    BY LinesOfPicture
  <2>2. Until(LineOf(e), beam.y) \in 0 .. Scan - 1
    BY <1>1, <2>1, UntilIs
  <2> QED BY <2>1, <2>2, PictureSizes
<1>4. r \in Nat /\ r * VgaWidth \in Nat /\ r * VgaWidth >= VgaWidth
      /\ r * VgaWidth = (r - 1) * VgaWidth + VgaWidth /\ (r - 1) * VgaWidth \in Nat
  BY <1>2, <1>3, LineLess
<1>5. /\ after \in Int
      /\ after >= 0 => after = r * VgaWidth - (beam.x + px)
      /\ after < 0 => r * VgaWidth < beam.x + px
  <2> HIDE DEF r
  <2> QED BY <1>1, <1>2, <1>4, LeftOver
<1>6. forecast' = [forecast EXCEPT !.left = after, !.came = FALSE \/ s \in raised]
  BY DEF VideoStep, Followed, VeraTypes
<1>7. /\ forecast'.source = s /\ forecast'.left = after
      /\ forecast'.came \in BOOLEAN /\ (forecast'.came <=> s \in raised)
  BY <1>6 DEF VeraTypes
<1>8. /\ b.y = (IF beam.x + px > VgaWidth THEN NextLine(beam.y) ELSE beam.y)
      /\ b.x = (IF beam.x + px > VgaWidth THEN beam.x + px - VgaWidth ELSE beam.x + px)
      /\ beam' = b
  BY DEF VideoStep, Moved
<1>9. LineEnds(b) <=> b.y # beam.y
  BY DEF LineEnds
<1>10. irq'.ien = irq.ien /\ irq'.line = irq.line /\ irq'.ntsc = irq.ntsc
  BY DEF VideoStep, VeraTypes
<1>11. Looked' = Looked /\ (\A e : LineOf(e)' = LineOf(e)) /\ Looked \subseteq {Vsync, Line}
  BY <1>10 DEF Looked, LineOf
<1>12. LineOf(forecast.source)' = LineOf(s)
  BY <1>7, <1>10 DEF LineOf
<1> HIDE DEF r, b, s, raised, after
<1>13. CASE beam.x + px <= VgaWidth
  <2>1. beam'.y = beam.y /\ beam'.x = beam.x + px
    BY <1>1, <1>8, <1>13
  <2>2. irq' = irq /\ raised = {}
    BY <1>8, <1>9, <2>1 DEF VideoStep, b, raised
  <2>3. after >= 0 /\ after = r * VgaWidth - beam'.x
    BY <1>1, <1>4, <1>5, <1>13, <2>1
  <2>4. \A e : Until(LineOf(e), beam.y)' = Until(LineOf(e), beam.y)
    BY <1>11, <2>1 DEF Until
  <2>5. Until(LineOf(forecast.source), beam.y)' = r
    BY <1>12, <2>1 DEF Until, r
  <2>6. Left(after, r * VgaWidth, beam'.x)
    BY <2>3 DEF Left
  <2>7. OnItsWay'
    BY <1>2, <1>7, <1>11, <2>4, <2>5, <2>6 DEF OnItsWay
  <2>8. ~(forecast'.left < 0) /\ forecast'.left \in Int
    BY <1>5, <1>7, <2>3
  <2>9. ForecastHolds
    BY <2>2, <2>8 DEF ForecastHolds
  <2>10. ~forecast'.came
    BY <1>7, <2>2
  <2> QED BY <1>7, <2>7, <2>8, <2>9, <2>10
<1>14. CASE beam.x + px > VgaWidth
  <2>1. beam'.y = NextLine(beam.y) /\ beam'.x = beam.x + px - VgaWidth
    BY <1>1, <1>8, <1>14
  <2>2. beam'.x > 0 /\ beam'.x \in Nat
    BY <1>1, <1>14, <2>1
  <2>3. /\ after >= 0 => after = (r - 1) * VgaWidth - beam'.x
        /\ after < 0 => (r - 1) * VgaWidth < beam'.x
    BY <1>1, <1>4, <1>5, <2>1
  <2>4. /\ irq'.isr = irq.isr \cup raised
        /\ raised = (IF beam'.y = Visible THEN {Vsync} ELSE {})
                      \cup (IF beam'.y = Visible /\ (irq.colliding \/ hit) THEN {Collision} ELSE {})
                      \cup (IF beam'.y = irq.line THEN {Line} ELSE {})
    <3>1. beam'.y # beam.y
      BY <1>1, <2>1, NextLineIs
    <3>2. /\ irq' = [irq EXCEPT !.isr = @ \cup raised,
                                !.colliding = (irq.colliding \/ hit) /\ CurrentLine(b) # Visible]
          /\ raised = Raises(CurrentLine(b), irq.colliding \/ hit)
      BY <1>8, <1>9, <3>1 DEF VideoStep, b, raised
    <3>3. irq'.isr = irq.isr \cup raised
      BY <3>2 DEF VeraTypes
    <3>4. CurrentLine(b) = beam'.y /\ Compare = irq.line
      BY <1>8 DEF CurrentLine, Compare
    <3> QED BY <3>2, <3>3, <3>4 DEF Raises
  <2>5. \A e \in Looked : Until(LineOf(e), beam'.y) = Until(LineOf(e), beam.y) - 1
    <3> SUFFICES ASSUME NEW e \in Looked
                 PROVE  Until(LineOf(e), beam'.y) = Until(LineOf(e), beam.y) - 1
      OBVIOUS
    <3>1. Until(LineOf(e), beam.y) > 0 /\ LineOf(e) \in 0 .. Scan - 1
      BY <1>2, <1>3, <1>4
    <3> QED BY <1>1, <2>1, <3>1, Nearer
  <2>6. \A e \in Looked : beam'.y = LineOf(e) <=> Until(LineOf(e), beam.y) = 1
    <3> SUFFICES ASSUME NEW e \in Looked
                 PROVE  beam'.y = LineOf(e) <=> Until(LineOf(e), beam.y) = 1
      OBVIOUS
    <3>1. beam'.y \in 0 .. Scan - 1 /\ LineOf(e) \in 0 .. Scan - 1
      BY <1>1, <1>3, <2>1, NextLineIs
    <3>2. Until(LineOf(e), beam'.y) = 0 <=> LineOf(e) = beam'.y
      BY <3>1, NoWay
    <3> QED BY <1>3, <2>5, <3>2
  <2>7. \A e \in Looked : e \in raised <=> Until(LineOf(e), beam.y) = 1
    BY <1>11, <2>4, <2>6 DEF LineOf, Vsync, Line, Collision
  <2>8. CASE r = 1
    <3>1. after < 0
      BY <1>1, <1>4, <1>5, <1>14, <2>2, <2>3, <2>8
    <3>2. s \in raised
      BY <1>2, <2>7, <2>8 DEF r
    <3>3. IrqOut'
      BY <1>2, <1>10, <2>4, <3>2 DEF IrqOut, Looked
    <3>4. ForecastHolds
      BY <1>7, <3>1, <3>2, <3>3 DEF ForecastHolds
    <3> QED BY <1>5, <1>7, <3>1, <3>2, <3>4
  <2>9. CASE r # 1
    <3>1. r - 1 \in Nat /\ r - 1 > 0
      BY <1>2, <1>4, <2>9
    <3>2. (r - 1) * VgaWidth >= VgaWidth
      BY <3>1, LineLess
    <3>3. s \notin raised
      BY <1>2, <2>7, <2>9 DEF r
    <3>4. \A e \in Looked : Until(LineOf(e), beam.y)' >= r - 1
      BY <1>2, <1>3, <1>4, <1>11, <2>5 DEF Until
    <3>5. Until(LineOf(forecast.source), beam.y)' = r - 1
      <4>1. Until(LineOf(s), beam'.y) = r - 1
        BY <1>2, <2>5 DEF r
      <4> QED BY <1>12, <4>1 DEF Until
    <3>6. Left(after, (r - 1) * VgaWidth, beam'.x)
      BY <2>3 DEF Left
    <3>7. OnItsWay'
      BY <1>2, <1>7, <1>11, <3>1, <3>4, <3>5, <3>6 DEF OnItsWay
    <3>8. ASSUME after < 0 PROVE BeamBehind'
      <4>1. beam'.x > VgaWidth
        BY <1>1, <1>4, <2>2, <2>3, <3>2, <3>8
      <4>2. ~irq'.ntsc
        BY <1>10
      <4> QED BY <4>1, <4>2 DEF BeamBehind
    <3>9. (irq'.isr \ irq.isr) \cap irq.ien \subseteq {Collision}
      <4>1. \A e \in Looked : e \notin raised
        BY <1>2, <1>3, <1>4, <2>7, <2>9
      <4> QED BY <2>4, <4>1 DEF Looked, VeraTypes
    <3>10. ~forecast'.came
      BY <1>7, <3>3
    <3>11. ASSUME forecast'.left < 0 PROVE BeamBehind'
      BY <1>7, <3>8, <3>11
    <3>12. ForecastHolds
      BY <3>9, <3>10, <3>11 DEF ForecastHolds
    <3> QED BY <1>5, <1>7, <3>7, <3>10, <3>12
  <2> QED BY <2>8, <2>9
<1> QED BY <1>1, <1>13, <1>14

\* A forecast is renewed by looking, followed, or given up.
LEMMA ForecastStep ==
    ASSUME ForecastInv, [VeraNext]_veraVars
    PROVE  /\ ForecastInv'
           /\ ~irq.ntsc /\ forecast.lines > 0 => ForecastHolds
<1> DEFINE Live == forecast # NoForecast /\ ~irq.ntsc /\ forecast.lines > 0
           Goal == ForecastInv' /\ (~irq.ntsc /\ forecast.lines > 0 => ForecastHolds)
<1>1. VeraTypes /\ VeraTypes'
  BY TypesKept DEF ForecastInv
<1>2. NoForecast.lines = 0 /\ NoForecast.left = 0
  BY DEF NoForecast
<1>3. ASSUME NEW px \in Steps, NEW hit \in BOOLEAN, VideoStep(px, hit)
      PROVE  Goal
  <2>1. PICK raised : forecast' = Followed(px, raised) /\ irq'.ntsc = irq.ntsc
    BY <1>1, <1>3 DEF VideoStep, VeraTypes
  <2>2. CASE forecast' = NoForecast
    BY <1>1, <2>2 DEF ForecastInv, ForecastHolds
  <2>3. CASE forecast' # NoForecast /\ ~(~irq.ntsc /\ forecast.lines > 0)
    <3>1. forecast'.lines = forecast.lines
      BY <1>1, <2>1, <2>3 DEF Followed, VeraTypes
    <3> QED BY <1>1, <2>1, <2>3, <3>1 DEF ForecastInv
  <2>4. CASE forecast' # NoForecast /\ ~irq.ntsc /\ forecast.lines > 0
    <3>1. forecast # NoForecast /\ ~(forecast.left < 0 /\ forecast.came)
      BY <2>1, <2>4 DEF Followed
    <3>2. forecast.left \in Int /\ forecast.came = FALSE /\ OnItsWay
      BY <2>4, <3>1 DEF ForecastInv
    <3>3. /\ forecast'.left \in Int /\ forecast'.came \in BOOLEAN
          /\ IF forecast'.came THEN forecast'.left < 0 ELSE OnItsWay'
          /\ ForecastHolds
      BY <1>1, <1>3, <2>4, <3>1, <3>2, TimePasses
    <3> QED BY <1>1, <3>3 DEF ForecastInv
  <2> QED BY <2>2, <2>3, <2>4
<1>4. ASSUME Look
      PROVE  Goal
  <2>1. forecast = NoForecast /\ forecast' = Forecast /\ UNCHANGED <<beam, irq>> /\ Looked # {}
    BY <1>4 DEF Look, Looked
  <2>2. ~irq.ntsc /\ forecast'.lines > 0 =>
            forecast'.left \in Int /\ forecast'.came = FALSE /\ OnItsWay'
    BY <1>1, <2>1, LookForecasts
  <2> QED BY <1>1, <1>2, <2>1, <2>2 DEF ForecastInv, ForecastHolds
<1>5. ASSUME forecast' = NoForecast
      PROVE  Goal
  BY <1>1, <1>5 DEF ForecastInv, ForecastHolds
<1>6. ASSUME UNCHANGED <<beam, forecast>>, irq'.ntsc = irq.ntsc, irq'.ien = irq.ien,
             irq'.line = irq.line, irq'.isr \subseteq irq.isr
      PROVE  Goal
  <2>1. OnItsWay' <=> OnItsWay
    BY <1>6 DEF OnItsWay, Looked, Until, LineOf
  <2>2. ForecastInv'
    BY <1>1, <1>6, <2>1 DEF ForecastInv
  <2>3. ASSUME Live, forecast.left < 0, ~forecast.came PROVE BeamBehind'
    <3>1. OnItsWay
      BY <2>3 DEF ForecastInv
    <3>2. Until(LineOf(forecast.source), beam.y) * VgaWidth < beam.x
          /\ Until(LineOf(forecast.source), beam.y) > 0
      BY <2>3, <3>1 DEF OnItsWay, Left
    <3>3. beam.x \in Nat /\ Until(LineOf(forecast.source), beam.y) \in Nat
      <4>1. beam.y \in 0 .. Scan - 1 /\ beam.x \in Nat
        BY <1>1 DEF VeraTypes
      <4>2. Until(LineOf(forecast.source), beam.y) \in 0 .. Scan - 1
        BY <1>1, <4>1, LinesOfPicture, UntilIs
      <4> QED BY <4>1, <4>2, PictureSizes
    <3>4. Until(LineOf(forecast.source), beam.y) * VgaWidth >= VgaWidth
          /\ Until(LineOf(forecast.source), beam.y) * VgaWidth \in Nat
      BY <3>2, <3>3, LineLess
    <3>5. beam.x > VgaWidth
      BY <3>2, <3>3, <3>4, PictureSizes
    <3>6. ~irq'.ntsc /\ beam' = beam
      BY <1>6, <2>3
    <3> QED BY <3>5, <3>6 DEF BeamBehind
  <2>4. Live => ForecastHolds
    <3>1. irq'.isr \ irq.isr = {} /\ forecast' = forecast
      BY <1>6
    <3>2. CASE Live /\ forecast.left < 0 /\ ~forecast.came
      BY <2>3, <3>1, <3>2 DEF ForecastHolds
    <3>3. CASE Live /\ forecast.left < 0 /\ forecast.came
      BY <3>1, <3>3 DEF ForecastHolds
    <3>4. CASE Live /\ ~(forecast.left < 0)
      BY <3>1, <3>4 DEF ForecastHolds
    <3> QED BY <3>2, <3>3, <3>4
  <2> QED BY <1>2, <2>2, <2>4 DEF ForecastHolds
<1>7. ASSUME NEW flags, Acknowledge(flags)
      PROVE  /\ UNCHANGED <<beam, forecast>> /\ irq'.ntsc = irq.ntsc /\ irq'.ien = irq.ien
             /\ irq'.line = irq.line /\ irq'.isr \subseteq irq.isr
  BY <1>1, <1>7 DEF Acknowledge, VeraTypes
<1>8. \/ \E px \in Steps, hit \in BOOLEAN : VideoStep(px, hit)
      \/ Look
      \/ forecast' = NoForecast
      \/ \E flags : Acknowledge(flags)
      \/ UNCHANGED <<beam, irq, forecast>>
  BY DEF VeraNext, Sound, Screen, WriteIen, WriteIrqLine, SetMode, Setting, ResetVera, veraVars
<1> QED BY <1>3, <1>4, <1>5, <1>6, <1>7, <1>8

\* In a VGA picture the next interrupt comes on the clock the debugger was told,
\* or before a beam put behind the clock has caught up: for pictures of any size,
\* any compare line, any lengths of instructions and of the host's calls.
THEOREM VgaForecastsComeTrue == VeraSpec => VgaForecastComesTrue
<1>1. ForecastInv /\ [VeraNext]_veraVars =>
        ForecastInv' /\ [~irq.ntsc /\ forecast.lines > 0 => ForecastHolds]_veraVars
  BY ForecastStep
<1> QED BY <1>1, VeraStart, PTL DEF VeraSpec, VgaForecastComesTrue

-----------------------------------------------------------------------------
(* The bus of the system management controller.                            *)

\* The powers of two.
LEMMA PowersAre == \A n \in 0 .. 8 : 2 ^ n \in Nat \ {0}
<1> TAKE n \in 0 .. 8
<1>0. CASE n = 0
  BY <1>0
<1>1. CASE n = 1
  BY <1>1
<1>2. CASE n = 2
  BY <1>2
<1>3. CASE n = 3
  BY <1>3
<1>4. CASE n = 4
  BY <1>4
<1>5. CASE n = 5
  BY <1>5
<1>6. CASE n = 6
  BY <1>6
<1>7. CASE n = 7
  BY <1>7
<1>8. CASE n = 8
  BY <1>8
<1> QED BY <1>0, <1>1, <1>2, <1>3, <1>4, <1>5, <1>6, <1>7, <1>8

\* A bit more of a byte sent: the last k + 1 bits of what the bus holds are the
\* first of the byte.
LEMMA BitSent ==
    ASSUME NEW k \in 0 .. 7, NEW v \in 0 .. 255, NEW s \in 0 .. 255,
           v % 2 ^ k = s \div 2 ^ (8 - k)
    PROVE  ((2 * v + ((s \div 2 ^ (7 - k)) % 2)) % 256) % 2 ^ (k + 1) = s \div 2 ^ (7 - k)
<1>0. CASE k = 0
  <2>1. 7 - k = 7 /\ 8 - k = 8 /\ k + 1 = 1
    BY <1>0
  <2>2. /\ 2 ^ k = 1 /\ 2 ^ (7 - k) = 128 /\ 2 ^ (8 - k) = 256 /\ 2 ^ (k + 1) = 2
    BY <1>0, <2>1
  <2>3. PICK q, r, e : q = v \div 1 /\ r = v % 1 /\ r = s \div 256 /\ e = s % 256
    BY <2>2
  <2>4. /\ q \in Nat /\ r \in 0 .. 0 /\ v = 1 * q + r
        /\ e \in 0 .. 255 /\ s = 256 * r + e
    BY <2>3
  <2>5. PICK d \in {0, 1} : s \div 128 = 2 * r + d
    <3>1. e >= 128 => s \div 128 = 2 * r + 1
      BY <2>4
    <3>2. e < 128 => s \div 128 = 2 * r + 0
      BY <2>4
    <3> QED BY <2>4, <3>1, <3>2
  <2>6. (2 * v + d) % 256 = IF v >= 128 THEN 2 * v + d - 256 ELSE 2 * v + d
    OBVIOUS
  <2>7. 2 * v + d = 2 * q + (2 * r + d) /\ 2 * r + d \in 0 .. 1
    BY <2>4
  <2>8. ((2 * v + d) % 256) % 2 = 2 * r + d
    <3>1. CASE v >= 128
      <4>1. (2 * v + d) % 256 = 2 * (q - 128) + (2 * r + d) /\ q - 128 \in Int
        BY <2>4, <2>6, <2>7, <3>1
      <4>2. (2 * (q - 128) + (2 * r + d)) % 2 = 2 * r + d
        BY <2>7, <4>1
      <4> QED BY <4>1, <4>2
    <3>2. CASE v < 128
      <4>1. (2 * v + d) % 256 = 2 * q + (2 * r + d)
        BY <2>6, <2>7, <3>2
      <4>2. (2 * q + (2 * r + d)) % 2 = 2 * r + d
        BY <2>4, <2>7
      <4> QED BY <4>1, <4>2
    <3> QED BY <3>1, <3>2
  <2>9. (2 * r + d) % 2 = d
    BY <2>4
  <2> QED BY <2>2, <2>5, <2>8, <2>9
<1>1. CASE k = 1
  <2>1. 7 - k = 6 /\ 8 - k = 7 /\ k + 1 = 2
    BY <1>1
  <2>2. /\ 2 ^ k = 2 /\ 2 ^ (7 - k) = 64 /\ 2 ^ (8 - k) = 128 /\ 2 ^ (k + 1) = 4
    BY <1>1, <2>1
  <2>3. PICK q, r, e : q = v \div 2 /\ r = v % 2 /\ r = s \div 128 /\ e = s % 128
    BY <2>2
  <2>4. /\ q \in Nat /\ r \in 0 .. 1 /\ v = 2 * q + r
        /\ e \in 0 .. 127 /\ s = 128 * r + e
    BY <2>3
  <2>5. PICK d \in {0, 1} : s \div 64 = 2 * r + d
    <3>1. e >= 64 => s \div 64 = 2 * r + 1
      BY <2>4
    <3>2. e < 64 => s \div 64 = 2 * r + 0
      BY <2>4
    <3> QED BY <2>4, <3>1, <3>2
  <2>6. (2 * v + d) % 256 = IF v >= 128 THEN 2 * v + d - 256 ELSE 2 * v + d
    OBVIOUS
  <2>7. 2 * v + d = 4 * q + (2 * r + d) /\ 2 * r + d \in 0 .. 3
    BY <2>4
  <2>8. ((2 * v + d) % 256) % 4 = 2 * r + d
    <3>1. CASE v >= 128
      <4>1. (2 * v + d) % 256 = 4 * (q - 64) + (2 * r + d) /\ q - 64 \in Int
        BY <2>4, <2>6, <2>7, <3>1
      <4>2. (4 * (q - 64) + (2 * r + d)) % 4 = 2 * r + d
        BY <2>7, <4>1
      <4> QED BY <4>1, <4>2
    <3>2. CASE v < 128
      <4>1. (2 * v + d) % 256 = 4 * q + (2 * r + d)
        BY <2>6, <2>7, <3>2
      <4>2. (4 * q + (2 * r + d)) % 4 = 2 * r + d
        BY <2>4, <2>7
      <4> QED BY <4>1, <4>2
    <3> QED BY <3>1, <3>2
  <2>9. (2 * r + d) % 2 = d
    BY <2>4
  <2> QED BY <2>2, <2>5, <2>8, <2>9
<1>2. CASE k = 2
  <2>1. 7 - k = 5 /\ 8 - k = 6 /\ k + 1 = 3
    BY <1>2
  <2>2. /\ 2 ^ k = 4 /\ 2 ^ (7 - k) = 32 /\ 2 ^ (8 - k) = 64 /\ 2 ^ (k + 1) = 8
    BY <1>2, <2>1
  <2>3. PICK q, r, e : q = v \div 4 /\ r = v % 4 /\ r = s \div 64 /\ e = s % 64
    BY <2>2
  <2>4. /\ q \in Nat /\ r \in 0 .. 3 /\ v = 4 * q + r
        /\ e \in 0 .. 63 /\ s = 64 * r + e
    BY <2>3
  <2>5. PICK d \in {0, 1} : s \div 32 = 2 * r + d
    <3>1. e >= 32 => s \div 32 = 2 * r + 1
      BY <2>4
    <3>2. e < 32 => s \div 32 = 2 * r + 0
      BY <2>4
    <3> QED BY <2>4, <3>1, <3>2
  <2>6. (2 * v + d) % 256 = IF v >= 128 THEN 2 * v + d - 256 ELSE 2 * v + d
    OBVIOUS
  <2>7. 2 * v + d = 8 * q + (2 * r + d) /\ 2 * r + d \in 0 .. 7
    BY <2>4
  <2>8. ((2 * v + d) % 256) % 8 = 2 * r + d
    <3>1. CASE v >= 128
      <4>1. (2 * v + d) % 256 = 8 * (q - 32) + (2 * r + d) /\ q - 32 \in Int
        BY <2>4, <2>6, <2>7, <3>1
      <4>2. (8 * (q - 32) + (2 * r + d)) % 8 = 2 * r + d
        BY <2>7, <4>1
      <4> QED BY <4>1, <4>2
    <3>2. CASE v < 128
      <4>1. (2 * v + d) % 256 = 8 * q + (2 * r + d)
        BY <2>6, <2>7, <3>2
      <4>2. (8 * q + (2 * r + d)) % 8 = 2 * r + d
        BY <2>4, <2>7
      <4> QED BY <4>1, <4>2
    <3> QED BY <3>1, <3>2
  <2>9. (2 * r + d) % 2 = d
    BY <2>4
  <2> QED BY <2>2, <2>5, <2>8, <2>9
<1>3. CASE k = 3
  <2>1. 7 - k = 4 /\ 8 - k = 5 /\ k + 1 = 4
    BY <1>3
  <2>2. /\ 2 ^ k = 8 /\ 2 ^ (7 - k) = 16 /\ 2 ^ (8 - k) = 32 /\ 2 ^ (k + 1) = 16
    BY <1>3, <2>1
  <2>3. PICK q, r, e : q = v \div 8 /\ r = v % 8 /\ r = s \div 32 /\ e = s % 32
    BY <2>2
  <2>4. /\ q \in Nat /\ r \in 0 .. 7 /\ v = 8 * q + r
        /\ e \in 0 .. 31 /\ s = 32 * r + e
    BY <2>3
  <2>5. PICK d \in {0, 1} : s \div 16 = 2 * r + d
    <3>1. e >= 16 => s \div 16 = 2 * r + 1
      BY <2>4
    <3>2. e < 16 => s \div 16 = 2 * r + 0
      BY <2>4
    <3> QED BY <2>4, <3>1, <3>2
  <2>6. (2 * v + d) % 256 = IF v >= 128 THEN 2 * v + d - 256 ELSE 2 * v + d
    OBVIOUS
  <2>7. 2 * v + d = 16 * q + (2 * r + d) /\ 2 * r + d \in 0 .. 15
    BY <2>4
  <2>8. ((2 * v + d) % 256) % 16 = 2 * r + d
    <3>1. CASE v >= 128
      <4>1. (2 * v + d) % 256 = 16 * (q - 16) + (2 * r + d) /\ q - 16 \in Int
        BY <2>4, <2>6, <2>7, <3>1
      <4>2. (16 * (q - 16) + (2 * r + d)) % 16 = 2 * r + d
        BY <2>7, <4>1
      <4> QED BY <4>1, <4>2
    <3>2. CASE v < 128
      <4>1. (2 * v + d) % 256 = 16 * q + (2 * r + d)
        BY <2>6, <2>7, <3>2
      <4>2. (16 * q + (2 * r + d)) % 16 = 2 * r + d
        BY <2>4, <2>7
      <4> QED BY <4>1, <4>2
    <3> QED BY <3>1, <3>2
  <2>9. (2 * r + d) % 2 = d
    BY <2>4
  <2> QED BY <2>2, <2>5, <2>8, <2>9
<1>4. CASE k = 4
  <2>1. 7 - k = 3 /\ 8 - k = 4 /\ k + 1 = 5
    BY <1>4
  <2>2. /\ 2 ^ k = 16 /\ 2 ^ (7 - k) = 8 /\ 2 ^ (8 - k) = 16 /\ 2 ^ (k + 1) = 32
    BY <1>4, <2>1
  <2>3. PICK q, r, e : q = v \div 16 /\ r = v % 16 /\ r = s \div 16 /\ e = s % 16
    BY <2>2
  <2>4. /\ q \in Nat /\ r \in 0 .. 15 /\ v = 16 * q + r
        /\ e \in 0 .. 15 /\ s = 16 * r + e
    BY <2>3
  <2>5. PICK d \in {0, 1} : s \div 8 = 2 * r + d
    <3>1. e >= 8 => s \div 8 = 2 * r + 1
      BY <2>4
    <3>2. e < 8 => s \div 8 = 2 * r + 0
      BY <2>4
    <3> QED BY <2>4, <3>1, <3>2
  <2>6. (2 * v + d) % 256 = IF v >= 128 THEN 2 * v + d - 256 ELSE 2 * v + d
    OBVIOUS
  <2>7. 2 * v + d = 32 * q + (2 * r + d) /\ 2 * r + d \in 0 .. 31
    BY <2>4
  <2>8. ((2 * v + d) % 256) % 32 = 2 * r + d
    <3>1. CASE v >= 128
      <4>1. (2 * v + d) % 256 = 32 * (q - 8) + (2 * r + d) /\ q - 8 \in Int
        BY <2>4, <2>6, <2>7, <3>1
      <4>2. (32 * (q - 8) + (2 * r + d)) % 32 = 2 * r + d
        BY <2>7, <4>1
      <4> QED BY <4>1, <4>2
    <3>2. CASE v < 128
      <4>1. (2 * v + d) % 256 = 32 * q + (2 * r + d)
        BY <2>6, <2>7, <3>2
      <4>2. (32 * q + (2 * r + d)) % 32 = 2 * r + d
        BY <2>4, <2>7
      <4> QED BY <4>1, <4>2
    <3> QED BY <3>1, <3>2
  <2>9. (2 * r + d) % 2 = d
    BY <2>4
  <2> QED BY <2>2, <2>5, <2>8, <2>9
<1>5. CASE k = 5
  <2>1. 7 - k = 2 /\ 8 - k = 3 /\ k + 1 = 6
    BY <1>5
  <2>2. /\ 2 ^ k = 32 /\ 2 ^ (7 - k) = 4 /\ 2 ^ (8 - k) = 8 /\ 2 ^ (k + 1) = 64
    BY <1>5, <2>1
  <2>3. PICK q, r, e : q = v \div 32 /\ r = v % 32 /\ r = s \div 8 /\ e = s % 8
    BY <2>2
  <2>4. /\ q \in Nat /\ r \in 0 .. 31 /\ v = 32 * q + r
        /\ e \in 0 .. 7 /\ s = 8 * r + e
    BY <2>3
  <2>5. PICK d \in {0, 1} : s \div 4 = 2 * r + d
    <3>1. e >= 4 => s \div 4 = 2 * r + 1
      BY <2>4
    <3>2. e < 4 => s \div 4 = 2 * r + 0
      BY <2>4
    <3> QED BY <2>4, <3>1, <3>2
  <2>6. (2 * v + d) % 256 = IF v >= 128 THEN 2 * v + d - 256 ELSE 2 * v + d
    OBVIOUS
  <2>7. 2 * v + d = 64 * q + (2 * r + d) /\ 2 * r + d \in 0 .. 63
    BY <2>4
  <2>8. ((2 * v + d) % 256) % 64 = 2 * r + d
    <3>1. CASE v >= 128
      <4>1. (2 * v + d) % 256 = 64 * (q - 4) + (2 * r + d) /\ q - 4 \in Int
        BY <2>4, <2>6, <2>7, <3>1
      <4>2. (64 * (q - 4) + (2 * r + d)) % 64 = 2 * r + d
        BY <2>7, <4>1
      <4> QED BY <4>1, <4>2
    <3>2. CASE v < 128
      <4>1. (2 * v + d) % 256 = 64 * q + (2 * r + d)
        BY <2>6, <2>7, <3>2
      <4>2. (64 * q + (2 * r + d)) % 64 = 2 * r + d
        BY <2>4, <2>7
      <4> QED BY <4>1, <4>2
    <3> QED BY <3>1, <3>2
  <2>9. (2 * r + d) % 2 = d
    BY <2>4
  <2> QED BY <2>2, <2>5, <2>8, <2>9
<1>6. CASE k = 6
  <2>1. 7 - k = 1 /\ 8 - k = 2 /\ k + 1 = 7
    BY <1>6
  <2>2. /\ 2 ^ k = 64 /\ 2 ^ (7 - k) = 2 /\ 2 ^ (8 - k) = 4 /\ 2 ^ (k + 1) = 128
    BY <1>6, <2>1
  <2>3. PICK q, r, e : q = v \div 64 /\ r = v % 64 /\ r = s \div 4 /\ e = s % 4
    BY <2>2
  <2>4. /\ q \in Nat /\ r \in 0 .. 63 /\ v = 64 * q + r
        /\ e \in 0 .. 3 /\ s = 4 * r + e
    BY <2>3
  <2>5. PICK d \in {0, 1} : s \div 2 = 2 * r + d
    <3>1. e >= 2 => s \div 2 = 2 * r + 1
      BY <2>4
    <3>2. e < 2 => s \div 2 = 2 * r + 0
      BY <2>4
    <3> QED BY <2>4, <3>1, <3>2
  <2>6. (2 * v + d) % 256 = IF v >= 128 THEN 2 * v + d - 256 ELSE 2 * v + d
    OBVIOUS
  <2>7. 2 * v + d = 128 * q + (2 * r + d) /\ 2 * r + d \in 0 .. 127
    BY <2>4
  <2>8. ((2 * v + d) % 256) % 128 = 2 * r + d
    <3>1. CASE v >= 128
      <4>1. (2 * v + d) % 256 = 128 * (q - 2) + (2 * r + d) /\ q - 2 \in Int
        BY <2>4, <2>6, <2>7, <3>1
      <4>2. (128 * (q - 2) + (2 * r + d)) % 128 = 2 * r + d
        BY <2>7, <4>1
      <4> QED BY <4>1, <4>2
    <3>2. CASE v < 128
      <4>1. (2 * v + d) % 256 = 128 * q + (2 * r + d)
        BY <2>6, <2>7, <3>2
      <4>2. (128 * q + (2 * r + d)) % 128 = 2 * r + d
        BY <2>4, <2>7
      <4> QED BY <4>1, <4>2
    <3> QED BY <3>1, <3>2
  <2>9. (2 * r + d) % 2 = d
    BY <2>4
  <2> QED BY <2>2, <2>5, <2>8, <2>9
<1>7. CASE k = 7
  <2>1. 7 - k = 0 /\ 8 - k = 1 /\ k + 1 = 8
    BY <1>7
  <2>2. /\ 2 ^ k = 128 /\ 2 ^ (7 - k) = 1 /\ 2 ^ (8 - k) = 2 /\ 2 ^ (k + 1) = 256
    BY <1>7, <2>1
  <2>3. PICK q, r, e : q = v \div 128 /\ r = v % 128 /\ r = s \div 2 /\ e = s % 2
    BY <2>2
  <2>4. /\ q \in Nat /\ r \in 0 .. 127 /\ v = 128 * q + r
        /\ e \in 0 .. 1 /\ s = 2 * r + e
    BY <2>3
  <2>5. PICK d \in {0, 1} : s \div 1 = 2 * r + d
    <3>1. e >= 1 => s \div 1 = 2 * r + 1
      BY <2>4
    <3>2. e < 1 => s \div 1 = 2 * r + 0
      BY <2>4
    <3> QED BY <2>4, <3>1, <3>2
  <2>6. (2 * v + d) % 256 = IF v >= 128 THEN 2 * v + d - 256 ELSE 2 * v + d
    OBVIOUS
  <2>7. 2 * v + d = 256 * q + (2 * r + d) /\ 2 * r + d \in 0 .. 255
    BY <2>4
  <2>8. ((2 * v + d) % 256) % 256 = 2 * r + d
    <3>1. CASE v >= 128
      <4>1. (2 * v + d) % 256 = 256 * (q - 1) + (2 * r + d) /\ q - 1 \in Int
        BY <2>4, <2>6, <2>7, <3>1
      <4>2. (256 * (q - 1) + (2 * r + d)) % 256 = 2 * r + d
        BY <2>7, <4>1
      <4> QED BY <4>1, <4>2
    <3>2. CASE v < 128
      <4>1. (2 * v + d) % 256 = 256 * q + (2 * r + d)
        BY <2>6, <2>7, <3>2
      <4>2. (256 * q + (2 * r + d)) % 256 = 2 * r + d
        BY <2>4, <2>7
      <4> QED BY <4>1, <4>2
    <3> QED BY <3>1, <3>2
  <2>9. (2 * r + d) % 2 = d
    BY <2>4
  <2> QED BY <2>2, <2>5, <2>8, <2>9
<1> QED BY <1>0, <1>1, <1>2, <1>3, <1>4, <1>5, <1>6, <1>7

\* A bit more of a byte read: what was taken of it and what the bus holds of it
\* are still the byte.
LEMMA BitRead ==
    ASSUME NEW k \in 0 .. 7, NEW v \in 0 .. 255, NEW h \in Nat
    PROVE  (2 * h + v \div 128) * 2 ^ (7 - k) + ((2 * v) % 256) \div 2 ^ (k + 1) = h * 2 ^ (8 - k) + v \div 2 ^ k
<1>0. CASE k = 0
  <2>1. 7 - k = 7 /\ 8 - k = 8 /\ k + 1 = 1
    BY <1>0
  <2>2. /\ 2 ^ k = 1 /\ 2 ^ (7 - k) = 128 /\ 2 ^ (8 - k) = 256 /\ 2 ^ (k + 1) = 2
    BY <1>0, <2>1
  <2>3. (2 * h + v \div 128) * 128 + ((2 * v) % 256) \div 2 = h * 256 + v \div 1
    OBVIOUS
  <2> QED BY <2>2, <2>3
<1>1. CASE k = 1
  <2>1. 7 - k = 6 /\ 8 - k = 7 /\ k + 1 = 2
    BY <1>1
  <2>2. /\ 2 ^ k = 2 /\ 2 ^ (7 - k) = 64 /\ 2 ^ (8 - k) = 128 /\ 2 ^ (k + 1) = 4
    BY <1>1, <2>1
  <2>3. (2 * h + v \div 128) * 64 + ((2 * v) % 256) \div 4 = h * 128 + v \div 2
    OBVIOUS
  <2> QED BY <2>2, <2>3
<1>2. CASE k = 2
  <2>1. 7 - k = 5 /\ 8 - k = 6 /\ k + 1 = 3
    BY <1>2
  <2>2. /\ 2 ^ k = 4 /\ 2 ^ (7 - k) = 32 /\ 2 ^ (8 - k) = 64 /\ 2 ^ (k + 1) = 8
    BY <1>2, <2>1
  <2>3. (2 * h + v \div 128) * 32 + ((2 * v) % 256) \div 8 = h * 64 + v \div 4
    OBVIOUS
  <2> QED BY <2>2, <2>3
<1>3. CASE k = 3
  <2>1. 7 - k = 4 /\ 8 - k = 5 /\ k + 1 = 4
    BY <1>3
  <2>2. /\ 2 ^ k = 8 /\ 2 ^ (7 - k) = 16 /\ 2 ^ (8 - k) = 32 /\ 2 ^ (k + 1) = 16
    BY <1>3, <2>1
  <2>3. (2 * h + v \div 128) * 16 + ((2 * v) % 256) \div 16 = h * 32 + v \div 8
    OBVIOUS
  <2> QED BY <2>2, <2>3
<1>4. CASE k = 4
  <2>1. 7 - k = 3 /\ 8 - k = 4 /\ k + 1 = 5
    BY <1>4
  <2>2. /\ 2 ^ k = 16 /\ 2 ^ (7 - k) = 8 /\ 2 ^ (8 - k) = 16 /\ 2 ^ (k + 1) = 32
    BY <1>4, <2>1
  <2>3. (2 * h + v \div 128) * 8 + ((2 * v) % 256) \div 32 = h * 16 + v \div 16
    OBVIOUS
  <2> QED BY <2>2, <2>3
<1>5. CASE k = 5
  <2>1. 7 - k = 2 /\ 8 - k = 3 /\ k + 1 = 6
    BY <1>5
  <2>2. /\ 2 ^ k = 32 /\ 2 ^ (7 - k) = 4 /\ 2 ^ (8 - k) = 8 /\ 2 ^ (k + 1) = 64
    BY <1>5, <2>1
  <2>3. (2 * h + v \div 128) * 4 + ((2 * v) % 256) \div 64 = h * 8 + v \div 32
    OBVIOUS
  <2> QED BY <2>2, <2>3
<1>6. CASE k = 6
  <2>1. 7 - k = 1 /\ 8 - k = 2 /\ k + 1 = 7
    BY <1>6
  <2>2. /\ 2 ^ k = 64 /\ 2 ^ (7 - k) = 2 /\ 2 ^ (8 - k) = 4 /\ 2 ^ (k + 1) = 128
    BY <1>6, <2>1
  <2>3. (2 * h + v \div 128) * 2 + ((2 * v) % 256) \div 128 = h * 4 + v \div 64
    OBVIOUS
  <2> QED BY <2>2, <2>3
<1>7. CASE k = 7
  <2>1. 7 - k = 0 /\ 8 - k = 1 /\ k + 1 = 8
    BY <1>7
  <2>2. /\ 2 ^ k = 128 /\ 2 ^ (7 - k) = 1 /\ 2 ^ (8 - k) = 2 /\ 2 ^ (k + 1) = 256
    BY <1>7, <2>1
  <2>3. (2 * h + v \div 128) * 1 + ((2 * v) % 256) \div 256 = h * 2 + v \div 128
    OBVIOUS
  <2> QED BY <2>2, <2>3
<1> QED BY <1>0, <1>1, <1>2, <1>3, <1>4, <1>5, <1>6, <1>7

\* A transfer with at most a register's number and its value to write, that
\* writes a value or reads something.
Polite(t) == Len(t.bytes) <= 2 /\ (Len(t.bytes) <= 1 => t.reads > 0)

\* Guests as the KERNAL is: a third byte of a write would land in the first
\* place again, and a number with nothing read would be left for whoever comes
\* next.
PoliteGuests == \A p \in Programs : \A i \in DOMAIN p : Polite(p[i])

\* What the variables hold.
Transfers == {t \in [device : 0 .. 127, bytes : Seq(Byte), reads : Nat, last : Nat] : Polite(t)}

Queues ==
    [kbd : Seq(Byte), mse : Seq(Byte), mseCount : Nat, mouse : {0, 3}, op : Byte, mid : BOOLEAN,
     wantsReset : BOOLEAN]

Phases == {"idle", "start", "low", "set", "high", "stop", "stopping", "ending", "reset"}

GuestStates == [phase : Phases, reading : BOOLEAN, sent : Nat, bit : 0 .. 8, shifted : Nat]

BusStates ==
    [state : Int, readMode : BOOLEAN, value : Byte, count : Nat, device : Nat, out : {0, 1}]

\* The state's types.
BusTypes ==
    /\ queues \in Queues /\ data \in [1 .. 2 -> Byte] /\ pos \in Nat /\ parity \in {0, 1}
    /\ bus \in BusStates
    /\ wires \in [clock : {0, 1}, data : {0, 1}]
    /\ plan \in Seq(Transfers) /\ got \in Seq(Nat)
    /\ guest \in GuestStates

\* What a transfer reads it reads in its only part, or in the second part of a
\* transfer the controller took.
PartOK ==
    plan # <<>> =>
        IF guest.reading
        THEN Head(plan).reads > 0 /\ (Head(plan).bytes = <<>> \/ Head(plan).device = Smc)
        ELSE Head(plan).bytes # <<>>

\* Between two parts.
Between ==
    /\ bus.state = NoTransfer /\ ~bus.readMode /\ bus.count = 0
    /\ guest.sent = 0 /\ guest.bit = 0 /\ guest.shifted = 0 /\ got = <<>>
    /\ plan = <<>> => ~guest.reading

\* k bits of a byte have gone.
InByte(k) ==
    /\ plan # <<>> /\ bus.state = k
    /\ guest.bit \in {0, 8} => guest.shifted = 0
    /\ Receiving =>
         /\ Head(plan).device = Smc /\ guest.sent = 1 /\ bus.readMode /\ bus.count = 1
         /\ k = 0 => MoreToRead(Head(plan), got)
    /\ ~Receiving =>
         /\ ~bus.readMode /\ bus.count = guest.sent /\ guest.sent <= Len(Head(plan).bytes)
         /\ guest.sent > 0 => Head(plan).device = Smc /\ ~guest.reading
         /\ got = <<>> /\ guest.shifted = 0
         /\ bus.value % 2 ^ k = Sending \div 2 ^ (8 - k)

\* A byte was acknowledged, or was not.
Acknowledged ==
    /\ plan # <<>> /\ bus.state = 0 /\ guest.bit = 8 /\ guest.shifted = 0
    /\ Receiving =>
         /\ Head(plan).device = Smc /\ guest.sent = 1
         /\ bus.readMode = MoreToRead(Head(plan), got)
         /\ bus.count = IF MoreToRead(Head(plan), got) THEN 1 ELSE 0
    /\ ~Receiving => got = <<>> /\ guest.sent <= Len(Head(plan).bytes)
    /\ ~Receiving /\ bus.out = 0 =>
         /\ Head(plan).device = Smc /\ bus.count = guest.sent + 1
         /\ bus.readMode = guest.reading /\ (guest.reading => guest.sent = 0)
    /\ ~Receiving /\ bus.out = 1 =>
         /\ Head(plan).device # Smc /\ guest.sent = 0 /\ bus.count = 0 /\ ~bus.readMode

\* A part is over.
PartOver ==
    /\ plan # <<>> /\ ~bus.readMode /\ guest.bit = 0 /\ guest.shifted = 0
    /\ guest.sent = 0 => Head(plan).device # Smc /\ bus.count = 0 /\ got = <<>>
    /\ guest.sent # 0 => guest.sent = 1 /\ Head(plan).device = Smc
    /\ guest.sent # 0 /\ ~guest.reading => bus.count = Len(Head(plan).bytes) + 1 /\ got = <<>>
    /\ guest.sent # 0 /\ guest.reading => ~MoreToRead(Head(plan), got)

\* Where each phase of the guest has the lines, the bus and what was exchanged.
PhaseOK ==
    /\ guest.phase = "idle" => wires.clock = 1 /\ wires.data = 1 /\ Between
    /\ guest.phase = "start" => wires.clock = 1 /\ wires.data = 0 /\ Between /\ plan # <<>>
    /\ guest.phase = "low" => wires.clock = 0 /\ InByte(guest.bit)
    /\ guest.phase = "set" => wires.clock = 0 /\ wires.data = NextBit /\ InByte(guest.bit)
    /\ guest.phase = "high" =>
         /\ wires.clock = 1 /\ wires.data = NextBit
         /\ guest.bit < 8 => InByte(guest.bit + 1)
         /\ guest.bit = 8 => Acknowledged
    /\ guest.phase = "stop" => wires.clock = 0 /\ bus.state = 0 /\ PartOver
    /\ guest.phase = "stopping" => wires.clock = 0 /\ wires.data = 0 /\ bus.state = 0 /\ PartOver
    /\ guest.phase = "ending" => wires.clock = 1 /\ wires.data = 0 /\ bus.state = 1 /\ PartOver
    /\ guest.phase = "reset" => Between /\ plan = <<>>

\* The first byte of a transfer waits for a second, or for a read.
Waiting == pos = IF BytesWritten = 1 /\ BytesRead = <<>> THEN 1 ELSE 0

\* The inductive invariant.
BusInv == BusTypes /\ PartOK /\ PhaseOK /\ Waiting

\* A step of the protocol, or none.  A reset finds no packet begun.
ShownBytes ==
    \/ Bytes!Begin \/ Bytes!WriteByte \/ Bytes!ReadByte \/ Bytes!End
    \/ Bytes!KeyTyped \/ Bytes!MouseMoved
    \/ Bytes!Reset /\ queues.mseCount = 0 /\ ~queues.mid
    \/ UNCHANGED Bytes!protocolVars

\* What a guest does beyond the controller's sight.
LEMMA Unseen ==
    ASSUME UNCHANGED <<queues, data, plan, parity, BytesWritten, BytesRead>>
    PROVE  ShownBytes
BY DEF ShownBytes, Bytes!protocolVars

\* The transfer a guest is in.
LEMMA CurrentIs ==
    ASSUME BusTypes, plan # <<>>
    PROVE  /\ Head(plan) \in Transfers /\ Tail(plan) \in Seq(Transfers)
           /\ Head(plan).device \in 0 .. 127 /\ Head(plan).bytes \in Seq(Byte)
           /\ Head(plan).reads \in Nat /\ Head(plan).last \in Nat /\ Polite(Head(plan))
<1>1. Head(plan) \in Transfers /\ Tail(plan) \in Seq(Transfers)
  BY DEF BusTypes
<1> QED BY <1>1 DEF Transfers

\* A guest's programs consist of polite transfers.
LEMMA ProgramsAre ==
    ASSUME PoliteGuests, NEW p \in Programs
    PROVE  p \in Seq(Transfers) /\ p # <<>>
<1>1. /\ p \in Seq([device : 0 .. 127, bytes : Seq(Byte), reads : Nat, last : Nat]) /\ p # <<>>
      /\ \A i \in DOMAIN p : Polite(p[i])
  BY BusAssumption DEF PoliteGuests, Byte
<1>2. \A i \in 1 .. Len(p) : p[i] \in Transfers
  <2> DEFINE R == [device : 0 .. 127, bytes : Seq(Byte), reads : Nat, last : Nat]
  <2>1. p \in Seq(R)
    BY <1>1
  <2>2. ASSUME NEW i \in 1 .. Len(p) PROVE p[i] \in R
    <3> HIDE DEF R
    <3> QED BY <2>1
  <2>3. DOMAIN p = 1 .. Len(p)
    BY <2>1
  <2>4. ASSUME NEW i \in 1 .. Len(p) PROVE Polite(p[i])
    BY <1>1, <2>3
  <2> QED BY <2>2, <2>4 DEF Transfers
<1>3. p = [i \in 1 .. Len(p) |-> p[i]] /\ Len(p) \in Nat
  BY <1>1
<1> QED BY <1>1, <1>2, <1>3

\* Whatever is asked of the controller, its queues hold bytes.
LEMMA AnswerIs ==
    ASSUME NEW q \in Queues, NEW op \in Byte
    PROVE  Answered(q, op).byte \in Byte /\ Answered(q, op).queues \in Queues
<1>1. /\ q.kbd \in Seq(Byte) /\ q.mse \in Seq(Byte) /\ q.mseCount \in Nat /\ q.mouse \in {0, 3}
      /\ q.op \in Byte /\ q.mid \in BOOLEAN /\ q.wantsReset \in BOOLEAN
  BY DEF Queues
<1>2. \A r \in Seq(Byte) : Next1(r) \in Byte /\ Rest(r) \in Seq(Byte)
  <2>1. 0 \in Byte
    BY DEF Byte
  <2> QED BY <2>1 DEF Next1, Rest
<1>3. ASSUME NEW r \in Queues PROVE Key(r).byte \in Byte /\ Key(r).queues \in Queues
  <2>1. r.kbd \in Seq(Byte)
    BY DEF Queues
  <2>2. [r EXCEPT !.kbd = Rest(r.kbd)] \in Queues
    BY <1>2, <2>1 DEF Queues
  <2> QED BY <1>2, <2>1, <2>2 DEF Key, Given
<1>4. MouseByte(q).byte \in Byte /\ MouseByte(q).queues \in Queues
  <2>1. CASE q.mseCount = 0 /\ Len(q.mse) < PacketSize(q)
    <3>1. [q EXCEPT !.mid = FALSE] \in Queues
      BY DEF Queues
    <3>2. 0 \in Byte
      BY DEF Byte
    <3> QED BY <2>1, <3>1, <3>2 DEF MouseByte, Given
  <2>2. CASE ~(q.mseCount = 0 /\ Len(q.mse) < PacketSize(q))
    <3> DEFINE ends == q.mseCount + 1 = PacketSize(q)
               n == IF ends THEN 0 ELSE (q.mseCount + 1) % 256
               m == q.mid /\ ~ends
               u == [q EXCEPT !.mse = Rest(@), !.mseCount = IF ends THEN 0 ELSE (@ + 1) % 256,
                              !.mid = @ /\ ~ends]
    <3>1. MouseByte(q) = Given(Next1(q.mse), u)
      BY <2>2 DEF MouseByte
    <3>2. u = [q EXCEPT !.mse = Rest(q.mse), !.mseCount = n, !.mid = m]
      BY DEF Queues
    <3>3. n \in Nat /\ m \in BOOLEAN /\ Rest(q.mse) \in Seq(Byte)
      BY <1>1, <1>2
    <3> HIDE DEF n, m, u, ends
    <3>4. u \in Queues
      BY <3>2, <3>3 DEF Queues
    <3> QED BY <1>1, <1>2, <3>1, <3>4 DEF Given
  <2> QED BY <2>1, <2>2
<1>5. [q EXCEPT !.mid = TRUE] \in Queues /\ [q EXCEPT !.mid = FALSE] \in Queues
  BY DEF Queues
<1>6. q.mouse \in Byte /\ 255 \in Byte
  BY <1>1 DEF Byte
<1>7. CASE op = DefaultBoth /\ ~q.mid
  <2>1. Answered(q, op) = Key([q EXCEPT !.mid = TRUE])
    BY <1>7 DEF Answered, DefaultBoth, DefaultMouse, ReadMouse, DefaultKey, ReadKey, MouseId
  <2> QED BY <1>3, <1>5, <2>1
<1>8. CASE ~(op = DefaultBoth /\ ~q.mid) /\ op \in {DefaultBoth, DefaultMouse, ReadMouse}
  <2>1. Answered(q, op) = MouseByte(q)
    BY <1>8 DEF Answered, DefaultBoth, DefaultMouse, ReadMouse, DefaultKey, ReadKey, MouseId
  <2> QED BY <1>4, <2>1
<1>9. CASE op = DefaultKey
  <2>1. Answered(q, op) = Key([q EXCEPT !.mid = FALSE])
    BY <1>9 DEF Answered, DefaultBoth, DefaultMouse, ReadMouse, DefaultKey, ReadKey, MouseId
  <2> QED BY <1>3, <1>5, <2>1
<1>10. CASE op = ReadKey
  <2>1. Answered(q, op) = Key(q)
    BY <1>10 DEF Answered, DefaultBoth, DefaultMouse, ReadMouse, DefaultKey, ReadKey, MouseId
  <2> QED BY <1>3, <2>1
<1>11. CASE op = MouseId
  <2>1. Answered(q, op) = Given(q.mouse, q)
    BY <1>11 DEF Answered, DefaultBoth, DefaultMouse, ReadMouse, DefaultKey, ReadKey, MouseId
  <2> QED BY <1>6, <2>1 DEF Given
<1>12. CASE op \notin {DefaultBoth, DefaultMouse, ReadMouse, DefaultKey, ReadKey, MouseId}
  <2>1. Answered(q, op) = Given(255, q)
    BY <1>12 DEF Answered
  <2> QED BY <1>6, <2>1 DEF Given
<1> QED BY <1>7, <1>8, <1>9, <1>10, <1>11, <1>12

\* The same when it is told something.
LEMMA ExecutionIs ==
    ASSUME NEW q \in Queues, NEW op \in Byte, NEW byte \in Byte
    PROVE  Executed(q, op, byte) \in Queues
<1>1. [q EXCEPT !.mouse = IF byte \in {3, 4} THEN 3 ELSE 0, !.mse = <<>>] \in Queues
  <2>1. <<>> \in Seq(Byte)
    OBVIOUS
  <2> QED BY <2>1 DEF Queues
<1>2. [q EXCEPT !.op = byte, !.mid = FALSE] \in Queues
  BY DEF Queues
<1>3. [q EXCEPT !.wantsReset = TRUE] \in Queues
  BY DEF Queues
<1> QED BY <1>1, <1>2, <1>3 DEF Executed

\* And when keys are typed and the mouse moves, and after a reset.
LEMMA EventsAre ==
    ASSUME NEW q \in Queues
    PROVE  /\ \A key \in Keys : KeyEvent(q, key) \in Queues
           /\ \A p \in {0, 1} : MouseEvent(q, p) \in Queues
           /\ Flushed(q) \in Queues /\ AtPowerOn \in Queues
<1>1. q.kbd \in Seq(Byte) /\ q.mse \in Seq(Byte)
  BY DEF Queues
<1>2. ASSUME NEW key \in Keys PROVE KeyEvent(q, key) \in Queues
  <2>1. key \in Byte
    BY BusAssumption DEF Byte
  <2>2. Add(q.kbd, key, KeyRing) \in Seq(Byte)
    BY <1>1, <2>1 DEF Add
  <2>3. KeyEvent(q, key) = [q EXCEPT !.kbd = Add(q.kbd, key, KeyRing)]
    BY DEF KeyEvent, Queues
  <2> QED BY <2>2, <2>3 DEF Queues
<1>3. ASSUME NEW p \in {0, 1} PROVE MouseEvent(q, p) \in Queues
  <2>1. PacketSize(q) \in {3, 4}
    BY DEF PacketSize
  <2>2. Packet(p, PacketSize(q)) \in Seq(Byte)
    <3>1. PacketSize(q) \in Nat /\ \A i \in 1 .. PacketSize(q) : 8 + 16 * (i - 1) + p \in Byte
      BY <2>1 DEF Byte
    <3> QED BY <3>1 DEF Packet
  <2>3. q.mse \o Packet(p, PacketSize(q)) \in Seq(Byte)
    BY <1>1, <2>2
  <2>4. [q EXCEPT !.mse = q.mse \o Packet(p, PacketSize(q))] \in Queues
    BY <2>3 DEF Queues
  <2> QED BY <2>4 DEF MouseEvent
<1>4. <<>> \in Seq(Byte) /\ 65 \in Byte
  BY DEF Byte
<1>5. Flushed(q) \in Queues
  BY <1>4 DEF Flushed, Queues
<1>6. AtPowerOn \in Queues
  BY <1>4 DEF AtPowerOn, Queues, DefaultKey
<1> QED BY <1>2, <1>3, <1>5, <1>6

\* The clock low leaves a transfer where it is.
LEMMA LowDriven ==
    ASSUME bus.state # NoTransfer, NEW d, Drive(0, d)
    PROVE  bus' = bus /\ Untouched /\ wires' = [clock |-> 0, data |-> d]
BY DEF Drive, Ended, Started

\* Lines that change between transfers do nothing, but for a start.
LEMMA IdleDriven ==
    ASSUME bus.state = NoTransfer, NEW c, NEW d, Drive(c, d), ~(c = 0 /\ d = 0)
    PROVE  bus' = bus /\ Untouched /\ wires' = [clock |-> c, data |-> d]
BY DEF Drive, Ended, Started, NoTransfer

\* The clock that rises on data that stays.
LEMMA HighDriven ==
    ASSUME BusTypes, bus.state # NoTransfer, wires.clock = 0, NEW d,
           Drive(1, d), d = wires.data \/ bus.state # 1
    PROVE  Rise(bus, d) /\ wires' = [clock |-> 1, data |-> d]
BY DEF Drive, Ended, Started, BusTypes

\* A bit of a number.
LEMMA BitOf == ASSUME NEW x \in Nat, NEW m \in Nat \ {0} PROVE (x \div m) % 2 \in {0, 1}
<1>1. x \div m \in Int
  OBVIOUS
<1> QED BY <1>1

\* The bit a guest puts on the line is one, and the byte it sends is one.
LEMMA NextBitIs ==
    ASSUME BusTypes, plan # <<>>,
           ~Receiving => guest.sent <= Len(Head(plan).bytes)
    PROVE  NextBit \in {0, 1} /\ (~Receiving => Sending \in Byte)
<1>1. ASSUME ~Receiving PROVE Sending \in Byte
  <2>1. CASE guest.sent = 0
    <3>1. Head(plan).device \in 0 .. 127
      BY CurrentIs
    <3>2. PICK r \in {0, 1} : AddressByte = 2 * Head(plan).device + r
      BY DEF AddressByte
    <3>3. ASSUME NEW n \in 0 .. 127 PROVE 2 * n + r \in Byte
      BY <3>2 DEF Byte
    <3>4. AddressByte \in Byte
      BY <3>1, <3>2, <3>3
    <3> QED BY <2>1, <3>4 DEF Sending
  <2>2. CASE guest.sent # 0
    <3>1. Head(plan).bytes \in Seq(Byte) /\ guest.sent \in 1 .. Len(Head(plan).bytes)
      BY <1>1, <2>2, CurrentIs DEF BusTypes, GuestStates
    <3> QED BY <2>2, <3>1 DEF Sending
  <2> QED BY <2>1, <2>2
<1>2. CASE Receiving \/ guest.bit = 8
  BY <1>1, <1>2 DEF NextBit
<1>3. CASE ~Receiving /\ guest.bit # 8
  <2>1. 7 - guest.bit \in 0 .. 8
    BY <1>3 DEF BusTypes, GuestStates
  <2>2. 2 ^ (7 - guest.bit) \in Nat \ {0}
    BY <2>1, PowersAre
  <2>3. Sending \in Nat
    <3>1. Sending \in Byte
      BY <1>1, <1>3
    <3> QED BY <3>1 DEF Byte
  <2>4. (Sending \div 2 ^ (7 - guest.bit)) % 2 \in {0, 1}
    BY <2>2, <2>3, BitOf
  <2> QED BY <1>1, <1>3, <2>4 DEF NextBit
<1> QED BY <1>1, <1>2, <1>3

\* At power-on nothing was exchanged.
LEMMA BusStart == ASSUME SmcInit PROVE BusInv
<1>1. AtPowerOn \in Queues
  <2>1. <<>> \in Seq(Byte) /\ 65 \in Byte
    BY DEF Byte
  <2> QED BY <2>1 DEF AtPowerOn, Queues, DefaultKey
<1>2. BusTypes
  <2>1. <<0, 0>> \in [1 .. 2 -> Byte] /\ 0 \in Byte
    BY DEF Byte
  <2>2. AtRest \in BusStates
    BY <2>1 DEF AtRest, BusStates, NoTransfer
  <2>3. NotStarted \in GuestStates
    BY DEF NotStarted, GuestStates, Phases
  <2>4. <<>> \in Seq(Transfers) /\ <<>> \in Seq(Nat) /\ [clock |-> 1, data |-> 1] \in [clock : {0, 1}, data : {0, 1}]
    OBVIOUS
  <2> QED BY <1>1, <2>1, <2>2, <2>3, <2>4 DEF SmcInit, BusTypes
<1>3. PartOK /\ PhaseOK
  BY DEF SmcInit, PartOK, PhaseOK, Between, AtRest, NotStarted, NoTransfer
<1>4. Waiting
  BY DEF SmcInit, Waiting, BytesWritten, AtRest, NotStarted
<1> QED BY <1>2, <1>3, <1>4 DEF BusInv

\* The guest decides on what to do next.
LEMMA UndecidedShown ==
    ASSUME PoliteGuests, BusInv, Undecided
    PROVE  BusInv' /\ ShownBytes
<1>1. /\ guest.phase = "idle" /\ plan = <<>> /\ plan' \in Programs
      /\ guest' = [NotStarted EXCEPT !.reading = (Head(plan').bytes = <<>>)]
      /\ UNCHANGED <<queues, data, pos, bus, wires, got, parity>>
  BY DEF Undecided
<1>2. plan' \in Seq(Transfers) /\ plan' # <<>>
  BY <1>1, ProgramsAre
<1>3. /\ guest' = [phase |-> "idle", reading |-> Head(plan').bytes = <<>>, sent |-> 0, bit |-> 0, shifted |-> 0]
  BY <1>1 DEF NotStarted
<1>13. /\ guest'.reading <=> Head(plan').bytes = <<>>
       /\ guest'.phase = "idle" /\ guest'.sent = 0 /\ guest'.bit = 0 /\ guest'.shifted = 0
  BY <1>3
<1>14. guest' \in GuestStates
  BY <1>3 DEF GuestStates, Phases
<1>4. BusTypes'
  BY <1>1, <1>2, <1>14 DEF BusInv, BusTypes
<1>5. /\ Head(plan').bytes \in Seq(Byte) /\ Head(plan').reads \in Nat /\ Polite(Head(plan'))
  BY <1>2 DEF Transfers
<1>6. PartOK'
  BY <1>13, <1>5 DEF PartOK, Polite
<1>7. wires.clock = 1 /\ wires.data = 1 /\ Between /\ ~guest.reading
  BY <1>1 DEF BusInv, PhaseOK, Between
<1>8. PhaseOK'
  BY <1>1, <1>2, <1>13, <1>7 DEF PhaseOK, Between
<1>9. BytesWritten = 0 /\ BytesWritten' = 0
  BY <1>1, <1>2, <1>13, <1>5, <1>7 DEF BytesWritten, Between
<1>10. BytesRead = <<>> /\ BytesRead' = <<>>
  BY <1>1, <1>13, <1>7 DEF BytesRead, InTransit, Receiving, Between
<1>11. Waiting'
  BY <1>1, <1>9, <1>10 DEF BusInv, Waiting
<1>12. Bytes!Begin
  BY <1>1, <1>9, <1>10 DEF Bytes!Begin
<1> QED BY <1>4, <1>6, <1>8, <1>11, <1>12 DEF BusInv, ShownBytes, Bytes!ProtocolNext

\* The start of a part.
LEMMA StartDataShown ==
    ASSUME BusInv, StartData
    PROVE  BusInv' /\ ShownBytes
<1>1. /\ guest.phase = "idle" /\ plan # <<>> /\ Drive(1, 0)
      /\ guest' = [guest EXCEPT !.phase = "start"]
      /\ UNCHANGED <<plan, got, parity>>
  BY DEF StartData
<1>2. wires.clock = 1 /\ wires.data = 1 /\ Between
  BY <1>1 DEF BusInv, PhaseOK
<1>3. bus' = bus /\ UNCHANGED <<queues, data, pos>> /\ wires' = [clock |-> 1, data |-> 0]
  BY <1>1, <1>2, IdleDriven DEF Between, Untouched
<1>11. guest' \in GuestStates /\ guest'.phase = "start"
  BY <1>1 DEF BusInv, BusTypes, GuestStates, Phases
<1>4. BusTypes'
  BY <1>1, <1>3, <1>11 DEF BusInv, BusTypes
<1>5. guest'.reading = guest.reading /\ guest'.sent = guest.sent /\ guest'.bit = guest.bit
      /\ guest'.shifted = guest.shifted
  BY <1>1 DEF BusInv, BusTypes, GuestStates
<1>6. PartOK'
  BY <1>1, <1>5 DEF BusInv, PartOK
<1>7. PhaseOK'
  BY <1>1, <1>2, <1>3, <1>11, <1>5 DEF PhaseOK, Between
<1>8. BytesWritten' = BytesWritten
  BY <1>1, <1>3, <1>5 DEF BytesWritten
<1>9. BytesRead' = BytesRead
  BY <1>1, <1>2, <1>5 DEF BytesRead, InTransit, Receiving, Between
<1>10. Waiting' /\ ShownBytes
  BY <1>1, <1>3, <1>8, <1>9, Unseen DEF BusInv, Waiting
<1> QED BY <1>4, <1>6, <1>7, <1>10 DEF BusInv

\* A guest that goes on to its next line change, with the same byte in hand.
LEMMA PhaseMoved ==
    ASSUME BusTypes, NEW p \in Phases, guest' = [guest EXCEPT !.phase = p], UNCHANGED <<plan, got>>
    PROVE  /\ guest' \in GuestStates /\ guest'.phase = p
           /\ guest'.reading = guest.reading /\ guest'.sent = guest.sent
           /\ guest'.bit = guest.bit /\ guest'.shifted = guest.shifted
           /\ (Receiving' <=> Receiving) /\ Sending' = Sending /\ NextBit' = NextBit
           /\ PartOK => PartOK'
<1>1. /\ guest' \in GuestStates /\ guest'.phase = p
      /\ guest'.reading = guest.reading /\ guest'.sent = guest.sent
      /\ guest'.bit = guest.bit /\ guest'.shifted = guest.shifted
  BY DEF BusTypes, GuestStates
<1>2. Receiving' <=> Receiving
  BY <1>1 DEF Receiving
<1>3. Sending' = Sending
  BY <1>1 DEF Sending, AddressByte
<1>4. NextBit' = NextBit
  BY <1>1, <1>2, <1>3 DEF NextBit, MoreToRead
<1>5. PartOK => PartOK'
  BY <1>1 DEF PartOK
<1> QED BY <1>1, <1>2, <1>3, <1>4, <1>5

\* The first byte of a part.
LEMMA StartClockShown ==
    ASSUME BusInv, StartClock
    PROVE  BusInv' /\ ShownBytes
<1>1. /\ guest.phase = "start" /\ Drive(0, 0)
      /\ guest' = [guest EXCEPT !.phase = "low"]
      /\ UNCHANGED <<plan, got, parity>>
  BY DEF StartClock
<1>2. wires.clock = 1 /\ Between /\ plan # <<>> /\ BusTypes /\ PartOK
  BY <1>1 DEF BusInv, PhaseOK
<1>3. bus' = [bus EXCEPT !.state = 0] /\ UNCHANGED <<queues, data, pos>> /\ wires' = [clock |-> 0, data |-> 0]
  BY <1>1, <1>2 DEF Between, Untouched, Drive, Ended, Started, NoTransfer
<1>4. /\ guest' \in GuestStates /\ guest'.phase = "low"
      /\ guest'.reading = guest.reading /\ guest'.sent = guest.sent
      /\ guest'.bit = guest.bit /\ guest'.shifted = guest.shifted
      /\ (Receiving' <=> Receiving) /\ Sending' = Sending
      /\ PartOK'
  BY <1>1, <1>2, PhaseMoved DEF Phases
<1>5. /\ bus' \in BusStates /\ bus'.state = 0 /\ bus'.readMode = bus.readMode /\ bus'.count = bus.count
      /\ bus'.value = bus.value
  <2>1. bus \in BusStates
    BY <1>2 DEF BusTypes
  <2> QED BY <1>3, <2>1 DEF BusStates
<1>6. BusTypes'
  BY <1>1, <1>2, <1>3, <1>4, <1>5 DEF BusTypes
<1>7. ~Receiving /\ guest.sent = 0 /\ guest.bit = 0 /\ guest.shifted = 0 /\ got = <<>>
  BY <1>2 DEF Receiving, Between
<1>8. bus'.value % 2 ^ 0 = Sending' \div 2 ^ (8 - 0)
  <2>1. Sending \in Byte
    <3>1. Head(plan).bytes \in Seq(Byte)
      BY <1>2, CurrentIs
    <3> QED BY <1>2, <1>7, <3>1, NextBitIs
  <2>2. bus.value \in Byte
    BY <1>2 DEF BusTypes, BusStates
  <2>3. /\ 2 ^ 0 = 1 /\ 2 ^ (8 - 0) = 256
    OBVIOUS
  <2>4. bus.value % 1 = Sending \div 256
    BY <2>1, <2>2 DEF Byte
  <2> QED BY <1>4, <1>5, <2>3, <2>4
<1>9. InByte(guest.bit)'
  <2>1. Len(Head(plan).bytes) \in Nat
    BY <1>2, CurrentIs
  <2>2. guest'.bit = 0
    BY <1>4, <1>7
  <2>3. InByte(0)'
    BY <1>1, <1>2, <1>4, <1>5, <1>7, <1>8, <2>1 DEF InByte, Between
  <2> QED BY <2>2, <2>3 DEF InByte
<1>10. PhaseOK'
  BY <1>3, <1>4, <1>9 DEF PhaseOK
<1>11. BytesWritten' = BytesWritten
  BY <1>1, <1>4, <1>5 DEF BytesWritten
<1>12. BytesRead' = BytesRead
  BY <1>1, <1>4, <1>7 DEF BytesRead, InTransit
<1>13. Waiting' /\ ShownBytes
  BY <1>1, <1>3, <1>11, <1>12, Unseen DEF BusInv, Waiting
<1> QED BY <1>4, <1>6, <1>10, <1>13 DEF BusInv

\* The guest sets its data line while the clock is low.
LEMMA SetBitShown ==
    ASSUME BusInv, SetBit
    PROVE  BusInv' /\ ShownBytes
<1>1. /\ guest.phase = "low" /\ Drive(0, NextBit)
      /\ guest' = [guest EXCEPT !.phase = "set"]
      /\ UNCHANGED <<plan, got, parity>>
  BY DEF SetBit
<1>2. wires.clock = 0 /\ InByte(guest.bit) /\ BusTypes /\ PartOK /\ plan # <<>>
  BY <1>1 DEF BusInv, PhaseOK, InByte
<1>3. bus.state # NoTransfer
  <2>1. guest.bit \in 0 .. 8
    BY <1>2 DEF BusTypes, GuestStates
  <2> QED BY <1>2, <2>1 DEF InByte, NoTransfer
<1>4. bus' = bus /\ UNCHANGED <<queues, data, pos>> /\ wires' = [clock |-> 0, data |-> NextBit]
  BY <1>1, <1>3, LowDriven DEF Untouched
<1>5. /\ guest' \in GuestStates /\ guest'.phase = "set"
      /\ guest'.reading = guest.reading /\ guest'.sent = guest.sent
      /\ guest'.bit = guest.bit /\ guest'.shifted = guest.shifted
      /\ (Receiving' <=> Receiving) /\ Sending' = Sending /\ NextBit' = NextBit
      /\ PartOK'
  BY <1>1, <1>2, PhaseMoved DEF Phases
<1>6. NextBit \in {0, 1}
  BY <1>2, NextBitIs DEF InByte
<1>7. BusTypes'
  BY <1>1, <1>2, <1>4, <1>5, <1>6 DEF BusTypes
<1>8. InByte(guest.bit)'
  BY <1>1, <1>2, <1>4, <1>5 DEF InByte, MoreToRead
<1>9. PhaseOK'
  BY <1>4, <1>5, <1>8 DEF PhaseOK
<1>10. BytesWritten' = BytesWritten
  BY <1>1, <1>4, <1>5 DEF BytesWritten
<1>11. BytesRead' = BytesRead
  <2>1. InTransit' <=> InTransit
    BY <1>1, <1>5 DEF InTransit
  <2>2. ByteInTransit' = ByteInTransit
    BY <1>1, <1>4, <1>5 DEF ByteInTransit
  <2> QED BY <1>1, <2>1, <2>2 DEF BytesRead
<1>12. Waiting' /\ ShownBytes
  BY <1>1, <1>4, <1>10, <1>11, Unseen DEF BusInv, Waiting
<1> QED BY <1>5, <1>7, <1>9, <1>12 DEF BusInv

\* The end of a part: the lines go down for a stop.
LEMMA StopDataShown ==
    ASSUME BusInv, StopData
    PROVE  BusInv' /\ ShownBytes
<1>1. /\ guest.phase = "stop" /\ Drive(0, 0)
      /\ guest' = [guest EXCEPT !.phase = "stopping"]
      /\ UNCHANGED <<plan, got, parity>>
  BY DEF StopData
<1>2. bus.state = 0 /\ PartOver /\ BusTypes /\ PartOK
  BY <1>1 DEF BusInv, PhaseOK
<1>3. bus' = bus /\ UNCHANGED <<queues, data, pos>> /\ wires' = [clock |-> 0, data |-> 0]
  BY <1>1, <1>2, LowDriven DEF Untouched, NoTransfer
<1>4. /\ guest' \in GuestStates /\ guest'.phase = "stopping"
      /\ guest'.reading = guest.reading /\ guest'.sent = guest.sent
      /\ guest'.bit = guest.bit /\ guest'.shifted = guest.shifted
      /\ (Receiving' <=> Receiving) /\ PartOK'
  BY <1>1, <1>2, PhaseMoved DEF Phases
<1>5. BusTypes'
  BY <1>1, <1>2, <1>3, <1>4 DEF BusTypes
<1>6. PartOver'
  BY <1>1, <1>2, <1>3, <1>4 DEF PartOver, MoreToRead
<1>7. PhaseOK'
  BY <1>2, <1>3, <1>4, <1>6 DEF PhaseOK
<1>8. BytesWritten' = BytesWritten
  BY <1>1, <1>3, <1>4 DEF BytesWritten
<1>9. BytesRead' = BytesRead
  BY <1>1, <1>2, <1>4 DEF BytesRead, InTransit, PartOver
<1>10. Waiting' /\ ShownBytes
  BY <1>1, <1>3, <1>8, <1>9, Unseen DEF BusInv, Waiting
<1> QED BY <1>4, <1>5, <1>7, <1>10 DEF BusInv

\* The bits that go by.
LEMMA ShiftedIs ==
    ASSUME NEW b \in BusStates, NEW byte \in Byte, NEW d \in {0, 1}
    PROVE  /\ Out(b, byte) \in BusStates /\ Out(b, byte).state = b.state + 1
           /\ Out(b, byte).out = byte \div 128 /\ Out(b, byte).value = (2 * byte) % 256
           /\ Out(b, byte).readMode = b.readMode /\ Out(b, byte).count = b.count
           /\ In(b, d) \in BusStates /\ In(b, d).state = b.state + 1
           /\ In(b, d).out = 1 /\ In(b, d).value = (2 * b.value + d) % 256
           /\ In(b, d).readMode = b.readMode /\ In(b, d).count = b.count
<1>1. byte \div 128 \in {0, 1} /\ (2 * byte) % 256 \in Byte
  BY DEF Byte
<1>2. b.value \in Byte /\ b.state + 1 \in Int
  BY DEF BusStates
<1>3. (2 * b.value + d) % 256 \in Byte
  BY <1>2 DEF Byte
<1>4. Out(b, byte) = [b EXCEPT !.out = byte \div 128, !.value = (2 * byte) % 256, !.state = b.state + 1]
  BY DEF Out, BusStates
<1>5. In(b, d) = [b EXCEPT !.out = 1, !.value = (2 * b.value + d) % 256, !.state = b.state + 1]
  BY DEF In, BusStates
<1>6. PICK o \in {0, 1}, v \in Byte, w \in Byte, st \in Int :
        /\ o = byte \div 128 /\ v = (2 * byte) % 256 /\ w = (2 * b.value + d) % 256 /\ st = b.state + 1
  BY <1>1, <1>2, <1>3
<1>7. LET u == [b EXCEPT !.out = o, !.value = v, !.state = st]
      IN  /\ u \in BusStates /\ u.state = st /\ u.out = o /\ u.value = v
          /\ u.readMode = b.readMode /\ u.count = b.count
  BY DEF BusStates
<1>8. LET u == [b EXCEPT !.out = 1, !.value = w, !.state = st]
      IN  /\ u \in BusStates /\ u.state = st /\ u.out = 1 /\ u.value = w
          /\ u.readMode = b.readMode /\ u.count = b.count
  BY DEF BusStates
<1>9. Out(b, byte) = [b EXCEPT !.out = o, !.value = v, !.state = st]
  BY <1>4, <1>6
<1>10. In(b, d) = [b EXCEPT !.out = 1, !.value = w, !.state = st]
  BY <1>5, <1>6
<1>11. /\ Out(b, byte) \in BusStates /\ Out(b, byte).state = b.state + 1
       /\ Out(b, byte).out = byte \div 128 /\ Out(b, byte).value = (2 * byte) % 256
       /\ Out(b, byte).readMode = b.readMode /\ Out(b, byte).count = b.count
  BY <1>6, <1>7, <1>9
<1>12. /\ In(b, d) \in BusStates /\ In(b, d).state = b.state + 1
       /\ In(b, d).out = 1 /\ In(b, d).value = (2 * b.value + d) % 256
       /\ In(b, d).readMode = b.readMode /\ In(b, d).count = b.count
  BY <1>6, <1>8, <1>10
<1> QED BY <1>11, <1>12

\* The clock goes up for a stop, which shifts a bit nobody asked for.
LEMMA StopClockShown ==
    ASSUME BusInv, StopClock
    PROVE  BusInv' /\ ShownBytes
<1>1. /\ guest.phase = "stopping" /\ Drive(1, 0)
      /\ guest' = [guest EXCEPT !.phase = "ending"]
      /\ UNCHANGED <<plan, got, parity>>
  BY DEF StopClock
<1>2. wires.clock = 0 /\ wires.data = 0 /\ bus.state = 0 /\ PartOver /\ BusTypes /\ PartOK /\ ~bus.readMode
  BY <1>1 DEF BusInv, PhaseOK, PartOver
<1>3. Rise(bus, 0) /\ wires' = [clock |-> 1, data |-> 0]
  BY <1>1, <1>2, HighDriven DEF NoTransfer
<1>4. bus' = In(bus, 0) /\ UNCHANGED <<queues, data, pos>>
  BY <1>2, <1>3 DEF Rise, Untouched
<1>5. /\ bus' \in BusStates /\ bus'.state = 1 /\ bus'.readMode = bus.readMode /\ bus'.count = bus.count
  <2>1. bus \in BusStates /\ 0 \in Byte
    BY <1>2 DEF BusTypes, Byte
  <2> QED BY <1>2, <1>4, <2>1, ShiftedIs
<1>6. /\ guest' \in GuestStates /\ guest'.phase = "ending"
      /\ guest'.reading = guest.reading /\ guest'.sent = guest.sent
      /\ guest'.bit = guest.bit /\ guest'.shifted = guest.shifted
      /\ (Receiving' <=> Receiving) /\ PartOK'
  BY <1>1, <1>2, PhaseMoved DEF Phases
<1>7. BusTypes'
  BY <1>1, <1>2, <1>3, <1>4, <1>5, <1>6 DEF BusTypes
<1>8. PartOver'
  BY <1>1, <1>2, <1>5, <1>6 DEF PartOver, MoreToRead
<1>9. PhaseOK'
  BY <1>3, <1>5, <1>6, <1>8 DEF PhaseOK
<1>10. BytesWritten' = BytesWritten
  BY <1>1, <1>5, <1>6 DEF BytesWritten
<1>11. BytesRead' = BytesRead
  BY <1>1, <1>2, <1>6 DEF BytesRead, InTransit, PartOver
<1>12. Waiting' /\ ShownBytes
  BY <1>1, <1>4, <1>10, <1>11, Unseen DEF BusInv, Waiting
<1> QED BY <1>6, <1>7, <1>9, <1>12 DEF BusInv

\* The stop.
LEMMA StopShown ==
    ASSUME BusInv, Stop
    PROVE  BusInv' /\ ShownBytes
<1> DEFINE second == ~guest.reading /\ guest.sent > 0 /\ Head(plan).reads > 0
<1>1. guest.phase = "ending" /\ Drive(1, 1) /\ parity' = parity
  BY DEF Stop
<1>2. /\ wires.clock = 1 /\ wires.data = 0 /\ bus.state = 1 /\ PartOver /\ BusTypes /\ PartOK
      /\ plan # <<>>
  BY <1>1 DEF BusInv, PhaseOK, PartOver
<1>3. bus' = [bus EXCEPT !.state = NoTransfer, !.count = 0, !.readMode = FALSE]
      /\ UNCHANGED <<queues, data, pos>> /\ wires' = [clock |-> 1, data |-> 1]
  BY <1>1, <1>2 DEF Drive, Ended, Untouched, BusTypes, BusStates
<1>4. bus' \in BusStates /\ bus'.state = NoTransfer /\ ~bus'.readMode /\ bus'.count = 0
  <2>1. bus \in BusStates /\ NoTransfer \in Int
    BY <1>2 DEF BusTypes, NoTransfer
  <2> QED BY <1>3, <2>1 DEF BusStates
<1>5. wires' \in [clock : {0, 1}, data : {0, 1}] /\ wires'.clock = 1 /\ wires'.data = 1
  BY <1>3
<1>6. /\ Head(plan).bytes \in Seq(Byte) /\ Head(plan).reads \in Nat /\ Head(plan).last \in Nat
      /\ Polite(Head(plan)) /\ Tail(plan) \in Seq(Transfers) /\ Len(Head(plan).bytes) \in Nat
  BY <1>2, CurrentIs
<1>7. BytesRead = got /\ guest.sent \in Nat /\ got \in Seq(Nat) /\ Len(got) \in Nat
  BY <1>1, <1>2 DEF BytesRead, InTransit, PartOver, BusTypes, GuestStates
<1>8. CASE second
  <2>1. guest' = [NotStarted EXCEPT !.reading = TRUE] /\ UNCHANGED <<plan, got>>
    BY <1>8 DEF Stop
  <2>2. /\ guest' \in GuestStates /\ guest'.phase = "idle" /\ guest'.reading /\ guest'.sent = 0
        /\ guest'.bit = 0 /\ guest'.shifted = 0
    <3>1. guest' = [phase |-> "idle", reading |-> TRUE, sent |-> 0, bit |-> 0, shifted |-> 0]
      BY <2>1 DEF NotStarted
    <3> QED BY <3>1 DEF GuestStates, Phases
  <2>3. Head(plan).device = Smc /\ got = <<>> /\ bus.count = Len(Head(plan).bytes) + 1
    BY <1>2, <1>7, <1>8 DEF PartOver
  <2>4. BusTypes'
    BY <1>1, <1>2, <1>3, <1>4, <1>5, <2>1, <2>2 DEF BusTypes
  <2>5. PartOK'
    BY <1>8, <2>1, <2>2, <2>3 DEF PartOK
  <2>6. PhaseOK'
    BY <1>2, <1>4, <1>5, <2>1, <2>2, <2>3 DEF PhaseOK, Between
  <2>7. BytesWritten' = BytesWritten
    BY <1>2, <1>6, <1>8, <2>1, <2>2, <2>3 DEF BytesWritten
  <2>8. BytesRead' = BytesRead
    BY <1>7, <2>1, <2>2 DEF BytesRead, InTransit, Receiving
  <2>9. Waiting' /\ ShownBytes
    BY <1>1, <1>3, <2>1, <2>7, <2>8, Unseen DEF BusInv, Waiting
  <2> QED BY <2>4, <2>5, <2>6, <2>9 DEF BusInv
<1>9. CASE ~second
  <2>1. /\ plan' = Tail(plan) /\ got' = <<>>
        /\ guest' = [NotStarted EXCEPT !.reading = plan' # <<>> /\ Head(plan').bytes = <<>>]
    BY <1>9 DEF Stop
  <2>2. /\ guest' \in GuestStates /\ guest'.phase = "idle" /\ guest'.sent = 0
        /\ guest'.bit = 0 /\ guest'.shifted = 0
        /\ guest'.reading <=> (plan' # <<>> /\ Head(plan').bytes = <<>>)
    <3> DEFINE r == plan' # <<>> /\ Head(plan').bytes = <<>>
    <3>1. guest' = [phase |-> "idle", reading |-> r, sent |-> 0, bit |-> 0, shifted |-> 0]
      BY <2>1 DEF NotStarted
    <3>2. r \in BOOLEAN
      OBVIOUS
    <3>3. guest' \in GuestStates
      <4> HIDE DEF r
      <4> QED BY <3>1, <3>2 DEF GuestStates, Phases
    <3>4. guest'.reading = r
      <4> HIDE DEF r
      <4> QED BY <3>1
    <3> QED BY <3>1, <3>3, <3>4
  <2>3. BusTypes'
    <3>1. <<>> \in Seq(Nat)
      OBVIOUS
    <3> QED BY <1>1, <1>2, <1>3, <1>4, <1>5, <1>6, <2>1, <2>2, <3>1 DEF BusTypes
  <2>4. PartOK'
    <3>1. SUFFICES ASSUME plan' # <<>> PROVE
            IF guest'.reading
            THEN Head(plan').reads > 0 /\ (Head(plan').bytes = <<>> \/ Head(plan').device = Smc)
            ELSE Head(plan').bytes # <<>>
      BY DEF PartOK
    <3>2. Head(plan') \in Transfers
      BY <1>6, <2>1, <3>1
    <3>3. Head(plan').reads \in Nat /\ Polite(Head(plan'))
      BY <3>2 DEF Transfers
    <3>4. CASE Head(plan').bytes = <<>>
      <4>1. Len(Head(plan').bytes) <= 1
        BY <3>4
      <4> QED BY <2>2, <3>1, <3>3, <3>4, <4>1 DEF Polite
    <3> QED BY <2>2, <3>4
  <2>5. PhaseOK'
    BY <1>4, <1>5, <2>1, <2>2 DEF PhaseOK, Between
  <2>6. BytesWritten' = 0
    BY <1>4, <2>2 DEF BytesWritten
  <2>7. BytesRead' = <<>>
    BY <2>1, <2>2 DEF BytesRead, InTransit, Receiving
  <2>8. Head(plan).device = Smc => BytesWritten = Len(Head(plan).bytes) /\ ~MoreToRead(Head(plan), got)
    <3>1. SUFFICES ASSUME Head(plan).device = Smc
          PROVE BytesWritten = Len(Head(plan).bytes) /\ ~MoreToRead(Head(plan), got)
      OBVIOUS
    <3>2. guest.sent = 1
      BY <1>2, <1>7, <3>1 DEF PartOver
    <3>3. CASE guest.reading
      BY <1>2, <3>2, <3>3 DEF PartOver, BytesWritten
    <3>4. CASE ~guest.reading
      <4>1. bus.count = Len(Head(plan).bytes) + 1 /\ got = <<>>
        BY <1>2, <3>2, <3>4 DEF PartOver
      <4>2. BytesWritten = Len(Head(plan).bytes)
        BY <1>6, <3>4, <4>1 DEF BytesWritten
      <4>3. ~(Head(plan).reads > 0)
        BY <1>9, <3>2, <3>4
      <4> QED BY <1>6, <4>1, <4>2, <4>3 DEF MoreToRead
    <3> QED BY <3>3, <3>4
  <2>9. Bytes!End
    <3>1. Bytes!MoreToRead(Head(plan), BytesRead) <=> MoreToRead(Head(plan), got)
      BY <1>7 DEF Bytes!MoreToRead, MoreToRead
    <3>2. Bytes!Answers(Head(plan)) => Head(plan).device = Smc
      BY DEF Bytes!Answers, Bytes!Smc, Smc
    <3> QED BY <1>1, <1>2, <1>3, <2>1, <2>6, <2>7, <2>8, <3>1, <3>2 DEF Bytes!End, Bytes!Writing
  <2>10. pos = 0
    <3>1. SUFFICES ASSUME BytesWritten = 1, BytesRead = <<>> PROVE FALSE
      BY DEF BusInv, Waiting
    <3>2. got = <<>>
      BY <1>7, <3>1
    <3>3. CASE Head(plan).device = Smc
      <4>1. Len(Head(plan).bytes) = 1 /\ ~MoreToRead(Head(plan), <<>>)
        BY <2>8, <3>1, <3>2, <3>3
      <4>2. Head(plan).reads > 0
        <5>1. Len(Head(plan).bytes) = 1
          BY <4>1
        <5>2. \A n : n = 1 => n <= 1
          OBVIOUS
        <5>3. Len(Head(plan).bytes) <= 1
          BY <5>1, <5>2, Zenon
        <5> QED BY <1>6, <5>3 DEF Polite
      <4> QED BY <1>6, <4>1, <4>2 DEF MoreToRead
    <3>4. CASE Head(plan).device # Smc
      <4>1. bus.count = 0 /\ guest.sent = 0
        BY <1>2, <3>4 DEF PartOver
      <4>2. guest.reading /\ Len(Head(plan).bytes) = 1
        BY <1>6, <3>1, <4>1 DEF BytesWritten
      <4>3. Head(plan).bytes # <<>>
        <5>1. Len(Head(plan).bytes) = 1
          BY <4>2
        <5>2. Len(<<>>) = 0
          OBVIOUS
        <5> QED BY <5>1, <5>2
      <4> QED BY <1>2, <3>4, <4>2, <4>3 DEF PartOK
    <3> QED BY <3>3, <3>4
  <2>11. Waiting'
    BY <1>3, <2>6, <2>10 DEF Waiting
  <2> QED BY <2>3, <2>4, <2>5, <2>9, <2>11 DEF BusInv, ShownBytes, Bytes!ProtocolNext
<1> QED BY <1>8, <1>9

\* The lines of a machine that was reset.
LEMMA LetGoShown ==
    ASSUME BusInv, LetGo
    PROVE  BusInv' /\ ShownBytes
<1>1. guest.phase = "reset" /\ UNCHANGED <<plan, got, parity>>
  BY DEF LetGo
<1>2. Between /\ plan = <<>> /\ BusTypes /\ ~guest.reading
  BY <1>1 DEF BusInv, PhaseOK, Between
<1>3. CASE Drive(1, 1) /\ guest' = NotStarted
  <2>1. bus' = bus /\ UNCHANGED <<queues, data, pos>> /\ wires' = [clock |-> 1, data |-> 1]
    BY <1>2, <1>3, IdleDriven DEF Between, Untouched
  <2>2. /\ guest' \in GuestStates /\ guest'.phase = "idle" /\ ~guest'.reading /\ guest'.sent = 0
        /\ guest'.bit = 0 /\ guest'.shifted = 0
    BY <1>3 DEF NotStarted, GuestStates, Phases
  <2>3. BusTypes'
    BY <1>1, <1>2, <2>1, <2>2 DEF BusTypes
  <2>4. PartOK' /\ PhaseOK'
    BY <1>1, <1>2, <2>1, <2>2 DEF PartOK, PhaseOK, Between
  <2>5. BytesWritten' = BytesWritten
    BY <1>1, <1>2, <2>1, <2>2 DEF BytesWritten
  <2>6. BytesRead' = BytesRead
    BY <1>1, <1>2, <2>2 DEF BytesRead, InTransit, Receiving
  <2>7. Waiting' /\ ShownBytes
    BY <1>1, <2>1, <2>5, <2>6, Unseen DEF BusInv, Waiting
  <2> QED BY <2>3, <2>4, <2>7 DEF BusInv
<1>4. CASE wires.clock = 0 /\ Drive(1, wires.data) /\ UNCHANGED guest
  <2>1. bus' = bus /\ UNCHANGED <<queues, data, pos>> /\ wires' = [clock |-> 1, data |-> wires.data]
    BY <1>2, <1>4, IdleDriven DEF Between, Untouched
  <2>2. BusTypes'
    BY <1>1, <1>2, <1>4, <2>1 DEF BusTypes
  <2>3. PartOK' /\ PhaseOK'
    BY <1>1, <1>2, <1>4, <2>1 DEF PartOK, PhaseOK, Between
  <2>4. BytesWritten' = BytesWritten
    BY <1>1, <1>4, <2>1 DEF BytesWritten
  <2>5. BytesRead' = BytesRead
    BY <1>1, <1>4, <2>1 DEF BytesRead, InTransit, Receiving, ByteInTransit
  <2>6. Waiting' /\ ShownBytes
    BY <1>1, <2>1, <2>4, <2>5, Unseen DEF BusInv, Waiting
  <2> QED BY <2>2, <2>3, <2>6 DEF BusInv
<1> QED BY <1>3, <1>4 DEF LetGo

\* What does not touch the lines and the transfer leaves a guest where it is.
LEMMA Undisturbed ==
    ASSUME BusInv, UNCHANGED <<data, pos, bus, wires, plan, guest, got>>,
           queues' \in Queues, parity' \in {0, 1}
    PROVE  BusInv' /\ BytesWritten' = BytesWritten /\ BytesRead' = BytesRead
<1>1. BusTypes'
  BY DEF BusInv, BusTypes
<1>2. /\ (Receiving' <=> Receiving) /\ Sending' = Sending /\ NextBit' = NextBit
  BY DEF Receiving, Sending, AddressByte, NextBit, MoreToRead
<1>3. PartOK'
  BY DEF BusInv, PartOK
<1>4. (Between' <=> Between) /\ (PartOver' <=> PartOver) /\ (Acknowledged' <=> Acknowledged)
  BY <1>2 DEF Between, PartOver, Acknowledged, MoreToRead
<1>5. (InByte(guest.bit)' <=> InByte(guest.bit)) /\ (InByte(guest.bit + 1)' <=> InByte(guest.bit + 1))
  BY <1>2 DEF InByte, MoreToRead
<1>6. PhaseOK'
  BY <1>2, <1>4, <1>5 DEF BusInv, PhaseOK
<1>7. BytesWritten' = BytesWritten
  BY DEF BytesWritten
<1>8. BytesRead' = BytesRead
  BY <1>2 DEF BytesRead, InTransit, ByteInTransit
<1>9. Waiting'
  BY <1>7, <1>8 DEF BusInv, Waiting
<1> QED BY <1>1, <1>3, <1>6, <1>7, <1>8, <1>9 DEF BusInv

\* Keys and mouse movements.
LEMMA EventsShown ==
    ASSUME BusInv, KeyTyped \/ MouseMoved
    PROVE  BusInv' /\ ShownBytes
<1>1. queues \in Queues /\ parity \in {0, 1}
  BY DEF BusInv, BusTypes
<1>2. CASE KeyTyped
  <2>1. PICK key \in Keys : queues' = KeyEvent(queues, key)
    BY <1>2 DEF KeyTyped
  <2>2. UNCHANGED <<data, pos, bus, wires, plan, guest, got, parity>>
    BY <1>2 DEF KeyTyped
  <2>3. BusInv' /\ BytesWritten' = BytesWritten /\ BytesRead' = BytesRead
    BY <1>1, <2>1, <2>2, EventsAre, Undisturbed
  <2>4. Bytes!KeyEvent(queues, key) = KeyEvent(queues, key)
    BY DEF Bytes!KeyEvent, KeyEvent, Bytes!Add, Add
  <2>5. Bytes!KeyTyped
    BY <2>1, <2>2, <2>3, <2>4 DEF Bytes!KeyTyped
  <2> QED BY <2>3, <2>5 DEF ShownBytes, Bytes!ProtocolNext
<1>3. CASE MouseMoved
  <2>1. /\ queues' = MouseEvent(queues, parity) /\ parity' = 1 - parity
        /\ UNCHANGED <<data, pos, bus, wires, plan, guest, got>>
    BY <1>3 DEF MouseMoved
  <2>2. parity' \in {0, 1} /\ queues' \in Queues
    BY <1>1, <2>1, EventsAre
  <2>3. BusInv' /\ BytesWritten' = BytesWritten /\ BytesRead' = BytesRead
    BY <2>1, <2>2, Undisturbed
  <2>4. Bytes!MouseEvent(queues, parity) = MouseEvent(queues, parity)
    BY DEF Bytes!MouseEvent, MouseEvent, Bytes!Packet, Packet, Bytes!PacketSize, PacketSize
  <2>5. Bytes!MouseMoved
    BY <2>1, <2>3, <2>4 DEF Bytes!MouseMoved
  <2> QED BY <2>3, <2>5 DEF ShownBytes, Bytes!ProtocolNext
<1> QED BY <1>2, <1>3

\* A reset between two commands.
LEMMA ResetSmcShown ==
    ASSUME ResetsBetween, BusInv, ResetSmc
    PROVE  BusInv' /\ ShownBytes
<1>1. /\ pos = 0 /\ queues.mseCount = 0 /\ ~queues.mid /\ queues' = Flushed(queues)
      /\ bus' = [bus EXCEPT !.state = NoTransfer, !.readMode = FALSE, !.value = 0, !.count = 0]
      /\ plan' = <<>> /\ got' = <<>> /\ guest' = [NotStarted EXCEPT !.phase = "reset"]
      /\ UNCHANGED <<data, pos, wires, parity>>
  BY DEF ResetSmc
<1>2. bus' \in BusStates /\ bus'.state = NoTransfer /\ ~bus'.readMode /\ bus'.count = 0
  <2>1. bus \in BusStates /\ NoTransfer \in Int /\ 0 \in Byte
    BY DEF BusInv, BusTypes, NoTransfer, Byte
  <2> QED BY <1>1, <2>1 DEF BusStates
<1>3. /\ guest' \in GuestStates /\ guest'.phase = "reset" /\ ~guest'.reading /\ guest'.sent = 0
      /\ guest'.bit = 0 /\ guest'.shifted = 0
  <2>1. guest' = [phase |-> "reset", reading |-> FALSE, sent |-> 0, bit |-> 0, shifted |-> 0]
    BY <1>1 DEF NotStarted
  <2> QED BY <2>1 DEF GuestStates, Phases
<1>4. BusTypes'
  <2>1. <<>> \in Seq(Transfers) /\ <<>> \in Seq(Nat)
    OBVIOUS
  <2>2. queues' \in Queues
    BY <1>1, EventsAre DEF BusInv, BusTypes
  <2> QED BY <1>1, <1>2, <1>3, <2>1, <2>2 DEF BusInv, BusTypes
<1>5. PartOK' /\ PhaseOK'
  BY <1>1, <1>2, <1>3 DEF PartOK, PhaseOK, Between
<1>6. BytesWritten' = 0
  BY <1>1, <1>2 DEF BytesWritten
<1>7. BytesRead' = <<>>
  BY <1>1, <1>3 DEF BytesRead, InTransit, Receiving
<1>8. Waiting'
  BY <1>1, <1>6 DEF Waiting
<1>9. Bytes!Reset
  <2>1. Bytes!Flushed(queues) = Flushed(queues)
    BY DEF Bytes!Flushed, Flushed
  <2> QED BY <1>1, <1>6, <1>7, <2>1 DEF Bytes!Reset
<1> QED BY <1>1, <1>4, <1>5, <1>8, <1>9 DEF BusInv, ShownBytes

\* All of a byte, and nothing of it.
LEMMA Quotients ==
    ASSUME NEW v \in Byte
    PROVE  v \div 256 = 0 /\ v \div 1 = v /\ v % 256 = v
BY DEF Byte

\* The guest looks at the answering line and lowers the clock: within a byte.
LEMMA LowInByte ==
    ASSUME BusInv, ClockLow, guest.bit < 8
    PROVE  BusInv' /\ ShownBytes
<1> DEFINE bits == 2 * guest.shifted + bus.out
           whole == Receiving /\ guest.bit = 7
           k == guest.bit + 1
<1>1. /\ guest.phase = "high" /\ Drive(0, wires.data)
      /\ guest' = [guest EXCEPT !.phase = "low", !.bit = @ + 1,
                                !.shifted = IF ~Receiving \/ whole THEN 0 ELSE bits]
      /\ got' = IF whole THEN Append(got, bits) ELSE got
      /\ UNCHANGED <<plan, parity>>
  BY DEF ClockLow
<1>2. /\ wires.clock = 1 /\ wires.data = NextBit /\ InByte(k) /\ BusTypes /\ PartOK /\ plan # <<>>
  BY <1>1 DEF BusInv, PhaseOK, InByte
<1>3. /\ guest \in GuestStates /\ bus \in BusStates /\ got \in Seq(Nat)
      /\ guest.bit \in 0 .. 7 /\ guest.shifted \in Nat /\ bus.out \in {0, 1} /\ bus.value \in Byte
  BY <1>2 DEF BusTypes, GuestStates, BusStates
<1>4. k \in 1 .. 8 /\ bits \in Nat
  BY <1>3
<1>5. bus.state # NoTransfer
  BY <1>2, <1>4 DEF InByte, NoTransfer
<1>6. bus' = bus /\ UNCHANGED <<queues, data, pos>> /\ wires' = [clock |-> 0, data |-> wires.data]
  BY <1>1, <1>5, LowDriven DEF Untouched
<1>7. /\ guest' \in GuestStates /\ guest'.phase = "low"
      /\ guest'.reading = guest.reading /\ guest'.sent = guest.sent /\ guest'.bit = k
      /\ guest'.shifted = IF ~Receiving \/ whole THEN 0 ELSE bits
  <2>1. PICK h \in Nat : h = IF ~Receiving \/ whole THEN 0 ELSE bits
    BY <1>4
  <2>2. guest' = [guest EXCEPT !.phase = "low", !.bit = k, !.shifted = h]
    BY <1>1, <1>3, <2>1 DEF GuestStates
  <2>3. k \in 0 .. 8
    BY <1>4
  <2> HIDE DEF k
  <2>4. /\ guest' \in GuestStates /\ guest'.phase = "low"
        /\ guest'.reading = guest.reading /\ guest'.sent = guest.sent /\ guest'.bit = k
        /\ guest'.shifted = h
    BY <1>3, <2>2, <2>3 DEF GuestStates, Phases
  <2> QED BY <2>1, <2>4
<1>8. (Receiving' <=> Receiving) /\ Sending' = Sending
  BY <1>1, <1>7 DEF Receiving, Sending, AddressByte
<1>9. got' \in Seq(Nat) /\ (~Receiving => got' = got)
  BY <1>1, <1>3, <1>4
<1>10. BusTypes'
  BY <1>1, <1>2, <1>3, <1>6, <1>7, <1>9 DEF BusTypes
<1>11. PartOK'
  BY <1>1, <1>2, <1>7 DEF PartOK
<1>12. InByte(guest.bit)'
  <2>1. guest'.bit \in {0, 8} => guest'.shifted = 0
    BY <1>3, <1>7
  <2>2. ~Receiving => guest'.shifted = 0
    BY <1>7
  <2>3. guest'.bit # 0
    BY <1>4, <1>7
  <2>4. Receiving => /\ Head(plan).device = Smc /\ guest.sent = 1 /\ bus.readMode /\ bus.count = 1
    BY <1>2 DEF InByte
  <2>5. ~Receiving =>
         /\ ~bus.readMode /\ bus.count = guest.sent /\ guest.sent <= Len(Head(plan).bytes)
         /\ guest.sent > 0 => Head(plan).device = Smc /\ ~guest.reading
         /\ got = <<>>
         /\ bus.value % 2 ^ k = Sending \div 2 ^ (8 - k)
    BY <1>2 DEF InByte
  <2>6. bus.state = k
    BY <1>2 DEF InByte
  <2> HIDE DEF k
  <2> QED BY <1>1, <1>2, <1>6, <1>7, <1>8, <1>9, <2>1, <2>2, <2>3, <2>4, <2>5, <2>6 DEF InByte
<1>13. PhaseOK'
  BY <1>6, <1>7, <1>12 DEF PhaseOK
<1>14. BytesWritten' = BytesWritten
  BY <1>1, <1>6, <1>7 DEF BytesWritten
<1>15. BytesRead' = BytesRead
  <2>1. CASE ~Receiving
    BY <1>8, <1>9, <2>1 DEF BytesRead, InTransit
  <2>2. CASE Receiving /\ guest.bit = 7
    <3>1. InTransit /\ ByteInTransit = bits
      <4>1. 7 - guest.bit = 0 /\ guest.bit + 1 = 8 /\ 2 ^ 0 = 1 /\ 2 ^ 8 = 256
        BY <2>2
      <4>2. ByteInTransit = bits * 1 + bus.value \div 256
        BY <1>1, <4>1 DEF ByteInTransit
      <4>3. bus.value \div 256 = 0
        BY <1>3, Quotients
      <4>5. bits * 1 + 0 = bits
        <5> HIDE DEF bits
        <5> QED BY <1>4
      <4>4. InTransit
        BY <2>2 DEF InTransit
      <4> QED BY <4>2, <4>3, <4>4, <4>5
    <3>2. ~InTransit'
      BY <1>7, <2>2 DEF InTransit
    <3> HIDE DEF bits
    <3> QED BY <1>1, <2>2, <3>1, <3>2 DEF BytesRead
  <2>3. CASE Receiving /\ guest.bit # 7
    <3>1. InTransit /\ InTransit'
      BY <1>1, <1>3, <1>7, <1>8, <2>3 DEF InTransit
    <3>2. 8 - guest'.bit = 7 - guest.bit /\ guest'.shifted = bits /\ got' = got
      BY <1>1, <1>3, <1>7, <2>3
    <3>3. ByteInTransit = bits * 2 ^ (7 - guest.bit) + bus.value \div 2 ^ (guest.bit + 1)
      BY <1>1 DEF ByteInTransit
    <3>4. ByteInTransit' = guest'.shifted * 2 ^ (8 - guest'.bit) + bus'.value \div 2 ^ guest'.bit
      BY <1>7 DEF ByteInTransit
    <3>5. ByteInTransit' = ByteInTransit
      BY <1>6, <1>7, <3>2, <3>3, <3>4, Zenon
    <3> QED BY <3>1, <3>2, <3>5 DEF BytesRead
  <2> QED BY <2>1, <2>2, <2>3
<1>16. Waiting' /\ ShownBytes
  BY <1>1, <1>6, <1>14, <1>15, Unseen DEF BusInv, Waiting
<1> QED BY <1>10, <1>11, <1>13, <1>16 DEF BusInv

\* And at the end of one.
LEMMA LowAtEnd ==
    ASSUME BusInv, ClockLow, ~(guest.bit < 8)
    PROVE  BusInv' /\ ShownBytes
<1>1. /\ guest.phase = "high" /\ Drive(0, wires.data) /\ guest.bit = 8
      /\ guest' = IF GoesOn
                  THEN [guest EXCEPT !.phase = "low", !.bit = 0, !.sent = IF guest.reading THEN 1 ELSE @ + 1]
                  ELSE [guest EXCEPT !.phase = "stop", !.bit = 0,
                                     !.sent = IF ~Receiving /\ bus.out = 1 THEN 0 ELSE 1]
      /\ got' = got
      /\ UNCHANGED <<plan, parity>>
  BY DEF ClockLow, BusInv, BusTypes, GuestStates
<1>2. /\ wires.clock = 1 /\ Acknowledged /\ BusTypes /\ PartOK /\ plan # <<>>
  BY <1>1 DEF BusInv, PhaseOK, Acknowledged
<1>3. /\ guest \in GuestStates /\ bus \in BusStates /\ guest.sent \in Nat /\ bus.value \in Byte
      /\ bus.out \in {0, 1} /\ guest.shifted = 0 /\ bus.state = 0
  BY <1>2 DEF BusTypes, GuestStates, BusStates, Acknowledged
<1>4. bus' = bus /\ UNCHANGED <<queues, data, pos>> /\ wires' = [clock |-> 0, data |-> wires.data]
  BY <1>1, <1>3, LowDriven DEF Untouched, NoTransfer
<1>5. /\ Head(plan).bytes \in Seq(Byte) /\ Len(Head(plan).bytes) \in Nat
      /\ Head(plan).reads \in Nat /\ Head(plan).last \in Nat
  BY <1>2, CurrentIs
<1>6. CASE GoesOn
  <2> DEFINE n == IF guest.reading THEN 1 ELSE guest.sent + 1
  <2>1. /\ guest' \in GuestStates /\ guest'.phase = "low"
        /\ guest'.reading = guest.reading /\ guest'.sent = n /\ guest'.bit = 0 /\ guest'.shifted = 0
    <3>1. PICK h \in Nat, b \in 0 .. 8 : h = n /\ b = 0
      BY <1>3
    <3>2. guest' = [guest EXCEPT !.phase = "low", !.bit = b, !.sent = h]
      BY <1>1, <1>3, <1>6, <3>1 DEF GuestStates
    <3> HIDE DEF n
    <3>3. /\ guest' \in GuestStates /\ guest'.phase = "low" /\ guest'.reading = guest.reading
          /\ guest'.sent = h /\ guest'.bit = b /\ guest'.shifted = guest.shifted
      BY <1>3, <3>2 DEF GuestStates, Phases
    <3> QED BY <1>3, <3>1, <3>3
  <2>2. BusTypes'
    BY <1>1, <1>2, <1>3, <1>4, <2>1 DEF BusTypes
  <2>3. PartOK'
    BY <1>1, <1>2, <2>1 DEF PartOK
  <2>4. CASE guest.reading
    <3>1. n = 1 /\ Receiving'
      BY <2>1, <2>4 DEF Receiving
    <3>2. /\ Head(plan).device = Smc /\ bus.readMode /\ bus.count = 1 /\ MoreToRead(Head(plan), got)
      <4>1. CASE Receiving
        BY <1>2, <1>6, <4>1 DEF Acknowledged, GoesOn
      <4>2. CASE ~Receiving
        <5>1. bus.out = 0 /\ got = <<>> /\ guest.sent = 0
          BY <1>2, <1>6, <2>4, <4>2 DEF Acknowledged, GoesOn
        <5>2. Head(plan).device = Smc /\ bus.readMode = guest.reading /\ bus.count = guest.sent + 1
          BY <1>2, <4>2, <5>1 DEF Acknowledged
        <5>3. Head(plan).reads > 0
          BY <1>2, <2>4 DEF PartOK
        <5>4. MoreToRead(Head(plan), <<>>)
          BY <1>5, <5>3 DEF MoreToRead
        <5>5. bus.readMode /\ bus.count = 1
          BY <2>4, <5>1, <5>2
        <5> QED BY <5>1, <5>2, <5>4, <5>5
      <4> QED BY <4>1, <4>2
    <3>3. InByte(0)'
      BY <1>1, <1>2, <1>3, <1>4, <2>1, <3>1, <3>2 DEF InByte, MoreToRead
    <3>4. InByte(guest.bit)'
      BY <2>1, <3>3 DEF InByte
    <3>5. PhaseOK'
      BY <1>4, <2>1, <3>4 DEF PhaseOK
    <3>6. BytesWritten' = BytesWritten
      BY <1>1, <1>2, <2>1, <2>4 DEF BytesWritten
    <3>7. BytesRead' = BytesRead
      BY <1>1, <2>1 DEF BytesRead, InTransit
    <3>8. Waiting' /\ ShownBytes
      BY <1>1, <1>4, <3>6, <3>7, Unseen DEF BusInv, Waiting
    <3> QED BY <2>2, <2>3, <3>5, <3>8 DEF BusInv
  <2>5. CASE ~guest.reading
    <3>1. n = guest.sent + 1 /\ ~Receiving /\ ~Receiving'
      BY <2>1, <2>5 DEF Receiving
    <3>2. bus.out = 0 /\ guest.sent < Len(Head(plan).bytes)
      BY <1>6, <2>5, <3>1 DEF GoesOn
    <3>3. /\ Head(plan).device = Smc /\ ~bus.readMode /\ bus.count = n /\ got = <<>>
      BY <1>2, <2>5, <3>1, <3>2 DEF Acknowledged
    <3>4. bus'.value % 2 ^ 0 = Sending' \div 2 ^ (8 - 0)
      <4>1. n \in 1 .. Len(Head(plan).bytes)
        BY <1>3, <1>5, <3>1, <3>2
      <4>2. Sending' = Head(plan).bytes[n]
        <5>1. guest'.sent = n /\ n # 0
          BY <2>1, <4>1
        <5> HIDE DEF n
        <5> QED BY <1>1, <5>1 DEF Sending
      <4>3. Sending' \in Byte
        <5> HIDE DEF n
        <5> QED BY <1>5, <4>1, <4>2
      <4>4. 2 ^ 0 = 1 /\ 2 ^ (8 - 0) = 256
        OBVIOUS
      <4>5. bus.value % 1 = Sending' \div 256
        BY <1>3, <4>3 DEF Byte
      <4> QED BY <1>4, <4>4, <4>5
    <3>5. InByte(0)'
      <4>1. n <= Len(Head(plan).bytes) /\ n > 0
        BY <1>3, <1>5, <3>1, <3>2
      <4> HIDE DEF n
      <4> QED BY <1>1, <1>2, <1>3, <1>4, <2>1, <2>5, <3>1, <3>3, <3>4, <4>1 DEF InByte
    <3>6. InByte(guest.bit)'
      BY <2>1, <3>5 DEF InByte
    <3>7. PhaseOK'
      BY <1>4, <2>1, <3>6 DEF PhaseOK
    <3>8. BytesWritten' = BytesWritten
      BY <1>1, <1>4, <2>1 DEF BytesWritten
    <3>9. BytesRead' = BytesRead
      BY <1>1, <2>1, <3>1 DEF BytesRead, InTransit
    <3>10. Waiting' /\ ShownBytes
      BY <1>1, <1>4, <3>8, <3>9, Unseen DEF BusInv, Waiting
    <3> QED BY <2>2, <2>3, <3>7, <3>10 DEF BusInv
  <2> QED BY <2>4, <2>5
<1>7. CASE ~GoesOn
  <2> DEFINE n == IF ~Receiving /\ bus.out = 1 THEN 0 ELSE 1
  <2>1. /\ guest' \in GuestStates /\ guest'.phase = "stop"
        /\ guest'.reading = guest.reading /\ guest'.sent = n /\ guest'.bit = 0 /\ guest'.shifted = 0
    <3>1. PICK h \in Nat, b \in 0 .. 8 : h = n /\ b = 0
      BY <1>3
    <3>2. guest' = [guest EXCEPT !.phase = "stop", !.bit = b, !.sent = h]
      BY <1>1, <1>3, <1>7, <3>1 DEF GuestStates
    <3> HIDE DEF n
    <3>3. /\ guest' \in GuestStates /\ guest'.phase = "stop" /\ guest'.reading = guest.reading
          /\ guest'.sent = h /\ guest'.bit = b /\ guest'.shifted = guest.shifted
      BY <1>3, <3>2 DEF GuestStates, Phases
    <3> QED BY <1>3, <3>1, <3>3
  <2>2. BusTypes'
    BY <1>1, <1>2, <1>3, <1>4, <2>1 DEF BusTypes
  <2>3. PartOK'
    BY <1>1, <1>2, <2>1 DEF PartOK
  <2>4. PartOver'
    <3>1. CASE Receiving
      <4>1. guest.reading /\ n = 1
        BY <3>1 DEF Receiving
      <4>2. ~MoreToRead(Head(plan), got)
        BY <1>7, <3>1 DEF GoesOn
      <4>3. Head(plan).device = Smc /\ ~bus.readMode
        BY <1>2, <3>1, <4>2 DEF Acknowledged
      <4> HIDE DEF n
      <4> QED BY <1>1, <1>2, <1>4, <2>1, <4>1, <4>2, <4>3 DEF PartOver, MoreToRead
    <3>2. CASE ~Receiving /\ bus.out = 1
      <4>1. n = 0 /\ Head(plan).device # Smc /\ bus.count = 0 /\ ~bus.readMode /\ got = <<>>
        BY <1>2, <3>2 DEF Acknowledged
      <4> HIDE DEF n
      <4> QED BY <1>1, <1>2, <1>4, <2>1, <4>1 DEF PartOver
    <3>3. CASE ~Receiving /\ bus.out = 0
      <4>1. n = 1 /\ ~guest.reading /\ ~(guest.sent < Len(Head(plan).bytes))
        BY <1>7, <3>3 DEF GoesOn
      <4>2. /\ Head(plan).device = Smc /\ bus.count = guest.sent + 1 /\ ~bus.readMode /\ got = <<>>
            /\ guest.sent <= Len(Head(plan).bytes)
        BY <1>2, <3>3, <4>1 DEF Acknowledged
      <4>3. bus.count = Len(Head(plan).bytes) + 1
        BY <1>3, <1>5, <4>1, <4>2
      <4> HIDE DEF n
      <4> QED BY <1>1, <1>2, <1>4, <2>1, <4>1, <4>2, <4>3 DEF PartOver
    <3> QED BY <1>3, <3>1, <3>2, <3>3
  <2>5. PhaseOK'
    BY <1>3, <1>4, <2>1, <2>4 DEF PhaseOK
  <2>6. BytesWritten' = BytesWritten
    BY <1>1, <1>4, <2>1 DEF BytesWritten
  <2>7. BytesRead' = BytesRead
    BY <1>1, <2>1 DEF BytesRead, InTransit
  <2>8. Waiting' /\ ShownBytes
    BY <1>1, <1>4, <2>6, <2>7, Unseen DEF BusInv, Waiting
  <2> QED BY <2>2, <2>3, <2>5, <2>8 DEF BusInv
<1> QED BY <1>6, <1>7

\* The guest raises the clock on its bit, and the controller takes it.
Rises ==
    /\ guest.phase = "set" /\ plan # <<>> /\ InByte(guest.bit) /\ PartOK' /\ NextBit \in {0, 1}
    /\ Rise(bus, NextBit) /\ wires' = [clock |-> 1, data |-> NextBit]
    /\ guest' \in GuestStates /\ guest'.phase = "high"
    /\ guest'.reading = guest.reading /\ guest'.sent = guest.sent
    /\ guest'.bit = guest.bit /\ guest'.shifted = guest.shifted
    /\ (Receiving' <=> Receiving) /\ Sending' = Sending /\ NextBit' = NextBit
    /\ UNCHANGED <<plan, got, parity>>
    /\ bus \in BusStates /\ guest.bit \in 0 .. 8 /\ guest.sent \in Nat /\ guest.shifted \in Nat

\* The clock goes up on the bit the guest has set.
LEMMA HighRises == ASSUME BusInv, ClockHigh PROVE Rises
<1>1. /\ guest.phase = "set" /\ Drive(1, wires.data)
      /\ guest' = [guest EXCEPT !.phase = "high"]
      /\ UNCHANGED <<plan, got, parity>>
  BY DEF ClockHigh
<1>2. /\ wires.clock = 0 /\ wires.data = NextBit /\ InByte(guest.bit) /\ BusTypes /\ PartOK
      /\ plan # <<>>
  BY <1>1 DEF BusInv, PhaseOK, InByte
<1>3. /\ bus \in BusStates /\ guest.bit \in 0 .. 8 /\ guest.sent \in Nat /\ guest.shifted \in Nat
  BY <1>2 DEF BusTypes, GuestStates
<1>4. bus.state # NoTransfer
  BY <1>2, <1>3 DEF InByte, NoTransfer
<1>5. Rise(bus, NextBit) /\ wires' = [clock |-> 1, data |-> NextBit]
  BY <1>1, <1>2, <1>4, HighDriven
<1>6. NextBit \in {0, 1}
  BY <1>2, NextBitIs DEF InByte
<1>7. /\ guest' \in GuestStates /\ guest'.phase = "high"
      /\ guest'.reading = guest.reading /\ guest'.sent = guest.sent
      /\ guest'.bit = guest.bit /\ guest'.shifted = guest.shifted
      /\ (Receiving' <=> Receiving) /\ Sending' = Sending /\ NextBit' = NextBit
      /\ PartOK'
  BY <1>1, <1>2, PhaseMoved DEF Phases
<1> QED BY <1>1, <1>2, <1>3, <1>5, <1>6, <1>7 DEF Rises

\* What is left to show of it.
LEMMA RisesKeeps ==
    ASSUME BusInv, Rises, bus' \in BusStates, queues' \in Queues, data' \in [1 .. 2 -> Byte],
           pos' \in Nat, Waiting',
           guest.bit < 8 => InByte(guest.bit + 1)', guest.bit = 8 => Acknowledged'
    PROVE  BusInv'
<1>1. BusTypes'
  BY DEF BusInv, BusTypes, Rises
<1>2. PhaseOK'
  <2>1. (guest'.bit < 8 => InByte(guest.bit + 1)') /\ (guest'.bit = 8 => Acknowledged')
    BY DEF Rises
  <2>2. guest'.phase = "high" /\ wires'.clock = 1 /\ wires'.data = NextBit'
    BY DEF Rises
  <2> QED BY <2>1, <2>2 DEF PhaseOK
<1> QED BY <1>1, <1>2 DEF BusInv, Rises

\* How a byte ends.
LEMMA SettledIs ==
    ASSUME NEW b \in BusStates
    PROVE  /\ Refusing(b) \in BusStates /\ Refusing(b).state = 0 /\ Refusing(b).out = 1
           /\ Refusing(b).count = 0 /\ ~Refusing(b).readMode
           /\ Accepting(b) \in BusStates /\ Accepting(b).state = 0 /\ Accepting(b).out = 0
           /\ Accepting(b).count = b.count + 1 /\ Accepting(b).readMode = b.readMode
           /\ LET u == [b EXCEPT !.state = 0, !.out = 1]
              IN  u \in BusStates /\ u.state = 0 /\ u.count = b.count /\ u.readMode = b.readMode
<1>1. b.count \in Nat /\ b.count + 1 \in Nat
  BY DEF BusStates
<1>2. PICK st \in Int, n \in Nat, c \in Nat, o \in {0, 1}, i \in {0, 1}, m \in BOOLEAN :
        st = 0 /\ n = 0 /\ c = b.count + 1 /\ o = 0 /\ i = 1 /\ m = FALSE
  <2>1. 0 \in Int /\ 0 \in Nat /\ 0 \in {0, 1} /\ 1 \in {0, 1} /\ FALSE \in BOOLEAN
    OBVIOUS
  <2> QED BY <1>1, <2>1
<1>3. Refusing(b) = [b EXCEPT !.state = st, !.out = i, !.count = n, !.readMode = m]
  BY <1>2 DEF Refusing
<1>4. LET u == [b EXCEPT !.state = st, !.out = i, !.count = n, !.readMode = m]
      IN  u \in BusStates /\ u.state = st /\ u.out = i /\ u.count = n /\ u.readMode = m
  BY DEF BusStates
<1>5. Accepting(b) = [b EXCEPT !.state = st, !.out = o, !.count = c]
  BY <1>2 DEF Accepting, BusStates
<1>6. LET u == [b EXCEPT !.state = st, !.out = o, !.count = c]
      IN  u \in BusStates /\ u.state = st /\ u.out = o /\ u.count = c /\ u.readMode = b.readMode
  BY DEF BusStates
<1>7. LET u == [b EXCEPT !.state = st, !.out = i]
      IN  u \in BusStates /\ u.state = st /\ u.count = b.count /\ u.readMode = b.readMode
  BY DEF BusStates
<1>8. /\ Refusing(b) \in BusStates /\ Refusing(b).state = 0 /\ Refusing(b).out = 1
      /\ Refusing(b).count = 0 /\ ~Refusing(b).readMode
  BY <1>2, <1>3, <1>4, Zenon
<1>9. /\ Accepting(b) \in BusStates /\ Accepting(b).state = 0 /\ Accepting(b).out = 0
      /\ Accepting(b).count = b.count + 1 /\ Accepting(b).readMode = b.readMode
  BY <1>2, <1>5, <1>6, Zenon
<1>10. LET u == [b EXCEPT !.state = 0, !.out = 1]
       IN  u \in BusStates /\ u.state = 0 /\ u.count = b.count /\ u.readMode = b.readMode
  BY <1>2, <1>7, Zenon
<1> QED BY <1>8, <1>9, <1>10

\* A bit of what the guest sends.
LEMMA RisesSending ==
    ASSUME BusInv, Rises, ~Receiving, guest.bit < 8
    PROVE  BusInv' /\ ShownBytes
<1>1. /\ ~bus.readMode /\ bus.count = guest.sent /\ guest.sent <= Len(Head(plan).bytes)
      /\ guest.sent > 0 => Head(plan).device = Smc /\ ~guest.reading
      /\ got = <<>> /\ guest.shifted = 0 /\ bus.state = guest.bit
      /\ bus.value % 2 ^ guest.bit = Sending \div 2 ^ (8 - guest.bit)
  BY DEF Rises, InByte
<1>2. bus' = In(bus, NextBit) /\ UNCHANGED <<queues, data, pos>>
  BY <1>1 DEF Rises, Rise, Untouched
<1>3. /\ bus \in BusStates /\ bus.value \in Byte /\ NextBit \in {0, 1} /\ 0 \in Byte
      /\ guest.bit \in 0 .. 7 /\ plan # <<>> /\ BusTypes
  BY DEF Rises, BusStates, Byte, BusInv
<1>4. /\ bus' \in BusStates /\ bus'.state = guest.bit + 1 /\ bus'.value = (2 * bus.value + NextBit) % 256
      /\ bus'.readMode = bus.readMode /\ bus'.count = bus.count
  BY <1>1, <1>2, <1>3, ShiftedIs
<1>5. Sending \in Byte
  BY <1>1, <1>3, NextBitIs
<1>6. bus'.value % 2 ^ (guest.bit + 1) = Sending \div 2 ^ (8 - (guest.bit + 1))
  <2>1. NextBit = (Sending \div 2 ^ (7 - guest.bit)) % 2
    BY <1>3 DEF NextBit
  <2> DEFINE G(k, v, z) == v % 2 ^ k = z \div 2 ^ (8 - k)
             F(k, v, z) == ((2 * v + ((z \div 2 ^ (7 - k)) % 2)) % 256) % 2 ^ (k + 1) = z \div 2 ^ (7 - k)
  <2>2. \A k \in 0 .. 7, v \in 0 .. 255, z \in 0 .. 255 : G(k, v, z) => F(k, v, z)
    BY BitSent
  <2>3. ((2 * bus.value + NextBit) % 256) % 2 ^ (guest.bit + 1) = Sending \div 2 ^ (7 - guest.bit)
    <3>1. bus.value \in 0 .. 255 /\ Sending \in 0 .. 255
      BY <1>3, <1>5 DEF Byte
    <3>2. G(guest.bit, bus.value, Sending)
      BY <1>1
    <3>3. F(guest.bit, bus.value, Sending)
      <4> HIDE DEF F, G
      <4> QED BY <1>3, <2>2, <3>1, <3>2, Zenon
    <3> QED BY <2>1, <3>3, Zenon
  <2>4. 8 - (guest.bit + 1) = 7 - guest.bit
    BY <1>3
  <2> QED BY <1>4, <2>3, <2>4
<1>7. InByte(guest.bit + 1)'
  BY <1>1, <1>3, <1>4, <1>6 DEF InByte, Rises
<1>8. BytesWritten' = BytesWritten
  BY <1>4 DEF BytesWritten, Rises
<1>9. BytesRead' = BytesRead
  BY DEF BytesRead, InTransit, Rises
<1>10. Waiting' /\ ShownBytes
  BY <1>2, <1>8, <1>9, Unseen DEF BusInv, Waiting, Rises
<1>11. queues' \in Queues /\ data' \in [1 .. 2 -> Byte] /\ pos' \in Nat
  BY <1>2 DEF BusInv, BusTypes
<1> QED BY <1>3, <1>4, <1>7, <1>10, <1>11, RisesKeeps

\* A bit of what the guest reads.  The first asks the controller for a byte.
LEMMA RisesReceiving ==
    ASSUME BusInv, Rises, Receiving, guest.bit < 8
    PROVE  BusInv' /\ ShownBytes
<1>1. /\ Head(plan).device = Smc /\ guest.sent = 1 /\ bus.readMode /\ bus.count = 1
      /\ bus.state = guest.bit /\ (guest.bit = 0 => MoreToRead(Head(plan), got))
      /\ guest.bit \in {0, 8} => guest.shifted = 0
  BY DEF Rises, InByte
<1>2. /\ bus \in BusStates /\ bus.value \in Byte /\ bus.out \in {0, 1} /\ 0 \in {0, 1}
      /\ guest.bit \in 0 .. 7 /\ guest.shifted \in Nat /\ plan # <<>> /\ BusTypes
      /\ queues \in Queues /\ data \in [1 .. 2 -> Byte] /\ data[1] \in Byte /\ pos \in Nat
  BY DEF Rises, BusStates, BusInv, BusTypes
<1>3. guest.reading
  BY DEF Receiving
<1>4. ASSUME NEW byte \in Byte, bus' = Out(bus, byte)
      PROVE  /\ bus' \in BusStates /\ InByte(guest.bit + 1)' /\ BytesWritten' = BytesWritten
             /\ bus'.out = byte \div 128 /\ bus'.value = (2 * byte) % 256
  <2>1. /\ bus' \in BusStates /\ bus'.state = guest.bit + 1
        /\ bus'.out = byte \div 128 /\ bus'.value = (2 * byte) % 256
        /\ bus'.readMode = bus.readMode /\ bus'.count = bus.count
    <3>1. /\ Out(bus, byte) \in BusStates /\ Out(bus, byte).state = bus.state + 1
          /\ Out(bus, byte).out = byte \div 128 /\ Out(bus, byte).value = (2 * byte) % 256
          /\ Out(bus, byte).readMode = bus.readMode /\ Out(bus, byte).count = bus.count
      BY <1>2, <1>4, ShiftedIs
    <3> QED BY <1>1, <1>4, <3>1, Zenon
  <2>2. InByte(guest.bit + 1)'
    BY <1>1, <1>2, <2>1 DEF InByte, Rises
  <2>3. BytesWritten' = BytesWritten
    BY <1>2, <1>3 DEF BytesWritten, Rises
  <2> QED BY <2>1, <2>2, <2>3
<1>5. InTransit'
  BY <1>2 DEF InTransit, Rises
<1>6. BytesRead' = Append(got, ByteInTransit')
  BY <1>5 DEF BytesRead, Rises
<1>7. ByteInTransit' = (2 * guest.shifted + bus'.out) * 2 ^ (7 - guest.bit) + bus'.value \div 2 ^ (guest.bit + 1)
  BY DEF ByteInTransit, Rises
<1>8. CASE guest.bit = 0
  <2> DEFINE a == Answered(queues, data[1])
  <2>1. Popped /\ bus' = Out(bus, a.byte)
    BY <1>1, <1>2, <1>8 DEF Rises, Rise
  <2>2. /\ queues' = a.queues /\ data' = [data EXCEPT ![1] = queues'.op] /\ pos' = 0
    BY <2>1 DEF Popped
  <2>3. a.byte \in Byte /\ a.queues \in Queues
    BY <1>2, AnswerIs
  <2> HIDE DEF a
  <2>4. queues' \in Queues /\ queues'.op \in Byte
    BY <2>2, <2>3 DEF Queues
  <2>5. data' \in [1 .. 2 -> Byte] /\ data'[1] = queues'.op
    BY <1>2, <2>2, <2>4
  <2>6. /\ bus' \in BusStates /\ InByte(guest.bit + 1)' /\ BytesWritten' = BytesWritten
        /\ bus'.out = a.byte \div 128 /\ bus'.value = (2 * a.byte) % 256
    BY <1>4, <2>1, <2>3
  <2>7. ByteInTransit' = a.byte
    <3>1. guest.shifted = 0 /\ 7 - guest.bit = 7 - 0 /\ guest.bit + 1 = 0 + 1
      BY <1>1, <1>8
    <3>2. ByteInTransit' = (2 * 0 + a.byte \div 128) * 2 ^ (7 - 0) + ((2 * a.byte) % 256) \div 2 ^ (0 + 1)
      BY <1>7, <2>6, <3>1, Zenon
    <3>3. ASSUME NEW v \in 0 .. 255
          PROVE  (2 * 0 + v \div 128) * 2 ^ (7 - 0) + ((2 * v) % 256) \div 2 ^ (0 + 1) = v
      <4>1. 2 ^ (7 - 0) = 128 /\ 2 ^ (0 + 1) = 2
        OBVIOUS
      <4>2. (2 * 0 + v \div 128) * 128 + ((2 * v) % 256) \div 2 = v
        OBVIOUS
      <4> QED BY <4>1, <4>2
    <3> QED BY <2>3, <3>2, <3>3 DEF Byte
  <2>8. BytesRead = got
    BY <1>8 DEF BytesRead, InTransit, Rises
  <2>9. BytesRead' = Append(got, a.byte)
    BY <1>6, <2>7
  <2>10. Waiting'
    <3>1. got \in Seq(Nat)
      BY <1>2 DEF BusTypes
    <3>2. BytesRead' # <<>>
      BY <2>9, <3>1
    <3> QED BY <2>2, <3>2 DEF Waiting
  <2>11. Bytes!ReadByte
    <3>1. Bytes!Answered(queues, data[1]) = a
      BY DEF a, Bytes!Answered, Answered, Bytes!Key, Key, Bytes!Given, Given, Bytes!MouseByte, MouseByte,
             Bytes!Next1, Next1, Bytes!Rest, Rest, Bytes!PacketSize, PacketSize,
             Bytes!DefaultBoth, DefaultBoth, Bytes!DefaultMouse, DefaultMouse,
             Bytes!ReadMouse, ReadMouse, Bytes!DefaultKey, DefaultKey, Bytes!ReadKey, ReadKey,
             Bytes!MouseId, MouseId
    <3>2. Bytes!MoreToRead(Head(plan), BytesRead)
      BY <1>1, <1>8, <2>8 DEF Bytes!MoreToRead, MoreToRead
    <3>3. Bytes!Answers(Head(plan))
      BY <1>1 DEF Bytes!Answers, Bytes!Smc, Smc
    <3>4. BytesWritten = Len(Bytes!Writing)
      BY <1>2, <1>3 DEF BytesWritten, Bytes!Writing
    <3> QED BY <1>2, <2>2, <2>5, <2>6, <2>8, <2>9, <3>1, <3>2, <3>3, <3>4 DEF Bytes!ReadByte, Rises
  <2>12. BusInv'
    BY <1>2, <2>2, <2>4, <2>5, <2>6, <2>10, RisesKeeps
  <2> QED BY <2>11, <2>12 DEF ShownBytes, Bytes!ProtocolNext
<1>9. CASE guest.bit # 0
  <2>1. bus' = Out(bus, bus.value) /\ UNCHANGED <<queues, data, pos>>
    BY <1>1, <1>2, <1>9 DEF Rises, Rise, Untouched
  <2>2. /\ bus' \in BusStates /\ InByte(guest.bit + 1)' /\ BytesWritten' = BytesWritten
        /\ bus'.out = bus.value \div 128 /\ bus'.value = (2 * bus.value) % 256
    BY <1>2, <1>4, <2>1
  <2>3. ByteInTransit = guest.shifted * 2 ^ (8 - guest.bit) + bus.value \div 2 ^ guest.bit
    BY DEF ByteInTransit, Rises
  <2>4. ByteInTransit' = ByteInTransit
    <3>1. bus.value \in 0 .. 255
      BY <1>2 DEF Byte
    <3>2. (2 * guest.shifted + bus.value \div 128) * 2 ^ (7 - guest.bit)
            + ((2 * bus.value) % 256) \div 2 ^ (guest.bit + 1)
            = guest.shifted * 2 ^ (8 - guest.bit) + bus.value \div 2 ^ guest.bit
      <4> DEFINE F(k, v, h) ==
                   (2 * h + v \div 128) * 2 ^ (7 - k) + ((2 * v) % 256) \div 2 ^ (k + 1)
                     = h * 2 ^ (8 - k) + v \div 2 ^ k
      <4>1. \A k \in 0 .. 7, v \in 0 .. 255, h \in Nat : F(k, v, h)
        BY BitRead
      <4>2. F(guest.bit, bus.value, guest.shifted)
        <5> HIDE DEF F
        <5> QED BY <1>2, <3>1, <4>1, Zenon
      <4> QED BY <4>2
    <3> QED BY <1>7, <2>2, <2>3, <3>2, Zenon
  <2>5. InTransit
    BY <1>2, <1>9 DEF InTransit
  <2>6. BytesRead' = BytesRead
    BY <1>6, <2>4, <2>5 DEF BytesRead
  <2>7. Waiting' /\ ShownBytes
    BY <2>1, <2>2, <2>6, Unseen DEF BusInv, Waiting, Rises
  <2> QED BY <1>2, <2>1, <2>2, <2>7, RisesKeeps
<1> QED BY <1>8, <1>9

\* The guest acknowledges a byte it read, or not.
LEMMA RisesAnswered ==
    ASSUME BusInv, Rises, Receiving, guest.bit = 8
    PROVE  BusInv' /\ ShownBytes
<1>1. /\ Head(plan).device = Smc /\ guest.sent = 1 /\ bus.readMode /\ bus.count = 1
      /\ bus.state = 8 /\ guest.shifted = 0
  BY DEF Rises, InByte
<1>2. NextBit = IF MoreToRead(Head(plan), got) THEN 0 ELSE 1
  BY DEF NextBit
<1>3. /\ bus' = IF NextBit = 1 THEN Refusing(bus) ELSE [bus EXCEPT !.state = 0, !.out = 1]
      /\ UNCHANGED <<queues, data, pos>>
  BY <1>1 DEF Rises, Rise, Untouched
<1>4. /\ bus' \in BusStates /\ bus'.state = 0
      /\ bus'.count = IF MoreToRead(Head(plan), got) THEN 1 ELSE 0
      /\ bus'.readMode <=> MoreToRead(Head(plan), got)
  <2>1. bus \in BusStates
    BY DEF Rises
  <2>2. CASE MoreToRead(Head(plan), got)
    <3>1. bus' = [bus EXCEPT !.state = 0, !.out = 1]
      BY <1>2, <1>3, <2>2
    <3>2. bus' \in BusStates /\ bus'.state = 0 /\ bus'.count = bus.count /\ bus'.readMode = bus.readMode
      BY <2>1, <3>1, SettledIs, Zenon
    <3> QED BY <1>1, <2>2, <3>2
  <2>3. CASE ~MoreToRead(Head(plan), got)
    <3>1. bus' = Refusing(bus)
      BY <1>2, <1>3, <2>3
    <3>2. bus' \in BusStates /\ bus'.state = 0 /\ bus'.count = 0 /\ ~bus'.readMode
      BY <2>1, <3>1, SettledIs, Zenon
    <3> QED BY <2>3, <3>2
  <2> QED BY <2>2, <2>3
<1>5. bus'.readMode \in BOOLEAN /\ MoreToRead(Head(plan), got) \in BOOLEAN
  BY <1>4 DEF BusStates, MoreToRead
<1>6. MoreToRead(Head(plan), got)' <=> MoreToRead(Head(plan), got)
  BY DEF MoreToRead, Rises
<1>7. Acknowledged'
  BY <1>1, <1>4, <1>5, <1>6 DEF Acknowledged, Rises
<1>8. BytesWritten' = BytesWritten
  BY DEF BytesWritten, Rises, Receiving
<1>9. BytesRead' = BytesRead
  BY DEF BytesRead, InTransit, Rises
<1>10. Waiting' /\ ShownBytes
  BY <1>3, <1>8, <1>9, Unseen DEF BusInv, Waiting, Rises
<1>11. queues' \in Queues /\ data' \in [1 .. 2 -> Byte] /\ pos' \in Nat
  BY <1>3 DEF BusInv, BusTypes
<1> QED BY <1>4, <1>7, <1>10, <1>11, RisesKeeps

\* An address was sent: the controller answers to its own.
LEMMA RisesAddress ==
    ASSUME BusInv, Rises, ~Receiving, guest.bit = 8, guest.sent = 0
    PROVE  BusInv' /\ ShownBytes
<1>1. /\ ~bus.readMode /\ bus.count = 0 /\ got = <<>> /\ guest.shifted = 0 /\ bus.state = 8
      /\ bus.value % 2 ^ 8 = Sending \div 2 ^ (8 - 8)
  BY DEF Rises, InByte
<1>2. /\ bus \in BusStates /\ bus.value \in Byte /\ plan # <<>> /\ BusTypes
  BY DEF Rises, BusStates, BusInv
<1>3. /\ Head(plan).device \in 0 .. 127 /\ Len(Head(plan).bytes) \in Nat
  BY <1>2, CurrentIs
<1>4. bus.value = AddressByte
  <2>1. Sending = AddressByte
    BY DEF Sending
  <2>2. Sending \in Byte
    BY <1>2, <1>3, NextBitIs
  <2>3. 2 ^ 8 = 256 /\ 2 ^ (8 - 8) = 1
    OBVIOUS
  <2>4. bus.value % 256 = bus.value /\ Sending \div 1 = Sending
    BY <1>2, <2>2, Quotients
  <2> QED BY <1>1, <2>1, <2>3, <2>4
<1>5. bus.value \div 2 = Head(plan).device /\ (bus.value % 2 = 1 <=> guest.reading)
  <2>1. ASSUME NEW n \in 0 .. 127 PROVE (2 * n + 1) \div 2 = n /\ (2 * n + 1) % 2 = 1
    OBVIOUS
  <2>2. ASSUME NEW n \in 0 .. 127 PROVE (2 * n + 0) \div 2 = n /\ (2 * n + 0) % 2 = 0
    OBVIOUS
  <2>3. CASE guest.reading
    <3>1. bus.value = 2 * Head(plan).device + 1
      BY <1>4, <2>3 DEF AddressByte
    <3>2. bus.value \div 2 = Head(plan).device /\ bus.value % 2 = 1
      BY <1>3, <2>1, <3>1, Zenon
    <3> QED BY <2>3, <3>2
  <2>4. CASE ~guest.reading
    <3>1. bus.value = 2 * Head(plan).device + 0
      BY <1>4, <2>4 DEF AddressByte
    <3>2. bus.value \div 2 = Head(plan).device /\ bus.value % 2 = 0
      BY <1>3, <2>2, <3>1, Zenon
    <3>3. ~(bus.value % 2 = 1)
      <4> HIDE <3>1
      <4>1. \A x : x = 0 => ~(x = 1)
        OBVIOUS
      <4> QED BY <3>2, <4>1, Zenon
    <3> QED BY <2>4, <3>2, <3>3, Zenon
  <2> QED BY <2>3, <2>4
<1> DEFINE addressed == [bus EXCEPT !.device = bus.value \div 2, !.readMode = (bus.value % 2 = 1)]
<1>6. /\ bus' = IF addressed.device = Smc THEN Accepting(addressed) ELSE Refusing(addressed)
      /\ UNCHANGED <<queues, data, pos>>
  BY <1>1 DEF Rises, Rise, Untouched
<1>7. /\ addressed \in BusStates /\ addressed.device = Head(plan).device
      /\ (addressed.readMode <=> guest.reading) /\ addressed.count = 0
  <2> DEFINE r == bus.value % 2 = 1
             n == bus.value \div 2
  <2>1. r \in BOOLEAN /\ n \in Nat /\ n = Head(plan).device /\ (r <=> guest.reading)
    <3>1. bus.value \div 2 = Head(plan).device /\ (bus.value % 2 = 1 <=> guest.reading)
      BY <1>5
    <3>2. \A x \in 0 .. 127 : x \in Nat
      OBVIOUS
    <3> QED BY <1>3, <3>1, <3>2, Zenon
  <2>2. addressed = [bus EXCEPT !.device = n, !.readMode = r]
    OBVIOUS
  <2> HIDE DEF addressed, r, n
  <2>3. addressed \in BusStates /\ addressed.device = n /\ addressed.readMode = r /\ addressed.count = bus.count
    BY <1>2, <2>1, <2>2 DEF BusStates
  <2> QED BY <1>1, <2>1, <2>3
<1> HIDE DEF addressed
<1>8. CASE Head(plan).device = Smc
  <2>1. bus' = Accepting(addressed)
    BY <1>6, <1>7, <1>8
  <2>2. /\ bus' \in BusStates /\ bus'.state = 0 /\ bus'.out = 0 /\ bus'.count = addressed.count + 1
        /\ bus'.readMode = addressed.readMode
    BY <1>7, <2>1, SettledIs, Zenon
  <2>3. bus'.count = 1
    BY <1>7, <2>2
  <2>4. bus'.readMode = guest.reading
    <3>1. bus'.readMode \in BOOLEAN /\ guest.reading \in BOOLEAN
      BY <1>2, <2>2 DEF BusStates, BusTypes, GuestStates
    <3> QED BY <1>7, <2>2, <3>1
  <2>5. Acknowledged'
    BY <1>1, <1>3, <1>8, <2>2, <2>3, <2>4 DEF Acknowledged, Rises
  <2>6. BytesWritten' = BytesWritten
    BY <1>1, <2>3 DEF BytesWritten, Rises
  <2>7. BytesRead' = BytesRead
    BY DEF BytesRead, InTransit, Rises
  <2>8. Waiting' /\ ShownBytes
    BY <1>6, <2>6, <2>7, Unseen DEF BusInv, Waiting, Rises
  <2>9. queues' \in Queues /\ data' \in [1 .. 2 -> Byte] /\ pos' \in Nat
    BY <1>6 DEF BusInv, BusTypes
  <2> QED BY <2>2, <2>5, <2>8, <2>9, RisesKeeps
<1>9. CASE Head(plan).device # Smc
  <2>1. bus' = Refusing(addressed)
    BY <1>6, <1>7, <1>9
  <2>2. /\ bus' \in BusStates /\ bus'.state = 0 /\ bus'.out = 1 /\ bus'.count = 0 /\ ~bus'.readMode
    BY <1>7, <2>1, SettledIs, Zenon
  <2>3. Acknowledged'
    BY <1>1, <1>3, <1>9, <2>2 DEF Acknowledged, Rises
  <2>4. BytesWritten' = BytesWritten
    BY <1>1, <2>2 DEF BytesWritten, Rises
  <2>5. BytesRead' = BytesRead
    BY DEF BytesRead, InTransit, Rises
  <2>6. Waiting' /\ ShownBytes
    BY <1>6, <2>4, <2>5, Unseen DEF BusInv, Waiting, Rises
  <2>7. queues' \in Queues /\ data' \in [1 .. 2 -> Byte] /\ pos' \in Nat
    BY <1>6 DEF BusInv, BusTypes
  <2> QED BY <2>2, <2>3, <2>6, <2>7, RisesKeeps
<1> QED BY <1>8, <1>9

\* A byte was sent to the controller.
LEMMA RisesByte ==
    ASSUME BusInv, Rises, ~Receiving, guest.bit = 8, guest.sent > 0
    PROVE  BusInv' /\ ShownBytes
<1> DEFINE byte == Head(plan).bytes[guest.sent]
<1>1. /\ ~bus.readMode /\ bus.count = guest.sent /\ guest.sent <= Len(Head(plan).bytes)
      /\ Head(plan).device = Smc /\ ~guest.reading
      /\ got = <<>> /\ guest.shifted = 0 /\ bus.state = 8
      /\ bus.value % 2 ^ 8 = Sending \div 2 ^ (8 - 8)
  BY DEF Rises, InByte
<1>2. /\ bus \in BusStates /\ bus.value \in Byte /\ plan # <<>> /\ BusTypes /\ guest.sent \in Nat
      /\ queues \in Queues /\ data \in [1 .. 2 -> Byte] /\ pos \in Nat /\ 0 \in Nat
  BY DEF Rises, BusStates, BusInv, BusTypes
<1>3. /\ Head(plan).bytes \in Seq(Byte) /\ Len(Head(plan).bytes) \in Nat /\ Len(Head(plan).bytes) <= 2
  BY <1>2, CurrentIs DEF Polite
<1>4. bus.value = byte /\ byte \in Byte
  <2>1. Sending = byte
    BY DEF Sending
  <2>2. Sending \in Byte
    BY <1>1, <1>2, NextBitIs
  <2>3. 2 ^ 8 = 256 /\ 2 ^ (8 - 8) = 1
    OBVIOUS
  <2>4. bus.value % 256 = bus.value /\ Sending \div 1 = Sending
    BY <1>2, <2>2, Quotients
  <2> QED BY <1>1, <2>1, <2>2, <2>3, <2>4
<1> HIDE DEF byte
<1>5. guest.sent \in {1, 2}
  BY <1>1, <1>2, <1>3
<1>6. bus' = Accepting(bus) /\ (IF bus.count = 1 THEN FirstByte(bus.value) ELSE Written(bus.value))
  BY <1>1, <1>5 DEF Rises, Rise
<1>7. /\ bus' \in BusStates /\ bus'.state = 0 /\ bus'.out = 0 /\ bus'.count = guest.sent + 1
      /\ ~bus'.readMode
  <2>1. bus' = Accepting(bus)
    BY <1>6
  <2>2. /\ bus' \in BusStates /\ bus'.state = 0 /\ bus'.out = 0 /\ bus'.count = bus.count + 1
        /\ bus'.readMode = bus.readMode
    BY <1>2, <2>1, SettledIs, Zenon
  <2> QED BY <1>1, <2>2
<1>8. Acknowledged'
  <2>1. bus'.readMode \in BOOLEAN /\ guest.reading \in BOOLEAN
    BY <1>2, <1>7 DEF BusStates, BusTypes, GuestStates
  <2>2. bus'.readMode = guest.reading
    BY <1>1, <1>7, <2>1
  <2> QED BY <1>1, <1>7, <2>2 DEF Acknowledged, Rises
<1>9. BytesWritten = guest.sent - 1 /\ BytesWritten' = guest.sent
  BY <1>1, <1>2, <1>5, <1>7 DEF BytesWritten, Rises
<1>10. BytesRead = <<>> /\ BytesRead' = <<>>
  BY <1>1 DEF BytesRead, InTransit, Rises
<1>11. pos = IF guest.sent = 2 THEN 1 ELSE 0
  BY <1>5, <1>9, <1>10 DEF BusInv, Waiting
<1>12. Bytes!Answers(Head(plan))
  BY <1>1 DEF Bytes!Answers, Bytes!Smc, Smc
<1>13. CASE guest.sent = 1
  <2>1. /\ data' = [data EXCEPT ![pos + 1] = byte] /\ pos' = pos + 1 /\ queues' = queues
    <3>1. pos = 0 /\ bus.count = 1
      BY <1>1, <1>11, <1>13
    <3>2. DataLen \in Nat \ {0}
      BY BusAssumption
    <3>3. pos < DataLen /\ pos < 2
      BY <3>1, <3>2
    <3>4. FirstByte(byte)
      BY <1>4, <1>6, <3>1
    <3> QED BY <3>3, <3>4 DEF FirstByte, Stored
  <2>2. data' = [data EXCEPT ![1] = byte] /\ pos' = 1
    <3>1. pos = 0 /\ pos + 1 = 1
      BY <1>11, <1>13
    <3> QED BY <2>1, <3>1, Zenon
  <2>3. data' \in [1 .. 2 -> Byte] /\ data'[1] = byte
    BY <1>2, <1>4, <2>2
  <2>4. Waiting'
    BY <1>9, <1>10, <1>13, <2>2 DEF Waiting
  <2>5. Bytes!WriteByte
    <3>1. byte = Head(plan).bytes[BytesWritten + 1] /\ BytesWritten = 0 /\ BytesWritten' = 0 + 1
      BY <1>9, <1>13 DEF byte
    <3>2. BytesWritten < Len(Head(plan).bytes)
      BY <1>1, <1>3, <1>13, <3>1
    <3> QED BY <1>2, <1>10, <1>12, <2>1, <2>3, <3>1, <3>2 DEF Bytes!WriteByte, Bytes!Writing, Rises
  <2>6. BusInv'
    BY <1>2, <1>7, <1>8, <2>1, <2>2, <2>3, <2>4, RisesKeeps
  <2> QED BY <2>5, <2>6 DEF ShownBytes, Bytes!ProtocolNext
<1>14. CASE guest.sent = 2
  <2>1. Stored(byte) = [data EXCEPT ![2] = byte]
    BY <1>11, <1>14 DEF Stored
  <2>2. Stored(byte) \in [1 .. 2 -> Byte] /\ Stored(byte)[1] = data[1] /\ Stored(byte)[2] = byte
    BY <1>2, <1>4, <2>1
  <2>3. /\ queues' = Executed(queues, data[1], byte)
        /\ data' = [Stored(byte) EXCEPT ![1] = queues'.op] /\ pos' = 0
    BY <1>1, <1>4, <1>6, <1>14, <2>2 DEF Written
  <2>4. queues' \in Queues /\ queues'.op \in Byte
    <3>1. data[1] \in Byte
      BY <1>2
    <3>2. queues' \in Queues
      BY <1>2, <1>4, <2>3, <3>1, ExecutionIs
    <3> QED BY <3>2 DEF Queues
  <2>5. data' \in [1 .. 2 -> Byte] /\ data'[1] = queues'.op
    BY <2>2, <2>3, <2>4
  <2>6. Waiting'
    BY <1>9, <1>14, <2>3 DEF Waiting
  <2>7. Bytes!WriteByte
    <3>1. byte = Head(plan).bytes[BytesWritten + 1] /\ BytesWritten = 1 /\ BytesWritten' = 1 + 1
      BY <1>9, <1>14 DEF byte
    <3>2. BytesWritten < Len(Head(plan).bytes)
      BY <1>1, <1>3, <1>14, <3>1
    <3>3. Bytes!Executed(queues, data[1], byte) = Executed(queues, data[1], byte)
      BY DEF Bytes!Executed, Executed, Bytes!SetMouse, SetMouse, Bytes!SetDefault, SetDefault,
             Bytes!PowerButton, PowerButton, Bytes!ResetButton, ResetButton
    <3> QED BY <1>2, <1>10, <1>12, <2>3, <2>5, <3>1, <3>2, <3>3 DEF Bytes!WriteByte, Bytes!Writing, Rises
  <2>8. BusInv'
    BY <1>2, <1>7, <1>8, <2>3, <2>4, <2>5, <2>6, RisesKeeps
  <2> QED BY <2>7, <2>8 DEF ShownBytes, Bytes!ProtocolNext
<1> QED BY <1>5, <1>13, <1>14

\* Every line change is a step of the protocol, or none.
LEMMA SmcStep ==
    ASSUME PoliteGuests, ResetsBetween, BusInv, [SmcNext]_smcVars
    PROVE  BusInv' /\ ShownBytes
<1>1. CASE Undecided
  BY <1>1, UndecidedShown
<1>2. CASE StartData
  BY <1>2, StartDataShown
<1>3. CASE StartClock
  BY <1>3, StartClockShown
<1>4. CASE SetBit
  BY <1>4, SetBitShown
<1>5. CASE ClockHigh
  <2>1. Rises
    BY <1>5, HighRises
  <2>2. guest.bit \in 0 .. 8 /\ guest.sent \in Nat
    BY <2>1 DEF Rises
  <2>3. CASE Receiving
    BY <2>1, <2>2, <2>3, RisesReceiving, RisesAnswered
  <2>4. CASE ~Receiving
    BY <2>1, <2>2, <2>4, RisesSending, RisesAddress, RisesByte
  <2> QED BY <2>3, <2>4
<1>6. CASE ClockLow
  BY <1>6, LowInByte, LowAtEnd
<1>7. CASE StopData
  BY <1>7, StopDataShown
<1>8. CASE StopClock
  BY <1>8, StopClockShown
<1>9. CASE Stop
  BY <1>9, StopShown
<1>10. CASE LetGo
  BY <1>10, LetGoShown
<1>11. CASE KeyTyped \/ MouseMoved
  BY <1>11, EventsShown
<1>12. CASE ResetSmc
  BY <1>12, ResetSmcShown
<1>13. CASE UNCHANGED smcVars
  <2>1. UNCHANGED <<queues, data, pos, bus, wires, plan, guest, got, parity>>
    BY <1>13 DEF smcVars
  <2>2. queues' \in Queues /\ parity' \in {0, 1}
    BY <2>1 DEF BusInv, BusTypes
  <2>3. BusInv' /\ BytesWritten' = BytesWritten /\ BytesRead' = BytesRead
    BY <2>1, <2>2, Undisturbed
  <2> QED BY <2>1, <2>3, Unseen
<1> QED BY <1>1, <1>2, <1>3, <1>4, <1>5, <1>6, <1>7, <1>8, <1>9, <1>10, <1>11, <1>12, <1>13 DEF SmcNext

\* Bits on two wires carry whole bytes (i2c.c i2c_step, smc.c smc_read and
\* smc_write): whatever keys, mouse packets and resets come between any two line
\* changes, each byte written reaches its register once and in order, and each
\* byte read is that register's next answer.
THEOREM BusKeepsProtocol ==
    ASSUME PoliteGuests, ResetsBetween PROVE SmcSpec => ImplementsBytes
<1>1. BusInv /\ [SmcNext]_smcVars => BusInv' /\ ShownBytes
  BY SmcStep
<1>2. SmcInit => BusInv /\ Bytes!ProtocolInit
  <2>1. SUFFICES ASSUME SmcInit PROVE BusInv /\ Bytes!ProtocolInit
    OBVIOUS
  <2>2. BytesWritten = 0 /\ BytesRead = <<>>
    BY <2>1 DEF SmcInit, BytesWritten, BytesRead, InTransit, Receiving, AtRest, NotStarted
  <2>3. Bytes!AtPowerOn = AtPowerOn
    BY DEF Bytes!AtPowerOn, AtPowerOn, Bytes!DefaultKey, DefaultKey
  <2>4. data[1] = 0
    BY <2>1 DEF SmcInit
  <2> QED BY <2>1, <2>2, <2>3, <2>4, BusStart DEF SmcInit, Bytes!ProtocolInit
<1>3. BusInv /\ ShownBytes => [Bytes!ProtocolNext]_(Bytes!protocolVars)
  BY DEF ShownBytes, Bytes!ProtocolNext
<1> QED BY <1>1, <1>2, <1>3, PTL DEF SmcSpec, ImplementsBytes, Bytes!ProtocolSpec

\* A transfer that makes op the default answer.
SetsMode(t, op) == t.device = Smc /\ t.bytes = <<SetDefault, op>>

\* One that takes a packet of the mouse, after a key where op is for both.
TakesPacket(t, op) ==
    /\ t.device = Smc /\ t.bytes = <<>>
    /\ \/ op = DefaultMouse /\ t.last = 1 /\ t.reads = 4
       \/ op = DefaultBoth /\ t.last = 2 /\ t.reads = 5

\* One that leaves the mouse alone.
LeavesMouse(t) ==
    t.device = Smc =>
        /\ t.last = 0 /\ Len(t.bytes) \in {1, 2} /\ t.reads <= 2 - Len(t.bytes)
        /\ t.bytes[1] \notin {SetMouse, ReadMouse, DefaultMouse, DefaultBoth}

InMode(p, i) ==
    \/ LeavesMouse(p[i])
    \/ \E op \in {DefaultMouse, DefaultBoth} :
         TakesPacket(p[i], op) /\ (SetsMode(p[i - 1], op) \/ TakesPacket(p[i - 1], op))

\* Guests that take packets in the mode they have set, each to its end.
MouseGuests == \A p \in Programs : LeavesMouse(p[1]) /\ \A i \in 2 .. Len(p) : InMode(p, i)

Parities == [Nat -> {0, 1}]

\* The ring holds what is left of the packet under way and whole packets after
\* it; f tells which is which.
RingWhole(q, f) ==
    /\ q.mouse = 3 /\ q.mseCount \in 0 .. 3
    /\ \E k \in Nat : q.mseCount + Len(q.mse) = 4 * k
    /\ \A j \in Nat, b \in 0 .. 3 :
         4 * j + b + 1 - q.mseCount \in 1 .. Len(q.mse) =>
             q.mse[4 * j + b + 1 - q.mseCount] = 8 + 16 * b + f[j]

\* No packet is under way.
NoneBegun(q) == q.mseCount = 0 /\ ~q.mid

\* What was read of a packet, and what the controller still owes of it.
PacketSoFar(q, t, r, f) ==
    \/ Len(r) < t.last /\ q.mseCount = 0 /\ (Len(r) = 0 => ~q.mid) /\ (Len(r) = 1 => q.mid)
    \/ Len(r) = t.last /\ r[t.last] = 0 /\ NoneBegun(q)
    \/ /\ Len(r) \in t.last .. t.last + 3
       /\ q.mseCount = IF Len(r) = t.last + 3 THEN 0 ELSE Len(r) - t.last + 1
       /\ t.last = 1 \/ Len(r) = t.last + 3 => ~q.mid
       /\ t.last = 2 /\ Len(r) < t.last + 3 => q.mid
       /\ \E p \in {0, 1} :
            /\ \A i \in t.last .. Len(r) : r[i] = 8 + 16 * (i - t.last) + p
            /\ Len(r) < t.last + 3 => f[0] = p

OfTransfer(q, a, t, w, r, f) ==
    \/ /\ LeavesMouse(t) /\ NoneBegun(q)
       /\ t.device # Smc => r = <<>>
       /\ t.device = Smc =>
            /\ w \in 0 .. Len(t.bytes) /\ (w < Len(t.bytes) => r = <<>>)
            /\ w = 1 /\ r = <<>> => a = t.bytes[1]
            /\ w = 2 => a = q.op /\ (t.bytes[1] = SetDefault => q.op = t.bytes[2])
    \/ \E op \in {DefaultMouse, DefaultBoth} :
         TakesPacket(t, op) /\ a = op /\ q.op = op /\ w = 0 /\ PacketSoFar(q, t, r, f)

MouseState(q, a, pl, w, r, f) ==
    /\ RingWhole(q, f)
    /\ r \in Seq(Byte)
    /\ \A i \in 2 .. Len(pl) : InMode(pl, i)
    /\ pl = <<>> => NoneBegun(q) /\ w = 0 /\ r = <<>>
    /\ pl # <<>> => OfTransfer(q, a, Head(pl), w, r, f)

\* The inductive invariant: packets are whole in the ring, on the wires and
\* with the guest.
MouseInv == \E f \in Parities : MouseState(queues, data[1], plan, BytesWritten, BytesRead, f)

\* The protocol's operators are the controller's.
LEMMA SameAnswers ==
    /\ \A q, op : Bytes!Answered(q, op) = Answered(q, op)
    /\ \A q, op, byte : Bytes!Executed(q, op, byte) = Executed(q, op, byte)
    /\ \A q, key : Bytes!KeyEvent(q, key) = KeyEvent(q, key)
    /\ \A q, p : Bytes!MouseEvent(q, p) = MouseEvent(q, p)
    /\ \A q : Bytes!Flushed(q) = Flushed(q)
<1>1. \A q, op : Bytes!Answered(q, op) = Answered(q, op)
  BY DEF Bytes!Answered, Answered, Bytes!Key, Key, Bytes!Given, Given, Bytes!MouseByte, MouseByte,
         Bytes!Next1, Next1, Bytes!Rest, Rest, Bytes!PacketSize, PacketSize,
         Bytes!DefaultBoth, DefaultBoth, Bytes!DefaultMouse, DefaultMouse,
         Bytes!ReadMouse, ReadMouse, Bytes!DefaultKey, DefaultKey, Bytes!ReadKey, ReadKey,
         Bytes!MouseId, MouseId
<1>2. \A q, op, byte : Bytes!Executed(q, op, byte) = Executed(q, op, byte)
  BY DEF Bytes!Executed, Executed, Bytes!SetMouse, SetMouse, Bytes!SetDefault, SetDefault,
         Bytes!PowerButton, PowerButton, Bytes!ResetButton, ResetButton
<1>3. \A q, key : Bytes!KeyEvent(q, key) = KeyEvent(q, key)
  BY DEF Bytes!KeyEvent, KeyEvent, Bytes!Add, Add
<1>4. \A q, p : Bytes!MouseEvent(q, p) = MouseEvent(q, p)
  BY DEF Bytes!MouseEvent, MouseEvent, Bytes!PacketSize, PacketSize, Bytes!Packet, Packet
<1>5. \A q : Bytes!Flushed(q) = Flushed(q)
  BY DEF Bytes!Flushed, Flushed
<1> QED BY <1>1, <1>2, <1>3, <1>4, <1>5

\* The next byte of the mouse's ring is the packet's next.
LEMMA MouseByteIs ==
    ASSUME NEW q \in Queues, NEW f \in Parities, RingWhole(q, f)
    PROVE  \/ /\ q.mseCount = 0 /\ MouseByte(q).byte = 0
              /\ MouseByte(q).queues = [q EXCEPT !.mid = FALSE]
           \/ \E g \in Parities :
                LET u == MouseByte(q).queues
                IN  /\ MouseByte(q).byte = 8 + 16 * q.mseCount + f[0] /\ u.op = q.op
                    /\ q.mseCount < 3 => u.mseCount = q.mseCount + 1 /\ (u.mid <=> q.mid) /\ g = f
                    /\ q.mseCount = 3 => u.mseCount = 0 /\ ~u.mid
                    /\ RingWhole(u, g)
<1> DEFINE c == q.mseCount
           s == q.mse
           u == MouseByte(q).queues
<1>1. /\ s \in Seq(Byte) /\ c \in 0 .. 3 /\ q.mouse = 3 /\ q.mid \in BOOLEAN /\ PacketSize(q) = 4
      /\ f \in [Nat -> {0, 1}]
  BY DEF Queues, RingWhole, PacketSize, Parities
<1>2. PICK k \in Nat : c + Len(s) = 4 * k
  BY DEF RingWhole
<1>3. \A j \in Nat, b \in 0 .. 3 : 4 * j + b + 1 - c \in 1 .. Len(s) => s[4 * j + b + 1 - c] = 8 + 16 * b + f[j]
  BY DEF RingWhole
<1>4. CASE c = 0 /\ Len(s) < 4
  <2>1. MouseByte(q) = Given(0, [q EXCEPT !.mid = FALSE])
    BY <1>1, <1>4 DEF MouseByte
  <2> QED BY <1>4, <2>1 DEF Given
<1>5. CASE ~(c = 0 /\ Len(s) < 4)
  <2>1. s # <<>> /\ Len(s) > 0
    <3>1. Len(s) \in Nat /\ Len(s) > 0
      BY <1>1, <1>2, <1>5
    <3> QED BY <1>1, <3>1
  <2> DEFINE ends == c + 1 = 4
             n == IF ends THEN 0 ELSE (c + 1) % 256
             m == q.mid /\ ~ends
  <2>2. MouseByte(q) = Given(Next1(s), [q EXCEPT !.mse = Rest(@), !.mseCount = IF ends THEN 0 ELSE (@ + 1) % 256,
                                                 !.mid = @ /\ ~ends])
    BY <1>1, <1>5 DEF MouseByte
  <2>3. Next1(s) = s[1] /\ Rest(s) = Tail(s)
    BY <1>1, <2>1 DEF Next1, Rest
  <2>4. u = [q EXCEPT !.mse = Tail(s), !.mseCount = n, !.mid = m]
    BY <2>2, <2>3 DEF Given, Queues
  <2>5. MouseByte(q).byte = s[1]
    BY <2>2, <2>3 DEF Given
  <2>6. n \in 0 .. 3 /\ n = IF c = 3 THEN 0 ELSE c + 1
    BY <1>1
  <2>7. m \in BOOLEAN /\ (c = 3 => ~m) /\ (c < 3 => (m <=> q.mid))
    BY <1>1
  <2> HIDE DEF n, m
  <2>8. u.mse = Tail(s) /\ u.mseCount = n /\ (u.mid <=> m) /\ u.op = q.op /\ u.mouse = q.mouse
    BY <2>4, <2>7 DEF Queues
  <2> HIDE DEF u
  <2>9. s[1] = 8 + 16 * c + f[0]
    <3>1. 4 * 0 + c + 1 - c = 1 /\ 1 \in 1 .. Len(s)
      BY <1>1, <2>1
    <3> QED BY <1>1, <1>3, <3>1
  <2>10. Len(Tail(s)) = Len(s) - 1 /\ \A i \in 1 .. Len(s) - 1 : Tail(s)[i] = s[i + 1]
    BY <1>1, <2>1
  <2>11. CASE c < 3
    <3>1. n = c + 1
      BY <2>6, <2>11
    <3>2. n + Len(Tail(s)) = 4 * k
      BY <1>1, <1>2, <2>10, <3>1
    <3>3. ASSUME NEW j \in Nat, NEW b \in 0 .. 3, 4 * j + b + 1 - n \in 1 .. Len(Tail(s))
          PROVE  Tail(s)[4 * j + b + 1 - n] = 8 + 16 * b + f[j]
      <4>1. PICK i \in 1 .. Len(s) - 1 : i = 4 * j + b + 1 - n
        BY <2>10, <3>3
      <4>2. i + 1 = 4 * j + b + 1 - c /\ i + 1 \in 1 .. Len(s)
        BY <1>1, <3>1, <4>1
      <4>3. s[i + 1] = 8 + 16 * b + f[j]
        BY <1>3, <4>2
      <4> QED BY <2>10, <4>1, <4>3
    <3>4. RingWhole(u, f)
      BY <1>1, <2>6, <2>8, <3>2, <3>3 DEF RingWhole
    <3> QED BY <2>5, <2>7, <2>8, <2>9, <2>11, <3>1, <3>4 DEF u
  <2>12. CASE c = 3
    <3> DEFINE g == [j \in Nat |-> f[j + 1]]
    <3>1. g \in Parities
      BY <1>1 DEF Parities
    <3>2. n = 0 /\ k > 0
      BY <1>1, <1>2, <2>1, <2>6, <2>12
    <3>3. n + Len(Tail(s)) = 4 * (k - 1) /\ k - 1 \in Nat
      BY <1>1, <1>2, <2>10, <2>12, <3>2
    <3>4. ASSUME NEW j \in Nat, NEW b \in 0 .. 3, 4 * j + b + 1 - n \in 1 .. Len(Tail(s))
          PROVE  Tail(s)[4 * j + b + 1 - n] = 8 + 16 * b + g[j]
      <4>1. PICK i \in 1 .. Len(s) - 1 : i = 4 * j + b + 1 - n
        BY <2>10, <3>4
      <4>2. i + 1 = 4 * (j + 1) + b + 1 - c /\ i + 1 \in 1 .. Len(s) /\ j + 1 \in Nat
        BY <1>1, <2>12, <3>2, <4>1
      <4>3. s[i + 1] = 8 + 16 * b + f[j + 1]
        BY <1>3, <4>2
      <4> QED BY <2>10, <4>1, <4>3
    <3> HIDE DEF g
    <3>5. RingWhole(u, g)
      BY <1>1, <2>6, <2>8, <3>3, <3>4 DEF RingWhole
    <3> QED BY <2>5, <2>7, <2>8, <2>9, <2>12, <3>1, <3>2, <3>5 DEF u
  <2> QED BY <1>1, <2>11, <2>12
<1> QED BY <1>4, <1>5

\* A packet's bytes.
LEMMA PacketIs ==
    ASSUME NEW p \in {0, 1}
    PROVE  /\ Packet(p, 4) \in Seq(Byte) /\ Packet(p, 4) \in Seq(Nat) /\ Len(Packet(p, 4)) = 4
           /\ \A i \in 1 .. 4 : Packet(p, 4)[i] = 8 + 16 * (i - 1) + p
<1>1. PICK z \in Nat : z = 4
  OBVIOUS
<1>2. \A i \in 1 .. z : 8 + 16 * (i - 1) + p \in Byte
  BY <1>1 DEF Byte
<1>3. /\ Packet(p, z) \in Seq(Byte) /\ Packet(p, z) \in Seq(Nat) /\ Len(Packet(p, z)) = z
      /\ \A i \in 1 .. z : Packet(p, z)[i] = 8 + 16 * (i - 1) + p
  <2> DEFINE d == [i \in 1 .. z |-> 8 + 16 * (i - 1) + p]
  <2>1. d \in Seq(Byte) /\ Len(d) = z
    BY <1>1, <1>2
  <2>2. d \in Seq(Nat)
    BY <1>1
  <2> QED BY <2>1, <2>2 DEF Packet
<1> QED BY <1>1, <1>3

\* The elements of two sequences in a row.
LEMMA JoinedIs ==
    ASSUME NEW S, NEW s \in Seq(S), NEW d \in Seq(S)
    PROVE  /\ Len(s \o d) = Len(s) + Len(d) /\ Len(s) \in Nat
           /\ \A i \in 1 .. Len(s) : (s \o d)[i] = s[i]
           /\ \A i \in 1 .. Len(d) : (s \o d)[Len(s) + i] = d[i]
<1>1. ASSUME NEW i \in 1 .. Len(s) PROVE (s \o d)[i] = s[i]
  OBVIOUS
<1>2. ASSUME NEW i \in 1 .. Len(d) PROVE (s \o d)[Len(s) + i] = d[i]
  OBVIOUS
<1> QED BY <1>1, <1>2

\* A ring with a packet behind it.
LEMMA PacketBehind ==
    ASSUME NEW s \in Seq(Byte), NEW d \in Seq(Byte), Len(d) = 4
    PROVE  /\ Len(s \o d) = Len(s) + 4 /\ Len(s) \in Nat
           /\ \A i \in 1 .. Len(s) : (s \o d)[i] = s[i]
           /\ \A i \in 1 .. 4 : (s \o d)[Len(s) + i] = d[i]
BY JoinedIs

\* A place past a ring of whole packets is one of the packet behind it.
LEMMA PlaceBehind ==
    ASSUME NEW n \in Nat, NEW e \in 0 .. 3, NEW k \in Nat, e + n = 4 * k,
           NEW j \in Nat, NEW b \in 0 .. 3, NEW i \in 1 .. n + 4, i = 4 * j + b + 1 - e, i > n
    PROVE  j = k /\ i = n + (b + 1) /\ b + 1 \in 1 .. 4 /\ (b + 1) - 1 = b
OBVIOUS

\* The mouse's motion adds a packet whole or not at all.
LEMMA MotionIs ==
    ASSUME NEW q \in Queues, NEW f \in Parities, RingWhole(q, f), NEW p \in {0, 1}
    PROVE  LET u == MouseEvent(q, p)
           IN  /\ u.op = q.op /\ u.mseCount = q.mseCount /\ (u.mid <=> q.mid)
               /\ \E g \in Parities : RingWhole(u, g) /\ (q.mseCount # 0 => g[0] = f[0])
<1> DEFINE c == q.mseCount
           s == q.mse
           u == MouseEvent(q, p)
<1>1. /\ s \in Seq(Byte) /\ c \in 0 .. 3 /\ q.mouse = 3 /\ q.mid \in BOOLEAN /\ PacketSize(q) = 4
      /\ f \in [Nat -> {0, 1}]
  BY DEF Queues, RingWhole, PacketSize, Parities
<1>2. PICK k \in Nat : c + Len(s) = 4 * k
  BY DEF RingWhole
<1>3. \A j \in Nat, b \in 0 .. 3 : 4 * j + b + 1 - c \in 1 .. Len(s) => s[4 * j + b + 1 - c] = 8 + 16 * b + f[j]
  BY DEF RingWhole
<1>4. CASE u = q
  BY <1>4
<1>5. CASE u # q
  <2> DEFINE d == Packet(p, 4)
             g == [f EXCEPT ![k] = p]
  <2>1. u = [q EXCEPT !.mse = s \o d]
    BY <1>1, <1>5 DEF MouseEvent
  <2>2. d \in Seq(Byte) /\ Len(d) = 4 /\ \A i \in 1 .. 4 : d[i] = 8 + 16 * (i - 1) + p
    BY PacketIs
  <2>3. g \in Parities /\ g[k] = p /\ \A j \in Nat : j # k => g[j] = f[j]
    BY <1>1 DEF Parities
  <2> HIDE DEF d, g
  <2>4. u.mse = s \o d /\ u.mseCount = c /\ (u.mid <=> q.mid) /\ u.op = q.op /\ u.mouse = q.mouse
    BY <2>1 DEF Queues
  <2> HIDE DEF u
  <2>5. /\ Len(s \o d) = Len(s) + 4 /\ Len(s) \in Nat
        /\ \A i \in 1 .. Len(s) : (s \o d)[i] = s[i]
        /\ \A i \in 1 .. 4 : (s \o d)[Len(s) + i] = d[i]
    BY <1>1, <2>2, PacketBehind
  <2>6. PICK n \in Nat, e \in 0 .. 3 : n = Len(s) /\ e = c /\ e + n = 4 * k /\ Len(s \o d) = n + 4
    BY <1>1, <1>2, <2>5
  <2>7. c + Len(s \o d) = 4 * (k + 1) /\ k + 1 \in Nat
    <3>1. e + (n + 4) = 4 * (k + 1) /\ k + 1 \in Nat
      BY <2>6
    <3> QED BY <2>6, <3>1
  <2>8. ASSUME NEW j \in Nat, NEW b \in 0 .. 3, 4 * j + b + 1 - c \in 1 .. Len(s \o d)
        PROVE  (s \o d)[4 * j + b + 1 - c] = 8 + 16 * b + g[j]
    <3>1. PICK i \in 1 .. n + 4 : i = 4 * j + b + 1 - e
      BY <2>6, <2>8
    <3>2. i = 4 * j + b + 1 - c
      BY <2>6, <3>1
    <3>3. CASE i <= n
      <4>1. i \in 1 .. n /\ j # k
        BY <2>6, <3>1, <3>3
      <4>2. s[i] = 8 + 16 * b + f[j]
        BY <1>3, <2>6, <3>2, <4>1
      <4>3. (s \o d)[i] = s[i]
        BY <2>5, <2>6, <4>1
      <4> QED BY <2>3, <3>2, <4>1, <4>2, <4>3
    <3>4. CASE i > n
      <4>1. j = k /\ i = n + (b + 1) /\ b + 1 \in 1 .. 4 /\ (b + 1) - 1 = b
        <5>1. /\ n \in Nat /\ e \in 0 .. 3 /\ e + n = 4 * k /\ i \in 1 .. n + 4
              /\ i = 4 * j + b + 1 - e /\ i > n
          BY <2>6, <3>1, <3>4
        <5> QED BY <5>1, PlaceBehind
      <4>2. (s \o d)[n + (b + 1)] = d[b + 1]
        BY <2>5, <2>6, <4>1
      <4>3. d[b + 1] = 8 + 16 * b + p
        BY <2>2, <4>1
      <4> QED BY <2>3, <3>2, <4>1, <4>2, <4>3
    <3>5. i <= n \/ i > n
      BY <2>6, <3>1
    <3> QED BY <3>3, <3>4, <3>5
  <2>9. RingWhole(u, g)
    BY <1>1, <2>4, <2>7, <2>8 DEF RingWhole
  <2>10. c # 0 => g[0] = f[0]
    <3>1. e # 0 => k # 0
      BY <2>6
    <3> QED BY <2>3, <2>6, <3>1
  <2> QED BY <2>3, <2>4, <2>9, <2>10 DEF u
<1> QED BY <1>4, <1>5

\* A ring is as whole with other keys, and another turn, beside it.
LEMMA RingAlone ==
    ASSUME NEW q, NEW f, RingWhole(q, f),
           NEW u, u.mse = q.mse, u.mseCount = q.mseCount, u.mouse = q.mouse
    PROVE  RingWhole(u, f)
BY DEF RingWhole

\* Another byte of a packet, or the key before it.
LEMMA PacketReadIs ==
    ASSUME NEW q \in Queues, NEW f \in Parities, RingWhole(q, f), NEW t \in Transfers, NEW op \in Byte,
           TakesPacket(t, op), q.op = op, NEW r \in Seq(Byte), PacketSoFar(q, t, r, f),
           MoreToRead(t, r)
    PROVE  LET a == Answered(q, op)
           IN  /\ a.queues.op = op
               /\ \E g \in Parities :
                    RingWhole(a.queues, g) /\ PacketSoFar(a.queues, t, Append(r, a.byte), g)
<1> DEFINE n == Len(r)
           l == t.last
           a == Answered(q, op)
           x == Append(r, a.byte)
<1>1. /\ l \in {1, 2} /\ n \in Nat /\ n < l + 3 /\ (l \in 1 .. n => r[l] # 0)
      /\ (l = 1 => op = DefaultMouse) /\ (l = 2 => op = DefaultBoth)
  BY DEF TakesPacket, MoreToRead
<1>0. l \in {1, 2} /\ n \in Nat /\ n < l + 3
  BY <1>1
<1>2. a.byte \in Byte /\ a.queues \in Queues
  BY AnswerIs
<1>3. Len(x) = n + 1 /\ x[n + 1] = a.byte /\ \A i \in 1 .. n : x[i] = r[i]
  BY <1>2
<1>4. /\ q.mseCount \in 0 .. 3 /\ q.mid \in BOOLEAN /\ f[0] \in {0, 1}
  BY DEF RingWhole, Queues, Parities
<1>5. CASE l = 2 /\ n = 0
  <2>1. q.mseCount = 0 /\ ~q.mid
    BY <1>5 DEF PacketSoFar
  <2>2. a = Key([q EXCEPT !.mid = TRUE])
    BY <1>1, <1>5, <2>1 DEF Answered, DefaultBoth, DefaultMouse, ReadMouse, DefaultKey, ReadKey, MouseId
  <2>3. a.queues = [[q EXCEPT !.mid = TRUE] EXCEPT !.kbd = Rest([q EXCEPT !.mid = TRUE].kbd)]
    BY <2>2 DEF Key, Given
  <2>4. /\ a.queues.mse = q.mse /\ a.queues.mseCount = q.mseCount /\ a.queues.mouse = q.mouse
        /\ a.queues.op = q.op /\ a.queues.mid
    BY <2>3 DEF Queues
  <2>5. RingWhole(a.queues, f)
    BY <2>4, RingAlone, Zenon
  <2> HIDE DEF a
  <2>6. Len(x) < l /\ Len(x) = 1
    BY <1>3, <1>5
  <2> HIDE DEF x
  <2>7. PacketSoFar(a.queues, t, x, f)
    BY <2>1, <2>4, <2>6 DEF PacketSoFar
  <2> QED BY <2>4, <2>5, <2>7 DEF a, x
<1>6. CASE ~(l = 2 /\ n = 0)
  <2>1. a = MouseByte(q)
    <3>1. CASE l = 1
      BY <1>1, <3>1 DEF Answered, DefaultBoth, DefaultMouse, ReadMouse, DefaultKey, ReadKey, MouseId
    <3>2. CASE l = 2
      <4>1. q.mid
        <5>1. n > 0
          BY <1>1, <1>6, <3>2
        <5>2. CASE n = 1
          BY <1>1, <3>2, <5>2 DEF PacketSoFar
        <5>3. CASE n # 1
          <6>1. ~(n < l) /\ n < l + 3
            <7>1. PICK m \in Nat : m = n
              BY <1>0
            <7>2. ~(m < 2) /\ m < 5
              BY <1>0, <3>2, <5>1, <5>3, <7>1
            <7> QED BY <3>2, <7>1, <7>2
          <6>2. ~(n = l /\ r[l] = 0)
            BY <1>1, <6>1
          <6> QED BY <3>2, <6>1, <6>2 DEF PacketSoFar
        <5> QED BY <5>2, <5>3
      <4> QED BY <1>1, <3>2, <4>1 DEF Answered, DefaultBoth, DefaultMouse, ReadMouse, DefaultKey, ReadKey, MouseId
    <3> QED BY <1>1, <3>1, <3>2
  <2>2. CASE n < l
    <3>1. q.mseCount = 0 /\ n + 1 = l /\ (l = 1 => ~q.mid) /\ (l = 2 => q.mid)
      <4>1. n = l - 1
        BY <1>1, <1>6, <2>2
      <4>2. q.mseCount = 0 /\ (n = 0 => ~q.mid) /\ (n = 1 => q.mid)
        BY <1>1, <2>2 DEF PacketSoFar
      <4> QED BY <1>1, <4>1, <4>2
    <3>2. CASE q.mseCount = 0 /\ a.byte = 0 /\ a.queues = [q EXCEPT !.mid = FALSE]
      <4>1. /\ a.queues.mse = q.mse /\ a.queues.mseCount = q.mseCount /\ a.queues.mouse = q.mouse
            /\ a.queues.op = q.op /\ ~a.queues.mid
        BY <3>2 DEF Queues
      <4>2. RingWhole(a.queues, f)
        BY <4>1, RingAlone, Zenon
      <4> HIDE DEF a
      <4>3. Len(x) = l /\ x[l] = 0
        BY <1>3, <3>1, <3>2
      <4> HIDE DEF x
      <4>4. PacketSoFar(a.queues, t, x, f)
        BY <3>1, <4>1, <4>3 DEF PacketSoFar, NoneBegun
      <4> QED BY <4>1, <4>2, <4>4 DEF a, x
    <3>3. CASE ~(q.mseCount = 0 /\ a.byte = 0 /\ a.queues = [q EXCEPT !.mid = FALSE])
      <4>1. PICK g \in Parities :
              /\ a.byte = 8 + 16 * q.mseCount + f[0] /\ a.queues.op = q.op
              /\ a.queues.mseCount = q.mseCount + 1 /\ (a.queues.mid <=> q.mid) /\ g = f
              /\ RingWhole(a.queues, g)
        BY <2>1, <3>1, <3>3, MouseByteIs
      <4>2. a.queues.mseCount = 1 /\ a.byte = 8 + f[0]
        BY <1>4, <3>1, <4>1
      <4> HIDE DEF a
      <4>3. Len(x) = l /\ x[l] = 8 + f[0]
        BY <1>3, <3>1, <4>2
      <4> HIDE DEF x
      <4>4. /\ Len(x) \in l .. l + 3 /\ a.queues.mseCount = IF Len(x) = l + 3 THEN 0 ELSE Len(x) - l + 1
            /\ Len(x) < l + 3
        <5>1. l \in l .. l + 3 /\ l # l + 3 /\ l < l + 3 /\ l - l + 1 = 1
          BY <1>0
        <5> QED BY <4>2, <4>3, <5>1
      <4>5. \A i \in l .. Len(x) : x[i] = 8 + 16 * (i - l) + f[0]
        <5> SUFFICES ASSUME NEW i \in l .. Len(x) PROVE x[i] = 8 + 16 * (i - l) + f[0]
          OBVIOUS
        <5>1. i = l
          BY <1>0, <4>3
        <5>2. 8 + 16 * (l - l) + f[0] = 8 + f[0]
          BY <1>0, <1>4
        <5> QED BY <4>3, <5>1, <5>2
      <4>6. PacketSoFar(a.queues, t, x, f)
        <5>1. l = 1 \/ Len(x) = l + 3 => ~a.queues.mid
          BY <1>1, <3>1, <4>1, <4>3
        <5>2. l = 2 /\ Len(x) < l + 3 => a.queues.mid
          BY <1>1, <3>1, <4>1
        <5> QED BY <1>4, <4>4, <4>5, <5>1, <5>2 DEF PacketSoFar
      <4> QED BY <4>1, <4>6 DEF a, x
    <3> QED BY <3>2, <3>3
  <2>3. CASE ~(n < l)
    <3>1. PICK p \in {0, 1} :
            /\ n \in l .. l + 3 /\ q.mseCount = n - l + 1
            /\ (l = 1 => ~q.mid) /\ (l = 2 => q.mid)
            /\ (\A i \in l .. n : r[i] = 8 + 16 * (i - l) + p) /\ f[0] = p
      <4>1. ~(n = l /\ r[l] = 0) /\ n # l + 3
        BY <1>1, <2>3
      <4> QED BY <1>1, <2>3, <4>1 DEF PacketSoFar
    <3>2. q.mseCount # 0
      BY <1>1, <3>1
    <3>3. PICK g \in Parities :
            /\ a.byte = 8 + 16 * q.mseCount + f[0] /\ a.queues.op = q.op
            /\ q.mseCount < 3 => a.queues.mseCount = q.mseCount + 1 /\ (a.queues.mid <=> q.mid) /\ g = f
            /\ q.mseCount = 3 => a.queues.mseCount = 0 /\ ~a.queues.mid
            /\ RingWhole(a.queues, g)
      <4>1. \E g \in Parities :
                LET u == MouseByte(q).queues
                IN  /\ MouseByte(q).byte = 8 + 16 * q.mseCount + f[0] /\ u.op = q.op
                    /\ q.mseCount < 3 => u.mseCount = q.mseCount + 1 /\ (u.mid <=> q.mid) /\ g = f
                    /\ q.mseCount = 3 => u.mseCount = 0 /\ ~u.mid
                    /\ RingWhole(u, g)
        BY <3>2, MouseByteIs, Zenon
      <4> HIDE DEF a
      <4> QED BY <2>1, <4>1, Zenon
    <3> HIDE DEF a
    <3>4. /\ Len(x) = n + 1 /\ Len(x) \in l .. l + 3 /\ Len(x) # l
          /\ a.queues.mseCount = IF Len(x) = l + 3 THEN 0 ELSE Len(x) - l + 1
      <4>1. PICK m \in Nat, h \in {1, 2}, c \in 0 .. 3 : m = n /\ h = l /\ c = q.mseCount
        BY <1>0, <1>4
      <4>2. m \in h .. h + 3 /\ c = m - h + 1 /\ m < h + 3
        BY <1>0, <3>1, <4>1
      <4>3. m + 1 \in h .. h + 3 /\ m + 1 # h
        BY <4>1, <4>2
      <4>4. Len(x) = m + 1
        BY <1>3, <4>1
      <4>5. CASE c = 3
        <5>1. m + 1 = h + 3
          BY <4>1, <4>2, <4>5
        <5>2. a.queues.mseCount = 0
          BY <3>3, <4>1, <4>5
        <5> QED BY <1>3, <4>1, <4>3, <4>4, <5>1, <5>2
      <4>6. CASE c < 3
        <5>1. m + 1 # h + 3 /\ c + 1 = (m + 1) - h + 1
          <6>1. c = m - h + 1 /\ c < 3 /\ m \in Nat /\ h \in {1, 2} /\ c \in 0 .. 3
            BY <4>1, <4>2, <4>6
          <6> HIDE <4>1, <4>2, <4>6
          <6> QED BY <6>1
        <5>2. a.queues.mseCount = c + 1
          BY <3>3, <4>1, <4>6
        <5> QED BY <1>3, <4>1, <4>3, <4>4, <5>1, <5>2
      <4> QED BY <4>1, <4>5, <4>6
    <3>5. ASSUME NEW i \in l .. Len(x) PROVE x[i] = 8 + 16 * (i - l) + p
      <4>1. CASE i \in l .. n
        <5>1. x[i] = r[i]
          BY <1>1, <1>3, <4>1
        <5> QED BY <3>1, <4>1, <5>1
      <4>2. CASE i \notin l .. n
        <5>1. i = n + 1
          BY <1>1, <3>4, <3>5, <4>2
        <5>2. a.byte = 8 + 16 * (n - l + 1) + p
          BY <3>1, <3>3
        <5> QED BY <1>1, <1>3, <5>1, <5>2
      <4> QED BY <4>1, <4>2
    <3>6. l = 1 \/ Len(x) = l + 3 => ~a.queues.mid
      <4>1. CASE Len(x) = l + 3
        BY <1>1, <3>1, <3>3, <3>4, <4>1
      <4>2. CASE Len(x) # l + 3 /\ l = 1
        BY <1>1, <1>4, <3>1, <3>3, <3>4, <4>2
      <4> QED BY <4>1, <4>2
    <3>7. l = 2 /\ Len(x) < l + 3 => a.queues.mid
      BY <1>1, <1>4, <3>1, <3>3, <3>4
    <3>8. Len(x) < l + 3 => g[0] = p
      BY <1>1, <1>4, <3>1, <3>3, <3>4
    <3> HIDE DEF x
    <3>9. PacketSoFar(a.queues, t, x, g)
      BY <3>4, <3>5, <3>6, <3>7, <3>8 DEF PacketSoFar
    <3> QED BY <3>3, <3>9 DEF a, x
  <2> QED BY <2>2, <2>3
<1> QED BY <1>5, <1>6

\* A packet read to its end leaves none begun.
LEMMA PacketEnds ==
    ASSUME NEW q \in Queues, NEW f, NEW t \in Transfers, NEW op, TakesPacket(t, op), NEW r \in Seq(Byte),
           PacketSoFar(q, t, r, f), ~MoreToRead(t, r)
    PROVE  NoneBegun(q)
<1> DEFINE n == Len(r)
           l == t.last
<1>1. /\ l \in {1, 2} /\ t.reads = l + 3 /\ n \in Nat
  BY DEF TakesPacket
<1>2. n >= l + 3 \/ (l \in 1 .. n /\ r[l] = 0)
  BY <1>1 DEF MoreToRead
<1>3. ~(n < l)
  BY <1>1, <1>2
<1>4. CASE n = l /\ r[l] = 0 /\ NoneBegun(q)
  BY <1>4
<1>5. CASE ~(n = l /\ r[l] = 0 /\ NoneBegun(q))
  <2>1. PICK p \in {0, 1} :
          /\ n \in l .. l + 3 /\ q.mseCount = IF n = l + 3 THEN 0 ELSE n - l + 1
          /\ (n = l + 3 => ~q.mid)
          /\ \A i \in l .. n : r[i] = 8 + 16 * (i - l) + p
    BY <1>3, <1>5 DEF PacketSoFar
  <2>2. r[l] = 8 + p
    <3>1. l \in l .. n /\ 8 + 16 * (l - l) + p = 8 + p
      BY <1>1, <2>1
    <3> QED BY <2>1, <3>1
  <2>3. n = l + 3
    BY <1>1, <1>2, <2>1, <2>2
  <2> QED BY <2>1, <2>3 DEF NoneBegun
<1> QED BY <1>4, <1>5

\* What has nothing to do with the mouse leaves its ring and its turn.
LEMMA OthersLeave ==
    ASSUME NEW q \in Queues, NoneBegun(q), NEW op \in Byte, NEW byte \in Byte
    PROVE  /\ op \notin {ReadMouse, DefaultMouse, DefaultBoth} =>
                LET u == Answered(q, op).queues
                IN  /\ u.mse = q.mse /\ u.mseCount = q.mseCount /\ u.mouse = q.mouse
                    /\ NoneBegun(u) /\ u.op = q.op
           /\ op # SetMouse =>
                LET u == Executed(q, op, byte)
                IN  /\ u.mse = q.mse /\ u.mseCount = q.mseCount /\ u.mouse = q.mouse
                    /\ NoneBegun(u) /\ (op = SetDefault => u.op = byte)
<1>1. ASSUME op \notin {ReadMouse, DefaultMouse, DefaultBoth}
      PROVE  LET u == Answered(q, op).queues
             IN  /\ u.mse = q.mse /\ u.mseCount = q.mseCount /\ u.mouse = q.mouse
                 /\ NoneBegun(u) /\ u.op = q.op
  <2> DEFINE u == Answered(q, op).queues
  <2>1. CASE op = DefaultKey
    <3>1. Answered(q, op) = Key([q EXCEPT !.mid = FALSE])
      BY <2>1 DEF Answered, DefaultBoth, DefaultMouse, ReadMouse, DefaultKey, ReadKey, MouseId
    <3>2. u = [[q EXCEPT !.mid = FALSE] EXCEPT !.kbd = Rest([q EXCEPT !.mid = FALSE].kbd)]
      BY <3>1 DEF Key, Given
    <3> HIDE DEF u
    <3>3. u.mse = q.mse /\ u.mseCount = q.mseCount /\ u.mouse = q.mouse /\ ~u.mid /\ u.op = q.op
      BY <3>2 DEF Queues
    <3> QED BY <3>3 DEF NoneBegun, u
  <2>2. CASE op = ReadKey
    <3>1. Answered(q, op) = Key(q)
      BY <2>2 DEF Answered, DefaultBoth, DefaultMouse, ReadMouse, DefaultKey, ReadKey, MouseId
    <3>2. u = [q EXCEPT !.kbd = Rest(q.kbd)]
      BY <3>1 DEF Key, Given, Queues
    <3> HIDE DEF u
    <3>3. /\ u.mse = q.mse /\ u.mseCount = q.mseCount /\ u.mouse = q.mouse /\ (u.mid <=> q.mid)
          /\ u.op = q.op
      BY <3>2 DEF Queues
    <3> QED BY <3>3 DEF NoneBegun, u
  <2>3. CASE op \notin {DefaultKey, ReadKey}
    <3>1. u = q
      <4>1. CASE op = MouseId
        <5>1. Answered(q, op) = Given(q.mouse, q)
          BY <4>1 DEF Answered, DefaultBoth, DefaultMouse, ReadMouse, DefaultKey, ReadKey, MouseId
        <5> QED BY <5>1 DEF Given
      <4>2. CASE op # MouseId
        <5>1. Answered(q, op) = Given(255, q)
          BY <1>1, <2>3, <4>2 DEF Answered
        <5> QED BY <5>1 DEF Given
      <4> QED BY <4>1, <4>2
    <3> QED BY <3>1
  <2> QED BY <2>1, <2>2, <2>3
<1>2. ASSUME op # SetMouse
      PROVE  LET u == Executed(q, op, byte)
             IN  /\ u.mse = q.mse /\ u.mseCount = q.mseCount /\ u.mouse = q.mouse
                 /\ NoneBegun(u) /\ (op = SetDefault => u.op = byte)
  <2> DEFINE u == Executed(q, op, byte)
  <2>1. CASE op = SetDefault
    <3>1. u = [q EXCEPT !.op = byte, !.mid = FALSE]
      BY <2>1 DEF Executed, SetMouse, SetDefault, PowerButton, ResetButton
    <3> HIDE DEF u
    <3>2. u.mse = q.mse /\ u.mseCount = q.mseCount /\ u.mouse = q.mouse /\ ~u.mid /\ u.op = byte
      BY <3>1 DEF Queues
    <3> QED BY <3>2 DEF NoneBegun, u
  <2>2. CASE op # SetDefault
    <3>1. u = q \/ u = [q EXCEPT !.wantsReset = TRUE]
      BY <1>2, <2>2 DEF Executed
    <3> HIDE DEF u
    <3>2. u.mse = q.mse /\ u.mseCount = q.mseCount /\ u.mouse = q.mouse /\ (u.mid <=> q.mid)
      BY <3>1 DEF Queues
    <3> QED BY <2>2, <3>2 DEF NoneBegun, u
  <2> QED BY <2>1, <2>2
<1> QED BY <1>1, <1>2

\* What the invariants say of the types.
LEMMA HeldIs ==
    ASSUME BusInv, MouseInv
    PROVE  /\ queues \in Queues /\ data[1] \in Byte /\ plan \in Seq(Transfers)
           /\ BytesRead \in Seq(Byte)
BY DEF BusInv, BusTypes, MouseInv, MouseState

\* A program begun.
LEMMA BeginKeeps ==
    ASSUME PoliteGuests, MouseGuests, BusInv, MouseInv, Bytes!Begin
    PROVE  MouseInv'
<1>1. PICK f \in Parities : MouseState(queues, data[1], plan, BytesWritten, BytesRead, f)
  BY DEF MouseInv
<1>2. /\ plan = <<>> /\ plan' \in Programs /\ queues' = queues /\ data'[1] = data[1]
      /\ BytesWritten' = BytesWritten /\ BytesRead' = BytesRead
  BY DEF Bytes!Begin
<1>3. /\ RingWhole(queues, f) /\ NoneBegun(queues) /\ BytesWritten = 0 /\ BytesRead = <<>>
      /\ BytesRead \in Seq(Byte)
  BY <1>1, <1>2 DEF MouseState
<1>4. plan' \in Seq(Transfers) /\ plan' # <<>> /\ Head(plan') = plan'[1] /\ Head(plan') \in Transfers
  BY <1>2, ProgramsAre
<1>5. LeavesMouse(Head(plan')) /\ \A i \in 2 .. Len(plan') : InMode(plan', i)
  BY <1>2, <1>4 DEF MouseGuests
<1>6. Len(Head(plan').bytes) \in Nat
  BY <1>4 DEF Transfers
<1>7. OfTransfer(queues, data[1], Head(plan'), 0, <<>>, f)
  <2>1. 0 \in 0 .. Len(Head(plan').bytes) /\ ~(0 = 1) /\ ~(0 = 2)
    BY <1>6
  <2> QED BY <1>3, <1>5, <2>1 DEF OfTransfer
<1>8. MouseState(queues, data[1], plan', 0, <<>>, f)
  BY <1>3, <1>4, <1>5, <1>7 DEF MouseState
<1> QED BY <1>2, <1>3, <1>8 DEF MouseInv

\* A byte written.
LEMMA WriteKeeps ==
    ASSUME BusInv, MouseInv, Bytes!WriteByte
    PROVE  MouseInv'
<1> DEFINE t == Head(plan)
           w == BytesWritten
<1>1. PICK f \in Parities : MouseState(queues, data[1], plan, w, BytesRead, f)
  BY DEF MouseInv
<1>2. /\ plan # <<>> /\ t.device = Smc /\ w < Len(t.bytes) /\ BytesWritten' = w + 1
      /\ plan' = plan /\ BytesRead' = BytesRead
      /\ w = 0 => data'[1] = t.bytes[w + 1] /\ queues' = queues
      /\ w # 0 => queues' = Executed(queues, data[1], t.bytes[w + 1]) /\ data'[1] = queues'.op
  BY SameAnswers DEF Bytes!WriteByte, Bytes!Answers, Bytes!Smc, Smc, Bytes!Writing
<1>3. /\ RingWhole(queues, f) /\ BytesRead \in Seq(Byte) /\ \A i \in 2 .. Len(plan) : InMode(plan, i)
      /\ OfTransfer(queues, data[1], t, w, BytesRead, f)
  BY <1>1, <1>2 DEF MouseState
<1>4. queues \in Queues /\ data[1] \in Byte /\ t.bytes \in Seq(Byte)
  BY <1>2, HeldIs, CurrentIs DEF BusInv
<1>5. ~(t.bytes = <<>>)
  <2>1. CASE t.bytes = <<>>
    <3>1. ~(w < 0)
      <4>1. w = 0 \/ w \in 0 .. 0
        BY <1>2, <1>3, <2>1 DEF OfTransfer
      <4> QED BY <4>1
    <3> QED BY <1>2, <2>1, <3>1
  <2> QED BY <2>1
<1>6. /\ LeavesMouse(t) /\ NoneBegun(queues)
      /\ w \in 0 .. Len(t.bytes) /\ BytesRead = <<>> /\ (w = 1 => data[1] = t.bytes[1])
  BY <1>2, <1>3, <1>5 DEF OfTransfer, TakesPacket
<1>7. Len(t.bytes) \in {1, 2} /\ t.bytes[1] \notin {SetMouse, ReadMouse, DefaultMouse, DefaultBoth}
  BY <1>2, <1>6 DEF LeavesMouse
<1>8. CASE w = 0
  <2>1. OfTransfer(queues, t.bytes[1], t, 1, BytesRead, f)
    <3>1. 1 \in 0 .. Len(t.bytes) /\ ~(1 = 2)
      BY <1>7
    <3> QED BY <1>2, <1>6, <3>1 DEF OfTransfer
  <2>2. MouseState(queues, t.bytes[1], plan, 1, BytesRead, f)
    BY <1>2, <1>3, <2>1 DEF MouseState
  <2>3. queues' = queues /\ data'[1] = t.bytes[1] /\ BytesWritten' = 1
    BY <1>2, <1>8
  <2> QED BY <1>2, <2>2, <2>3 DEF MouseInv
<1>9. CASE w = 1
  <2> DEFINE u == Executed(queues, t.bytes[1], t.bytes[2])
  <2>1. queues' = u /\ data'[1] = u.op /\ BytesWritten' = 2 /\ Len(t.bytes) = 2
    BY <1>2, <1>6, <1>7, <1>9
  <2>2. t.bytes[1] \in Byte /\ t.bytes[2] \in Byte
    BY <1>4, <2>1
  <2>3. /\ u.mse = queues.mse /\ u.mseCount = queues.mseCount /\ u.mouse = queues.mouse
        /\ NoneBegun(u) /\ (t.bytes[1] = SetDefault => u.op = t.bytes[2])
    BY <1>4, <1>6, <1>7, <2>2, OthersLeave
  <2> HIDE DEF u
  <2>4. RingWhole(u, f)
    BY <1>3, <2>3, RingAlone
  <2>5. OfTransfer(u, u.op, t, 2, BytesRead, f)
    <3>1. 2 \in 0 .. Len(t.bytes) /\ ~(2 = 1) /\ ~(2 < Len(t.bytes))
      <4>1. 2 \in 0 .. 2 /\ ~(2 = 1) /\ ~(2 < 2)
        OBVIOUS
      <4> QED BY <2>1, <4>1, Zenon
    <3> QED BY <1>2, <1>6, <2>3, <3>1 DEF OfTransfer
  <2>6. MouseState(u, u.op, plan, 2, BytesRead, f)
    BY <1>2, <1>3, <2>4, <2>5 DEF MouseState
  <2> QED BY <1>2, <2>1, <2>6 DEF MouseInv
<1> QED BY <1>2, <1>6, <1>7, <1>8, <1>9

\* A byte read.
LEMMA ReadKeeps ==
    ASSUME BusInv, MouseInv, Bytes!ReadByte
    PROVE  MouseInv'
<1> DEFINE t == Head(plan)
           w == BytesWritten
           r == BytesRead
           a == Answered(queues, data[1])
<1>1. PICK f \in Parities : MouseState(queues, data[1], plan, w, r, f)
  BY DEF MouseInv
<1>2. /\ plan # <<>> /\ t.device = Smc /\ w = Len(t.bytes) /\ MoreToRead(t, r)
      /\ BytesWritten' = w /\ plan' = plan
      /\ BytesRead' = Append(r, a.byte) /\ queues' = a.queues /\ data'[1] = a.queues.op
  BY SameAnswers DEF Bytes!ReadByte, Bytes!Answers, Bytes!Smc, Smc, Bytes!Writing, Bytes!MoreToRead, MoreToRead
<1>3. /\ RingWhole(queues, f) /\ r \in Seq(Byte) /\ \A i \in 2 .. Len(plan) : InMode(plan, i)
      /\ OfTransfer(queues, data[1], t, w, r, f)
  BY <1>1, <1>2 DEF MouseState
<1>4. queues \in Queues /\ data[1] \in Byte /\ t \in Transfers /\ t.bytes \in Seq(Byte) /\ t.reads \in Nat
  BY <1>2, HeldIs, CurrentIs DEF BusInv
<1>5. a.byte \in Byte /\ Append(r, a.byte) \in Seq(Byte)
  BY <1>3, <1>4, AnswerIs
<1>6. CASE LeavesMouse(t) /\ NoneBegun(queues) /\ t.bytes # <<>>
  <2>1. /\ t.bytes[1] \notin {SetMouse, ReadMouse, DefaultMouse, DefaultBoth}
        /\ Len(t.bytes) = 1 /\ r = <<>>
    <3>1. Len(t.bytes) \in {1, 2} /\ t.reads <= 2 - Len(t.bytes)
      BY <1>2, <1>6 DEF LeavesMouse
    <3>2. Len(r) < t.reads /\ Len(r) \in Nat
      BY <1>2, <1>3 DEF MoreToRead
    <3>3. Len(t.bytes) = 1 /\ Len(r) = 0
      <4>1. \A b \in {1, 2}, k \in Nat, n \in Nat : k <= 2 - b /\ n < k => b = 1 /\ n = 0
        OBVIOUS
      <4>2. t.reads \in Nat
        BY <1>4
      <4> QED BY <3>1, <3>2, <4>1, <4>2, Zenon
    <3>4. r = <<>>
      BY <1>3, <3>3
    <3> QED BY <1>2, <1>6, <3>3, <3>4 DEF LeavesMouse
  <2>2. w = 1 /\ data[1] = t.bytes[1]
    BY <1>2, <1>3, <1>6, <2>1 DEF OfTransfer, TakesPacket
  <2>3. /\ a.queues.mse = queues.mse /\ a.queues.mseCount = queues.mseCount
        /\ a.queues.mouse = queues.mouse /\ NoneBegun(a.queues)
    BY <1>4, <1>5, <1>6, <2>1, <2>2, OthersLeave
  <2> HIDE DEF a
  <2>4. RingWhole(a.queues, f)
    BY <1>3, <2>3, RingAlone
  <2> DEFINE x == Append(r, a.byte)
  <2>5. x # <<>>
    BY <1>3, <1>5
  <2> HIDE DEF x
  <2>6. OfTransfer(a.queues, a.queues.op, t, 1, x, f)
    <3>1. 1 \in 0 .. Len(t.bytes) /\ ~(1 = 2) /\ ~(1 < Len(t.bytes))
      <4>1. 1 \in 0 .. 1 /\ ~(1 = 2) /\ ~(1 < 1)
        OBVIOUS
      <4> QED BY <2>1, <4>1, Zenon
    <3> QED BY <1>2, <1>6, <2>3, <2>5, <3>1 DEF OfTransfer
  <2>7. MouseState(a.queues, a.queues.op, plan, 1, x, f)
    BY <1>2, <1>3, <1>5, <2>4, <2>6 DEF MouseState, x
  <2> QED BY <1>2, <2>2, <2>7 DEF MouseInv, x
<1>7. CASE ~(LeavesMouse(t) /\ NoneBegun(queues) /\ t.bytes # <<>>)
  <2>1. ~(LeavesMouse(t) /\ t.bytes = <<>>)
    BY <1>2 DEF LeavesMouse
  <2>2. PICK op \in {DefaultMouse, DefaultBoth} :
          /\ TakesPacket(t, op) /\ data[1] = op /\ queues.op = op /\ w = 0
          /\ PacketSoFar(queues, t, r, f)
    BY <1>3, <1>7, <2>1 DEF OfTransfer
  <2>3. op \in Byte
    BY <1>4, <2>2
  <2>4. PICK g \in Parities :
          a.queues.op = op /\ RingWhole(a.queues, g) /\ PacketSoFar(a.queues, t, Append(r, a.byte), g)
    BY <1>2, <1>3, <1>4, <2>2, <2>3, PacketReadIs
  <2> HIDE DEF a
  <2>5. OfTransfer(a.queues, a.queues.op, t, w, Append(r, a.byte), g)
    BY <2>2, <2>4 DEF OfTransfer
  <2>6. MouseState(a.queues, a.queues.op, plan, w, Append(r, a.byte), g)
    BY <1>2, <1>3, <1>5, <2>4, <2>5 DEF MouseState
  <2> QED BY <1>2, <2>6 DEF MouseInv
<1> QED BY <1>6, <1>7

\* A transfer over.
LEMMA EndKeeps ==
    ASSUME BusInv, MouseInv, Bytes!End
    PROVE  MouseInv'
<1> DEFINE t == Head(plan)
           w == BytesWritten
           r == BytesRead
           rest == Tail(plan)
<1>1. PICK f \in Parities : MouseState(queues, data[1], plan, w, r, f)
  BY DEF MouseInv
<1>2. /\ plan # <<>> /\ plan' = rest /\ queues' = queues /\ data'[1] = data[1]
      /\ BytesWritten' = 0 /\ BytesRead' = <<>>
      /\ t.device = Smc => w = Len(t.bytes) /\ ~MoreToRead(t, r)
  BY DEF Bytes!End, Bytes!Answers, Bytes!Smc, Smc, Bytes!Writing, Bytes!MoreToRead, MoreToRead
<1>3. /\ RingWhole(queues, f) /\ r \in Seq(Byte) /\ \A i \in 2 .. Len(plan) : InMode(plan, i)
      /\ OfTransfer(queues, data[1], t, w, r, f)
  BY <1>1, <1>2 DEF MouseState
<1>4. queues \in Queues /\ t \in Transfers /\ plan \in Seq(Transfers)
  BY <1>2, HeldIs, CurrentIs DEF BusInv
<1>5. NoneBegun(queues)
  <2>1. CASE LeavesMouse(t) /\ NoneBegun(queues)
    BY <2>1
  <2>2. CASE ~(LeavesMouse(t) /\ NoneBegun(queues))
    <3>1. PICK op \in {DefaultMouse, DefaultBoth} : TakesPacket(t, op) /\ PacketSoFar(queues, t, r, f)
      BY <1>3, <2>2 DEF OfTransfer
    <3>2. ~MoreToRead(t, r)
      BY <1>2, <3>1 DEF TakesPacket
    <3> QED BY <1>3, <1>4, <3>1, <3>2, PacketEnds
  <2> QED BY <2>1, <2>2
<1>6. /\ rest \in Seq(Transfers) /\ Len(rest) = Len(plan) - 1 /\ Len(plan) \in Nat
      /\ \A i \in 1 .. Len(rest) : rest[i] = plan[i + 1]
      /\ t = plan[1]
  BY <1>2, <1>4
<1>7. \A i \in 2 .. Len(rest) : InMode(rest, i)
  <2> SUFFICES ASSUME NEW i \in 2 .. Len(rest) PROVE InMode(rest, i)
    OBVIOUS
  <2>1. InMode(plan, i + 1)
    <3>1. i + 1 \in 2 .. Len(plan)
      BY <1>6
    <3> QED BY <1>3, <3>1
  <2>2. rest[i] = plan[i + 1] /\ rest[i - 1] = plan[i] /\ (i + 1) - 1 = i
    <3>1. i \in 1 .. Len(rest) /\ i - 1 \in 1 .. Len(rest) /\ (i - 1) + 1 = i /\ (i + 1) - 1 = i
      BY <1>6
    <3> QED BY <1>6, <3>1
  <2> HIDE DEF rest
  <2> QED BY <2>1, <2>2 DEF InMode
<1>8. CASE rest = <<>>
  <2>1. MouseState(queues, data[1], rest, 0, <<>>, f)
    <3>1. <<>> \in Seq(Byte)
      OBVIOUS
    <3> QED BY <1>3, <1>5, <1>7, <1>8, <3>1 DEF MouseState
  <2> QED BY <1>2, <2>1 DEF MouseInv
<1>9. CASE rest # <<>>
  <2> DEFINE v == plan[2]
  <2>1. Head(rest) = v /\ v \in Transfers /\ 2 \in 2 .. Len(plan)
    <3>1. Len(rest) > 0 /\ Len(rest) \in Nat
      BY <1>6, <1>9
    <3>2. 1 \in 1 .. Len(rest) /\ 1 + 1 = 2 /\ 2 \in 1 .. Len(plan)
      BY <1>6, <3>1
    <3>3. Head(rest) = rest[1] /\ rest[1] = plan[2]
      BY <1>6, <1>9, <3>2
    <3> QED BY <1>4, <3>2, <3>3
  <2>2. InMode(plan, 2)
    BY <1>3, <2>1
  <2>3. OfTransfer(queues, data[1], v, 0, <<>>, f)
    <3>1. CASE LeavesMouse(v)
      <4>1. 0 \in 0 .. Len(v.bytes) /\ ~(0 = 1) /\ ~(0 = 2)
        BY <2>1 DEF Transfers
      <4> QED BY <1>5, <3>1, <4>1 DEF OfTransfer
    <3>2. CASE ~LeavesMouse(v)
      <4>1. PICK op \in {DefaultMouse, DefaultBoth} :
              TakesPacket(v, op) /\ (SetsMode(t, op) \/ TakesPacket(t, op))
        <5>1. 2 - 1 = 1
          OBVIOUS
        <5> QED BY <1>6, <2>2, <3>2, <5>1 DEF InMode
      <4>2. data[1] = op /\ queues.op = op
        <5>1. CASE SetsMode(t, op)
          <6>1. t.device = Smc /\ t.bytes = <<SetDefault, op>>
            BY <5>1 DEF SetsMode
          <6>2. Len(t.bytes) = 2 /\ t.bytes[1] = SetDefault /\ t.bytes[2] = op /\ t.bytes # <<>>
            <7>1. /\ Len(<<SetDefault, op>>) = 2 /\ <<SetDefault, op>>[1] = SetDefault
                  /\ <<SetDefault, op>>[2] = op /\ <<SetDefault, op>> # <<>>
              OBVIOUS
            <7> QED BY <6>1, <7>1, Zenon
          <6>3. w = 2
            BY <1>2, <6>1, <6>2
          <6> QED BY <1>3, <6>1, <6>2, <6>3 DEF OfTransfer, TakesPacket
        <5>2. CASE TakesPacket(t, op)
          <6>1. ~LeavesMouse(t)
            <7>1. Len(<<>>) \notin {1, 2}
              OBVIOUS
            <7> QED BY <5>2, <7>1 DEF TakesPacket, LeavesMouse
          <6>2. PICK o \in {DefaultMouse, DefaultBoth} : TakesPacket(t, o) /\ data[1] = o /\ queues.op = o
            BY <1>3, <6>1 DEF OfTransfer
          <6>3. o = op
            BY <5>2, <6>2 DEF TakesPacket
          <6> QED BY <6>2, <6>3
        <5> QED BY <4>1, <5>1, <5>2
      <4>3. PacketSoFar(queues, v, <<>>, f)
        <5>1. v.last \in {1, 2} /\ Len(<<>>) = 0
          BY <4>1 DEF TakesPacket
        <5>2. Len(<<>>) < v.last /\ ~(Len(<<>>) = 1)
          BY <5>1
        <5> QED BY <1>5, <5>1, <5>2 DEF PacketSoFar, NoneBegun
      <4> QED BY <4>1, <4>2, <4>3 DEF OfTransfer
    <3> QED BY <3>1, <3>2
  <2>4. MouseState(queues, data[1], rest, 0, <<>>, f)
    <3>1. <<>> \in Seq(Byte)
      OBVIOUS
    <3> QED BY <1>3, <1>7, <1>9, <2>1, <2>3, <3>1 DEF MouseState
  <2> QED BY <1>2, <2>4 DEF MouseInv
<1> QED BY <1>8, <1>9

\* What a transfer has read stays what it is while the rings get more.
LEMMA OthersKeep ==
    ASSUME NEW q \in Queues, NEW u \in Queues, NEW f \in Parities, NEW g \in Parities,
           u.op = q.op, u.mseCount = q.mseCount, u.mid <=> q.mid,
           q.mseCount # 0 => g[0] = f[0], RingWhole(u, g),
           NEW a, NEW pl \in Seq(Transfers), NEW w, NEW r, MouseState(q, a, pl, w, r, f)
    PROVE  MouseState(u, a, pl, w, r, g)
<1>1. NoneBegun(q) => NoneBegun(u)
  BY DEF NoneBegun
<1>2. ASSUME pl # <<>> PROVE OfTransfer(u, a, Head(pl), w, r, g)
  <2> DEFINE t == Head(pl)
  <2>1. OfTransfer(q, a, t, w, r, f) /\ r \in Seq(Byte)
    BY <1>2 DEF MouseState
  <2>2. CASE LeavesMouse(t) /\ NoneBegun(q)
    <3>1. CASE t.bytes # <<>> \/ t.device # Smc
      BY <1>1, <2>1, <2>2, <3>1 DEF OfTransfer, TakesPacket
    <3>2. CASE t.bytes = <<>> /\ t.device = Smc
      <4>1. Len(<<>>) \notin {1, 2}
        OBVIOUS
      <4> QED BY <2>2, <3>2, <4>1 DEF LeavesMouse
    <3> QED BY <3>1, <3>2
  <2>3. CASE ~(LeavesMouse(t) /\ NoneBegun(q))
    <3>1. PICK op \in {DefaultMouse, DefaultBoth} :
            TakesPacket(t, op) /\ a = op /\ q.op = op /\ w = 0 /\ PacketSoFar(q, t, r, f)
      BY <2>1, <2>3 DEF OfTransfer
    <3>2. t.last \in {1, 2} /\ Len(r) \in Nat
      BY <2>1, <3>1 DEF TakesPacket
    <3>3. PacketSoFar(u, t, r, g)
      <4>1. CASE Len(r) < t.last /\ q.mseCount = 0 /\ (Len(r) = 0 => ~q.mid) /\ (Len(r) = 1 => q.mid)
        BY <4>1 DEF PacketSoFar
      <4>2. CASE Len(r) = t.last /\ r[t.last] = 0 /\ NoneBegun(q)
        BY <1>1, <4>2 DEF PacketSoFar
      <4>3. CASE /\ Len(r) \in t.last .. t.last + 3
                 /\ q.mseCount = IF Len(r) = t.last + 3 THEN 0 ELSE Len(r) - t.last + 1
                 /\ t.last = 1 \/ Len(r) = t.last + 3 => ~q.mid
                 /\ t.last = 2 /\ Len(r) < t.last + 3 => q.mid
                 /\ \E p \in {0, 1} :
                      /\ \A i \in t.last .. Len(r) : r[i] = 8 + 16 * (i - t.last) + p
                      /\ Len(r) < t.last + 3 => f[0] = p
        <5>1. Len(r) < t.last + 3 => q.mseCount # 0
          BY <3>2, <4>3
        <5>2. \E p \in {0, 1} :
                      /\ \A i \in t.last .. Len(r) : r[i] = 8 + 16 * (i - t.last) + p
                      /\ Len(r) < t.last + 3 => g[0] = p
          <6>1. PICK p \in {0, 1} :
                      /\ \A i \in t.last .. Len(r) : r[i] = 8 + 16 * (i - t.last) + p
                      /\ Len(r) < t.last + 3 => f[0] = p
            BY <4>3
          <6>2. Len(r) < t.last + 3 => g[0] = p
            BY <5>1, <6>1
          <6> QED BY <6>1, <6>2, Zenon
        <5>3. u.mseCount = IF Len(r) = t.last + 3 THEN 0 ELSE Len(r) - t.last + 1
          BY <4>3
        <5>4. (t.last = 1 \/ Len(r) = t.last + 3 => ~u.mid) /\ (t.last = 2 /\ Len(r) < t.last + 3 => u.mid)
          BY <4>3
        <5> QED BY <4>3, <5>2, <5>3, <5>4, Zenon DEF PacketSoFar
      <4> QED BY <3>1, <4>1, <4>2, <4>3, Zenon DEF PacketSoFar
    <3> QED BY <3>1, <3>3 DEF OfTransfer
  <2> QED BY <2>2, <2>3
<1> QED BY <1>1, <1>2 DEF MouseState

\* A key typed, the mouse moved, and a reset that finds no packet begun.
LEMMA OutsideKeeps ==
    ASSUME BusInv, MouseInv, BusInv',
           Bytes!KeyTyped \/ Bytes!MouseMoved \/ (Bytes!Reset /\ NoneBegun(queues))
    PROVE  MouseInv'
<1>1. PICK f \in Parities : MouseState(queues, data[1], plan, BytesWritten, BytesRead, f)
  BY DEF MouseInv
<1>2. queues \in Queues /\ plan \in Seq(Transfers) /\ parity \in {0, 1} /\ queues' \in Queues
  BY DEF BusInv, BusTypes
<1>3. RingWhole(queues, f)
  BY <1>1 DEF MouseState
<1>4. CASE Bytes!KeyTyped
  <2>1. PICK key \in Keys : queues' = KeyEvent(queues, key)
    BY <1>4, SameAnswers DEF Bytes!KeyTyped
  <2>2. /\ plan' = plan /\ data'[1] = data[1] /\ BytesWritten' = BytesWritten /\ BytesRead' = BytesRead
    BY <1>4 DEF Bytes!KeyTyped
  <2>3. /\ queues'.mse = queues.mse /\ queues'.mseCount = queues.mseCount /\ queues'.mouse = queues.mouse
        /\ queues'.op = queues.op /\ (queues'.mid <=> queues.mid)
    BY <1>2, <2>1 DEF KeyEvent, Queues
  <2>4. RingWhole(queues', f)
    BY <1>3, <2>3, RingAlone
  <2>5. MouseState(queues', data[1], plan, BytesWritten, BytesRead, f)
    BY <1>1, <1>2, <2>3, <2>4, OthersKeep
  <2> QED BY <2>2, <2>5 DEF MouseInv
<1>5. CASE Bytes!MouseMoved
  <2>1. queues' = MouseEvent(queues, parity)
    BY <1>5, SameAnswers DEF Bytes!MouseMoved
  <2>2. /\ plan' = plan /\ data'[1] = data[1] /\ BytesWritten' = BytesWritten /\ BytesRead' = BytesRead
    BY <1>5 DEF Bytes!MouseMoved
  <2>3. /\ queues'.op = queues.op /\ queues'.mseCount = queues.mseCount /\ (queues'.mid <=> queues.mid)
        /\ \E g \in Parities : RingWhole(queues', g) /\ (queues.mseCount # 0 => g[0] = f[0])
    BY <1>2, <1>3, <2>1, MotionIs
  <2>4. PICK g \in Parities : RingWhole(queues', g) /\ (queues.mseCount # 0 => g[0] = f[0])
    BY <2>3
  <2>5. MouseState(queues', data[1], plan, BytesWritten, BytesRead, g)
    BY <1>1, <1>2, <2>3, <2>4, OthersKeep
  <2> QED BY <2>2, <2>5 DEF MouseInv
<1>6. CASE Bytes!Reset /\ NoneBegun(queues)
  <2>1. queues' = Flushed(queues)
    BY <1>6, SameAnswers DEF Bytes!Reset
  <2>2. plan' = <<>> /\ BytesWritten' = 0 /\ BytesRead' = <<>>
    BY <1>6 DEF Bytes!Reset
  <2>3. /\ queues'.mse = <<>> /\ queues'.mseCount = queues.mseCount /\ queues'.mouse = queues.mouse
        /\ (queues'.mid <=> queues.mid)
    BY <1>2, <2>1 DEF Flushed, Queues
  <2>4. queues.mseCount = 0 /\ ~queues.mid /\ queues.mouse = 3
    BY <1>3, <1>6 DEF NoneBegun, RingWhole
  <2>5. RingWhole(queues', f)
    <3>1. Len(<<>>) = 0 /\ 0 + 0 = 4 * 0 /\ 0 \in Nat /\ 0 \in 0 .. 3 /\ \A i : i \notin 1 .. 0
      OBVIOUS
    <3> QED BY <2>3, <2>4, <3>1 DEF RingWhole
  <2>6. MouseState(queues', data'[1], <<>>, 0, <<>>, f)
    <3>1. <<>> \in Seq(Byte) /\ Len(<<>>) = 0 /\ \A i : i \notin 2 .. 0
      OBVIOUS
    <3> QED BY <2>3, <2>4, <2>5, <3>1 DEF MouseState, NoneBegun
  <2> QED BY <2>2, <2>6 DEF MouseInv
<1> QED BY <1>4, <1>5, <1>6

\* The end of what was read.
LEMMA PartIs ==
    ASSUME NEW s \in Seq(Nat), NEW l \in 1 .. Len(s)
    PROVE  /\ SubSeq(s, l, Len(s)) \in Seq(Nat) /\ Len(SubSeq(s, l, Len(s))) = Len(s) - l + 1
           /\ \A i \in 1 .. Len(s) - l + 1 : SubSeq(s, l, Len(s))[i] = s[l + i - 1]
<1>1. \A i \in l .. Len(s) : s[i] \in Nat
  OBVIOUS
<1>2. SubSeq(s, l, Len(s)) \in Seq(Nat)
  BY <1>1
<1>3. Len(SubSeq(s, l, Len(s))) = Len(s) - l + 1
  OBVIOUS
<1>4. ASSUME NEW i \in 1 .. Len(s) - l + 1 PROVE SubSeq(s, l, Len(s))[i] = s[l + i - 1]
  OBVIOUS
<1> QED BY <1>2, <1>3, <1>4

\* The first elements of a sequence.
LEMMA FirstOf ==
    ASSUME NEW s \in Seq(Nat), NEW y \in 1 .. Len(s)
    PROVE  /\ SubSeq(s, 1, y) \in Seq(Nat) /\ Len(SubSeq(s, 1, y)) = y
           /\ \A i \in 1 .. y : SubSeq(s, 1, y)[i] = s[i]
<1>1. \A i \in 1 .. y : s[i] \in Nat
  OBVIOUS
<1>2. SubSeq(s, 1, y) \in Seq(Nat)
  BY <1>1
<1>3. Len(SubSeq(s, 1, y)) = y
  OBVIOUS
<1>4. ASSUME NEW i \in 1 .. y PROVE SubSeq(s, 1, y)[i] = s[i]
  OBVIOUS
<1> QED BY <1>2, <1>3, <1>4

\* Sequences with the same elements are the same.
LEMMA SameElements ==
    ASSUME NEW a \in Seq(Nat), NEW b \in Seq(Nat), Len(a) = Len(b), \A i \in 1 .. Len(a) : a[i] = b[i]
    PROVE  a = b
OBVIOUS

\* A place in the packet is one of what the guest has.
LEMMA PlaceInPart ==
    ASSUME NEW n \in Nat, NEW l \in 1 .. n, NEW z \in n .. n + 1, NEW m \in 1 .. 4, m = n - l + 1,
           NEW i \in 1 .. m
    PROVE  l + i - 1 \in 1 .. n /\ l + i - 1 \in l .. z /\ i \in 1 .. n - l + 1 /\ i \in 1 .. 4
OBVIOUS

\* The invariant and a packet in the guest's hands.
LEMMA MouseWhole == ASSUME BusInv, MouseInv PROVE PacketsWhole
<1> SUFFICES ASSUME plan # <<>>, Head(plan).last \in 1 .. Len(got)
             PROVE  LET bytes == SubSeq(got, Head(plan).last, Len(got))
                    IN  \/ bytes = <<0>>
                        \/ \E p \in {0, 1} : bytes = SubSeq(Packet(p, PacketSize(queues)), 1, Len(bytes))
  BY DEF PacketsWhole
<1> DEFINE t == Head(plan)
           l == t.last
           r == BytesRead
           n == Len(got)
           part == SubSeq(got, l, n)
<1>1. PICK f \in Parities : MouseState(queues, data[1], plan, BytesWritten, r, f)
  BY DEF MouseInv
<1>2. /\ RingWhole(queues, f) /\ r \in Seq(Byte) /\ OfTransfer(queues, data[1], t, BytesWritten, r, f)
  BY <1>1 DEF MouseState
<1>3. got \in Seq(Nat) /\ n \in Nat /\ l \in 1 .. n
  BY DEF BusInv, BusTypes
<1>4. Len(r) \in n .. n + 1 /\ \A i \in 1 .. n : r[i] = got[i]
  <2>1. CASE r = got
    BY <1>3, <2>1
  <2>2. CASE r # got
    <3>1. r = Append(got, ByteInTransit)
      BY <2>2 DEF BytesRead
    <3> HIDE DEF r
    <3> QED BY <1>3, <3>1
  <2> QED BY <2>1, <2>2
<1> HIDE DEF r
<1>5. r # <<>>
  BY <1>2, <1>3, <1>4
<1>6. PICK op \in {DefaultMouse, DefaultBoth} : TakesPacket(t, op) /\ PacketSoFar(queues, t, r, f)
  <2>1. ~LeavesMouse(t) \/ t.device # Smc
    BY <1>3 DEF LeavesMouse
  <2> QED BY <1>2, <1>5, <2>1 DEF OfTransfer
<1>7. PacketSize(queues) = 4
  BY <1>2 DEF RingWhole, PacketSize
<1>8. part \in Seq(Nat) /\ Len(part) = n - l + 1 /\ \A i \in 1 .. n - l + 1 : part[i] = got[l + i - 1]
  BY <1>3, PartIs
<1> HIDE DEF part
<1>9. ~(Len(r) < l)
  BY <1>3, <1>4
<1>10. CASE Len(r) = l /\ r[l] = 0
  <2>1. n = l /\ got[l] = 0
    BY <1>3, <1>4, <1>10
  <2>2. Len(part) = 1 /\ part[1] = 0
    <3>1. n - l + 1 = 1 /\ 1 \in 1 .. 1 /\ l + 1 - 1 = l
      BY <1>3, <2>1
    <3> QED BY <1>8, <2>1, <3>1, Zenon
  <2>3. part = <<0>>
    BY <1>8, <2>2
  <2> QED BY <2>3 DEF part
<1>11. CASE ~(Len(r) = l /\ r[l] = 0)
  <2>1. PICK p \in {0, 1} :
          /\ Len(r) \in l .. l + 3
          /\ \A i \in l .. Len(r) : r[i] = 8 + 16 * (i - l) + p
    BY <1>6, <1>9, <1>11 DEF PacketSoFar
  <2> DEFINE d == Packet(p, 4)
             m == Len(part)
             first == SubSeq(d, 1, m)
  <2>2. d \in Seq(Nat) /\ Len(d) = 4 /\ \A i \in 1 .. 4 : d[i] = 8 + 16 * (i - 1) + p
    BY <2>1, PacketIs
  <2> HIDE DEF d
  <2>3. m \in 1 .. 4 /\ m = n - l + 1
    <3>1. \A x \in Nat : \A y \in 1 .. x : \A z \in x .. x + 1 : z \in y .. y + 3 => x - y + 1 \in 1 .. 4
      OBVIOUS
    <3>2. Len(r) \in n .. n + 1 /\ Len(r) \in l .. l + 3
      BY <1>4, <2>1
    <3>3. n - l + 1 \in 1 .. 4
      BY <1>3, <3>1, <3>2, Zenon
    <3> QED BY <1>8, <3>3
  <2>4. first \in Seq(Nat) /\ Len(first) = m /\ \A i \in 1 .. m : first[i] = d[i]
    <3>1. PICK y \in 1 .. 4 : y = m
      BY <2>3
    <3>2. d \in Seq(Nat) /\ y \in 1 .. Len(d)
      BY <2>2, <3>1
    <3>3. SubSeq(d, 1, y) \in Seq(Nat) /\ Len(SubSeq(d, 1, y)) = y /\ \A i \in 1 .. y : SubSeq(d, 1, y)[i] = d[i]
      BY <3>2, FirstOf
    <3> QED BY <3>1, <3>3
  <2> HIDE DEF first
  <2>5. ASSUME NEW i \in 1 .. m PROVE part[i] = first[i]
    <3>1. l + i - 1 \in 1 .. n /\ l + i - 1 \in l .. Len(r) /\ i \in 1 .. n - l + 1 /\ i \in 1 .. 4
      <4>1. \A x \in Nat : \A y \in 1 .. x : \A z \in x .. x + 1 : \A k \in 1 .. 4 :
              k = x - y + 1 => \A j \in 1 .. k :
                 y + j - 1 \in 1 .. x /\ y + j - 1 \in y .. z /\ j \in 1 .. x - y + 1 /\ j \in 1 .. 4
        BY PlaceInPart
      <4> QED BY <1>3, <1>4, <2>3, <4>1, Zenon
    <3>2. part[i] = r[l + i - 1]
      BY <1>4, <1>8, <3>1
    <3>3. r[l + i - 1] = 8 + 16 * ((l + i - 1) - l) + p
      BY <2>1, <3>1
    <3>4. (l + i - 1) - l = i - 1
      BY <1>3
    <3> QED BY <2>2, <2>4, <3>1, <3>2, <3>3, <3>4
  <2>6. part = first
    <3>1. part \in Seq(Nat) /\ Len(part) = Len(first)
      BY <1>8, <2>4
    <3>2. \A i \in 1 .. Len(part) : part[i] = first[i]
      BY <2>5
    <3> QED BY <2>4, <3>1, <3>2, SameElements
  <2> QED BY <1>7, <2>6 DEF part, first, d
<1> QED BY <1>10, <1>11

\* What the guest has of a packet is its bytes in their order, or a single zero
\* where there was none (smc.c mse_count, i2c.c mouse_send).
THEOREM PacketsStayWhole ==
    ASSUME PoliteGuests, MouseGuests, ResetsBetween PROVE SmcSpec => []PacketsWhole
<1>1. SmcInit => BusInv /\ MouseInv
  <2>1. SUFFICES ASSUME SmcInit PROVE BusInv /\ MouseInv
    OBVIOUS
  <2>2. /\ queues = AtPowerOn /\ plan = <<>> /\ BytesWritten = 0 /\ BytesRead = <<>>
    BY <2>1 DEF SmcInit, BytesWritten, BytesRead, InTransit, Receiving, AtRest, NotStarted
  <2> DEFINE f == [j \in Nat |-> 0]
  <2>3. f \in Parities
    BY DEF Parities
  <2> HIDE DEF f
  <2>4. RingWhole(AtPowerOn, f)
    <3>1. AtPowerOn.mse = <<>> /\ AtPowerOn.mseCount = 0 /\ AtPowerOn.mouse = 3
      BY DEF AtPowerOn
    <3>2. Len(<<>>) = 0 /\ 0 + 0 = 4 * 0 /\ 0 \in Nat /\ 0 \in 0 .. 3 /\ \A i : i \notin 1 .. 0
      OBVIOUS
    <3> QED BY <3>1, <3>2 DEF RingWhole
  <2>5. MouseState(AtPowerOn, data[1], <<>>, 0, <<>>, f)
    <3>1. <<>> \in Seq(Byte) /\ Len(<<>>) = 0 /\ \A i : i \notin 2 .. 0
      OBVIOUS
    <3>2. NoneBegun(AtPowerOn)
      BY DEF NoneBegun, AtPowerOn
    <3> QED BY <2>4, <3>1, <3>2 DEF MouseState
  <2> QED BY <2>1, <2>2, <2>3, <2>5, BusStart DEF MouseInv
<1>2. BusInv /\ MouseInv /\ [SmcNext]_smcVars => (BusInv /\ MouseInv)'
  <2> SUFFICES ASSUME BusInv, MouseInv, [SmcNext]_smcVars PROVE BusInv' /\ MouseInv'
    OBVIOUS
  <2>1. BusInv' /\ ShownBytes
    BY SmcStep
  <2>2. CASE Bytes!Begin
    BY <2>1, <2>2, BeginKeeps
  <2>3. CASE Bytes!WriteByte
    BY <2>1, <2>3, WriteKeeps
  <2>4. CASE Bytes!ReadByte
    BY <2>1, <2>4, ReadKeeps
  <2>5. CASE Bytes!End
    BY <2>1, <2>5, EndKeeps
  <2>6. CASE Bytes!KeyTyped \/ Bytes!MouseMoved \/ (Bytes!Reset /\ queues.mseCount = 0 /\ ~queues.mid)
    BY <2>1, <2>6, OutsideKeeps DEF NoneBegun
  <2>7. CASE UNCHANGED Bytes!protocolVars
    BY <2>1, <2>7 DEF MouseInv, Bytes!protocolVars
  <2> QED BY <2>1, <2>2, <2>3, <2>4, <2>5, <2>6, <2>7 DEF ShownBytes
<1>3. BusInv /\ MouseInv => PacketsWhole
  BY MouseWhole
<1> QED BY <1>1, <1>2, <1>3, PTL DEF SmcSpec
=============================================================================
