--------------------------- MODULE TrackerProofs ---------------------------
(***************************************************************************)
(* Proofs about what the debugger learns of the guest by following it.     *)
(*                                                                         *)
(* IrqContext, for every array size, depth limit and stack: the inductive  *)
(* invariant adds to the checked ones that a running handler's frame lies  *)
(* above the stack pointer.                                                *)
(*                                                                         *)
(* Recorders, for all captures and all shortages: what every claim and     *)
(* switch is, running or not, and after an arming that failed half-way.    *)
(*                                                                         *)
(* ProfileTree, for any guest and any sizes: which frames are open, that   *)
(* each routine on the stack has one, and that every clock of a path is in *)
(* its nodes' account once and in its calls' account once.                 *)
(*                                                                         *)
(* DebugLoad, for any files with any extents: which modules' records there *)
(* are, and that no module in the registry overlaps another.  HostFs, for  *)
(* any guest: that a load being collected is one run of bytes.             *)
(***************************************************************************)
EXTENDS IrqContext, ProfileTree, Recorders, HostFs, SublistProofs

-----------------------------------------------------------------------------
(* The interrupt context.                                                  *)

LiveOnStack == \A h \in live : h > sp

IInv ==
    /\ TypeOK
    /\ Decreasing
    /\ LiveAccountedFor
    /\ LiveOnStack

USE SizeAssumption DEF SizeAssumption, Sp

\* The tracker starts with nothing open.
LEMMA InitIInv == Init => IInv
<1> SUFFICES ASSUME Init PROVE IInv
    OBVIOUS
<1>1. justEntered \in BOOLEAN
    BY DEF Init
<1>2. TypeOK
    BY <1>1 DEF Init, TypeOK
<1>3. Recorded = 0 /\ live = {}
    BY DEF Init, Recorded
<1>4. QED
    BY <1>2, <1>3 DEF IInv, Decreasing, LiveAccountedFor, LiveOnStack

\* What the retirement loop leaves: everything kept lies above the pointer, and
\* everything dropped does not.
LEMMA RetiresToBounds ==
    ASSUME TypeOK, Decreasing, NEW s \in Sp, NEW d \in 0 .. depth, RetiresTo(d, s)
    PROVE  \A i \in 0 .. CtxMax - 1 : i < Recorded => (frames[i] > s <=> i < d)
<1>1. SUFFICES ASSUME NEW i \in 0 .. CtxMax - 1, i < Recorded
               PROVE  frames[i] > s <=> i < d
    OBVIOUS
<1>2. frames[i] \in Nat /\ depth \in Nat /\ d \in Nat
    BY DEF TypeOK
<1>3. CASE i < d
    <2> DEFINE top == (IF d < CtxMax THEN d ELSE CtxMax) - 1
    <2>1. top \in 0 .. CtxMax - 1 /\ i <= top /\ top < Recorded
        BY <1>1, <1>2, <1>3 DEF Recorded
    <2>2. frames[top] > s /\ frames[top] \in Nat
        BY <1>2, <1>3, <2>1 DEF RetiresTo, TypeOK
    <2>3. frames[i] >= frames[top]
        BY <1>2, <2>1, <2>2 DEF Decreasing
    <2>4. QED
        BY <1>2, <1>3, <2>2, <2>3
<1>4. CASE ~(i < d)
    BY <1>1, <1>2, <1>4 DEF RetiresTo
<1>5. QED
    BY <1>3, <1>4

\* An interrupt keeps the invariant.
LEMMA InterruptIInv == IInv /\ Interrupt => IInv'
<1> SUFFICES ASSUME IInv, Interrupt PROVE IInv'
    OBVIOUS
<1> USE DEF IInv
<1>1. PICK d \in 0 .. depth :
        /\ RetiresTo(d, sp)
        /\ frames' = IF d < CtxMax THEN [frames EXCEPT ![d] = sp] ELSE frames
        /\ depth' = IF d < DepthMax THEN d + 1 ELSE d
        /\ justEntered' = TRUE
    BY DEF Interrupt, TrackEnter
<1>2. sp \in Nat /\ sp > 0 /\ sp' = sp - 1 /\ live' = live \cup {sp} /\ sp \in Sp
    BY DEF Interrupt, TypeOK
<1>3. depth \in Nat /\ d \in Nat /\ d <= depth /\ depth <= DepthMax
    BY DEF TypeOK
<1>4. \A i \in 0 .. CtxMax - 1 : i < Recorded => (frames[i] > sp <=> i < d)
    BY <1>1, <1>2, RetiresToBounds
<1>5. TypeOK'
    BY <1>1, <1>2, <1>3 DEF TypeOK
<1>6. \A i \in 0 .. CtxMax - 1 : i < Recorded' /\ i # d => i < d /\ i < Recorded /\ frames'[i] = frames[i]
    BY <1>1, <1>3 DEF Recorded, TypeOK
<1>7. d < CtxMax => frames'[d] = sp /\ d < Recorded' /\ d \in 0 .. CtxMax - 1
    BY <1>1, <1>3 DEF Recorded, TypeOK
<1>8. Decreasing'
    <2> SUFFICES ASSUME NEW i \in 0 .. CtxMax - 1, NEW j \in 0 .. CtxMax - 1,
                        i < j, j < Recorded'
                 PROVE  frames'[i] > frames'[j]
        BY DEF Decreasing
    <2>1. i < Recorded' /\ Recorded' \in Nat
        BY <1>1, <1>3 DEF Recorded
    <2>2. CASE j = d
        BY <1>4, <1>6, <1>7, <2>1, <2>2
    <2>3. CASE j # d
        <3>1. i # d
            BY <1>3, <1>6, <2>3
        <3>2. QED
            BY <1>6, <2>1, <2>3, <3>1 DEF Decreasing
    <2>4. QED
        BY <2>2, <2>3
<1>9. LiveAccountedFor'
    <2> SUFFICES ASSUME NEW h \in live'
                 PROVE  \/ \E i \in 0 .. CtxMax - 1 : i < Recorded' /\ frames'[i] = h
                        \/ depth' >= CtxMax /\ frames'[CtxMax - 1] > h
        BY DEF LiveAccountedFor
    <2>1. CASE h = sp
        <3>1. CASE d < CtxMax
            BY <1>7, <2>1, <3>1
        <3>2. CASE d >= CtxMax
            <4>1. CtxMax - 1 \in 0 .. CtxMax - 1 /\ CtxMax - 1 < Recorded /\ CtxMax - 1 < d
                BY <1>3, <3>2 DEF Recorded
            <4>2. frames[CtxMax - 1] > sp
                BY <1>4, <4>1
            <4>3. QED
                BY <1>1, <1>3, <2>1, <3>2, <4>2
        <3>3. QED
            BY <1>3, <3>1, <3>2
    <2>2. CASE h # sp
        <3>1. h \in live /\ h > sp /\ h \in Nat
            BY <1>2, <2>2 DEF LiveOnStack, TypeOK
        <3>2. CASE \E i \in 0 .. CtxMax - 1 : i < Recorded /\ frames[i] = h
            <4>1. PICK i \in 0 .. CtxMax - 1 : i < Recorded /\ frames[i] = h
                BY <3>2
            <4>2. i < d
                BY <1>4, <3>1, <4>1
            <4>3. i < Recorded' /\ frames'[i] = h
                BY <1>1, <1>3, <4>1, <4>2 DEF Recorded, TypeOK
            <4>4. QED
                BY <4>3
        <3>3. CASE depth >= CtxMax /\ frames[CtxMax - 1] > h
            <4>1. CtxMax - 1 \in 0 .. CtxMax - 1 /\ CtxMax - 1 < Recorded
                BY <1>3, <3>3 DEF Recorded
            <4>2. frames[CtxMax - 1] \in Nat
                BY <4>1 DEF TypeOK
            <4>3. CtxMax - 1 < d
                BY <1>2, <1>4, <3>1, <3>3, <4>1, <4>2
            <4>4. QED
                BY <1>1, <1>3, <3>3, <4>3
        <3>4. QED
            BY <3>1, <3>2, <3>3 DEF LiveAccountedFor
    <2>3. QED
        BY <2>1, <2>2
<1>10. LiveOnStack'
    BY <1>2 DEF LiveOnStack, TypeOK
<1>11. QED
    BY <1>5, <1>8, <1>9, <1>10

\* A return keeps the invariant: the frames it closes belong to no handler
\* that is still running.
LEMMA RtiIInv == IInv /\ Rti => IInv'
<1> SUFFICES ASSUME IInv, Rti PROVE IInv'
    OBVIOUS
<1> USE DEF IInv
<1>1. /\ sp \in Nat
      /\ sp' = sp + 1
      /\ sp' \in Sp
      /\ live' = {h \in live : h > sp + 1}
      /\ frames' = frames
    BY DEF Rti, TrackLeave, StillOnStack, TypeOK
<1>0. /\ frames' \in [0 .. CtxMax - 1 -> Sp]
      /\ justEntered' \in BOOLEAN
      /\ sp' \in Sp
      /\ live' \subseteq Sp
    BY <1>1, Zenon DEF Rti, TrackLeave, TypeOK
<1>2. depth \in Nat /\ depth <= DepthMax
    BY DEF TypeOK
<1>3. LiveOnStack' /\ live' \subseteq live
    BY <1>1 DEF LiveOnStack
<1>4. CASE depth' = depth
    BY <1>0, <1>1, <1>3, <1>4 DEF TypeOK, Decreasing, LiveAccountedFor, Recorded
<1>5. CASE depth > CtxMax /\ depth' = depth - 1
    <2>1. Recorded' = Recorded /\ depth' >= CtxMax
        BY <1>2, <1>5 DEF Recorded
    <2>2. TypeOK'
        <3>1. depth' \in 0 .. DepthMax
            BY <1>2, <1>5
        <3>2. QED
            BY <1>0, <3>1, Zenon DEF TypeOK
    <2>3. QED
        BY <1>1, <1>3, <2>1, <2>2 DEF Decreasing, LiveAccountedFor
<1>6. CASE depth \in 1 .. CtxMax /\ \E i \in Matching(sp + 1) : depth' = i
    <2>1. PICK i \in 0 .. CtxMax - 1 : i < depth /\ frames[i] = sp + 1 /\ depth' = i
        BY <1>6 DEF Matching
    <2>2. Recorded = depth /\ Recorded' = i
        BY <1>2, <1>6, <2>1 DEF Recorded
    <2>3. TypeOK'
        <3>1. depth' \in 0 .. DepthMax
            BY <1>2, <2>1
        <3>2. QED
            BY <1>0, <3>1, Zenon DEF TypeOK
    <2>4. Decreasing'
        BY <1>1, <1>2, <2>1, <2>2 DEF Decreasing
    <2>5. LiveAccountedFor'
        <3> SUFFICES ASSUME NEW h \in live'
                     PROVE  \E k \in 0 .. CtxMax - 1 : k < Recorded' /\ frames'[k] = h
            BY DEF LiveAccountedFor
        <3>1. h \in live /\ h > sp + 1 /\ h \in Nat
            BY <1>1 DEF TypeOK
        <3>2. CASE \E k \in 0 .. CtxMax - 1 : k < Recorded /\ frames[k] = h
            <4>1. PICK k \in 0 .. CtxMax - 1 : k < Recorded /\ frames[k] = h
                BY <3>2
            <4>2. k < i
                BY <1>1, <2>1, <2>2, <3>1, <4>1 DEF Decreasing
            <4>3. QED
                BY <1>1, <2>2, <4>1, <4>2
        <3>3. CASE depth >= CtxMax /\ frames[CtxMax - 1] > h
            <4>1. CtxMax - 1 \in 0 .. CtxMax - 1 /\ CtxMax - 1 < Recorded
                BY <1>2, <3>3 DEF Recorded
            <4>2. frames[CtxMax - 1] \in Nat /\ frames[i] \in Nat
                BY <4>1 DEF TypeOK
            <4>3. frames[CtxMax - 1] <= frames[i]
                BY <2>1, <4>1, <4>2 DEF Decreasing
            <4>4. QED
                BY <1>1, <2>1, <3>1, <3>3, <4>2, <4>3
        <3>4. QED
            BY <3>1, <3>2, <3>3 DEF LiveAccountedFor
    <2>6. QED
        BY <1>3, <2>3, <2>4, <2>5
<1>7. QED
    BY <1>1, <1>2, <1>4, <1>5, <1>6 DEF Rti, TrackLeave

\* Every step keeps the invariant.
LEMMA NextIInv == IInv /\ [Next]_vars => IInv'
<1> SUFFICES ASSUME IInv, [Next]_vars PROVE IInv'
    OBVIOUS
<1>1. CASE Interrupt
    BY <1>1, InterruptIInv
<1>2. CASE Rti
    BY <1>2, RtiIInv
<1>3. CASE MoveStack
    <2>1. /\ UNCHANGED <<frames, depth, justEntered>>
          /\ sp' \in Sp
          /\ live' = {h \in live : h > sp'}
        BY <1>3 DEF MoveStack, tracker, StillOnStack
    <2>2. TypeOK'
        BY <2>1, Zenon DEF IInv, TypeOK
    <2>3. QED
        BY <2>1, <2>2 DEF IInv, Decreasing, LiveAccountedFor, LiveOnStack, Recorded
<1>4. CASE Reset
    <2>1. TypeOK'
        <3>1. justEntered' \in BOOLEAN
            BY <1>4 DEF Reset
        <3>2. QED
            BY <1>4, <3>1 DEF Reset, TypeOK
    <2>2. Recorded' = 0 /\ live' = {}
        BY <1>4 DEF Reset, Recorded
    <2>3. QED
        BY <2>1, <2>2 DEF IInv, Decreasing, LiveAccountedFor, LiveOnStack
<1>5. CASE TakeEnteredFlag
    BY <1>5 DEF TakeEnteredFlag, IInv, TypeOK, Decreasing, LiveAccountedFor,
                LiveOnStack, Recorded
<1>6. CASE UNCHANGED vars
    BY <1>6 DEF vars, IInv, TypeOK, Decreasing, LiveAccountedFor, LiveOnStack, Recorded
<1>7. QED
    BY <1>1, <1>2, <1>3, <1>4, <1>5, <1>6 DEF Next

\* The invariant always holds.
LEMMA SpecIInv == Spec => []IInv
    BY InitIInv, NextIInv, PTL DEF Spec

-----------------------------------------------------------------------------

\* The tracker's state stays in its C types' ranges, the saturated depth
\* included (irq_ctx.c, CPU_IRQ_DEPTH_MAX).
THEOREM TypeCorrect == Spec => []TypeOK
    BY SpecIInv, PTL DEF IInv

\* Open frames are strictly decreasing in the stack pointer, the fact
\* cpu_irq_ctx_leave's exact match relies on.
THEOREM FramesDecrease == Spec => []Decreasing
    BY SpecIInv, PTL DEF IInv

\* No running handler is ever lost from the record, whatever the guest does to
\* its stack below the handler's frame.
THEOREM LiveHandlersRecorded == Spec => []LiveAccountedFor
    BY SpecIInv, PTL DEF IInv

\* cpu_in_interrupt() never answers no while a handler is running.
THEOREM InInterruptNeverTooLow == Spec => []NeverTooLow
<1>1. IInv => NeverTooLow
    <2> SUFFICES ASSUME IInv, NEW h \in live PROVE depth > 0
        BY DEF NeverTooLow
    <2>1. depth \in Nat /\ CtxMax \in Nat \ {0}
        BY DEF IInv, TypeOK
    <2>2. CASE \E i \in 0 .. CtxMax - 1 : i < Recorded /\ frames[i] = h
        BY <2>1, <2>2 DEF Recorded
    <2>3. CASE depth >= CtxMax
        BY <2>1, <2>3
    <2>4. QED
        BY <2>2, <2>3 DEF IInv, LiveAccountedFor
<1>2. QED
    BY <1>1, SpecIInv, PTL

\* A balanced return from a recorded handler closes exactly the frames nested
\* inside it.
THEOREM ReturnUnwinds == Spec => BalancedReturnUnwinds
<1> DEFINE Act == Rti /\ depth <= CtxMax =>
                    \A i \in 0 .. CtxMax - 1 :
                        i < depth /\ frames[i] = sp' => depth' = i
<1>1. IInv /\ [Next]_vars => [Act]_vars
    <2> SUFFICES ASSUME IInv, Rti, depth <= CtxMax,
                        NEW i \in 0 .. CtxMax - 1, i < depth, frames[i] = sp'
                 PROVE  depth' = i
        OBVIOUS
    <2>1. sp \in Nat /\ sp' = sp + 1 /\ depth \in Nat
        BY DEF Rti, IInv, TypeOK
    <2>2. \A j \in Matching(sp + 1) : j = i
        BY <2>1 DEF Matching, IInv, TypeOK, Decreasing, Recorded
    <2>3. i \in Matching(sp + 1)
        BY <2>1 DEF Matching
    <2>4. QED
        BY <2>1, <2>2, <2>3 DEF Rti, TrackLeave
<1>2. QED
    BY <1>1, SpecIInv, PTL DEF BalancedReturnUnwinds, Spec

HIDE SizeAssumption DEF SizeAssumption, Sp

-----------------------------------------------------------------------------
(* The profiler's recorders.                                               *)

Times == {"before", "during"}
History == [frames : Seq(SUBSET Times), open : SUBSET Times]
Rec == [on : [Claimed -> BOOLEAN], wants : [Claimed -> SUBSET Owner],
        hist : BOOLEAN, histWas : BOOLEAN, tree : BOOLEAN, taps : BOOLEAN, lent : BOOLEAN,
        ready : SUBSET Recorder, history : History]

\* What a capture with this mask needs of the claimed recorders.
Needs(mask, x) ==
    \/ x = "budget" /\ mask \cap {"budget", "waterfall"} # {}
    \/ x = "bandwidth" /\ "vram" \in mask

\* The claims are those of who wants them, a capture's while it runs.
ClaimsFollow(r, running, mask) ==
    \A x \in Claimed :
        /\ r.on[x] => r.wants[x] # {}
        /\ "capture" \in r.wants[x] <=> running /\ Needs(mask, x)
        /\ running /\ Needs(mask, x) => r.on[x]

\* What only captures use is on while one that asked for it runs.
OwnFollow(r, running, mask) ==
    /\ r.tree <=> running /\ "tree" \in mask
    /\ r.taps <=> running /\ "waterfall" \in mask
    /\ r.lent <=> running /\ "waterfall" \in mask /\ "budget" \notin mask

\* The histogram is the capture's while it runs, and the client's otherwise.
HistFollows(r, running, mask, who) ==
    /\ r.hist <=> (running /\ "hist" \in mask) \/ "hist" \in who
    /\ running /\ "hist" \in mask => (r.histWas <=> "hist" \in who)
    /\ "hist" \in who => "hist" \in r.ready

Follows(r, running, mask) ==
    /\ r \in Rec
    /\ ClaimsFollow(r, running, mask)
    /\ OwnFollow(r, running, mask)

\* A claim or its end changes its own recorder and the budget's history,
\* nothing else.
Turned(t, r, x, wants, fails) ==
    /\ t \in Rec
    /\ t.wants[x] = wants
    /\ t.on[x] <=> wants # {} /\ (r.on[x] \/ x \notin fails)
    /\ \A y \in Claimed \ {x} : t.wants[y] = r.wants[y] /\ t.on[y] = r.on[y]
    /\ t.hist = r.hist /\ t.histWas = r.histWas /\ t.tree = r.tree /\ t.taps = r.taps
    /\ t.lent = r.lent /\ t.ready = r.ready
    /\ t.history = IF x = "budget" /\ t.on[x] # r.on[x] THEN NoHistory ELSE r.history

WithOwner(wants, o, want) == IF want THEN wants \cup {o} ELSE wants \ {o}

\* What a claim, or its withdrawal, comes to (perf_budget_claim).
LEMMA ClaimIs ==
    ASSUME NEW r \in Rec, NEW x \in Claimed, NEW o \in Owner, NEW want \in BOOLEAN, NEW fails
    PROVE  Turned(Claim(r, x, o, want, fails), r, x, WithOwner(r.wants[x], o, want), fails)
<1> DEFINE claims == WithOwner(r.wants[x], o, want)
           on == claims # {} /\ (r.on[x] \/ x \notin fails)
           h == IF x = "budget" /\ on # r.on[x] THEN NoHistory ELSE r.history
           t == [[[r EXCEPT !.wants[x] = claims] EXCEPT !.on[x] = on] EXCEPT !.history = h]
<1>1. claims \in SUBSET Owner /\ on \in BOOLEAN /\ h \in History
    <2>1. NoHistory \in History
        BY DEF NoHistory, History
    <2>2. r.history \in History /\ r.wants[x] \in SUBSET Owner
        BY DEF Rec
    <2> QED BY <2>1, <2>2 DEF WithOwner
<1>2. Claim(r, x, o, want, fails) = t
    BY DEF Claim, Rec, WithOwner
<1>3. /\ h = IF x = "budget" /\ on # r.on[x] THEN NoHistory ELSE r.history
      /\ on <=> claims # {} /\ (r.on[x] \/ x \notin fails)
    OBVIOUS
<1> HIDE DEF claims, on, h
<1>4. /\ t \in Rec /\ t.wants[x] = claims /\ t.on[x] = on
      /\ \A y \in Claimed \ {x} : t.wants[y] = r.wants[y] /\ t.on[y] = r.on[y]
      /\ t.hist = r.hist /\ t.histWas = r.histWas /\ t.tree = r.tree /\ t.taps = r.taps
      /\ t.lent = r.lent /\ t.ready = r.ready /\ t.history = h
    BY <1>1 DEF Rec
<1> HIDE DEF t
<1>5. Turned(t, r, x, claims, fails)
    BY <1>3, <1>4 DEF Turned
<1> QED BY <1>2, <1>5 DEF claims

\* Somebody joins, or lets go.
LEMMA JoinedIs ==
    ASSUME NEW r \in Rec, NEW x \in Claimed, NEW o \in Owner, NEW fails
    PROVE  Turned(Claim(r, x, o, TRUE, fails), r, x, r.wants[x] \cup {o}, fails)
<1>1. Turned(Claim(r, x, o, TRUE, fails), r, x, WithOwner(r.wants[x], o, TRUE), fails)
    BY ClaimIs, Zenon
<1> QED BY <1>1 DEF WithOwner

\* And letting go.
LEMMA LeftIs ==
    ASSUME NEW r \in Rec, NEW x \in Claimed, NEW o \in Owner, NEW fails
    PROVE  Turned(Claim(r, x, o, FALSE, fails), r, x, r.wants[x] \ {o}, fails)
<1>1. Turned(Claim(r, x, o, FALSE, fails), r, x, WithOwner(r.wants[x], o, FALSE), fails)
    BY ClaimIs, Zenon
<1> QED BY <1>1 DEF WithOwner

\* Nobody but a capture can take away what it needs, or make it outlive it.
LEMMA OthersClaim ==
    ASSUME NEW r, NEW running \in BOOLEAN, NEW mask, Follows(r, running, mask),
           NEW x \in Claimed, NEW o \in {"ui", "dap"}, NEW want \in BOOLEAN, NEW fails
    PROVE  Follows(Claim(r, x, o, want, fails), running, mask)
<1> DEFINE t == Claim(r, x, o, want, fails)
<1>1. r \in Rec /\ o \in Owner /\ o # "capture"
    BY DEF Follows, Owner
<1>2. Turned(t, r, x, WithOwner(r.wants[x], o, want), fails)
    BY <1>1, ClaimIs, Zenon
<1> HIDE DEF t
<1>3. "capture" \in WithOwner(r.wants[x], o, want) <=> "capture" \in r.wants[x]
    BY <1>1 DEF WithOwner
<1>4. ClaimsFollow(t, running, mask)
    <2>1. ASSUME NEW y \in Claimed
          PROVE  /\ t.on[y] => t.wants[y] # {}
                 /\ "capture" \in t.wants[y] <=> running /\ Needs(mask, y)
                 /\ running /\ Needs(mask, y) => t.on[y]
        <3>1. CASE y = x
            BY <1>2, <1>3, <3>1 DEF Follows, ClaimsFollow, Turned
        <3>2. CASE y # x
            BY <1>2, <3>2 DEF Follows, ClaimsFollow, Turned
        <3> QED BY <3>1, <3>2
    <2> QED BY <2>1 DEF ClaimsFollow
<1>5. OwnFollow(t, running, mask)
    BY <1>2 DEF Follows, OwnFollow, Turned
<1> QED BY <1>2, <1>4, <1>5 DEF Follows, Turned, t

\* What a capture that is being given up may hold of what its mask asks for.
Held(r, mask) ==
    /\ r \in Rec
    /\ \A x \in Claimed : r.on[x] => r.wants[x] # {}
    /\ "capture" \in r.wants["budget"] => "budget" \in mask \/ ("waterfall" \in mask /\ r.lent)
    /\ "capture" \in r.wants["bandwidth"] => "vram" \in mask
    /\ r.tree => "tree" \in mask
    /\ r.taps => "waterfall" \in mask
    /\ r.lent => "waterfall" \in mask

\* Disarming lets go of all of it, and puts the histogram back.
LEMMA DisarmedIs ==
    ASSUME NEW r, NEW mask, Held(r, mask)
    PROVE  LET t == Disarmed(r, mask) IN
           /\ Follows(t, FALSE, mask)
           /\ t.hist = IF "hist" \in mask THEN r.histWas ELSE r.hist
           /\ t.ready = r.ready
<1> DEFINE r1 == [[[r EXCEPT !.taps = @ /\ "waterfall" \notin mask]
                      EXCEPT !.tree = @ /\ "tree" \notin mask]
                      EXCEPT !.hist = IF "hist" \in mask THEN r.histWas ELSE @]
           r2 == IF "budget" \in mask \/ ("waterfall" \in mask /\ r1.lent)
                 THEN Claim(r1, "budget", "capture", FALSE, {}) ELSE r1
           r3 == IF "waterfall" \in mask THEN [r2 EXCEPT !.lent = FALSE] ELSE r2
           r4 == IF "vram" \in mask THEN Claim(r3, "bandwidth", "capture", FALSE, {}) ELSE r3
<1>0. r \in Rec
    BY DEF Held
<1>1. Disarmed(r, mask) = r4
    BY DEF Disarmed
<1>2. /\ r1 \in Rec /\ ~r1.taps /\ ~r1.tree /\ r1.wants = r.wants /\ r1.on = r.on
      /\ r1.lent = r.lent /\ r1.ready = r.ready
      /\ r1.hist = IF "hist" \in mask THEN r.histWas ELSE r.hist
    <2>1. (r.taps /\ "waterfall" \notin mask) = FALSE /\ (r.tree /\ "tree" \notin mask) = FALSE
        BY DEF Held
    <2>2. r1 = [[[r EXCEPT !.taps = FALSE] EXCEPT !.tree = FALSE]
                      EXCEPT !.hist = IF "hist" \in mask THEN r.histWas ELSE r.hist]
        BY <1>0, <2>1 DEF Rec
    <2> QED BY <1>0, <2>2 DEF Rec
<1> HIDE DEF r1
<1>3. "budget" \in Claimed /\ "bandwidth" \in Claimed /\ "capture" \in Owner
    BY DEF Claimed, Owner
<1>4. /\ r2 \in Rec /\ "capture" \notin r2.wants["budget"]
      /\ r2.wants["bandwidth"] = r.wants["bandwidth"] /\ r2.on["bandwidth"] = r.on["bandwidth"]
      /\ r2.on["budget"] => r2.wants["budget"] # {}
    <2>1. CASE "budget" \in mask \/ ("waterfall" \in mask /\ r1.lent)
        <3>1. r2 = Claim(r1, "budget", "capture", FALSE, {})
            BY <2>1
        <3> HIDE DEF r2
        <3>2. Turned(r2, r1, "budget", r1.wants["budget"] \ {"capture"}, {})
            BY <1>2, <1>3, <3>1, LeftIs
        <3> QED BY <1>2, <1>3, <3>2 DEF Turned
    <2>2. CASE ~("budget" \in mask \/ ("waterfall" \in mask /\ r1.lent))
        BY <1>2, <1>3, <2>2 DEF Held
    <2> QED BY <2>1, <2>2
<1>5. r2.taps = r1.taps /\ r2.tree = r1.tree /\ r2.hist = r1.hist /\ r2.lent = r1.lent
      /\ r2.ready = r1.ready
    <2>1. Turned(Claim(r1, "budget", "capture", FALSE, {}), r1, "budget", r1.wants["budget"] \ {"capture"}, {})
        BY <1>2, <1>3, LeftIs
    <2> QED BY <2>1 DEF Turned
<1> HIDE DEF r2
<1>6. /\ r3 \in Rec /\ ~r3.lent /\ r3.taps = r1.taps /\ r3.tree = r1.tree /\ r3.hist = r1.hist
      /\ r3.wants = r2.wants /\ r3.on = r2.on /\ r3.ready = r1.ready
    BY <1>2, <1>4, <1>5 DEF Rec, Held
<1> HIDE DEF r3
<1>7. /\ r4 \in Rec /\ "capture" \notin r4.wants["bandwidth"]
      /\ r4.wants["budget"] = r2.wants["budget"] /\ r4.on["budget"] = r2.on["budget"]
      /\ r4.on["bandwidth"] => r4.wants["bandwidth"] # {}
    <2>1. CASE "vram" \in mask
        <3>1. r4 = Claim(r3, "bandwidth", "capture", FALSE, {})
            BY <2>1
        <3> HIDE DEF r4
        <3>2. Turned(r4, r3, "bandwidth", r3.wants["bandwidth"] \ {"capture"}, {})
            BY <1>3, <1>6, <3>1, LeftIs
        <3> QED BY <1>3, <1>6, <3>2 DEF Turned
    <2>2. CASE "vram" \notin mask
        BY <1>3, <1>4, <1>6, <2>2 DEF Held
    <2> QED BY <2>1, <2>2
<1>8. r4.taps = r1.taps /\ r4.tree = r1.tree /\ r4.hist = r1.hist /\ ~r4.lent /\ r4.ready = r1.ready
    <2>1. Turned(Claim(r3, "bandwidth", "capture", FALSE, {}), r3, "bandwidth", r3.wants["bandwidth"] \ {"capture"}, {})
        BY <1>3, <1>6, LeftIs
    <2> QED BY <1>6, <2>1 DEF Turned
<1> HIDE DEF r4
<1>9. ClaimsFollow(r4, FALSE, mask)
    BY <1>4, <1>7 DEF ClaimsFollow, Claimed
<1>10. OwnFollow(r4, FALSE, mask)
    BY <1>2, <1>8 DEF OwnFollow
<1>11. Follows(r4, FALSE, mask)
    BY <1>7, <1>9, <1>10 DEF Follows
<1>12. r4.hist = (IF "hist" \in mask THEN r.histWas ELSE r.hist) /\ r4.ready = r.ready
    BY <1>2, <1>8
<1> QED BY <1>1, <1>11, <1>12

\* A capture that runs holds no more than its mask asks for.
LEMMA RunningHeld ==
    ASSUME NEW r, NEW mask, Follows(r, TRUE, mask)
    PROVE  Held(r, mask)
<1>1. "budget" \in Claimed /\ "bandwidth" \in Claimed
    BY DEF Claimed
<1> QED BY <1>1 DEF Follows, ClaimsFollow, OwnFollow, Held, Needs

\* Arming: what could be armed is held, and if all could, all follows.
LEMMA ArmedIs ==
    ASSUME NEW r, NEW m, Follows(r, FALSE, m), NEW mask \in SUBSET Recorder, NEW oom
    PROVE  LET a == Armed(r, mask, oom) IN
           /\ Held(a.rec, mask)
           /\ a.ok => Follows(a.rec, TRUE, mask)
           /\ "hist" \in mask => a.rec.histWas = r.hist
           /\ a.ok /\ "hist" \in mask => a.rec.hist
           /\ "hist" \notin mask => a.rec.hist = r.hist
           /\ r.ready \subseteq a.rec.ready
<1> DEFINE fails == oom \ r.ready
           hist == "hist" \in mask
           histOk == hist => "hist" \notin fails
           treeOk == histOk /\ Fed(mask, "tree", fails)
           wfOk == treeOk /\ Fed(mask, "waterfall", fails)
           lent == "waterfall" \in mask /\ wfOk /\ "budget" \notin mask
           arms == r.tree \/ ("tree" \in mask /\ treeOk)
           taps == r.taps \/ ("waterfall" \in mask /\ wfOk)
           now == IF hist THEN histOk ELSE r.hist
           was == IF hist THEN r.hist ELSE r.histWas
           ready == r.ready \cup ((mask \cap {"hist", "tree", "waterfall"}) \ fails)
           r1 == [r EXCEPT
                      !.histWas = was, !.hist = now, !.tree = arms, !.taps = taps,
                      !.ready = ready, !.lent = lent, !.history = Aged(r.history)]
           r2 == IF "budget" \in mask \/ lent THEN Claim(r1, "budget", "capture", TRUE, fails) ELSE r1
           r3 == IF "vram" \in mask THEN Claim(r2, "bandwidth", "capture", TRUE, {}) ELSE r2
           ok == wfOk /\ ("budget" \in mask \/ lent => r2.on["budget"])
<1>0. r \in Rec
    BY DEF Follows
<1>1. Armed(r, mask, oom) = [rec |-> r3, ok |-> ok]
    BY <1>0 DEF Armed, Rec
<1>2. /\ lent \in BOOLEAN /\ arms \in BOOLEAN /\ taps \in BOOLEAN /\ now \in BOOLEAN
      /\ was \in BOOLEAN /\ ready \in SUBSET Recorder /\ Aged(r.history) \in History
    <2>1. r.history.frames \in Seq(SUBSET Times)
        BY <1>0 DEF Rec, History
    <2>2. [i \in DOMAIN r.history.frames |-> {"before"}] \in Seq(SUBSET Times)
        BY <2>1 DEF Times
    <2>3. Aged(r.history) \in History
        BY <2>2 DEF Aged, History, Times
    <2> QED BY <1>0, <2>3 DEF Rec
<1>3. /\ (arms <=> "tree" \in mask /\ treeOk)
      /\ (taps <=> "waterfall" \in mask /\ wfOk)
      /\ (wfOk => treeOk)
      /\ (wfOk /\ hist => now)
      /\ (lent <=> "waterfall" \in mask /\ wfOk /\ "budget" \notin mask)
      /\ (hist => was = r.hist) /\ (~hist => now = r.hist)
      /\ r.ready \subseteq ready
    BY DEF Follows, OwnFollow
<1> HIDE DEF lent, arms, taps, now, was, ready
<1>4. /\ r1 \in Rec /\ r1.wants = r.wants /\ r1.on = r.on /\ r1.tree = arms /\ r1.taps = taps
      /\ r1.hist = now /\ r1.histWas = was /\ r1.lent = lent /\ r1.ready = ready
    <2> DEFINE aged == Aged(r.history)
    <2>1. aged \in History
        BY <1>2
    <2> HIDE DEF aged
    <2>2. r1 = [r EXCEPT
                  !.histWas = was, !.hist = now, !.tree = arms, !.taps = taps,
                  !.ready = ready, !.lent = lent, !.history = aged]
        BY DEF aged
    <2> HIDE DEF r1
    <2>3. r1 \in Rec
        <3>1. r1 = [on |-> r.on, wants |-> r.wants, hist |-> now, histWas |-> was, tree |-> arms,
                    taps |-> taps, lent |-> lent, ready |-> ready, history |-> aged]
            BY <1>0, <2>2 DEF Rec
        <3>2. r.on \in [Claimed -> BOOLEAN] /\ r.wants \in [Claimed -> SUBSET Owner]
            BY <1>0 DEF Rec
        <3> QED BY <1>2, <2>1, <3>1, <3>2 DEF Rec
    <2>4. r1.wants = r.wants /\ r1.on = r.on /\ r1.ready = ready
        BY <1>0, <2>2 DEF Rec
    <2>5. r1.tree = arms /\ r1.taps = taps /\ r1.hist = now /\ r1.histWas = was /\ r1.lent = lent
        BY <1>0, <2>2 DEF Rec
    <2> QED BY <2>3, <2>4, <2>5
<1> HIDE DEF r1
<1>5. "budget" \in Claimed /\ "bandwidth" \in Claimed /\ "capture" \in Owner
      /\ "bandwidth" # "budget"
    BY DEF Claimed, Owner
<1>6. /\ "capture" \notin r.wants["budget"] /\ "capture" \notin r.wants["bandwidth"]
      /\ \A x \in Claimed : r.on[x] => r.wants[x] # {}
    BY <1>5 DEF Follows, ClaimsFollow
<1>7. /\ r2 \in Rec /\ ("capture" \in r2.wants["budget"] <=> "budget" \in mask \/ lent)
      /\ r2.wants["bandwidth"] = r.wants["bandwidth"] /\ r2.on["bandwidth"] = r.on["bandwidth"]
      /\ r2.on["budget"] => r2.wants["budget"] # {}
    <2>1. CASE "budget" \in mask \/ lent
        <3>1. r2 = Claim(r1, "budget", "capture", TRUE, fails)
            BY <2>1
        <3> HIDE DEF r2, fails
        <3>2. Turned(r2, r1, "budget", r1.wants["budget"] \cup {"capture"}, fails)
            BY <1>4, <1>5, <3>1, JoinedIs
        <3> QED BY <1>4, <1>5, <2>1, <3>2 DEF Turned
    <2>2. CASE ~("budget" \in mask \/ lent)
        BY <1>4, <1>5, <1>6, <2>2
    <2> QED BY <2>1, <2>2
<1>8. /\ r2.hist = r1.hist /\ r2.histWas = r1.histWas /\ r2.tree = r1.tree /\ r2.taps = r1.taps
      /\ r2.lent = r1.lent /\ r2.ready = r1.ready
    <2> HIDE DEF fails
    <2>1. Turned(Claim(r1, "budget", "capture", TRUE, fails), r1, "budget", r1.wants["budget"] \cup {"capture"}, fails)
        BY <1>4, <1>5, JoinedIs
    <2> QED BY <2>1 DEF Turned
<1>9. ok => wfOk /\ ("budget" \in mask \/ lent => r2.on["budget"])
    OBVIOUS
<1> HIDE DEF r2, ok
<1>10. /\ r3 \in Rec /\ ("capture" \in r3.wants["bandwidth"] <=> "vram" \in mask)
       /\ r3.wants["budget"] = r2.wants["budget"] /\ r3.on["budget"] = r2.on["budget"]
       /\ r3.on["bandwidth"] => r3.wants["bandwidth"] # {}
       /\ "vram" \in mask => r3.on["bandwidth"]
    <2>1. CASE "vram" \in mask
        <3>1. r3 = Claim(r2, "bandwidth", "capture", TRUE, {})
            BY <2>1
        <3> HIDE DEF r3
        <3>2. Turned(r3, r2, "bandwidth", r2.wants["bandwidth"] \cup {"capture"}, {})
            BY <1>5, <1>7, <3>1, JoinedIs
        <3> QED BY <1>5, <2>1, <3>2 DEF Turned
    <2>2. CASE "vram" \notin mask
        BY <1>5, <1>6, <1>7, <2>2
    <2> QED BY <2>1, <2>2
<1>11. /\ r3.hist = now /\ r3.histWas = was /\ r3.tree = arms /\ r3.taps = taps
       /\ r3.lent = lent /\ r3.ready = ready
    <2>1. Turned(Claim(r2, "bandwidth", "capture", TRUE, {}), r2, "bandwidth", r2.wants["bandwidth"] \cup {"capture"}, {})
        BY <1>5, <1>7, JoinedIs
    <2> QED BY <1>4, <1>8, <2>1 DEF Turned
<1> HIDE DEF r3
<1>12. Held(r3, mask)
    BY <1>3, <1>7, <1>10, <1>11 DEF Held, Claimed
<1>13. ASSUME ok PROVE Follows(r3, TRUE, mask)
    <2>1. ClaimsFollow(r3, TRUE, mask)
        <3>1. ASSUME NEW x \in Claimed, x = "budget"
              PROVE  /\ r3.on[x] => r3.wants[x] # {}
                     /\ "capture" \in r3.wants[x] <=> Needs(mask, x)
                     /\ Needs(mask, x) => r3.on[x]
            BY <1>3, <1>7, <1>9, <1>10, <1>13, <3>1 DEF Needs
        <3>2. ASSUME NEW x \in Claimed, x = "bandwidth"
              PROVE  /\ r3.on[x] => r3.wants[x] # {}
                     /\ "capture" \in r3.wants[x] <=> Needs(mask, x)
                     /\ Needs(mask, x) => r3.on[x]
            BY <1>10, <3>2 DEF Needs
        <3> QED BY <3>1, <3>2 DEF ClaimsFollow, Claimed
    <2>2. OwnFollow(r3, TRUE, mask)
        BY <1>3, <1>9, <1>11, <1>13 DEF OwnFollow
    <2> QED BY <1>10, <2>1, <2>2 DEF Follows
<1>14. ok /\ hist => r3.hist
    BY <1>3, <1>9, <1>11
<1>15. (hist => r3.histWas = r.hist) /\ (~hist => r3.hist = r.hist) /\ r.ready \subseteq r3.ready
    BY <1>3, <1>11
<1>16. Armed(r, mask, oom).rec = r3 /\ (Armed(r, mask, oom).ok <=> ok)
    BY <1>1
<1> QED BY <1>12, <1>13, <1>14, <1>15, <1>16

\* But for the budget's history the same.
Aside(t, r) ==
    /\ t \in Rec
    /\ t.on = r.on /\ t.wants = r.wants /\ t.hist = r.hist /\ t.histWas = r.histWas
    /\ t.tree = r.tree /\ t.taps = r.taps /\ t.lent = r.lent /\ t.ready = r.ready

\* What leaves the claims and switches alone keeps them following.
LEMMA AsideFollows ==
    ASSUME NEW t, NEW r, Aside(t, r), NEW running \in BOOLEAN, NEW mask, NEW who
    PROVE  /\ Follows(r, running, mask) => Follows(t, running, mask)
           /\ HistFollows(r, running, mask, who) => HistFollows(t, running, mask, who)
BY DEF Aside, Follows, ClaimsFollow, OwnFollow, HistFollows

\* An instruction, and the end of a frame, write the history only.
LEMMA NewHistory ==
    ASSUME NEW r \in Rec, NEW h \in History
    PROVE  Aside([r EXCEPT !.history = h], r) /\ [r EXCEPT !.history = h].history = h
BY DEF Rec, Aside

\* An instruction marks the frame it runs in, and nothing else.
LEMMA SeenIs ==
    ASSUME NEW r \in Rec, NEW running \in BOOLEAN
    PROVE  LET t == Seen(r, running) IN
           /\ Aside(t, r)
           /\ t.history.frames = r.history.frames
           /\ r.on["budget"] /\ running => t.history.open # {"before"}
<1>1. r.history \in History
    BY DEF Rec
<1> DEFINE h == [r.history EXCEPT !.open = @ \cup {IF running THEN "during" ELSE "before"}]
<1>2. h \in History /\ h.frames = r.history.frames /\ (running => h.open # {"before"})
    BY <1>1 DEF History, Times
<1>3. Seen(r, running) = IF r.on["budget"] THEN [r EXCEPT !.history = h] ELSE r
    BY <1>1 DEF Seen, Rec
<1> HIDE DEF h
<1>4. CASE r.on["budget"]
    BY <1>2, <1>3, <1>4, NewHistory
<1>5. CASE ~r.on["budget"]
    BY <1>3, <1>5 DEF Aside
<1> QED BY <1>4, <1>5

\* The n newest frames of a history are none of them over before a capture.
Fresh(h, n) == \A i \in DOMAIN h.frames : i > Len(h.frames) - n => h.frames[i] # {"before"}

\* The end of a frame adds it to the history, and only that.  No frame
\* is of before the capture if none was and the one ending is not.
LEMMA ClosedIs ==
    ASSUME NEW r \in Rec
    PROVE  LET t == Closed(r) IN
           /\ Aside(t, r)
           /\ \A n \in Nat : r.on["budget"] /\ Fresh(r.history, n) /\ r.history.open # {"before"}
                                => Fresh(t.history, n + 1)
<1>0. RingSize \in Nat \ {0}
    BY RecordersAssumption
<1>1. /\ r.history \in History /\ r.history.frames \in Seq(SUBSET Times)
      /\ r.history.open \in SUBSET Times
    BY DEF Rec, History
<1> DEFINE f == r.history.frames
           full == Len(f) = RingSize
           old == IF full THEN Tail(f) ELSE f
           new == Append(old, r.history.open)
           h == [frames |-> new, open |-> {}]
<1>2. CASE ~r.on["budget"]
    BY <1>2 DEF Closed, Aside
<1>3. CASE r.on["budget"]
    <2>1. Closed(r) = [r EXCEPT !.history = h]
        BY <1>3 DEF Closed
    <2>2. /\ old \in Seq(SUBSET Times)
          /\ \A i \in 1 .. Len(old) : i + (Len(f) - Len(old)) \in 1 .. Len(f)
                                      /\ old[i] = f[i + (Len(f) - Len(old))]
          /\ Len(old) \in Nat /\ Len(f) - Len(old) \in Nat
        <3>1. CASE full
            <4>1. f # <<>> /\ Len(f) \in Nat
                BY <1>0, <1>1, <3>1
            <4>2. Tail(f) \in Seq(SUBSET Times) /\ Len(Tail(f)) = Len(f) - 1
                  /\ \A i \in 1 .. Len(f) - 1 : Tail(f)[i] = f[i + 1]
                BY <1>1, <4>1
            <4> HIDE DEF f
            <4>3. old = Tail(f)
                BY <3>1
            <4>4. Len(f) # 0
                BY <1>0, <3>1
            <4> HIDE DEF old
            <4>5. Len(old) = Len(f) - 1 /\ Len(f) - Len(old) = 1 /\ Len(old) \in Nat
                BY <4>1, <4>2, <4>3, <4>4
            <4>6. \A i \in 1 .. Len(old) : i + 1 \in 1 .. Len(f) /\ old[i] = f[i + 1]
                BY <4>1, <4>2, <4>3, <4>5
            <4> QED BY <4>2, <4>3, <4>5, <4>6
        <3>2. CASE ~full
            BY <1>1, <3>2
        <3> QED BY <3>1, <3>2
    <2> HIDE DEF old
    <2>3. /\ new \in Seq(SUBSET Times) /\ Len(new) = Len(old) + 1
          /\ \A i \in 1 .. Len(old) : new[i] = old[i]
          /\ new[Len(old) + 1] = r.history.open
        BY <1>1, <2>2
    <2>4. h \in History /\ h.frames = new
        BY <2>3 DEF History
    <2> HIDE DEF new, h
    <2>5. Aside(Closed(r), r) /\ Closed(r).history = h
        BY <2>1, <2>4, NewHistory
    <2>6. ASSUME NEW n \in Nat, Fresh(r.history, n), r.history.open # {"before"}
          PROVE  Fresh(h, n + 1)
        <3>1. ASSUME NEW i \in 1 .. Len(new), i > Len(new) - (n + 1)
              PROVE  new[i] # {"before"}
            <4>1. CASE i = Len(old) + 1
                BY <2>3, <2>6, <4>1
            <4>2. CASE i # Len(old) + 1
                <5>1. i \in 1 .. Len(old)
                    BY <2>2, <2>3, <4>2
                <5>2. new[i] = f[i + (Len(f) - Len(old))] /\ i + (Len(f) - Len(old)) \in 1 .. Len(f)
                    BY <2>2, <2>3, <5>1
                <5>3. i + (Len(f) - Len(old)) > Len(f) - n
                    BY <1>1, <2>2, <2>3, <3>1
                <5>4. i + (Len(f) - Len(old)) \in DOMAIN f
                    BY <1>1, <5>2
                <5> QED BY <2>6, <5>2, <5>3, <5>4 DEF Fresh
            <4> QED BY <4>1, <4>2
        <3>2. DOMAIN new = 1 .. Len(new)
            BY <2>3
        <3> QED BY <2>4, <3>1, <3>2 DEF Fresh
    <2> QED BY <2>5, <2>6
<1> QED BY <1>2, <1>3

\* The frame count, the configuration and the state of a capture.
CapOK ==
    /\ cap = [state |-> cap.state, config |-> cap.config, frames |-> cap.frames]
    /\ cap.state \in {"idle", "armed", "running", "done"}
    /\ cap.state \in {"armed", "running"} => cap.config \in Configs
    /\ cap.frames \in Nat

Mask == cap.config.recorders

\* The recorders follow the capture that runs, or none.
RecInv ==
    /\ CapOK
    /\ asked \subseteq {"stats", "hist"}
    /\ Running => Follows(rec, TRUE, Mask)
    /\ ~Running => Follows(rec, FALSE, {})

\* And so does the histogram.
HistInv ==
    /\ Running => HistFollows(rec, TRUE, Mask, asked)
    /\ ~Running => HistFollows(rec, FALSE, {}, asked)

\* The frames a running capture has counted are its own, and so is the one in
\* progress once it has run.
SumInv ==
    /\ SummaryIsOfCapture
    /\ Running /\ "budget" \in Mask =>
          /\ Fresh(rec.history, cap.frames)
          /\ ran => rec.history.open # {"before"}

\* While none runs it does not matter what it would have asked for.
LEMMA IdleFollows ==
    ASSUME NEW r, NEW m, NEW n, NEW who
    PROVE  /\ Follows(r, FALSE, m) => Follows(r, FALSE, n)
           /\ HistFollows(r, FALSE, m, who) => HistFollows(r, FALSE, n, who)
BY DEF Follows, ClaimsFollow, OwnFollow, HistFollows

\* A configuration's mask is one.
LEMMA MaskIs ==
    ASSUME NEW config \in Configs
    PROVE  config.recorders \in SUBSET Recorder
BY RecordersAssumption DEF RecordersAssumption

\* A capture begins, or is over at once with nothing armed.
Began(config) ==
    /\ cap' = CaptureIn("running", config)
    /\ Follows(rec', TRUE, config.recorders)
    /\ "hist" \in config.recorders => rec'.hist /\ rec'.histWas = rec.hist
    /\ "hist" \notin config.recorders => rec'.hist = rec.hist
    /\ rec.ready \subseteq rec'.ready

Failed(config) ==
    /\ cap' = CaptureIn("done", config)
    /\ Follows(rec', FALSE, {})
    /\ rec'.hist = rec.hist
    /\ rec.ready \subseteq rec'.ready

\* A capture that is begun, with memory short or not, runs or has failed whole.
LEMMA BeginIs ==
    ASSUME Follows(rec, FALSE, {}), NEW config \in Configs, NEW oom, BeginRecording(config, oom)
    PROVE  Began(config) \/ Failed(config)
<1> DEFINE mask == config.recorders
           a == Armed(rec, mask, oom)
<1>1. mask \in SUBSET Recorder
    BY MaskIs
<1>2. IF a.ok
        THEN rec' = a.rec /\ cap' = CaptureIn("running", config)
        ELSE rec' = Disarmed(a.rec, mask) /\ cap' = CaptureIn("done", config)
    BY DEF BeginRecording
<1> HIDE DEF mask
<1>3. /\ Held(a.rec, mask)
      /\ a.ok => Follows(a.rec, TRUE, mask)
      /\ "hist" \in mask => a.rec.histWas = rec.hist
      /\ a.ok /\ "hist" \in mask => a.rec.hist
      /\ "hist" \notin mask => a.rec.hist = rec.hist
      /\ rec.ready \subseteq a.rec.ready
    BY <1>1, ArmedIs
<1> HIDE DEF a
<1>4. CASE a.ok
    BY <1>2, <1>3, <1>4 DEF Began, mask
<1>5. CASE ~a.ok
    <2>1. rec' = Disarmed(a.rec, mask) /\ cap' = CaptureIn("done", config)
        BY <1>2, <1>5
    <2>2. /\ Follows(rec', FALSE, mask)
          /\ rec'.hist = IF "hist" \in mask THEN a.rec.histWas ELSE a.rec.hist
          /\ rec'.ready = a.rec.ready
        BY <1>3, <2>1, DisarmedIs
    <2>3. Follows(rec', FALSE, {})
        BY <2>2, IdleFollows
    <2> QED BY <1>3, <2>1, <2>2, <2>3 DEF Failed
<1> QED BY <1>4, <1>5

\* After either the recorders follow.
LEMMA BegunFollows ==
    ASSUME NEW config \in Configs, Began(config) \/ Failed(config), RecInv, asked' = asked
    PROVE  /\ RecInv'
           /\ ~Running /\ HistInv => HistInv'
           /\ Began(config) => cap'.frames = 0
           /\ Failed(config) => ~Running'
<1>1. CASE Began(config)
    <2>1. /\ cap'.state = "running" /\ cap'.config = config /\ cap'.frames = 0
          /\ cap' = [state |-> cap'.state, config |-> cap'.config, frames |-> cap'.frames]
        BY <1>1 DEF Began, CaptureIn
    <2>2. CapOK'
        BY <2>1 DEF CapOK
    <2>3. Running' /\ Mask' = config.recorders
        BY <2>1 DEF Running, Mask
    <2>4. RecInv'
        BY <1>1, <2>2, <2>3 DEF Began, RecInv
    <2>5. ASSUME ~Running, HistInv PROVE HistInv'
        <3>1. (rec.hist <=> "hist" \in asked) /\ ("hist" \in asked => "hist" \in rec.ready)
            BY <2>5 DEF HistInv, HistFollows
        <3>2. HistFollows(rec', TRUE, config.recorders, asked)
            BY <1>1, <3>1 DEF Began, HistFollows
        <3> QED BY <2>3, <3>2 DEF HistInv
    <2>6. ~Failed(config)
        BY <1>1 DEF Began, Failed, CaptureIn
    <2> QED BY <2>1, <2>4, <2>5, <2>6
<1>2. CASE Failed(config)
    <2>1. /\ cap'.state = "done" /\ cap'.config = config /\ cap'.frames = 0
          /\ cap' = [state |-> cap'.state, config |-> cap'.config, frames |-> cap'.frames]
        BY <1>2 DEF Failed, CaptureIn
    <2>2. CapOK'
        BY <2>1 DEF CapOK
    <2>3. ~Running'
        BY <2>1 DEF Running
    <2>4. RecInv'
        BY <1>2, <2>2, <2>3 DEF Failed, RecInv
    <2>5. ASSUME ~Running, HistInv PROVE HistInv'
        <3>1. (rec.hist <=> "hist" \in asked) /\ ("hist" \in asked => "hist" \in rec.ready)
            BY <2>5 DEF HistInv, HistFollows
        <3>2. HistFollows(rec', FALSE, {}, asked)
            BY <1>2, <3>1 DEF Failed, HistFollows
        <3> QED BY <2>3, <3>2 DEF HistInv
    <2> QED BY <2>1, <2>3, <2>4, <2>5
<1> QED BY <1>1, <1>2

\* The frames the summary takes are among the newest n.
LEMMA MostRecentIs ==
    ASSUME NEW h \in History, NEW n \in Nat, Fresh(h, n)
    PROVE  \A i \in DOMAIN MostRecent(h, n) : MostRecent(h, n)[i] # {"before"}
<1> DEFINE f == h.frames
           k == IF n < Len(f) THEN Len(f) - n ELSE 0
<1>1. f \in Seq(SUBSET Times) /\ Len(f) \in Nat /\ DOMAIN f = 1 .. Len(f)
    BY DEF History
<1>2. k \in Nat /\ k >= Len(f) - n /\ k <= Len(f)
    BY <1>1
<1>3. MostRecent(h, n) = SubSeq(f, k + 1, Len(f))
    BY DEF MostRecent
<1> HIDE DEF k
<1>4. \A j \in DOMAIN f : j > Len(f) - n => f[j] # {"before"}
    BY DEF Fresh
<1> HIDE DEF f
<1>5. /\ DOMAIN SubSeq(f, k + 1, Len(f)) = 1 .. Len(f) - k
      /\ \A i \in 1 .. Len(f) - k : SubSeq(f, k + 1, Len(f))[i] = f[k + i]
    BY <1>1, <1>2
<1>6. \A i \in 1 .. Len(f) - k : k + i \in DOMAIN f /\ k + i > Len(f) - n
    BY <1>1, <1>2
<1> QED BY <1>3, <1>4, <1>5, <1>6

\* A capture that ends leaves everything as if it had not been.
LEMMA FinishIs ==
    ASSUME RecInv, Running, NEW r, Aside(r, rec), NEW n \in Nat, Finish(r, n), asked' = asked
    PROVE  /\ RecInv'
           /\ HistInv => HistInv'
           /\ ("budget" \in Mask => Fresh(r.history, n)) => SumInv'
<1>1. /\ cap' = [cap EXCEPT !.state = "done", !.frames = n]
      /\ summary' = IF "budget" \in Mask THEN MostRecent(r.history, n) ELSE <<>>
      /\ rec' = Disarmed(r, Mask)
    BY DEF Finish, Mask
<1>2. /\ cap' = [state |-> cap'.state, config |-> cap'.config, frames |-> cap'.frames]
      /\ cap'.state = "done" /\ cap'.frames = n
    BY <1>1 DEF RecInv, CapOK
<1>3. CapOK' /\ ~Running'
    BY <1>2 DEF CapOK, Running
<1>4. Follows(r, TRUE, Mask)
    BY AsideFollows DEF RecInv
<1>5. /\ Follows(rec', FALSE, Mask)
      /\ rec'.hist = IF "hist" \in Mask THEN r.histWas ELSE r.hist
      /\ rec'.ready = r.ready
    BY <1>1, <1>4, RunningHeld, DisarmedIs
<1>6. RecInv'
    BY <1>3, <1>5, IdleFollows DEF RecInv
<1>7. ASSUME HistInv PROVE HistInv'
    <2>1. HistFollows(rec, TRUE, Mask, asked)
        BY <1>7 DEF HistInv
    <2>2. HistFollows(rec', FALSE, {}, asked)
        BY <1>5, <2>1 DEF HistFollows, Aside
    <2> QED BY <1>3, <2>2 DEF HistInv
<1>8. ASSUME "budget" \in Mask => Fresh(r.history, n) PROVE SumInv'
    <2>1. r.history \in History
        BY DEF Aside, Rec
    <2>2. \A i \in DOMAIN <<>> : <<>>[i] # {"before"}
        OBVIOUS
    <2>3. \A i \in DOMAIN summary' : summary'[i] # {"before"}
        BY <1>1, <1>8, <2>1, <2>2, MostRecentIs
    <2> QED BY <1>3, <2>3 DEF SumInv, SummaryIsOfCapture
<1> QED BY <1>6, <1>7, <1>8

\* What others may do to the recorders around a capture: nothing that matters to
\* it, nor to the histogram.
Around(t, r) ==
    /\ t \in Rec
    /\ t.hist = r.hist /\ t.histWas = r.histWas /\ t.ready = r.ready
    /\ \A m : Follows(r, TRUE, m) => Follows(t, TRUE, m)
    /\ Follows(r, FALSE, {}) => Follows(t, FALSE, {})
    /\ \A m : "budget" \in m /\ Follows(r, TRUE, m) => t.history = r.history

\* Claiming and letting go is no more than that, once or again.
LEMMA OthersIs ==
    ASSUME NEW r \in Rec, NEW x \in Claimed, NEW o \in {"ui", "dap"}, NEW want \in BOOLEAN, NEW fails
    PROVE  Around(Claim(r, x, o, want, fails), r)
<1> DEFINE t == Claim(r, x, o, want, fails)
<1>1. o \in Owner /\ o # "capture"
    BY DEF Owner
<1>2. Turned(t, r, x, WithOwner(r.wants[x], o, want), fails)
    BY <1>1, ClaimIs, Zenon
<1>3. ASSUME NEW m, Follows(r, TRUE, m) PROVE Follows(t, TRUE, m)
    BY <1>3, OthersClaim, Zenon
<1>4. ASSUME Follows(r, FALSE, {}) PROVE Follows(t, FALSE, {})
    BY <1>4, OthersClaim, Zenon
<1> HIDE DEF t
<1>5. ASSUME NEW m, "budget" \in m, Follows(r, TRUE, m) PROVE t.history = r.history
    <2>1. Follows(t, TRUE, m)
        BY <1>3, <1>5
    <2>2. CASE x = "budget"
        <3>1. r.on[x] /\ t.on[x] /\ t.on \in [Claimed -> BOOLEAN] /\ r.on \in [Claimed -> BOOLEAN]
            BY <1>5, <2>1, <2>2 DEF Follows, ClaimsFollow, Needs, Claimed, Rec
        <3>2. t.on[x] = r.on[x]
            BY <3>1
        <3> QED BY <1>2, <3>2 DEF Turned
    <2>3. CASE x # "budget"
        BY <1>2, <2>3 DEF Turned
    <2> QED BY <2>2, <2>3
<1>6. t \in Rec /\ t.hist = r.hist /\ t.histWas = r.histWas /\ t.ready = r.ready
    BY <1>2 DEF Turned
<1> QED BY <1>3, <1>4, <1>5, <1>6 DEF t, Around

\* Two operations that keep to themselves do so together.
LEMMA AroundAgain ==
    ASSUME NEW r, NEW t, NEW u, Around(t, r), Around(u, t)
    PROVE  Around(u, r)
BY DEF Around

\* So does none.
LEMMA NothingDone ==
    ASSUME NEW r \in Rec
    PROVE  Around(r, r)
BY DEF Around

\* It keeps what is claimed of a capture.
LEMMA AroundKeeps ==
    ASSUME RecInv, Around(rec', rec), cap' = cap, asked' \subseteq {"stats", "hist"}
    PROVE  /\ RecInv'
           /\ HistInv /\ ("hist" \in asked' <=> "hist" \in asked) => HistInv'
           /\ SumInv /\ summary' = summary /\ (ran' => ran) => SumInv'
<1>1. Mask' = Mask /\ (Running' <=> Running) /\ (CapOK <=> CapOK')
    BY DEF Mask, Running, CapOK
<1>2. RecInv'
    BY <1>1 DEF RecInv, Around
<1>3. ASSUME HistInv, "hist" \in asked' <=> "hist" \in asked PROVE HistInv'
    BY <1>1, <1>3 DEF HistInv, HistFollows, Around
<1>4. ASSUME SumInv, summary' = summary, ran' => ran PROVE SumInv'
    <2>1. SummaryIsOfCapture'
        BY <1>4 DEF SumInv, SummaryIsOfCapture
    <2>2. ASSUME Running, "budget" \in Mask PROVE rec'.history = rec.history
        BY <2>2 DEF RecInv, Around
    <2> QED BY <1>1, <1>4, <2>1, <2>2 DEF SumInv
<1> QED BY <1>2, <1>3, <1>4

\* The panel, a client's polls and settings, and a client that leaves.
LEMMA PanelAndClientIs ==
    ASSUME NEW r \in Rec, NEW oom, NEW want \in BOOLEAN
    PROVE  /\ Around(Claim(Claim(r, "budget", "ui", want, oom), "bandwidth", "ui", want, {}), r)
           /\ Around(Claim(Claim(r, "budget", "dap", want, oom), "bandwidth", "dap", want, {}), r)
           /\ Around(Claim(r, "budget", "dap", want, oom), r)
<1>1. "budget" \in Claimed /\ "bandwidth" \in Claimed
    BY DEF Claimed
<1>2. ASSUME NEW o \in {"ui", "dap"}
      PROVE  /\ Around(Claim(Claim(r, "budget", o, want, oom), "bandwidth", o, want, {}), r)
             /\ Around(Claim(r, "budget", o, want, oom), r)
    <2> DEFINE t == Claim(r, "budget", o, want, oom)
    <2>1. Around(t, r)
        BY <1>1, OthersIs, Zenon
    <2>2. t \in Rec
        BY <2>1 DEF Around
    <2> HIDE DEF t
    <2>3. Around(Claim(t, "bandwidth", o, want, {}), t)
        BY <1>1, <2>2, OthersIs, Zenon
    <2>4. Around(Claim(t, "bandwidth", o, want, {}), r)
        BY <2>1, <2>3, AroundAgain, Zenon
    <2> QED BY <2>1, <2>4, Zenon DEF t
<1> QED BY <1>2, Zenon

\* A client's poll keeps to itself.
LEMMA PolledIs ==
    ASSUME NEW r \in Rec, NEW x \in Claimed, NEW oom
    PROVE  Around(Polled(r, x, oom), r)
<1>1. Around(Claim(r, x, "dap", TRUE, oom), r)
    BY OthersIs, Zenon
<1>2. Around(r, r)
    BY NothingDone
<1> QED BY <1>1, <1>2 DEF Polled

\* So what they do keeps everything.
LEMMA PanelKeeps ==
    ASSUME RecInv, NEW oom, NEW want \in BOOLEAN, PanelTurns(want, oom)
    PROVE  RecInv' /\ (HistInv => HistInv') /\ (SumInv => SumInv')
<1>1. rec \in Rec
    BY DEF RecInv, Follows
<1>2. rec' = Claim(Claim(rec, "budget", "ui", want, oom), "bandwidth", "ui", want, {})
    BY DEF PanelTurns
<1>3. Around(rec', rec)
    BY <1>1, <1>2, PanelAndClientIs, Zenon
<1>4. cap' = cap /\ summary' = summary /\ ran' = ran /\ asked' = asked
    BY DEF PanelTurns
<1> QED BY <1>3, <1>4, AroundKeeps DEF RecInv

\* A client asks for statistics.
LEMMA PollKeeps ==
    ASSUME RecInv, NEW oom, PollStats(oom)
    PROVE  RecInv' /\ (HistInv => HistInv') /\ (SumInv => SumInv')
<1> DEFINE t == Polled(rec, "budget", oom)
<1>1. rec \in Rec /\ "budget" \in Claimed /\ "bandwidth" \in Claimed
    BY DEF RecInv, Follows, Claimed
<1>2. rec' = Polled(t, "bandwidth", {}) /\ cap' = cap /\ summary' = summary /\ ran' = ran
      /\ asked' = asked \cup {"stats"}
    BY DEF PollStats
<1>3. Around(t, rec) /\ t \in Rec
    BY <1>1, PolledIs DEF Around
<1> HIDE DEF t
<1>4. Around(rec', t)
    BY <1>1, <1>2, <1>3, PolledIs
<1>5. Around(rec', rec)
    BY <1>3, <1>4, AroundAgain
<1>6. asked' \subseteq {"stats", "hist"} /\ ("hist" \in asked' <=> "hist" \in asked)
    BY <1>2 DEF RecInv
<1> QED BY <1>2, <1>5, <1>6, AroundKeeps

\* A client switches them.
LEMMA ConfigureKeeps ==
    ASSUME RecInv, NEW oom, NEW want \in BOOLEAN, ConfigureStats(want, oom)
    PROVE  RecInv' /\ (HistInv => HistInv') /\ (SumInv => SumInv')
<1> DEFINE t == Claim(rec, "budget", "dap", want, oom)
           u == Claim(t, "bandwidth", "dap", want, {})
<1>1. rec \in Rec
    BY DEF RecInv, Follows
<1>2. Around(t, rec) /\ Around(u, rec)
    BY <1>1, PanelAndClientIs, Zenon
<1>3. (rec' = t \/ rec' = u) /\ cap' = cap /\ summary' = summary /\ ran' = ran
      /\ asked' \in {asked, asked \cup {"stats"}, asked \ {"stats"}}
    BY DEF ConfigureStats
<1> HIDE DEF t, u
<1>4. Around(rec', rec)
    BY <1>2, <1>3
<1>5. asked' \subseteq {"stats", "hist"} /\ ("hist" \in asked' <=> "hist" \in asked)
    BY <1>3 DEF RecInv
<1> QED BY <1>3, <1>4, <1>5, AroundKeeps

\* A client leaves.
LEMMA LeavesKeeps ==
    ASSUME RecInv, ClientLeaves
    PROVE  /\ RecInv'
           /\ ~HistogramInUse /\ HistInv => HistInv'
           /\ SumInv => SumInv'
<1>1. rec \in Rec
    BY DEF RecInv, Follows
<1>2. rec' = Claim(Claim(rec, "budget", "dap", FALSE, {}), "bandwidth", "dap", FALSE, {})
    BY DEF ClientLeaves
<1>3. Around(rec', rec)
    BY <1>1, <1>2, PanelAndClientIs, Zenon
<1>4. cap' = cap /\ summary' = summary /\ ran' = ran /\ asked' = {}
      /\ (~HistogramInUse => "hist" \notin asked)
    BY DEF ClientLeaves
<1>5. asked' \subseteq {"stats", "hist"} /\ (~HistogramInUse => ("hist" \in asked' <=> "hist" \in asked))
    BY <1>4
<1> QED BY <1>3, <1>4, <1>5, AroundKeeps

\* The histogram's switch belongs to nobody; it leaves what was claimed.
LEMMA SetHistogramKeeps ==
    ASSUME RecInv, NEW oom, NEW want \in BOOLEAN, SetHistogram(want, oom)
    PROVE  /\ RecInv'
           /\ ~HistogramInUse /\ HistInv => HistInv'
           /\ SumInv => SumInv'
<1> DEFINE ok == want => "hist" \notin oom \ rec.ready
           on == want /\ ok
           ready == IF want /\ ok THEN rec.ready \cup {"hist"} ELSE rec.ready
<1>1. /\ HistogramInUse \/ ~Running
      /\ rec' = [[rec EXCEPT !.hist = on] EXCEPT !.ready = ready]
      /\ asked' = IF ~ok THEN asked ELSE IF want THEN asked \cup {"hist"} ELSE asked \ {"hist"}
      /\ cap' = cap /\ summary' = summary /\ ran' = ran
    <2>1. rec' = [rec EXCEPT !.hist = on,
                             !.ready = IF want /\ ok THEN @ \cup {"hist"} ELSE @]
        BY DEF SetHistogram
    <2> QED BY <2>1 DEF SetHistogram, RecInv, Follows, Rec
<1>2. rec \in Rec /\ on \in BOOLEAN /\ ready \in SUBSET Recorder
    BY DEF RecInv, Follows, Rec, Recorder
<1>3. /\ ~ok => want /\ "hist" \notin rec.ready
      /\ on <=> want /\ ok
      /\ on => "hist" \in ready
      /\ rec.ready \subseteq ready
    OBVIOUS
<1> HIDE DEF on, ok, ready
<1>4. /\ rec' \in Rec /\ rec'.hist = on /\ rec'.ready = ready
      /\ rec'.wants = rec.wants /\ rec'.on = rec.on /\ rec'.tree = rec.tree
      /\ rec'.taps = rec.taps /\ rec'.lent = rec.lent /\ rec'.history = rec.history
    BY <1>1, <1>2 DEF Rec
<1>5. Mask' = Mask /\ (Running' <=> Running) /\ (CapOK <=> CapOK')
    BY <1>1 DEF Mask, Running, CapOK
<1>6. asked' \subseteq {"stats", "hist"}
    BY <1>1 DEF RecInv
<1>7. \A m : Follows(rec, TRUE, m) => Follows(rec', TRUE, m)
    BY <1>4 DEF Follows, ClaimsFollow, OwnFollow
<1>8. Follows(rec, FALSE, {}) => Follows(rec', FALSE, {})
    BY <1>4 DEF Follows, ClaimsFollow, OwnFollow
<1>9. RecInv'
    BY <1>5, <1>6, <1>7, <1>8 DEF RecInv
<1>10. ASSUME ~HistogramInUse, HistInv PROVE HistInv'
    <2>1. ~Running
        BY <1>1, <1>10
    <2>2. (rec.hist <=> "hist" \in asked) /\ ("hist" \in asked => "hist" \in rec.ready)
        BY <1>10, <2>1 DEF HistInv, HistFollows
    <2>3. (on <=> "hist" \in asked') /\ ("hist" \in asked' => "hist" \in ready)
        <3>1. CASE ok
            BY <1>1, <1>3, <3>1
        <3>2. CASE ~ok
            BY <1>1, <1>3, <2>2, <3>2
        <3> QED BY <3>1, <3>2
    <2>4. HistFollows(rec', FALSE, {}, asked')
        BY <1>4, <2>3 DEF HistFollows
    <2> QED BY <1>5, <2>1, <2>4 DEF HistInv
<1>11. ASSUME SumInv PROVE SumInv'
    BY <1>1, <1>4, <1>5, <1>11 DEF SumInv, SummaryIsOfCapture
<1> QED BY <1>9, <1>10, <1>11

\* What only writes the history keeps what is claimed.
LEMMA AsideKeeps ==
    ASSUME RecInv, Aside(rec', rec), asked' = asked,
           CapOK', Mask' = Mask, Running' <=> Running
    PROVE  RecInv' /\ (HistInv => HistInv')
<1>1. Running => Follows(rec', TRUE, Mask)
    BY AsideFollows DEF RecInv
<1>2. ~Running => Follows(rec', FALSE, {})
    BY AsideFollows DEF RecInv
<1>3. ASSUME HistInv PROVE HistInv'
    BY <1>3 DEF HistInv, HistFollows, Aside
<1> QED BY <1>1, <1>2, <1>3 DEF RecInv

\* The guest runs an instruction.
LEMMA ExecuteKeeps ==
    ASSUME RecInv, Execute
    PROVE  RecInv' /\ (HistInv => HistInv') /\ (SumInv => SumInv')
<1>1. rec' = Seen(rec, Running) /\ cap' = cap /\ summary' = summary /\ asked' = asked /\ ran' = TRUE
    BY DEF Execute
<1>2. rec \in Rec
    BY DEF RecInv, Follows
<1>3. CASE Running
    <2>1. rec' = Seen(rec, TRUE)
        BY <1>1, <1>3 DEF Seen
    <2>2. /\ Aside(rec', rec) /\ rec'.history.frames = rec.history.frames
          /\ rec.on["budget"] => rec'.history.open # {"before"}
        BY <1>2, <2>1, SeenIs
    <2>3. Mask' = Mask /\ Running' /\ CapOK'
        BY <1>1, <1>3 DEF Mask, Running, CapOK, RecInv
    <2>4. RecInv' /\ (HistInv => HistInv')
        BY <1>1, <1>3, <2>2, <2>3, AsideKeeps
    <2>5. ASSUME SumInv PROVE SumInv'
        <3>1. "budget" \in Mask => rec.on["budget"]
            BY <1>3 DEF RecInv, Follows, ClaimsFollow, Needs, Claimed
        <3> QED BY <1>1, <1>3, <2>2, <2>3, <2>5, <3>1 DEF SumInv, SummaryIsOfCapture, Fresh
    <2> QED BY <2>4, <2>5
<1>4. CASE ~Running
    <2>1. rec' = Seen(rec, FALSE)
        BY <1>1, <1>4 DEF Seen
    <2>2. Aside(rec', rec)
        BY <1>2, <2>1, SeenIs
    <2>3. Mask' = Mask /\ ~Running' /\ CapOK'
        BY <1>1, <1>4 DEF Mask, Running, CapOK, RecInv
    <2>4. RecInv' /\ (HistInv => HistInv')
        BY <1>1, <1>4, <2>2, <2>3, AsideKeeps
    <2>5. SumInv => SumInv'
        BY <1>1, <2>3 DEF SumInv, SummaryIsOfCapture
    <2> QED BY <2>4, <2>5
<1> QED BY <1>3, <1>4

\* The history is forgotten, by a reset or a loaded state.
LEMMA ForgetKeeps ==
    ASSUME RecInv, ForgetHistory
    PROVE  RecInv' /\ (HistInv => HistInv') /\ (SumInv => SumInv')
<1>1. /\ rec' = [rec EXCEPT !.history = NoHistory]
      /\ cap' = cap /\ summary' = summary /\ asked' = asked /\ ran' = ran
    BY DEF ForgetHistory
<1>2. rec \in Rec /\ NoHistory \in History
    <2>1. <<>> \in Seq(SUBSET Times)
        OBVIOUS
    <2> QED BY <2>1 DEF RecInv, Follows, NoHistory, History
<1>3. Aside(rec', rec) /\ rec'.history = NoHistory
    BY <1>1, <1>2, NewHistory
<1>4. Mask' = Mask /\ (Running' <=> Running) /\ CapOK'
    BY <1>1 DEF Mask, Running, CapOK, RecInv
<1>5. RecInv' /\ (HistInv => HistInv')
    BY <1>1, <1>3, <1>4, AsideKeeps
<1>6. \A n : Fresh(NoHistory, n)
    BY DEF Fresh, NoHistory
<1>7. NoHistory.open # {"before"}
    BY DEF NoHistory
<1>8. ASSUME SumInv PROVE SumInv'
    BY <1>1, <1>3, <1>4, <1>6, <1>7, <1>8 DEF SumInv, SummaryIsOfCapture
<1> QED BY <1>5, <1>8

\* A video frame ends, and with it perhaps a capture of so many of them.
LEMMA FrameEndKeeps ==
    ASSUME RecInv, FrameEnd
    PROVE  RecInv' /\ (HistInv => HistInv') /\ (SumInv => SumInv')
<1>1. rec \in Rec /\ ran /\ ran' = FALSE /\ asked' = asked
    BY DEF FrameEnd, RecInv, Follows
<1> DEFINE r == Closed(rec)
           n == cap.frames + 1
<1>2. /\ Aside(r, rec)
      /\ \A k \in Nat : rec.on["budget"] /\ Fresh(rec.history, k) /\ rec.history.open # {"before"}
                           => Fresh(r.history, k + 1)
    BY <1>1, ClosedIs
<1>3. n \in Nat
    BY DEF RecInv, CapOK
<1>4. CASE ~Running
    <2>1. rec' = r /\ cap' = cap /\ summary' = summary
        BY <1>4 DEF FrameEnd
    <2>2. Mask' = Mask /\ ~Running' /\ CapOK'
        BY <1>4, <2>1 DEF Mask, Running, CapOK, RecInv
    <2>3. Aside(rec', rec)
        BY <1>2, <2>1
    <2>4. RecInv' /\ (HistInv => HistInv')
        BY <1>1, <1>4, <2>2, <2>3, AsideKeeps
    <2> QED BY <2>1, <2>2, <2>4 DEF SumInv, SummaryIsOfCapture
<1>5. CASE Running
    <2>1. "budget" \in Mask => rec.on["budget"]
        BY <1>5 DEF RecInv, Follows, ClaimsFollow, Needs, Claimed
    <2>2. SumInv /\ "budget" \in Mask => Fresh(r.history, n)
        BY <1>1, <1>2, <1>5, <2>1 DEF SumInv, RecInv, CapOK
    <2>3. CASE Finish(r, n)
        <3> HIDE DEF r, n
        <3>1. RecInv' /\ (HistInv => HistInv') /\ (("budget" \in Mask => Fresh(r.history, n)) => SumInv')
            BY <1>1, <1>2, <1>3, <1>5, <2>3, FinishIs
        <3> QED BY <2>2, <3>1
    <2>4. CASE rec' = r /\ cap' = [cap EXCEPT !.frames = n] /\ summary' = summary
        <3> HIDE DEF r, n
        <3>1. cap' = [state |-> cap.state, config |-> cap.config, frames |-> n]
            BY <2>4 DEF RecInv, CapOK
        <3>2. Mask' = Mask /\ Running' /\ CapOK' /\ cap'.frames = n
            BY <1>3, <1>5, <3>1 DEF Mask, Running, CapOK, RecInv
        <3>3. Aside(rec', rec)
            BY <1>2, <2>4
        <3>4. RecInv' /\ (HistInv => HistInv')
            BY <1>1, <1>5, <3>2, <3>3, AsideKeeps
        <3>5. ASSUME SumInv PROVE SumInv'
            BY <1>1, <2>2, <2>4, <3>2, <3>5 DEF SumInv, SummaryIsOfCapture
        <3> QED BY <3>4, <3>5
    <2> QED BY <1>5, <2>3, <2>4 DEF FrameEnd
<1> QED BY <1>4, <1>5

\* A capture is ended, by a request or by the guest.
LEMMA StopKeeps ==
    ASSUME RecInv, CapStop \/ StopMarker
    PROVE  RecInv' /\ (HistInv => HistInv') /\ (SumInv => SumInv')
<1>1. asked' = asked
    BY DEF CapStop, StopMarker
<1>2. CASE Running /\ Finish(rec, cap.frames)
    <2>1. Aside(rec, rec) /\ cap.frames \in Nat
        BY <1>2 DEF RecInv, Follows, Aside, CapOK
    <2>2. RecInv' /\ (HistInv => HistInv') /\ (("budget" \in Mask => Fresh(rec.history, cap.frames)) => SumInv')
        BY <1>1, <1>2, <2>1, FinishIs
    <2>3. SumInv => ("budget" \in Mask => Fresh(rec.history, cap.frames))
        BY <1>2 DEF SumInv
    <2> QED BY <2>2, <2>3
<1>3. CASE cap.state = "armed" /\ cap' = [cap EXCEPT !.state = "idle"] /\ UNCHANGED <<rec, summary>>
    <2>1. cap' = [state |-> "idle", config |-> cap.config, frames |-> cap.frames]
        BY <1>3 DEF RecInv, CapOK
    <2>2. CapOK' /\ ~Running' /\ ~Running
        BY <1>3, <2>1 DEF CapOK, RecInv, Running
    <2>3. rec' = rec /\ summary' = summary
        BY <1>3
    <2>4. RecInv' /\ (HistInv => HistInv')
        BY <1>1, <2>2, <2>3 DEF RecInv, HistInv
    <2> QED BY <2>2, <2>3, <2>4 DEF SumInv, SummaryIsOfCapture
<1> QED BY <1>2, <1>3 DEF CapStop, StopMarker

\* A capture begins, at once or at the guest's marker, or is armed to wait.
LEMMA StartKeeps ==
    ASSUME RecInv, NEW oom, CapStart(oom) \/ StartMarker(oom)
    PROVE  /\ RecInv'
           /\ HistInv => HistInv'
           /\ ~PanelStarts /\ SumInv => SumInv'
<1>1. asked' = asked /\ summary' = summary /\ (~PanelStarts => ~ran') /\ ~Running
    BY DEF CapStart, StartMarker, Running
<1>2. Follows(rec, FALSE, {})
    BY <1>1 DEF RecInv
<1>3. ASSUME NEW config \in Configs, BeginRecording(config, oom)
      PROVE  RecInv' /\ (HistInv => HistInv') /\ (~PanelStarts /\ SumInv => SumInv')
    <2>1. Began(config) \/ Failed(config)
        BY <1>2, <1>3, BeginIs
    <2>2. RecInv' /\ (HistInv => HistInv')
          /\ (Began(config) => cap'.frames = 0) /\ (Failed(config) => ~Running')
        BY <1>1, <2>1, BegunFollows
    <2>3. ASSUME ~PanelStarts, SumInv PROVE SumInv'
        <3>1. SummaryIsOfCapture'
            BY <1>1, <2>3 DEF SumInv, SummaryIsOfCapture
        <3>2. Running' => Fresh(rec'.history, cap'.frames)
            <4>1. SUFFICES ASSUME Running' PROVE Fresh(rec'.history, 0)
                BY <2>1, <2>2
            <4>2. rec'.history.frames \in Seq(SUBSET Times)
                BY <2>2, <4>1 DEF RecInv, Follows, Rec, History
            <4> QED BY <4>2 DEF Fresh
        <3> QED BY <1>1, <2>3, <3>1, <3>2 DEF SumInv
    <2> QED BY <2>2, <2>3
<1>4. ASSUME NEW config \in Configs, cap' = CaptureIn("armed", config), rec' = rec
      PROVE  RecInv' /\ (HistInv => HistInv') /\ (SumInv => SumInv')
    <2>1. cap' = [state |-> "armed", config |-> config, frames |-> 0]
        BY <1>4 DEF CaptureIn
    <2>2. CapOK' /\ ~Running'
        BY <2>1 DEF CapOK, Running
    <2>3. RecInv' /\ (HistInv => HistInv')
        BY <1>1, <1>4, <2>2 DEF RecInv, HistInv
    <2> QED BY <1>1, <2>2, <2>3 DEF SumInv, SummaryIsOfCapture
<1>5. CASE CapStart(oom)
    <2>1. PICK config \in Configs :
            IF config.onMarker
            THEN cap' = CaptureIn("armed", config) /\ UNCHANGED rec
            ELSE BeginRecording(config, oom)
        BY <1>5 DEF CapStart
    <2> QED BY <1>3, <1>4, <2>1
<1>6. CASE StartMarker(oom)
    <2>1. cap.config \in Configs /\ BeginRecording(cap.config, oom)
        BY <1>6 DEF StartMarker, RecInv, CapOK
    <2> QED BY <1>3, <2>1
<1> QED BY <1>5, <1>6

\* Nothing runs at first, and nobody asked for anything.
LEMMA RecordersStart == RecordersInit => RecInv /\ HistInv /\ SumInv
<1> SUFFICES ASSUME RecordersInit PROVE RecInv /\ HistInv /\ SumInv
    OBVIOUS
<1>1. /\ cap = [state |-> "idle", config |-> cap.config, frames |-> 0]
      /\ asked = {} /\ summary = <<>>
    BY DEF RecordersInit
<1>2. CapOK /\ ~Running
    BY <1>1 DEF CapOK, Running
<1>3. <<>> \in Seq(SUBSET Times) /\ \A i \in DOMAIN <<>> : <<>>[i] # {"before"}
    OBVIOUS
<1>4. NoHistory \in History
    BY <1>3 DEF NoHistory, History
<1>5. rec \in Rec
    BY <1>4 DEF RecordersInit, Rec
<1>6. ClaimsFollow(rec, FALSE, {}) /\ OwnFollow(rec, FALSE, {}) /\ ~rec.hist
    BY DEF RecordersInit, ClaimsFollow, OwnFollow
<1>7. Follows(rec, FALSE, {}) /\ HistFollows(rec, FALSE, {}, asked)
    BY <1>1, <1>5, <1>6 DEF Follows, HistFollows
<1> QED BY <1>1, <1>2, <1>3, <1>7 DEF RecInv, HistInv, SumInv, SummaryIsOfCapture

\* Every step keeps them, under what they need.
LEMMA RecordersKeep ==
    ASSUME RecInv, [RecordersNext]_recorderVars
    PROVE  /\ RecInv'
           /\ ~HistogramInUse /\ HistInv => HistInv'
           /\ ~PanelStarts /\ SumInv => SumInv'
<1>1. CASE UNCHANGED recorderVars
    <2>1. rec' = rec /\ cap' = cap /\ summary' = summary /\ ran' = ran /\ asked' = asked
        BY <1>1 DEF recorderVars
    <2>2. rec \in Rec
        BY DEF RecInv, Follows
    <2>3. Around(rec', rec)
        BY <2>1, <2>2, NothingDone
    <2> QED BY <2>1, <2>3, AroundKeeps DEF RecInv
<1>2. CASE CapStop \/ StopMarker
    BY <1>2, StopKeeps
<1>3. CASE Execute
    BY <1>3, ExecuteKeeps
<1>4. CASE FrameEnd
    BY <1>4, FrameEndKeeps
<1>5. CASE ClientLeaves
    BY <1>5, LeavesKeeps
<1>6. CASE ForgetHistory
    BY <1>6, ForgetKeeps
<1>7. CASE \E oom \in Shortages : CapStart(oom) \/ StartMarker(oom)
    BY <1>7, StartKeeps
<1>8. CASE \E oom \in Shortages : PollStats(oom)
    BY <1>8, PollKeeps
<1>9. CASE \E oom \in Shortages : \E want \in BOOLEAN : PanelTurns(want, oom)
    BY <1>9, PanelKeeps, Zenon
<1>10. CASE \E oom \in Shortages : \E want \in BOOLEAN : ConfigureStats(want, oom)
    BY <1>10, ConfigureKeeps, Zenon
<1>11. CASE \E oom \in Shortages : \E want \in BOOLEAN : SetHistogram(want, oom)
    BY <1>11, SetHistogramKeeps, Zenon
<1> QED BY <1>1, <1>2, <1>3, <1>4, <1>5, <1>6, <1>7, <1>8, <1>9, <1>10, <1>11, Zenon DEF RecordersNext

\* A recorder runs for somebody who asked for it and for nobody else, however
\* captures end or fail to begin, whoever else claims or lets go meanwhile, and
\* for any configurations, shortages and ring, as long as the histogram's one
\* switch is not used while a capture runs (profile_session's arm and disarm,
\* perf_budget_arm, vera_bandwidth_arm).
THEOREM RecordersRunForSomebody ==
    ASSUME ~HistogramInUse
    PROVE  RecordersSpec => []RecordersFollowWants
<1>1. RecordersInit => RecInv /\ HistInv
    BY RecordersStart
<1>2. (RecInv /\ HistInv) /\ [RecordersNext]_recorderVars => (RecInv /\ HistInv)'
    BY RecordersKeep
<1>3. RecInv /\ HistInv => RecordersFollowWants
    <2> SUFFICES ASSUME RecInv, HistInv PROVE RecordersFollowWants
        OBVIOUS
    <2>1. CASE Running
        <3>1. Follows(rec, TRUE, Mask) /\ HistFollows(rec, TRUE, Mask, asked)
            BY <2>1 DEF RecInv, HistInv
        <3>2. \A x : Needed(x) <=> Needs(Mask, x)
            BY DEF Needed, Needs, Mask
        <3>3. ASSUME NEW x \in Claimed
              PROVE  /\ rec.on[x] => rec.wants[x] # {}
                     /\ ("capture" \in rec.wants[x]) <=> (Running /\ Needed(x))
                     /\ Running /\ Needed(x) => rec.on[x]
            BY <2>1, <3>1, <3>2 DEF Follows, ClaimsFollow
        <3>4. rec.tree \in BOOLEAN /\ rec.taps \in BOOLEAN /\ rec.hist \in BOOLEAN
            BY <3>1 DEF Follows, Rec
        <3>5. /\ rec.tree = (Running /\ "tree" \in cap.config.recorders)
              /\ rec.taps = (Running /\ "waterfall" \in cap.config.recorders)
            BY <2>1, <3>1, <3>4 DEF Follows, OwnFollow, Mask
        <3>6. rec.hist = (IF Running /\ "hist" \in cap.config.recorders THEN TRUE ELSE "hist" \in asked)
            <4>1. rec.hist <=> "hist" \in cap.config.recorders \/ "hist" \in asked
                BY <3>1 DEF HistFollows, Mask
            <4>2. CASE "hist" \in cap.config.recorders
                BY <2>1, <3>4, <4>1, <4>2
            <4>3. CASE "hist" \notin cap.config.recorders
                BY <2>1, <3>4, <4>1, <4>3
            <4> QED BY <4>2, <4>3
        <3> QED BY <3>3, <3>5, <3>6 DEF RecordersFollowWants
    <2>2. CASE ~Running
        <3>1. Follows(rec, FALSE, {}) /\ HistFollows(rec, FALSE, {}, asked)
            BY <2>2 DEF RecInv, HistInv
        <3>3. ASSUME NEW x \in Claimed
              PROVE  /\ rec.on[x] => rec.wants[x] # {}
                     /\ ("capture" \in rec.wants[x]) <=> (Running /\ Needed(x))
                     /\ Running /\ Needed(x) => rec.on[x]
            BY <2>2, <3>1 DEF Follows, ClaimsFollow
        <3>4. rec.tree \in BOOLEAN /\ rec.taps \in BOOLEAN /\ rec.hist \in BOOLEAN
            BY <3>1 DEF Follows, Rec
        <3>5. /\ rec.tree = (Running /\ "tree" \in cap.config.recorders)
              /\ rec.taps = (Running /\ "waterfall" \in cap.config.recorders)
            BY <2>2, <3>1, <3>4 DEF Follows, OwnFollow
        <3>6. rec.hist = (IF Running /\ "hist" \in cap.config.recorders THEN TRUE ELSE "hist" \in asked)
            BY <2>2, <3>1, <3>4 DEF HistFollows
        <3> QED BY <3>3, <3>5, <3>6 DEF RecordersFollowWants
    <2> QED BY <2>1, <2>2
<1> QED BY <1>1, <1>2, <1>3, PTL DEF RecordersSpec

\* No frame of the budget's summary was over before the capture began, for a
\* ring of any size, through forgotten histories and claims of others, as long
\* as no person starts one in the middle of a frame (profile_session.c finished).
THEOREM SummariesAreOfCaptures ==
    ASSUME ~PanelStarts
    PROVE  RecordersSpec => []SummaryIsOfCapture
<1>1. RecordersInit => RecInv /\ SumInv
    BY RecordersStart
<1>2. (RecInv /\ SumInv) /\ [RecordersNext]_recorderVars => (RecInv /\ SumInv)'
    BY RecordersKeep
<1>3. SumInv => SummaryIsOfCapture
    BY DEF SumInv
<1> QED BY <1>1, <1>2, <1>3, PTL DEF RecordersSpec

-----------------------------------------------------------------------------
(* The debug info of loaded programs.                                      *)

Counts == [Files -> Nat]
LineCounts == [Files -> [1 .. Top -> Nat]]

StoreOK ==
    /\ lines \in LineCounts /\ segments \in Counts
    /\ registry \subseteq Files /\ owners \subseteq Files
    /\ \A f \in registry : Extent[f] # {}

\* Nothing is there before the first debug info was accepted: all was whole, or
\* some was there from the start.
Whole == AtStart # {} \/ Readings \cup Replacing \subseteq {"good"}

Unaccepted ==
    /\ AtStart # {} => owners # {} /\ loaded
    /\ loaded \/ \A f \in Files : segments[f] = 0 /\ \A a \in 1 .. Top : lines[f][a] = 0
    /\ registry # {} => loaded

\* A module that is known has its one segment, and no other one inside it.
Sole(count, f) ==
    /\ count[f] = 1
    /\ \A g \in Files : count[g] > 0 /\ Extent[g] # {} /\ Extent[g] \subseteq Extent[f] => g = f

\* It alone describes its extent.
Alone(table, f) == \A a \in Extent[f], g \in Files : table[g][a] > 0 <=> g = f

LoadInv ==
    /\ StoreOK
    /\ Unaccepted
    /\ \A f \in registry : Sole(segments, f) /\ Alone(lines, f)

\* What the constants are.
LEMMA ExtentFacts ==
    /\ \A f \in Files : Extent[f] \subseteq 1 .. Top
    /\ Top \in Nat /\ Copies \in Nat /\ Copies # 0
    /\ AtStart \subseteq Files /\ Nil \notin Files
BY ExtentAssumption DEF ExtentAssumption

\* Another copy is at least one, and the first is the only one.
LEMMA CopyIs ==
    ASSUME NEW n \in Nat
    PROVE  AddCopy(n) \in Nat /\ AddCopy(n) > 0 /\ (n = 0 => AddCopy(n) = 1)
BY ExtentFacts DEF AddCopy

\* Of what a range covers nothing is left, of the rest all.
LEMMA UnloadIs ==
    ASSUME LoadInv, NEW range
    PROVE  LET l == UnloadLines(range)  s == UnloadSegments(range) IN
           /\ l \in LineCounts /\ s \in Counts
           /\ \A f \in Files, a \in 1 .. Top : l[f][a] = IF a \in range THEN 0 ELSE lines[f][a]
           /\ \A f \in Files : s[f] = IF Extent[f] \subseteq range THEN 0 ELSE segments[f]
<1>1. lines \in LineCounts /\ segments \in Counts
    BY DEF LoadInv, StoreOK
<1>2. CASE loaded
    <2>1. /\ UnloadLines(range) = [f \in Files |-> [a \in 1 .. Top |-> IF a \in range THEN 0 ELSE lines[f][a]]]
          /\ UnloadSegments(range) = [f \in Files |-> IF Extent[f] \subseteq range THEN 0 ELSE segments[f]]
        BY <1>2 DEF UnloadLines, UnloadSegments
    <2>2. \A f \in Files : \A a \in 1 .. Top : lines[f][a] \in Nat
        <3>1. \A f \in Files : lines[f] \in [1 .. Top -> Nat]
            BY <1>1 DEF LineCounts
        <3> QED BY <3>1
    <2>3. \A f \in Files : [a \in 1 .. Top |-> IF a \in range THEN 0 ELSE lines[f][a]] \in [1 .. Top -> Nat]
        BY <2>2
    <2>4. UnloadLines(range) \in LineCounts
        BY <2>1, <2>3 DEF LineCounts
    <2>5. UnloadSegments(range) \in Counts
        BY <1>1, <2>1 DEF Counts
    <2>6. \A f \in Files, a \in 1 .. Top :
            UnloadLines(range)[f][a] = IF a \in range THEN 0 ELSE lines[f][a]
        BY <2>1
    <2>7. \A f \in Files : UnloadSegments(range)[f] = IF Extent[f] \subseteq range THEN 0 ELSE segments[f]
        BY <2>1
    <2> QED BY <2>4, <2>5, <2>6, <2>7
<1>3. CASE ~loaded
    <2>1. UnloadLines(range) = lines /\ UnloadSegments(range) = segments
        BY <1>3 DEF UnloadLines, UnloadSegments
    <2>2. \A f \in Files : segments[f] = 0 /\ \A a \in 1 .. Top : lines[f][a] = 0
        BY <1>3 DEF LoadInv, Unaccepted
    <2> QED BY <1>1, <2>1, <2>2
<1> QED BY <1>2, <1>3

\* Modules that are known do not overlap.
LEMMA KnownApart ==
    ASSUME LoadInv, NEW f \in registry, NEW g \in registry, f # g
    PROVE  Extent[f] \cap Extent[g] = {}
<1>1. f \in Files /\ g \in Files
    BY DEF LoadInv, StoreOK
<1> QED BY <1>1 DEF LoadInv, Alone

\* Reading a file.
LEMMA MergeKeeps ==
    ASSUME Whole, LoadInv, NEW ev, ev.path \in Files \ registry, Extent[ev.path] # {}, Merge(ev)
    PROVE  LoadInv'
<1> DEFINE f == ev.path
           range == Extent[f]
           s == UnloadSegments(range)
           l == UnloadLines(range)
           count == AppendSegment(s, f)
           table == AppendLines(l, f)
           kept == StillLive(range)
<1>1. PICK reading \in Readings :
        /\ lines' = table /\ segments' = count /\ owners' = owners \cup {f}
        /\ reading = "good" => registry' = kept \cup {f} /\ loaded' = TRUE
        /\ reading # "good" => registry' = kept /\ loaded' = loaded
    BY DEF Merge
<1>2. /\ l \in LineCounts /\ s \in Counts
      /\ \A g \in Files, a \in 1 .. Top : l[g][a] = IF a \in range THEN 0 ELSE lines[g][a]
      /\ \A g \in Files : s[g] = IF Extent[g] \subseteq range THEN 0 ELSE segments[g]
    BY UnloadIs
<1>3. f \in Files /\ f \notin registry /\ range # {} /\ range \subseteq 1 .. Top
    BY ExtentFacts
<1>4. kept = {g \in registry : Extent[g] \cap range = {}}
    BY DEF StillLive
<1> HIDE DEF s, l, f
<1>5. count = [s EXCEPT ![f] = AddCopy(s[f])]
    BY DEF AppendSegment
<1>6. table = [l EXCEPT ![f] = [a \in 1 .. Top |-> IF a \in range THEN AddCopy(l[f][a]) ELSE l[f][a]]]
    BY DEF AppendLines
<1> HIDE DEF count, table, kept
<1>7. /\ count \in Counts /\ count[f] = 1
      /\ \A g \in Files : g # f => count[g] = s[g]
    <2>1. s[f] = 0
        BY <1>2, <1>3
    <2>2. AddCopy(s[f]) \in Nat /\ AddCopy(s[f]) = 1
        BY <2>1, CopyIs
    <2> QED BY <1>2, <1>3, <1>5, <2>2 DEF Counts
<1>8. /\ table \in LineCounts
      /\ \A g \in Files : g # f => table[g] = l[g]
      /\ \A a \in 1 .. Top : /\ a \in range => table[f][a] > 0
                             /\ a \notin range => table[f][a] = l[f][a]
    <2> DEFINE row == [a \in 1 .. Top |-> IF a \in range THEN AddCopy(l[f][a]) ELSE l[f][a]]
    <2> l[f] \in [1 .. Top -> Nat]
        BY <1>2, <1>3 DEF LineCounts
    <2>1. \A a \in 1 .. Top : l[f][a] \in Nat
        OBVIOUS
    <2>2. row \in [1 .. Top -> Nat]
        BY <2>1, CopyIs
    <2>3. \A a \in 1 .. Top : /\ a \in range => row[a] > 0
                              /\ a \notin range => row[a] = l[f][a]
        BY <2>1, CopyIs
    <2> HIDE DEF row
    <2>4. table = [l EXCEPT ![f] = row]
        BY <1>6 DEF row
    <2> QED BY <1>2, <1>3, <2>2, <2>3, <2>4 DEF LineCounts
<1>9. ASSUME NEW g \in kept PROVE g # f /\ Sole(count, g) /\ Alone(table, g)
    <2>1. /\ g \in registry /\ g \in Files /\ g # f /\ Extent[g] # {} /\ Extent[g] \cap range = {}
          /\ Extent[g] \subseteq 1 .. Top /\ Sole(segments, g) /\ Alone(lines, g)
        BY <1>3, <1>4, <1>9, ExtentFacts DEF LoadInv, StoreOK
    <2>2. count[g] = 1
        BY <1>2, <1>7, <2>1 DEF Sole
    <2>3. ASSUME NEW h \in Files, count[h] > 0, Extent[h] # {}, Extent[h] \subseteq Extent[g]
          PROVE  h = g
        <3>1. h # f
            BY <1>3, <2>1, <2>3
        <3>2. segments[h] > 0
            BY <1>2, <1>7, <2>3, <3>1
        <3> QED BY <2>1, <2>3, <3>2 DEF Sole
    <2>4. ASSUME NEW a \in Extent[g], NEW h \in Files PROVE table[h][a] > 0 <=> h = g
        <3>1. a \in 1 .. Top /\ a \notin range
            BY <2>1
        <3>2. table[h][a] = lines[h][a]
            BY <1>2, <1>3, <1>8, <3>1
        <3> QED BY <2>1, <3>2 DEF Alone
    <2> QED BY <2>1, <2>2, <2>3, <2>4 DEF Sole, Alone
<1>10. Sole(count, f) /\ Alone(table, f)
    <2>1. ASSUME NEW g \in Files, count[g] > 0, Extent[g] # {}, Extent[g] \subseteq Extent[f]
          PROVE  g = f
        BY <1>2, <1>7, <2>1
    <2>2. ASSUME NEW a \in Extent[f], NEW g \in Files PROVE table[g][a] > 0 <=> g = f
        BY <1>2, <1>3, <1>8
    <2> QED BY <1>7, <2>1, <2>2 DEF Sole, Alone
<1>11. registry' \subseteq kept \cup {f} /\ kept \subseteq registry
    BY <1>1, <1>4
<1>12. StoreOK'
    BY <1>1, <1>3, <1>7, <1>8, <1>11 DEF LoadInv, StoreOK
<1>13. Unaccepted'
    <2>1. AtStart # {} => owners' # {} /\ loaded'
        BY <1>1 DEF LoadInv, Unaccepted
    <2>2. loaded'
        BY <1>1, <2>1 DEF Whole
    <2> QED BY <2>1, <2>2 DEF Unaccepted
<1> QED BY <1>1, <1>9, <1>10, <1>11, <1>12, <1>13 DEF LoadInv

\* A load without debug info over them.
LEMMA DiscardKeeps ==
    ASSUME LoadInv, NEW addr, NEW size, Discard(addr, size)
    PROVE  LoadInv'
<1> DEFINE range   == addr .. (IF addr + size - 1 > Top THEN Top ELSE addr + size - 1)
           covered == {f \in registry : Extent[f] \subseteq range}
           gone    == UNION {Extent[f] : f \in covered}
           dropped(f) == loaded /\ \E g \in covered : Extent[f] \subseteq Extent[g]
<1>1. /\ registry' = registry \ covered
      /\ lines' = UnloadLines(gone)
      /\ segments' = [f \in Files |-> IF dropped(f) THEN 0 ELSE segments[f]]
      /\ owners' = owners /\ loaded' = loaded
    BY DEF Discard
<1>2. /\ lines' \in LineCounts
      /\ \A f \in Files, a \in 1 .. Top : lines'[f][a] = IF a \in gone THEN 0 ELSE lines[f][a]
    BY <1>1, UnloadIs
<1>3. covered \subseteq registry /\ \A a : a \in gone => \E f \in covered : a \in Extent[f]
    OBVIOUS
<1> HIDE DEF covered, gone
<1>4. segments' \in Counts
    BY <1>1 DEF LoadInv, StoreOK, Counts
<1>5. StoreOK'
    BY <1>1, <1>2, <1>4 DEF LoadInv, StoreOK
<1>6. Unaccepted'
    <2>1. ~loaded => \A f \in Files : segments'[f] = 0 /\ \A a \in 1 .. Top : lines'[f][a] = 0
        BY <1>1, <1>2 DEF LoadInv, Unaccepted
    <2> QED BY <1>1, <2>1 DEF LoadInv, Unaccepted
<1>7. ASSUME NEW f \in registry' PROVE Sole(segments', f) /\ Alone(lines', f)
    <2>1. /\ f \in registry /\ f \notin covered /\ f \in Files /\ Extent[f] # {}
          /\ Extent[f] \subseteq 1 .. Top /\ Sole(segments, f) /\ Alone(lines, f)
        BY <1>1, <1>7, ExtentFacts DEF LoadInv, StoreOK
    <2>2. \A g \in covered : Extent[f] \cap Extent[g] = {}
        BY <1>3, <2>1, KnownApart
    <2>3. Sole(segments', f)
        <3>1. ~dropped(f)
            BY <2>1, <2>2
        <3>2. segments'[f] = 1
            BY <1>1, <2>1, <3>1 DEF Sole
        <3>3. \A g \in Files : segments'[g] > 0 => segments[g] > 0
            BY <1>1
        <3> QED BY <2>1, <3>2, <3>3 DEF Sole
    <2>4. ASSUME NEW a \in Extent[f], NEW g \in Files PROVE lines'[g][a] > 0 <=> g = f
        <3>1. a \notin gone /\ a \in 1 .. Top
            BY <1>3, <2>1, <2>2
        <3>2. lines'[g][a] = lines[g][a]
            BY <1>2, <3>1
        <3> QED BY <2>1, <3>2 DEF Alone
    <2> QED BY <2>3, <2>4 DEF Alone
<1> QED BY <1>5, <1>6, <1>7 DEF LoadInv

\* Every call's poll keeps the store in order.
LEMMA LoadPollKeeps ==
    ASSUME Whole, LoadInv, NEW ev, ev.path \in Files \cup {Nil}, Poll(ev)
    PROVE  LoadInv'
<1>1. CASE UNCHANGED store
    BY <1>1 DEF store, LoadInv, StoreOK, Unaccepted, Sole, Alone
<1>2. CASE Discard(ev.addr, ev.size)
    BY <1>2, DiscardKeeps
<1>3. CASE ev.path # Nil /\ ev.path \notin registry /\ Extent[ev.path] # {} /\ Merge(ev)
    BY <1>3, MergeKeeps
<1>4. CASE UNCHANGED <<registry, lines, segments, owners, loaded>>
    BY <1>4 DEF LoadInv, StoreOK, Unaccepted, Sole, Alone
<1> QED BY <1>1, <1>2, <1>3, <1>4 DEF Poll

\* How many copies of a file's records two readings leave.
LEMMA CopiesOf ==
    ASSUME NEW f, NEW g, NEW S
    PROVE  Cardinality({f} \cap {g}) + Cardinality(S \cap {g}) \in Nat
<1>1. ASSUME NEW T PROVE Cardinality(T \cap {g}) \in Nat
    <2>1. T \cap {g} = {} \/ T \cap {g} = {g}
        OBVIOUS
    <2>2. Cardinality({g}) = 1 /\ Cardinality({}) = 0
        BY FS_EmptySet, FS_Singleton
    <2> QED BY <2>1, <2>2
<1>2. Cardinality({f} \cap {g}) \in Nat /\ Cardinality(S \cap {g}) \in Nat
    BY <1>1
<1> QED BY <1>2

\* The user's replacement.
LEMMA ReplaceKeeps ==
    ASSUME Whole, LoadInv, NEW f \in Files, Replace(f)
    PROVE  LoadInv'
<1> DEFINE again(reading) == IF reading = "good" THEN {} ELSE owners
           copies(reading, g) == Cardinality({f} \cap {g}) + Cardinality(again(reading) \cap {g})
<1>1. PICK reading \in Replacing :
        /\ lines' = [g \in Files |-> [a \in 1 .. Top |->
                        IF a \in Extent[g] THEN copies(reading, g) ELSE 0]]
        /\ segments' = [g \in Files |-> copies(reading, g)]
        /\ owners' = {f} \cup again(reading)
        /\ loaded' = (reading = "good" \/ again(reading) # {})
    BY DEF Replace
<1>2. registry' = {}
    BY DEF Replace
<1>3. \A g \in Files : copies(reading, g) \in Nat
    BY CopiesOf
<1>4. owners' \subseteq Files /\ owners' # {}
    BY <1>1 DEF LoadInv, StoreOK
<1>5. loaded'
    BY <1>1 DEF Whole, LoadInv, Unaccepted
<1> HIDE DEF copies
<1>6. segments' \in Counts
    BY <1>1, <1>3 DEF Counts
<1>7. lines' \in LineCounts
    <2>1. \A g \in Files : [a \in 1 .. Top |-> IF a \in Extent[g] THEN copies(reading, g) ELSE 0]
                            \in [1 .. Top -> Nat]
        BY <1>3
    <2> QED BY <1>1, <2>1 DEF LineCounts
<1> QED BY <1>2, <1>4, <1>5, <1>6, <1>7 DEF LoadInv, StoreOK, Unaccepted

\* At the start.
LEMMA DbgInitIs ==
    ASSUME DbgInit PROVE LoadInv
<1>1. /\ registry = {} /\ owners \subseteq Files
      /\ AtStart # {} => owners # {} /\ loaded
      /\ ~loaded => AtStart = {}
    BY ExtentFacts DEF DbgInit
<1>2. segments \in Counts /\ lines \in LineCounts
    <2>1. \A f \in Files : [a \in 1 .. Top |-> IF f \in AtStart /\ a \in Extent[f] THEN 1 ELSE 0]
                            \in [1 .. Top -> Nat]
        OBVIOUS
    <2> QED BY <2>1 DEF DbgInit, Counts, LineCounts
<1>3. AtStart = {} => \A f \in Files : segments[f] = 0 /\ \A a \in 1 .. Top : lines[f][a] = 0
    BY DEF DbgInit
<1> QED BY <1>1, <1>2, <1>3 DEF LoadInv, StoreOK, Unaccepted

\* Any operation on the store by itself.
LEMMA DbgNextKeeps ==
    ASSUME Whole, LoadInv, [DbgNext]_dbgVars PROVE LoadInv'
<1>1. CASE Load
    <2>1. Different \subseteq Files
        <3>1. Described \subseteq Files
            BY DEF Described
        <3>2. Described # Files => (CHOOSE f \in Files \ Described : TRUE) \in Files
            BY <3>1
        <3> QED BY <3>1, <3>2 DEF Different
    <2>2. PICK f \in Different, a \in 1 .. Top, b \in Banks, n \in 1 .. Top :
            Poll([path |-> f, addr |-> a, bank |-> b, size |-> n])
        BY <1>1 DEF Load
    <2> QED BY <2>1, <2>2, LoadPollKeeps
<1>2. CASE Follow
    BY <1>2, LoadPollKeeps DEF Follow, Unfinished, NoLoad
<1>3. CASE \E f \in Files : Replace(f)
    BY <1>3, ReplaceKeeps
<1>4. CASE UNCHANGED dbgVars
    BY <1>4 DEF dbgVars, store, LoadInv, StoreOK, Unaccepted, Sole, Alone
<1> QED BY <1>1, <1>2, <1>3, <1>4 DEF DbgNext

\* A module in the registry has its records, over the whole of its extent, and
\* nobody else's are there, through any loads, whole readings and half written
\* ones, switching off and on and replacement by the user (dbg_load.c
\* dbg_load_poll).  Provided a first file has been accepted before any is
\* found half written: see RecordsOnce.
THEOREM ModulesInRegistryAreLive ==
    ASSUME Whole PROVE DbgSpec => []RegistryIsLive
<1>1. LoadInv => RegistryIsLive
    BY DEF LoadInv, RegistryIsLive, Sole, Alone
<1>2. DbgInit => LoadInv
    BY DbgInitIs
<1>3. LoadInv /\ [DbgNext]_dbgVars => LoadInv'
    BY DbgNextKeeps
<1> QED BY <1>1, <1>2, <1>3, PTL DEF DbgSpec

\* A load that fills a known module's extent exactly, fills its segment and no
\* other one.
LEMMA FillsItself ==
    ASSUME NEW count, NEW f \in Files, Sole(count, f),
           NEW ev, ev.addr \in Nat, ev.size \in Nat,
           Extent[f] # {}, Extent[f] = ev.addr .. ev.addr + ev.size - 1
    PROVE  f \in Filled(count, ev)
<1> DEFINE fits == {g \in Files : /\ count[g] > 0
                                  /\ ev.addr \in Extent[g]
                                  /\ \A a \in Extent[g] : ev.addr <= a
                                  /\ ev.size \in {Cardinality(Extent[g]), Cardinality(Extent[g]) + 2}}
<1>1. count[f] = 1
    BY DEF Sole
<1>2. ev.size > 0 /\ ev.addr \in Extent[f]
    OBVIOUS
<1>3. Cardinality(Extent[f]) = ev.size
    <2>1. ev.addr \in Int /\ ev.addr + ev.size - 1 \in Int /\ ~(ev.addr > ev.addr + ev.size - 1)
        BY <1>2
    <2>2. Cardinality(ev.addr .. ev.addr + ev.size - 1) = (ev.addr + ev.size - 1) - ev.addr + 1
        BY <2>1, FS_Interval
    <2> QED BY <2>2
<1>4. f \in fits
    BY <1>1, <1>2, <1>3
<1>5. ASSUME NEW g \in fits PROVE g = f
    <2>1. /\ g \in Files /\ count[g] > 0 /\ ev.addr \in Extent[g]
          /\ \A a \in Extent[g] : ev.addr <= a
          /\ ev.size \in {Cardinality(Extent[g]), Cardinality(Extent[g]) + 2}
        BY <1>5
    <2>2. Extent[g] \subseteq 1 .. Top /\ \A a, b \in Extent[g] : a .. b \subseteq Extent[g]
        BY <2>1, ExtentAssumption DEF ExtentAssumption
    <2>3. IsFiniteSet(Extent[g]) /\ Cardinality(Extent[g]) \in Nat
        <3>1. IsFiniteSet(1 .. Top)
            <4>1. 1 \in Int /\ Top \in Int
                BY ExtentFacts
            <4> QED BY <4>1, FS_Interval
        <3>2. IsFiniteSet(Extent[g])
            BY <2>2, <3>1, FS_Subset
        <3> QED BY <3>2, FS_CardinalityType
    <2>4. Cardinality(Extent[g]) <= ev.size
        BY <2>1, <2>3
    <2>5. ASSUME NEW b \in Extent[g] PROVE b \in Extent[f]
        <3>1. b \in Nat /\ ev.addr <= b /\ ev.addr .. b \subseteq Extent[g]
            BY <2>1, <2>2, <2>5
        <3>2. Cardinality(ev.addr .. b) = b - ev.addr + 1
            BY <3>1, FS_Interval
        <3>3. Cardinality(ev.addr .. b) <= Cardinality(Extent[g])
            BY <2>3, <3>1, FS_Subset
        <3>4. b <= ev.addr + ev.size - 1
            BY <2>3, <2>4, <3>1, <3>2, <3>3
        <3> QED BY <3>1, <3>4
    <2> QED BY <2>1, <2>5 DEF Sole
<1>6. fits = {f}
    BY <1>4, <1>5
<1> HIDE DEF fits
<1>7. Filled(count, ev) = IF \E g \in fits : fits = {g} /\ count[g] = 1 THEN fits ELSE {}
    BY DEF Filled, fits
<1> QED BY <1>1, <1>6, <1>7

\* What a poll has to do for the bank to be right after it.
BankNoted(ev) ==
    ev.path \in registry' /\ enabled /\ ev.addr \in Window
        /\ Extent[ev.path] = ev.addr .. ev.addr + ev.size - 1
    => bank'[ev.path] = ev.bank

\* And it does.
LEMMA PollNotesBank ==
    ASSUME Whole, LoadInv, NEW ev, ev.path \in Files \cup {Nil},
           ev.addr \in Nat, ev.size \in Nat, Poll(ev)
    PROVE  BankNoted(ev)
<1> SUFFICES ASSUME ev.path \in registry', enabled, ev.addr \in Window,
                    Extent[ev.path] = ev.addr .. ev.addr + ev.size - 1
             PROVE  bank'[ev.path] = ev.bank
    BY DEF BankNoted
<1>1. LoadInv'
    BY LoadPollKeeps
<1>2. ev.path \in Files /\ Extent[ev.path] # {} /\ Sole(segments', ev.path)
    BY <1>1 DEF LoadInv, StoreOK
<1>3. ev.path \in Filled(segments', ev)
    BY <1>2, FillsItself
<1>4. CASE ev.path \in registry /\ bank' = NoteBank(segments, bank, ev)
            /\ UNCHANGED <<registry, lines, segments, owners, loaded>>
    BY <1>2, <1>3, <1>4 DEF NoteBank
<1>5. CASE ev.path \notin registry /\ Discard(ev.addr, ev.size)
    BY <1>5 DEF Discard
<1>6. CASE ev.path \notin registry /\ Merge(ev)
    <2> DEFINE f == ev.path
               range == Extent[f]
               count == AppendSegment(UnloadSegments(range), f)
               table == UnloadBanks(range)
               kept == StillLive(range)
    <2>1. PICK reading \in Readings :
            /\ segments' = count
            /\ reading = "good" => bank' = NoteBank(count, table, ev)
            /\ reading # "good" => registry' = kept
        BY <1>6 DEF Merge
    <2>2. kept \subseteq registry
        BY DEF StillLive
    <2>3. reading = "good"
        BY <1>6, <2>1, <2>2
    <2> HIDE DEF count, table, kept
    <2>4. bank' = NoteBank(segments', table, ev)
        BY <2>1, <2>3
    <2> QED BY <1>2, <1>3, <2>4 DEF NoteBank
<1>7. CASE (ev.path = Nil \/ ~enabled) /\ UNCHANGED store
    BY <1>2, <1>7, ExtentFacts
<1> QED BY <1>4, <1>5, <1>6, <1>7 DEF Poll

\* Whenever a program fills a module's extent exactly in the bank window, the
\* first time or again, its segment is known by the bank it went to now
\* (dbg_info.c dbg_info_note_bank_load): no other segment fits the load too.
THEOREM BankAlwaysFollows ==
    ASSUME Whole PROVE DbgSpec => BankFollows
<1>1. LoadInv /\ [DbgNext]_dbgVars => [BankNoted(pending')]_dbgVars
    <2> SUFFICES ASSUME LoadInv, DbgNext PROVE BankNoted(pending')
        OBVIOUS
    <2>1. CASE Load
        <3>1. Different \subseteq Files
            BY DEF Different, Described
        <3>2. PICK f \in Different, a \in 1 .. Top, b \in Banks, n \in 1 .. Top :
                Poll([path |-> f, addr |-> a, bank |-> b, size |-> n])
            BY <2>1 DEF Load
        <3> DEFINE ev == [path |-> f, addr |-> a, bank |-> b, size |-> n]
        <3>3. pending' = ev
            BY <3>2 DEF Poll
        <3>4. BankNoted(ev)
            BY <3>1, <3>2, ExtentFacts, PollNotesBank
        <3> QED BY <3>3, <3>4 DEF BankNoted
    <2>2. CASE Follow \/ \E f \in Files : Replace(f)
        <3>1. pending' = NoLoad
            BY <2>2 DEF Follow, Unfinished, Poll, Replace
        <3>2. registry' \subseteq Files
            BY DbgNextKeeps DEF LoadInv, StoreOK
        <3> QED BY <3>1, <3>2, ExtentFacts DEF NoLoad, BankNoted
    <2> QED BY <2>1, <2>2 DEF DbgNext
<1>2. DbgInit => LoadInv
    BY DbgInitIs
<1>3. LoadInv /\ [DbgNext]_dbgVars => LoadInv'
    BY DbgNextKeeps
<1> QED BY <1>1, <1>2, <1>3, PTL DEF DbgSpec, BankFollows, BankNoted

-----------------------------------------------------------------------------
(* The DOS device.                                                         *)

ChannelFields == {"name", "read", "write", "file", "can", "pos"}
LoadFields    == {"path", "addr", "bank", "size"}

\* A channel, its record of a load and the history of its bytes.  What is being
\* collected from a handle that can be read is one run of its bytes; a handle
\* that can only be written leaves the record of an earlier one.
ChannelOK(ch, r, h) ==
    /\ DOMAIN ch = ChannelFields /\ ch.name \in Names \cup {Nil}
    /\ DOMAIN r = LoadFields /\ r.path \in Files \cup {Nil} /\ r.size \in Nat
    /\ r.path # Nil => r.addr \in Nat
    /\ h.count \in Nat
    /\ Consecutive /\ r.path # Nil /\ "r" \in ch.can =>
        /\ h.straight = TRUE
        /\ h.count = r.size
        /\ h.count > 0 => h.first = [addr |-> r.addr, bank |-> r.bank]

HostInv ==
    /\ DOMAIN chans = Channels /\ DOMAIN collecting = Channels /\ DOMAIN landed = Channels
    /\ \A c \in Channels : ChannelOK(chans[c], collecting[c], landed[c])

\* Nothing else happened to the channels than to this one.
OnlyAt(c) ==
    /\ DOMAIN chans' = Channels /\ DOMAIN collecting' = Channels /\ DOMAIN landed' = Channels
    /\ \A d \in Channels \ {c} :
          chans'[d] = chans[d] /\ collecting'[d] = collecting[d] /\ landed'[d] = landed[d]

\* Names and files.
LEMMA HostFacts ==
    /\ \A name \in Names : File[name] \in Files \cup {Nil}
    /\ Targets \subseteq [addr : 1 .. Top, bank : Banks]
    /\ Nil \notin Files /\ Top \in Nat
BY HostAssumption, ExtentAssumption DEF HostAssumption, ExtentAssumption

\* Then it is enough to look at it.
LEMMA OneChannel ==
    ASSUME HostInv, NEW c \in Channels, OnlyAt(c),
           ChannelOK(chans'[c], collecting'[c], landed'[c])
    PROVE  HostInv'
<1>1. ASSUME NEW d \in Channels PROVE ChannelOK(chans'[d], collecting'[d], landed'[d])
    <2>1. CASE d = c
        BY <2>1
    <2>2. CASE d # c
        BY <2>2 DEF OnlyAt, HostInv
    <2> QED BY <2>1, <2>2
<1>2. DOMAIN chans' = Channels /\ DOMAIN collecting' = Channels /\ DOMAIN landed' = Channels
    BY DEF OnlyAt
<1> QED BY <1>1, <1>2 DEF HostInv

\* No record, with any handle and any history of so many bytes.
LEMMA IdleIs ==
    ASSUME NEW ch, DOMAIN ch = ChannelFields, ch.name \in Names \cup {Nil},
           NEW h, h.count \in Nat
    PROVE  ChannelOK(ch, Idle, h)
BY DEF ChannelOK, Idle, LoadFields

\* A closed channel cannot be read.
LEMMA CloseIs ==
    ASSUME HostInv, NEW c \in Channels
    PROVE  /\ DOMAIN Close(c) = Channels
           /\ \A d \in Channels \ {c} : Close(c)[d] = chans[d]
           /\ DOMAIN Close(c)[c] = ChannelFields /\ Close(c)[c].name = Nil /\ Close(c)[c].can = {}
<1>1. DOMAIN chans = Channels /\ DOMAIN chans[c] = ChannelFields
    BY DEF HostInv, ChannelOK
<1> QED BY <1>1 DEF Close, ChannelFields

\* Reading from a handle leaves it as it is, or closes it.
LEMMA ConsumedIs ==
    ASSUME HostInv, NEW c \in Channels, NEW n
    PROVE  /\ DOMAIN Consumed(c, n) = Channels
           /\ \A d \in Channels \ {c} : Consumed(c, n)[d] = chans[d]
           /\ DOMAIN Consumed(c, n)[c] = ChannelFields
           /\ Consumed(c, n)[c].name \in Names \cup {Nil}
           /\ n # Left(c) => Consumed(c, n)[c].can = chans[c].can
<1>1. /\ DOMAIN chans = Channels /\ DOMAIN chans[c] = ChannelFields
      /\ chans[c].name \in Names \cup {Nil}
    BY DEF HostInv, ChannelOK
<1>2. CASE n = Left(c)
    <2> DEFINE t == Close(c)
    <2>1. /\ DOMAIN t = Channels
          /\ \A d \in Channels \ {c} : t[d] = chans[d]
          /\ DOMAIN t[c] = ChannelFields /\ t[c].name = Nil
        BY CloseIs
    <2>2. Consumed(c, n) = [t EXCEPT ![c].read = FALSE]
        BY <1>2 DEF Consumed
    <2> HIDE DEF t
    <2> QED BY <1>2, <2>1, <2>2 DEF ChannelFields
<1>3. CASE n # Left(c)
    BY <1>1, <1>3 DEF Consumed, ChannelFields
<1> QED BY <1>2, <1>3

\* A block of bytes, and what is kept of them.
LEMMA NotedIs ==
    ASSUME NEW r, DOMAIN r = LoadFields, r.size \in Nat, NEW addr, NEW b, NEW n \in Nat \ {0}
    PROVE  LET q == Noted(r, addr, b, n) IN
           /\ DOMAIN q = LoadFields /\ q.path = r.path /\ q.size \in Nat
           /\ r.path # Nil => /\ q.size = r.size + n
                              /\ r.size = 0 => q.addr = addr /\ q.bank = b
                              /\ r.size # 0 => q.addr = r.addr /\ q.bank = r.bank
BY DEF Noted, LoadFields

\* Where a transfer may go, and what a record and a history are after it.
CarriesOn(h, p) == IF Consecutive /\ h.count > 0 THEN p = h.next ELSE p \in Targets

InStep(r, q, k) ==
    /\ DOMAIN q = LoadFields /\ q.path = r.path /\ q.size \in Nat /\ k.count \in Nat
    /\ r.path # Nil => q.addr \in Nat
    /\ Consecutive /\ r.path # Nil =>
         /\ k.straight = TRUE
         /\ k.count = q.size
         /\ k.first = [addr |-> q.addr, bank |-> q.bank]

\* One run of bytes carries on, or starts at a target.
LEMMA LandingIs ==
    ASSUME NEW ch, NEW r, NEW h, ChannelOK(ch, r, h), "r" \in ch.can,
           NEW p, NEW n \in Nat \ {0},
           CarriesOn(h, p)
    PROVE  InStep(r, Noted(r, p.addr, p.bank, n), Landing(h, p, n))
<1> DEFINE q == Noted(r, p.addr, p.bank, n)
           k == Landing(h, p, n)
<1>1. /\ DOMAIN r = LoadFields /\ r.size \in Nat /\ h.count \in Nat
    BY DEF ChannelOK
<1>2. /\ DOMAIN q = LoadFields /\ q.path = r.path /\ q.size \in Nat
      /\ r.path # Nil => /\ q.size = r.size + n
                         /\ r.size = 0 => q.addr = p.addr /\ q.bank = p.bank
                         /\ r.size # 0 => q.addr = r.addr /\ q.bank = r.bank
    BY <1>1, NotedIs
<1>3. k.count \in Nat
    BY <1>1 DEF Landing, Crooked, Nowhere
<1>4. ASSUME Consecutive, r.path # Nil
      PROVE  /\ k.straight = TRUE
             /\ k.count = q.size
             /\ k.first = [addr |-> q.addr, bank |-> q.bank]
    <2>1. /\ h.straight = TRUE /\ h.count = r.size
          /\ h.count > 0 => h.first = [addr |-> r.addr, bank |-> r.bank]
        BY <1>4 DEF ChannelOK
    <2>2. k = [first |-> IF h.count = 0 THEN p ELSE h.first,
               next |-> Onward(p, n), count |-> h.count + n, straight |-> TRUE]
        <3>1. h.count > 0 => h.next = p
            BY <1>4 DEF CarriesOn
        <3> QED BY <2>1, <3>1 DEF Landing
    <2> HIDE DEF q, k
    <2>3. CASE h.count = 0
        <3>1. p \in [addr : 1 .. Top, bank : Banks]
            BY <2>3, HostFacts DEF CarriesOn
        <3>2. p = [addr |-> p.addr, bank |-> p.bank]
            BY <3>1
        <3>3. q.addr = p.addr /\ q.bank = p.bank
            BY <1>2, <1>4, <2>1, <2>3
        <3> QED BY <1>2, <1>4, <2>1, <2>2, <2>3, <3>2, <3>3
    <2>4. CASE h.count # 0
        BY <1>1, <1>2, <1>4, <2>1, <2>2, <2>4
    <2> QED BY <2>3, <2>4
<1>5. r.path # Nil => q.addr \in Nat
    <2>1. CASE r.path # Nil /\ r.size = 0
        <3>1. p \in Targets
            BY <2>1 DEF CarriesOn, ChannelOK
        <3>2. p.addr \in Nat
            BY <3>1, HostFacts
        <3> QED BY <1>2, <2>1, <3>2
    <2>2. CASE r.path # Nil /\ r.size # 0
        BY <1>2, <2>2 DEF ChannelOK
    <2> QED BY <2>1, <2>2
<1> HIDE DEF q, k
<1> QED BY <1>2, <1>3, <1>4, <1>5 DEF q, k, InStep

\* Nothing happens to the channels.
LEMMA ChannelsStay ==
    ASSUME HostInv, UNCHANGED <<chans, collecting, landed>> PROVE HostInv'
BY DEF HostInv

\* SECOND: a channel is closed, its load given up.
LEMMA SecondKeeps ==
    ASSUME HostInv, NEW c, NEW what, Second(c, what) PROVE HostInv'
<1>1. CASE what = "close" /\ c \in Channels
    <2>1. /\ chans' = Close(c) /\ collecting' = [collecting EXCEPT ![c] = Idle]
          /\ landed' = [landed EXCEPT ![c] = Nowhere]
        BY <1>1 DEF Second, Abandon
    <2>2. /\ DOMAIN Close(c) = Channels
          /\ \A d \in Channels \ {c} : Close(c)[d] = chans[d]
          /\ DOMAIN Close(c)[c] = ChannelFields /\ Close(c)[c].name = Nil
        BY <1>1, CloseIs
    <2>3. OnlyAt(c) /\ collecting'[c] = Idle /\ landed'[c] = Nowhere
        BY <1>1, <2>1, <2>2 DEF OnlyAt, HostInv
    <2>4. ChannelOK(chans'[c], Idle, landed'[c])
        <3>1. landed'[c].count \in Nat
            BY <2>3 DEF Nowhere
        <3> QED BY <2>1, <2>2, <3>1, IdleIs
    <2> QED BY <1>1, <2>3, <2>4, OneChannel
<1>2. CASE ~(what = "close" /\ c \in Channels)
    BY <1>2, ChannelsStay DEF Second
<1> QED BY <1>1, <1>2

\* A name arrives.
LEMMA SendNameKeeps ==
    ASSUME HostInv, NEW name \in Names, SendName(name) PROVE HostInv'
<1>1. /\ channel \in Channels /\ chans' = [chans EXCEPT ![channel].name = name]
      /\ collecting' = collecting /\ landed' = landed
    BY DEF SendName
<1>2. DOMAIN chans = Channels /\ ChannelOK(chans[channel], collecting[channel], landed[channel])
    BY <1>1 DEF HostInv
<1>3. OnlyAt(channel)
    BY <1>1, <1>2 DEF OnlyAt, HostInv
<1>4. /\ DOMAIN chans'[channel] = ChannelFields /\ chans'[channel].name = name
      /\ chans'[channel].can = chans[channel].can
    BY <1>1, <1>2 DEF ChannelOK, ChannelFields
<1>5. ChannelOK(chans'[channel], collecting'[channel], landed'[channel])
    BY <1>1, <1>2, <1>4 DEF ChannelOK
<1> QED BY <1>1, <1>3, <1>5, OneChannel

\* A file is opened: its record starts where its bytes do.
LEMMA OpenKeeps ==
    ASSUME HostInv, NEW c \in Channels, NEW name \in Names \cup {Nil}, Open(c, name)
    PROVE  HostInv'
<1> DEFINE ways  == Directions(c, name)
           ready == [chans[c] EXCEPT !.name = name, !.read = "r" \in ways, !.write = "w" \in ways]
           found == File[name] \notin Missing
           ch    == [ready EXCEPT !.file = IF found THEN File[name] ELSE Nil,
                                  !.can = IF found THEN ways ELSE {}, !.pos = 0]
<1>1. /\ DOMAIN chans = Channels /\ DOMAIN collecting = Channels /\ DOMAIN landed = Channels
      /\ ChannelOK(chans[c], collecting[c], landed[c])
    BY DEF HostInv
<1>2. DOMAIN ready = ChannelFields /\ ready.name = name /\ ready.can = chans[c].can
    BY <1>1 DEF ChannelOK, ChannelFields
<1> HIDE DEF ready, ways
<1>3. CASE /\ chans' = [chans EXCEPT ![c] = ready]
           /\ collecting' = collecting /\ landed' = landed
    <2>1. OnlyAt(c) /\ chans'[c] = ready /\ collecting'[c] = collecting[c] /\ landed'[c] = landed[c]
        BY <1>1, <1>3 DEF OnlyAt
    <2>2. ChannelOK(ready, collecting[c], landed[c])
        BY <1>1, <1>2 DEF ChannelOK
    <2> QED BY <2>1, <2>2, OneChannel
<1>4. CASE /\ name # Nil /\ ~IsDirectory(name)
           /\ chans' = [chans EXCEPT ![c] = ch]
           /\ collecting' = IF "r" \in ways THEN Begin(c, File[name]) ELSE collecting
           /\ landed' = [landed EXCEPT ![c] = Nowhere]
    <2>1. File[name] \in Files
        BY <1>4, HostFacts DEF IsDirectory
    <2>2. /\ DOMAIN ch = ChannelFields /\ ch.name = name
          /\ "r" \in ch.can => "r" \in ways
        BY <1>2 DEF ChannelFields
    <2> HIDE DEF ch
    <2>3. chans'[c] = ch /\ landed'[c] = Nowhere
        BY <1>1, <1>4
    <2>4. CASE "r" \in ways
        <3> DEFINE r == IF enabled THEN [Idle EXCEPT !.path = File[name]] ELSE Idle
        <3>1. collecting' = [collecting EXCEPT ![c] = r]
            BY <1>4, <2>4 DEF Begin
        <3>2. /\ DOMAIN r = LoadFields /\ r.path \in Files \cup {Nil} /\ r.size = 0
              /\ r.addr = 0
            BY <2>1 DEF Idle, LoadFields
        <3> HIDE DEF r
        <3>3. OnlyAt(c) /\ collecting'[c] = r
            BY <1>1, <1>4, <3>1 DEF OnlyAt
        <3>4. ChannelOK(ch, r, Nowhere)
            BY <2>2, <3>2 DEF ChannelOK, Nowhere
        <3> QED BY <2>3, <3>3, <3>4, OneChannel
    <2>5. CASE "r" \notin ways
        <3>1. OnlyAt(c) /\ collecting'[c] = collecting[c]
            BY <1>1, <1>4, <2>5 DEF OnlyAt
        <3>2. ChannelOK(ch, collecting[c], Nowhere)
            BY <1>1, <2>2, <2>5 DEF ChannelOK, Nowhere
        <3> QED BY <2>3, <3>1, <3>2, OneChannel
    <2> QED BY <2>4, <2>5
<1>5. CASE name = Nil \/ name \in Refused
    BY <1>3, <1>5 DEF Open, ready, ways
<1>6. CASE ~(name = Nil \/ name \in Refused) /\ IsDirectory(name)
    BY <1>3, <1>6 DEF Open, ready, ways
<1>7. CASE ~(name = Nil \/ name \in Refused) /\ ~IsDirectory(name)
    BY <1>4, <1>7 DEF Open, ready, ways
<1> QED BY <1>5, <1>6, <1>7

\* A seek gives the load up.
LEMMA SeekKeeps ==
    ASSUME HostInv, NEW to, Seek(to) PROVE HostInv'
<1> DEFINE c == to.channel
<1>1. CASE to = Nil \/ c \notin Channels \/ chans[c].file = Nil
    BY <1>1, ChannelsStay DEF Seek
<1>2. CASE ~(to = Nil \/ c \notin Channels \/ chans[c].file = Nil)
    <2>1. /\ c \in Channels /\ chans' = [chans EXCEPT ![c].pos = to.pos]
          /\ collecting' = [collecting EXCEPT ![c] = Idle]
          /\ landed' = [landed EXCEPT ![c] = Crooked]
        BY <1>2 DEF Seek, Abandon
    <2> HIDE DEF c
    <2>2. /\ DOMAIN chans = Channels /\ DOMAIN collecting = Channels /\ DOMAIN landed = Channels
          /\ DOMAIN chans[c] = ChannelFields /\ chans[c].name \in Names \cup {Nil}
        BY <2>1 DEF HostInv, ChannelOK
    <2>3. OnlyAt(c) /\ collecting'[c] = Idle /\ landed'[c] = Crooked
        BY <2>1, <2>2 DEF OnlyAt
    <2>4. DOMAIN chans'[c] = ChannelFields /\ chans'[c].name \in Names \cup {Nil}
        BY <2>1, <2>2 DEF ChannelFields
    <2>5. ChannelOK(chans'[c], Idle, Crooked)
        BY <2>4, IdleIs DEF Crooked, Nowhere
    <2> QED BY <2>1, <2>3, <2>5, OneChannel
<1> QED BY <1>1, <1>2

\* The end of a name or of a command.
LEMMA UnlistenKeeps ==
    ASSUME HostInv, Unlisten PROVE HostInv'
<1>1. CASE channel \in Channels /\ Open(channel, IF nameSent THEN chans[channel].name ELSE Nil)
    <2> DEFINE name == IF nameSent THEN chans[channel].name ELSE Nil
    <2>1. name \in Names \cup {Nil}
        BY <1>1 DEF HostInv, ChannelOK
    <2> QED BY <1>1, <2>1, OpenKeeps
<1>2. CASE Seek(command)
    BY <1>2, SeekKeeps
<1>3. CASE UNCHANGED <<chans, collecting, landed>>
    BY <1>3, ChannelsStay
<1> QED BY <1>1, <1>2, <1>3 DEF Unlisten

\* Bytes go where a load does not put them, with none loaded before.
LEMMA AstrayKeeps ==
    ASSUME HostInv, Readable(channel), NEW n,
           Consecutive => landed[channel].count = 0,
           chans' = Consumed(channel, n),
           collecting' = IF n = Left(channel) THEN Abandon(channel) ELSE collecting,
           landed' = Astray(n)
    PROVE  HostInv'
<1> DEFINE c == channel
           ch == Consumed(c, n)[c]
           h == IF landed[c].count = 0 THEN landed[c] ELSE Crooked
<1>1. /\ c \in Channels
      /\ DOMAIN chans = Channels /\ DOMAIN collecting = Channels /\ DOMAIN landed = Channels
      /\ ChannelOK(chans[c], collecting[c], landed[c])
    BY DEF HostInv, Readable
<1>2. /\ DOMAIN Consumed(c, n) = Channels
      /\ \A d \in Channels \ {c} : Consumed(c, n)[d] = chans[d]
      /\ DOMAIN ch = ChannelFields /\ ch.name \in Names \cup {Nil}
      /\ n # Left(c) => ch.can = chans[c].can
    BY <1>1, ConsumedIs
<1>3. landed' = [landed EXCEPT ![c] = IF n = Left(c) THEN Nowhere ELSE h]
    BY DEF Astray, Still
<1>4. h.count \in Nat /\ (Consecutive => h = landed[c])
    BY <1>1 DEF ChannelOK, Crooked, Nowhere
<1> HIDE DEF ch, h
<1>5. OnlyAt(c)
    BY <1>1, <1>2, <1>3 DEF OnlyAt, Abandon
<1>6. chans'[c] = ch
    BY DEF ch
<1>7. CASE n = Left(c)
    <2>1. collecting'[c] = Idle /\ landed'[c] = Nowhere
        BY <1>1, <1>3, <1>7 DEF Abandon
    <2>2. Nowhere.count \in Nat
        BY DEF Nowhere
    <2>3. ChannelOK(ch, Idle, Nowhere)
        BY <1>2, <2>2, IdleIs
    <2> QED BY <1>1, <1>5, <1>6, <2>1, <2>3, OneChannel
<1>8. CASE n # Left(c)
    <2>1. collecting'[c] = collecting[c] /\ landed'[c] = h
        BY <1>1, <1>3, <1>8
    <2>2. ChannelOK(ch, collecting[c], h)
        BY <1>1, <1>2, <1>4, <1>8 DEF ChannelOK
    <2> QED BY <1>1, <1>5, <1>6, <2>1, <2>2, OneChannel
<1> QED BY <1>7, <1>8

\* XMACPTR elsewhere gives the load up.
LEMMA ReadFarKeeps ==
    ASSUME HostInv, NEW n, ReadFar(n) PROVE HostInv'
<1> DEFINE c == channel
           ch == Consumed(c, n)[c]
           h == IF n = Left(c) THEN Nowhere ELSE Crooked
<1>1. /\ c \in Channels
      /\ DOMAIN chans = Channels /\ DOMAIN collecting = Channels /\ DOMAIN landed = Channels
    BY DEF HostInv, ReadFar, Readable
<1>2. /\ DOMAIN Consumed(c, n) = Channels
      /\ \A d \in Channels \ {c} : Consumed(c, n)[d] = chans[d]
      /\ DOMAIN ch = ChannelFields /\ ch.name \in Names \cup {Nil}
    BY <1>1, ConsumedIs
<1>3. /\ chans' = Consumed(c, n) /\ collecting' = [collecting EXCEPT ![c] = Idle]
      /\ landed' = [landed EXCEPT ![c] = h]
    BY DEF ReadFar, Abandon, Still
<1>4. h.count \in Nat
    BY DEF Crooked, Nowhere
<1> HIDE DEF h
<1>5. OnlyAt(c) /\ chans'[c] = ch /\ collecting'[c] = Idle /\ landed'[c] = h
    BY <1>1, <1>2, <1>3 DEF OnlyAt
<1> HIDE DEF ch
<1>6. ChannelOK(ch, Idle, h)
    BY <1>2, <1>4, IdleIs
<1> QED BY <1>1, <1>5, <1>6, OneChannel

\* MACPTR: the record follows the bytes.
LEMMA ReadBlockKeeps ==
    ASSUME HostInv, NEW n \in 1 .. Top, NEW p, ReadBlock(p, n) PROVE HostInv'
<1> DEFINE c == channel
           ch == Consumed(c, n)[c]
           q == Noted(collecting[c], p.addr, p.bank, n)
           k == Landing(landed[c], p, n)
           r == IF n = Left(c) THEN Idle ELSE q
           h == IF n = Left(c) THEN Nowhere ELSE k
<1>1. /\ c \in Channels
      /\ DOMAIN chans = Channels /\ DOMAIN collecting = Channels /\ DOMAIN landed = Channels
      /\ ChannelOK(chans[c], collecting[c], landed[c]) /\ "r" \in chans[c].can
    BY DEF HostInv, ReadBlock, Readable
<1>2. /\ DOMAIN Consumed(c, n) = Channels
      /\ \A d \in Channels \ {c} : Consumed(c, n)[d] = chans[d]
      /\ DOMAIN ch = ChannelFields /\ ch.name \in Names \cup {Nil}
      /\ n # Left(c) => ch.can = chans[c].can
    BY <1>1, ConsumedIs
<1>3. /\ chans' = Consumed(c, n) /\ collecting' = [collecting EXCEPT ![c] = r]
      /\ landed' = [landed EXCEPT ![c] = h]
    BY DEF ReadBlock, Still
<1>4. /\ DOMAIN q = LoadFields /\ q.path = collecting[c].path /\ q.size \in Nat /\ k.count \in Nat
      /\ collecting[c].path # Nil => q.addr \in Nat
      /\ Consecutive /\ collecting[c].path # Nil =>
            /\ k.straight = TRUE
            /\ k.count = q.size
            /\ k.first = [addr |-> q.addr, bank |-> q.bank]
    <2>1. n \in Nat \ {0}
        BY HostFacts
    <2>2. CarriesOn(landed[c], p)
        BY DEF ReadBlock, CarriesOn
    <2>3. InStep(collecting[c], q, k)
        BY <1>1, <2>1, <2>2, LandingIs
    <2> QED BY <2>3 DEF InStep
<1> HIDE DEF q, k
<1>5. OnlyAt(c) /\ chans'[c] = ch /\ collecting'[c] = r /\ landed'[c] = h
    BY <1>1, <1>2, <1>3 DEF OnlyAt
<1> HIDE DEF ch
<1>6. ChannelOK(ch, r, h)
    <2>1. CASE n = Left(c)
        <3>1. Nowhere.count \in Nat
            BY DEF Nowhere
        <3> QED BY <1>2, <2>1, <3>1, IdleIs
    <2>2. CASE n # Left(c)
        <3>1. r = q /\ h = k
            BY <2>2
        <3>2. collecting[c].path \in Files \cup {Nil}
            BY <1>1 DEF ChannelOK
        <3> QED BY <1>2, <1>4, <3>1, <3>2 DEF ChannelOK
    <2> QED BY <2>1, <2>2
<1> QED BY <1>1, <1>5, <1>6, OneChannel

\* A machine reset.
LEMMA ResetHostKeeps ==
    ASSUME HostInv, ResetHost PROVE HostInv'
<1>1. /\ chans' = [c \in Channels |->
                      [chans[c] EXCEPT !.name = Nil, !.file = Nil, !.can = {}, !.pos = 0]]
      /\ collecting' = [c \in Channels |-> Idle]
      /\ landed' = [c \in Channels |-> Nowhere]
    BY DEF ResetHost
<1>2. ASSUME NEW c \in Channels PROVE ChannelOK(chans'[c], collecting'[c], landed'[c])
    <2>1. collecting'[c] = Idle /\ landed'[c] = Nowhere /\ Nowhere.count \in Nat
        BY <1>1 DEF Nowhere
    <2>2. DOMAIN chans'[c] = ChannelFields /\ chans'[c].name = Nil
        BY <1>1 DEF HostInv, ChannelOK, ChannelFields
    <2> QED BY <2>1, <2>2, IdleIs
<1> QED BY <1>1, <1>2 DEF HostInv

\* At the start.
LEMMA HostInitIs ==
    ASSUME HostInit PROVE HostInv
<1>1. /\ chans = [c \in Channels |-> Shut] /\ collecting = [c \in Channels |-> Idle]
      /\ landed = [c \in Channels |-> Nowhere]
    BY DEF HostInit, DbgInit
<1>2. ChannelOK(Shut, Idle, Nowhere)
    <2>1. DOMAIN Shut = ChannelFields /\ Shut.name = Nil
        BY DEF Shut, ChannelFields
    <2>2. Nowhere.count \in Nat
        BY DEF Nowhere
    <2> QED BY <2>1, <2>2, IdleIs
<1> QED BY <1>1, <1>2 DEF HostInv

\* Any call.
LEMMA HostNextKeeps ==
    ASSUME HostInv, [HostNext]_hostVars PROVE HostInv'
<1>1. CASE \/ Listen \/ Talk \/ Untalk \/ Debugger
           \/ \E c \in Channels \cup {CommandChannel} : TalkSecond(c)
           \/ \E to \in Seeks : SendCommand(to)
           \/ UNCHANGED hostVars
    <2>1. UNCHANGED <<chans, collecting, landed>>
        BY <1>1 DEF Listen, Talk, Untalk, Debugger, Follow, TalkSecond, SendCommand, hostVars, dbgVars
    <2> QED BY <2>1, ChannelsStay
<1>2. CASE Unlisten
    BY <1>2, UnlistenKeeps
<1>3. CASE ReadByte
    <2>1. CASE UNCHANGED <<chans, collecting, landed>>
        BY <2>1, ChannelsStay
    <2>2. CASE /\ Readable(channel) /\ chans' = Consumed(channel, 1)
               /\ collecting' = IF Left(channel) = 1 THEN Abandon(channel) ELSE collecting
               /\ landed' = Astray(1)
        <3>1. Consecutive => landed[channel].count = 0
            BY <1>3, <2>2 DEF ReadByte, Readable
        <3>2. collecting' = IF 1 = Left(channel) THEN Abandon(channel) ELSE collecting
            BY <2>2
        <3> QED BY <2>2, <3>1, <3>2, AstrayKeeps
    <2> QED BY <1>3, <2>1, <2>2 DEF ReadByte
<1>4. CASE ResetHost
    BY <1>4, ResetHostKeeps
<1>5. CASE \E c \in Channels \cup {CommandChannel} :
              \E what \in {"write", "close", "open"} : Second(c, what)
    BY <1>5, SecondKeeps
<1>6. CASE \E name \in Names : SendName(name)
    BY <1>6, SendNameKeeps
<1>7. ASSUME NEW n \in 1 .. Top, Stream(n) PROVE HostInv'
    BY <1>7, AstrayKeeps DEF Stream
<1>8. ASSUME NEW n \in 1 .. Top, ReadFar(n) PROVE HostInv'
    BY <1>8, ReadFarKeeps
<1>9. ASSUME NEW n \in 1 .. Top, NEW p, ReadBlock(p, n) PROVE HostInv'
    BY <1>9, ReadBlockKeeps
<1> QED BY <1>1, <1>2, <1>3, <1>4, <1>5, <1>6, <1>7, <1>8, <1>9 DEF HostNext

\* The load that a call's poll took, if any, is the one its last byte ended.
LEMMA PolledByHost ==
    ASSUME HostInv, HostNext
    PROVE  \/ Poll(NoLoad)
           \/ \E n \in 1 .. Top : \E p :
                /\ ReadBlock(p, n) /\ n = Left(channel)
                /\ Poll(Noted(collecting[channel], p.addr, p.bank, n))
<1>1. CASE \/ Listen \/ Talk \/ Unlisten \/ Untalk \/ ReadByte \/ ResetHost \/ Debugger
           \/ \E c \in Channels \cup {CommandChannel} :
                 TalkSecond(c) \/ \E what \in {"write", "close", "open"} : Second(c, what)
           \/ \E name \in Names : SendName(name)
           \/ \E to \in Seeks : SendCommand(to)
           \/ \E n \in 1 .. Top : Stream(n) \/ ReadFar(n)
    <2>1. Unfinished
        BY <1>1 DEF Listen, Talk, Unlisten, Untalk, ReadByte, ResetHost, Debugger, Follow,
                    TalkSecond, Second, SendName, SendCommand, Stream, ReadFar, Quiet
    <2> QED BY <2>1 DEF Unfinished
<1>2. ASSUME NEW n \in 1 .. Top, NEW p, ReadBlock(p, n)
      PROVE  \/ Poll(NoLoad)
             \/ n = Left(channel) /\ Poll(Noted(collecting[channel], p.addr, p.bank, n))
    BY <1>2 DEF ReadBlock
<1> QED BY <1>1, <1>2 DEF HostNext

\* What a finished load is said to be is one run of its file's bytes to the
\* end, with its first address and bank and their number (ieee.c MACPTR,
\* dbg_load.c dbg_load_note_byte), whatever else the channels were used for
\* meanwhile.
LEMMA ReportedAsLanded ==
    ASSUME Consecutive, HostInv, LoadsAsLanded, [HostNext]_hostVars
    PROVE  LoadsAsLanded'
<1>1. CASE Poll(NoLoad)
    <2>1. pending' = NoLoad
        BY <1>1 DEF Poll
    <2> QED BY <2>1 DEF NoLoad, LoadsAsLanded
<1>2. ASSUME NEW n \in 1 .. Top, NEW p, ReadBlock(p, n), n = Left(channel),
             Poll(Noted(collecting[channel], p.addr, p.bank, n))
      PROVE  LoadsAsLanded'
    <2> DEFINE q == Noted(collecting[channel], p.addr, p.bank, n)
               k == Landing(landed[channel], p, n)
    <2>1. pending' = q /\ run' = k
        BY <1>2 DEF Poll, ReadBlock
    <2>2. /\ ChannelOK(chans[channel], collecting[channel], landed[channel])
          /\ "r" \in chans[channel].can
        BY <1>2 DEF HostInv, ReadBlock, Readable
    <2>3. q.path = collecting[channel].path
          /\ (Consecutive /\ collecting[channel].path # Nil =>
                /\ k.straight = TRUE
                /\ k.count = q.size
                /\ k.first = [addr |-> q.addr, bank |-> q.bank])
        <3>1. n \in Nat \ {0}
            BY HostFacts
        <3>2. CarriesOn(landed[channel], p)
            BY <1>2 DEF ReadBlock, CarriesOn
        <3>3. InStep(collecting[channel], q, k)
            BY <2>2, <3>1, <3>2, LandingIs
        <3> QED BY <3>3 DEF InStep
    <2> HIDE DEF q, k
    <2> QED BY <2>1, <2>3 DEF LoadsAsLanded
<1>3. CASE UNCHANGED hostVars
    BY <1>3 DEF hostVars, dbgVars, LoadsAsLanded
<1> QED BY <1>1, <1>2, <1>3, PolledByHost

\* So it is, for guests that transfer a file to consecutive places.
THEOREM LoadsReportedAsLanded ==
    ASSUME Consecutive PROVE HostSpec => []LoadsAsLanded
<1>1. HostInit => HostInv /\ LoadsAsLanded
    <2>1. HostInit => pending = NoLoad
        BY DEF HostInit, DbgInit
    <2>2. pending = NoLoad => LoadsAsLanded
        BY DEF NoLoad, LoadsAsLanded
    <2> QED BY <2>1, <2>2, HostInitIs
<1>2. HostInv /\ LoadsAsLanded /\ [HostNext]_hostVars => HostInv' /\ LoadsAsLanded'
    BY HostNextKeeps, ReportedAsLanded
<1> QED BY <1>1, <1>2, PTL DEF HostSpec

(* The store, with its loads coming from the device.                       *)

\* What a poll is told.
LEMMA ToldOf ==
    ASSUME HostInv, HostNext
    PROVE  \E ev : /\ Poll(ev) /\ ev.path \in Files \cup {Nil}
                   /\ ev.path # Nil => ev.addr \in Nat /\ ev.size \in Nat
<1>1. CASE Poll(NoLoad)
    BY <1>1 DEF NoLoad
<1>2. ASSUME NEW n \in 1 .. Top, NEW p, ReadBlock(p, n), n = Left(channel),
             Poll(Noted(collecting[channel], p.addr, p.bank, n))
      PROVE  \E ev : /\ Poll(ev) /\ ev.path \in Files \cup {Nil}
                     /\ ev.path # Nil => ev.addr \in Nat /\ ev.size \in Nat
    <2> DEFINE q == Noted(collecting[channel], p.addr, p.bank, n)
               k == Landing(landed[channel], p, n)
    <2>1. /\ ChannelOK(chans[channel], collecting[channel], landed[channel])
          /\ "r" \in chans[channel].can
        BY <1>2 DEF HostInv, ReadBlock, Readable
    <2>2. n \in Nat \ {0} /\ CarriesOn(landed[channel], p)
        BY <1>2, HostFacts DEF ReadBlock, CarriesOn
    <2>3. InStep(collecting[channel], q, k)
        BY <2>1, <2>2, LandingIs
    <2>4. collecting[channel].path \in Files \cup {Nil}
        BY <2>1 DEF ChannelOK
    <2>5. Poll(q)
        BY <1>2
    <2> HIDE DEF q, k
    <2> QED BY <2>3, <2>4, <2>5 DEF InStep
<1> QED BY <1>1, <1>2, PolledByHost

\* Any call keeps the store in order, and notes the bank.
LEMMA HostKeepsStore ==
    ASSUME Whole, LoadInv, HostInv, [HostNext]_hostVars
    PROVE  LoadInv' /\ (UNCHANGED hostVars \/ BankNoted(pending'))
<1>1. CASE HostNext
    <2>1. PICK ev : /\ Poll(ev) /\ ev.path \in Files \cup {Nil}
                    /\ ev.path # Nil => ev.addr \in Nat /\ ev.size \in Nat
        BY <1>1, ToldOf
    <2>2. pending' = ev
        BY <2>1 DEF Poll
    <2>3. LoadInv'
        BY <2>1, LoadPollKeeps
    <2>4. CASE ev.path = Nil
        <3>1. ev.path \notin registry'
            BY <2>3, <2>4, ExtentFacts DEF LoadInv, StoreOK
        <3> QED BY <2>2, <2>3, <3>1 DEF BankNoted
    <2>5. CASE ev.path # Nil
        <3>1. BankNoted(ev)
            BY <2>1, <2>5, PollNotesBank
        <3> QED BY <2>2, <2>3, <3>1
    <2> QED BY <2>4, <2>5
<1>2. CASE UNCHANGED hostVars
    BY <1>2 DEF hostVars, dbgVars, store, LoadInv, StoreOK, Unaccepted, Sole, Alone
<1> QED BY <1>1, <1>2

\* Modules in the registry are live, and known by the bank they went to, also
\* where loads are what the DOS device makes of its guest's calls (ieee.c
\* copen, cclose, MACPTR; dbg_load.c).
THEOREM DeviceKeepsRegistryLive ==
    ASSUME Whole PROVE HostSpec => []RegistryIsLive /\ BankFollows
<1>1. LoadInv => RegistryIsLive
    BY DEF LoadInv, RegistryIsLive, Sole, Alone
<1>2. HostInit => LoadInv /\ HostInv
    BY DbgInitIs, HostInitIs DEF HostInit
<1>3. LoadInv /\ HostInv /\ [HostNext]_hostVars => LoadInv' /\ HostInv'
    BY HostKeepsStore, HostNextKeeps
<1>4. LoadInv /\ HostInv /\ [HostNext]_hostVars => [BankNoted(pending')]_dbgVars
    <2> SUFFICES ASSUME LoadInv, HostInv, [HostNext]_hostVars PROVE BankNoted(pending') \/ UNCHANGED dbgVars
        OBVIOUS
    <2> QED BY HostKeepsStore DEF BankNoted, hostVars
<1> QED BY <1>1, <1>2, <1>3, <1>4, PTL DEF HostSpec, BankFollows, BankNoted

-----------------------------------------------------------------------------
(* ProfileTree: a routine the guest is in has a frame of its own.          *)

NodeKey == Routines \cup {"main", "irq", OtherKey}

Node ==
    [parent : Nat, key : NodeKey, self : Int, acc : Int, accFrame : VideoFrame, frameMax : Int,
     calls : [VideoFrame -> Int]]

OpenFrame ==
    [irq : BOOLEAN, node : Nat, resume : Nat, sp : Nat, level : 0 .. MaxNested, start : Int]

TreeFields == {"nodes", "open", "cur", "level", "spent", "frame", "finished"}

TreeType(t) ==
    /\ DOMAIN t = TreeFields
    /\ t.nodes \in Seq(Node) /\ Len(t.nodes) >= 2
    /\ t.open \in Seq(OpenFrame)
    /\ \A i \in DOMAIN t.open : {t.open[i].node, t.open[i].resume} \subseteq DOMAIN t.nodes
    /\ t.cur \in DOMAIN t.nodes
    /\ t.level \in 0 .. MaxNested
    /\ t.spent \in [0 .. MaxNested -> Int]
    /\ t.frame \in VideoFrame
    /\ t.finished \in BOOLEAN

\* The nodes of t are those of u, or the first of them.
Grown(t, u) ==
    /\ Len(t.nodes) <= Len(u.nodes)
    /\ \A n \in DOMAIN t.nodes : u.nodes[n].key = t.nodes[n].key
    /\ Len(t.nodes) = PoolSize => Len(u.nodes) = PoolSize
    /\ u.frame = t.frame /\ u.finished = t.finished

\* u has the outermost k frames of t.
Outermost(t, u, k) ==
    /\ Len(u.open) = k
    /\ \A i \in 1 .. k : u.open[i] = t.open[i]

\* What a node is told of a call or a frame leaves its name.
LEMMA NodeTakes ==
    ASSUME TreeAssumption, NEW node \in Node, NEW frame \in VideoFrame, NEW taken \in Int
    PROVE  /\ FrameFlushed(node, frame) \in Node /\ FrameFlushed(node, frame).key = node.key
           /\ Took(node, frame, taken) \in Node /\ Took(node, frame, taken).key = node.key
<1>1. FrameFlushed(node, frame) \in Node /\ FrameFlushed(node, frame).key = node.key
  <2>1. Larger(node.frameMax, node.acc) \in Int
    BY DEF Larger, Node
  <2> DEFINE most == Larger(node.frameMax, node.acc)
  <2>2. \/ FrameFlushed(node, frame) = node
        \/ FrameFlushed(node, frame) = [node EXCEPT !.frameMax = most, !.acc = 0, !.accFrame = frame]
    BY DEF FrameFlushed
  <2> HIDE DEF most
  <2>3. most \in Int /\ 0 \in Int
    BY <2>1 DEF most
  <2> QED BY <2>2, <2>3 DEF Node
<1> DEFINE g == FrameFlushed(node, frame)
<1>2. Took(node, frame, taken) =
        [g EXCEPT !.acc = g.acc + taken, !.calls = [g.calls EXCEPT ![frame] = g.calls[frame] + taken]]
  BY DEF Took
<1> HIDE DEF g
<1>3. g \in Node
  BY <1>1 DEF g
<1>4. /\ g.acc + taken \in Int
      /\ [g.calls EXCEPT ![frame] = g.calls[frame] + taken] \in [VideoFrame -> Int]
  BY <1>3 DEF Node
<1>5. /\ Took(node, frame, taken) \in Node
      /\ Took(node, frame, taken).key = g.key
  BY <1>2, <1>3, <1>4 DEF Node
<1> QED BY <1>1, <1>5 DEF g

\* Another node at a place of the sequence.
LEMMA NodePut ==
    ASSUME NEW nodes \in Seq(Node), NEW n \in DOMAIN nodes, NEW node \in Node, node.key = nodes[n].key
    PROVE  LET new == [nodes EXCEPT ![n] = node]
           IN  /\ new \in Seq(Node) /\ Len(new) = Len(nodes) /\ DOMAIN new = DOMAIN nodes
               /\ \A m \in DOMAIN nodes : new[m].key = nodes[m].key
OBVIOUS

\* pop
LEMMA Pops ==
    ASSUME TreeAssumption, NEW t, TreeType(t), t.open # <<>>
    PROVE  LET u == FramePopped(t)
           IN  TreeType(u) /\ Grown(t, u) /\ Outermost(t, u, Len(t.open) - 1)
<1> DEFINE f == Last(t.open)
           node == Took(t.nodes[f.node], t.frame, t.spent[f.level] - f.start)
           nodes == [t.nodes EXCEPT ![f.node] = node]
           open == Front(t.open)
           level == IF f.irq /\ t.level > 0 THEN t.level - 1 ELSE t.level
           u == FramePopped(t)
<1>1. /\ Len(t.open) \in Nat /\ Len(t.open) > 0 /\ Len(t.open) \in DOMAIN t.open
      /\ f = t.open[Len(t.open)]
  BY DEF TreeType, Last
<1>2. f \in OpenFrame /\ f.node \in DOMAIN t.nodes /\ f.resume \in DOMAIN t.nodes
  BY <1>1 DEF TreeType
<1>3. node \in Node /\ node.key = t.nodes[f.node].key
  <2>1. t.nodes[f.node] \in Node /\ t.frame \in VideoFrame
    BY <1>2 DEF TreeType
  <2> HIDE DEF f
  <2>2. t.spent[f.level] - f.start \in Int
    <3>1. f.level \in 0 .. MaxNested /\ f.start \in Int
      BY <1>2 DEF OpenFrame
    <3>2. t.spent[f.level] \in Int
      BY <3>1 DEF TreeType
    <3> QED BY <3>1, <3>2
  <2> QED BY <2>1, <2>2, NodeTakes
<1>4. /\ u.nodes = nodes /\ u.open = open /\ u.cur = f.resume /\ u.level = level
      /\ u.spent = t.spent /\ u.frame = t.frame /\ u.finished = t.finished
      /\ DOMAIN u = TreeFields
  BY DEF TreeType, TreeFields, FramePopped
<1>5. /\ open \in Seq(OpenFrame) /\ Len(open) = Len(t.open) - 1
      /\ \A i \in 1 .. Len(t.open) - 1 : open[i] = t.open[i]
  BY <1>1 DEF TreeType, Front
<1>6. level \in 0 .. MaxNested
  <2>1. t.level \in 0 .. MaxNested /\ MaxNested \in Nat
    BY DEF TreeType, TreeAssumption
  <2>2. level = t.level \/ (t.level > 0 /\ level = t.level - 1)
    OBVIOUS
  <2> HIDE DEF level
  <2> QED BY <2>1, <2>2
<1> HIDE DEF node, open, level, f
<1>7. /\ nodes \in Seq(Node) /\ Len(nodes) = Len(t.nodes) /\ DOMAIN nodes = DOMAIN t.nodes
      /\ \A m \in DOMAIN t.nodes : nodes[m].key = t.nodes[m].key
  BY <1>2, <1>3, NodePut DEF TreeType
<1> HIDE DEF nodes, u
<1>8. \A i \in DOMAIN u.open : i \in DOMAIN t.open /\ u.open[i] = t.open[i]
  <2>1. DOMAIN u.open = 1 .. Len(t.open) - 1
    BY <1>1, <1>4, <1>5
  <2>2. DOMAIN t.open = 1 .. Len(t.open)
    BY DEF TreeType
  <2> QED BY <1>1, <1>4, <1>5, <2>1, <2>2
<1>9. TreeType(u)
  BY <1>2, <1>4, <1>5, <1>6, <1>7, <1>8 DEF TreeType
<1>10. Grown(t, u)
  BY <1>4, <1>7 DEF Grown, TreeType
<1>11. Outermost(t, u, Len(t.open) - 1)
  BY <1>4, <1>5 DEF Outermost
<1> QED BY <1>9, <1>10, <1>11 DEF u

\* A tree's sequences are numbered from 1.
LEMMA TreeSizes ==
    ASSUME NEW t, TreeType(t)
    PROVE  /\ Len(t.nodes) \in Nat /\ DOMAIN t.nodes = 1 .. Len(t.nodes)
           /\ Len(t.open) \in Nat /\ DOMAIN t.open = 1 .. Len(t.open)
<1>1. t.nodes \in Seq(Node) /\ t.open \in Seq(OpenFrame)
  BY DEF TreeType
<1> QED BY <1>1

\* What growing and keeping the outermost come to over two steps.
LEMMA GrownTwice ==
    ASSUME NEW t, NEW u, NEW v, TreeType(t), TreeType(u), TreeType(v), Grown(t, u), Grown(u, v)
    PROVE  Grown(t, v)
<1>1. /\ Len(t.nodes) \in Nat /\ Len(u.nodes) \in Nat /\ Len(v.nodes) \in Nat
      /\ DOMAIN t.nodes = 1 .. Len(t.nodes) /\ DOMAIN u.nodes = 1 .. Len(u.nodes)
  BY TreeSizes
<1>2. Len(t.nodes) <= Len(v.nodes) /\ DOMAIN t.nodes \subseteq DOMAIN u.nodes
  BY <1>1 DEF Grown
<1> QED BY <1>2 DEF Grown

\* The tree after n turns of a loop that pops what is going.
IsPopping(f, t, going, n) ==
    f = [m \in 0 .. n |->
            IF m = 0 THEN t
            ELSE LET u == f[m - 1]
                 IN  IF u.open # <<>> /\ Last(u.open) \in going THEN FramePopped(u) ELSE u]

\* There is one for any number of turns.
LEMMA PoppingExists ==
    ASSUME NEW t, NEW going, NEW k \in Nat
    PROVE  \E f : IsPopping(f, t, going, k)
<1> DEFINE Bad == {n \in Nat : ~\E f : IsPopping(f, t, going, n)}
           Turn(u) == IF u.open # <<>> /\ Last(u.open) \in going THEN FramePopped(u) ELSE u
<1> SUFFICES Bad = {}
  OBVIOUS
<1> SUFFICES ASSUME Bad # {} PROVE FALSE
  OBVIOUS
<1>1. PICK n \in Bad : \A m \in Bad : n <= m
  BY LeastOf
<1>2. CASE n = 0
  <2> DEFINE f == [m \in 0 .. 0 |-> t]
  <2>1. f = [m \in 0 .. 0 |-> IF m = 0 THEN t ELSE Turn(f[m - 1])]
    BY \A m \in 0 .. 0 : m = 0
  <2> QED BY <1>1, <1>2, <2>1 DEF IsPopping
<1>3. CASE n # 0
  <2>1. n - 1 \in Nat /\ n - 1 \notin Bad /\ n \in Nat
    BY <1>1, <1>3
  <2>2. PICK f : IsPopping(f, t, going, n - 1)
    BY <2>1
  <2>3. f = [m \in 0 .. n - 1 |-> IF m = 0 THEN t ELSE Turn(f[m - 1])]
    BY <2>2 DEF IsPopping
  <2> DEFINE g == [m \in 0 .. n |-> IF m < n THEN f[m] ELSE Turn(f[n - 1])]
             h == [m \in 0 .. n |-> IF m = 0 THEN t ELSE Turn(g[m - 1])]
  <2> HIDE DEF Turn
  <2>4. ASSUME NEW m \in 0 .. n PROVE g[m] = h[m]
    <3>1. CASE m = 0
      <4>1. f[0] = t
        BY <2>1, <2>3
      <4> QED BY <1>3, <2>1, <3>1, <4>1
    <3>2. CASE m # 0 /\ m < n
      <4>1. m \in 0 .. n - 1 /\ m - 1 \in 0 .. n /\ m - 1 < n
        BY <2>1, <3>2
      <4>2. f[m] = Turn(f[m - 1])
        BY <2>3, <3>2, <4>1
      <4>3. g[m - 1] = f[m - 1]
        BY <4>1
      <4> QED BY <3>2, <4>2, <4>3
    <3>3. CASE m # 0 /\ ~(m < n)
      <4>1. m = n /\ n - 1 \in 0 .. n /\ n - 1 < n
        BY <2>1, <3>3
      <4>2. g[n - 1] = f[n - 1]
        BY <4>1
      <4> QED BY <3>3, <4>1, <4>2
    <3> QED BY <3>1, <3>2, <3>3
  <2>5. g = h
    BY <2>4
  <2>6. IsPopping(g, t, going, n)
    BY <2>5 DEF IsPopping, Turn
  <2> QED BY <1>1, <2>6
<1> QED BY <1>2, <1>3

\* After as many turns as there were frames, what is left are the outermost,
\* to the last of which the loop did not want to go.
LEMMA PopsWhatGoes ==
    ASSUME TreeAssumption, NEW t, TreeType(t), NEW going
    PROVE  LET u == Popped(t, going)
           IN  /\ TreeType(u) /\ Grown(t, u)
               /\ \E k \in 0 .. Len(t.open) :
                    /\ Outermost(t, u, k)
                    /\ \A i \in k + 1 .. Len(t.open) : t.open[i] \in going
                    /\ k > 0 => t.open[k] \notin going
<1> DEFINE N == Len(t.open)
           f == CHOOSE g : IsPopping(g, t, going, N)
           Remaining(u, n, k) ==
               /\ Outermost(t, u, k)
               /\ \A i \in k + 1 .. N : t.open[i] \in going
               /\ k = N - n \/ (k > 0 /\ t.open[k] \notin going)
           Fine(n) == TreeType(f[n]) /\ Grown(t, f[n]) /\ \E k \in 0 .. N : Remaining(f[n], n, k)
           Bad == {n \in 0 .. N : ~Fine(n)}
<1>0. N \in Nat /\ DOMAIN t.open = 1 .. N
  BY DEF TreeType
<1> HIDE DEF N
<1>1. IsPopping(f, t, going, N)
  BY <1>0, PoppingExists
<1>2. Popped(t, going) = f[N]
  BY DEF Popped, IsPopping, N
<1> HIDE DEF f
<1>3. Fine(0)
  <2>1. f[0] = t
    BY <1>0, <1>1 DEF IsPopping
  <2>2. Grown(t, t)
    BY DEF Grown, TreeType
  <2>3. Remaining(t, 0, N)
    BY <1>0 DEF Outermost, N
  <2> HIDE DEF Remaining
  <2> QED BY <1>0, <2>1, <2>2, <2>3
<1>4. ASSUME NEW n \in 1 .. N, Fine(n - 1) PROVE Fine(n)
  <2> DEFINE u == f[n - 1]
             v == f[n]
  <2>1. v = IF u.open # <<>> /\ Last(u.open) \in going THEN FramePopped(u) ELSE u
    <3>1. n \in 0 .. N /\ n # 0
      BY <1>0
    <3> QED BY <1>1, <3>1 DEF IsPopping
  <2>2. TreeType(u) /\ Grown(t, u)
    BY <1>4
  <2>3. PICK k \in 0 .. N : Remaining(u, n - 1, k)
    BY <1>4
  <2> HIDE DEF u, v
  <2>4. Len(u.open) = k /\ \A i \in 1 .. k : u.open[i] = t.open[i]
    BY <2>3 DEF Outermost
  <2>5. CASE k > 0 /\ t.open[k] \in going
    <3>1. u.open # <<>> /\ Last(u.open) = t.open[k]
      BY <1>0, <2>2, <2>4, <2>5 DEF Last, TreeType
    <3>2. v = FramePopped(u)
      BY <2>1, <2>5, <3>1
    <3>3. TreeType(v) /\ Grown(u, v) /\ Outermost(u, v, k - 1)
      BY <2>2, <2>4, <3>1, <3>2, Pops
    <3>4. Grown(t, v)
      BY <2>2, <3>3, GrownTwice
    <3>5. k - 1 \in 0 .. N /\ k = N - (n - 1)
      BY <1>0, <2>3, <2>5
    <3>6. Remaining(v, n, k - 1)
      <4>1. Outermost(t, v, k - 1)
        BY <1>0, <2>4, <3>3 DEF Outermost
      <4>2. \A i \in k .. N : t.open[i] \in going
        BY <1>0, <2>3, <2>5
      <4> QED BY <1>0, <3>5, <4>1, <4>2
    <3> HIDE DEF Remaining
    <3> QED BY <3>3, <3>4, <3>5, <3>6 DEF v
  <2>6. CASE ~(k > 0 /\ t.open[k] \in going)
    <3>1. v = u
      <4>1. CASE k = 0
        <5>1. u.open = <<>>
          BY <2>2, <2>4, <4>1 DEF TreeType
        <5> QED BY <2>1, <5>1
      <4>2. CASE k # 0
        <5>1. Last(u.open) = t.open[k]
          BY <1>0, <2>4, <4>2 DEF Last
        <5> QED BY <1>0, <2>1, <2>6, <4>2, <5>1
      <4> QED BY <4>1, <4>2
    <3>2. Remaining(v, n, k)
      BY <1>0, <2>3, <2>6, <3>1
    <3> HIDE DEF Remaining
    <3> QED BY <2>2, <3>1, <3>2 DEF v
  <2> QED BY <2>5, <2>6
<1> HIDE DEF Fine
<1>5. Bad = {}
  <2> SUFFICES ASSUME Bad # {} PROVE FALSE
    OBVIOUS
  <2>1. Bad \in SUBSET Nat
    BY <1>0
  <2>2. PICK n \in Bad : \A m \in Bad : n <= m
    BY <2>1, LeastOf
  <2>3. n # 0 /\ n \in 0 .. N /\ ~Fine(n)
    BY <1>3, <2>2
  <2>4. n \in 1 .. N /\ n - 1 \in 0 .. N /\ n - 1 \notin Bad
    BY <1>0, <2>2, <2>3
  <2> QED BY <1>4, <2>3, <2>4
<1>6. Fine(N)
  BY <1>0, <1>5
<1>7. PICK k \in 0 .. N : Remaining(f[N], N, k)
  BY <1>6 DEF Fine
<1>8. /\ Outermost(t, f[N], k)
      /\ \A i \in k + 1 .. N : t.open[i] \in going
      /\ k > 0 => t.open[k] \notin going
  BY <1>0, <1>7
<1>9. TreeType(f[N]) /\ Grown(t, f[N])
  BY <1>6 DEF Fine
<1> QED BY <1>2, <1>8, <1>9 DEF N

\* Frames lie below those they were pushed on, and leave the stack's places
\* to them.
Falling(t) ==
    /\ \A i, j \in DOMAIN t.open : i < j => t.open[i].sp > t.open[j].sp
    /\ \A i \in DOMAIN t.open : t.open[i].sp \in 1 .. StackTop + 1 - i

\* retire: exactly the frames the stack has risen past.
LEMMA Retires ==
    ASSUME TreeAssumption, NEW t, TreeType(t), Falling(t), NEW p \in Nat
    PROVE  LET u == Retired(t, p)
           IN  /\ TreeType(u) /\ Grown(t, u) /\ Falling(u)
               /\ \A i \in DOMAIN u.open : i \in DOMAIN t.open /\ u.open[i] = t.open[i]
               /\ \A i \in DOMAIN t.open : i \in DOMAIN u.open <=> t.open[i].sp > p
<1> DEFINE going == {f \in Range(t.open) : f.sp <= p}
           u == Retired(t, p)
<1>1. u = Popped(t, going)
  BY DEF Retired
<1>2. \A i \in DOMAIN t.open : t.open[i] \in going <=> t.open[i].sp <= p
  BY DEF Range
<1> HIDE DEF going, u
<1>0. \A i \in DOMAIN t.open : t.open[i].sp \in Nat
  <2> SUFFICES ASSUME NEW i \in DOMAIN t.open PROVE t.open[i].sp \in Nat
    OBVIOUS
  <2>1. t.open[i] \in OpenFrame
    BY DEF TreeType
  <2> QED BY <2>1 DEF OpenFrame
<1>3. TreeType(u) /\ Grown(t, u)
  BY <1>1, PopsWhatGoes
<1>4. PICK k \in 0 .. Len(t.open) :
        /\ Outermost(t, u, k)
        /\ \A i \in k + 1 .. Len(t.open) : t.open[i] \in going
        /\ k > 0 => t.open[k] \notin going
  BY <1>1, PopsWhatGoes
<1>5. /\ Len(t.open) \in Nat /\ DOMAIN t.open = 1 .. Len(t.open)
      /\ DOMAIN u.open = 1 .. k /\ k \in Nat
  BY <1>3, <1>4, TreeSizes DEF Outermost
<1>6. \A i \in DOMAIN u.open : i \in DOMAIN t.open /\ u.open[i] = t.open[i]
  BY <1>4, <1>5 DEF Outermost
<1>7. ASSUME NEW i \in DOMAIN t.open PROVE i \in DOMAIN u.open <=> t.open[i].sp > p
  <2>0. t.open[i].sp \in Nat
    BY <1>0
  <2>1. CASE i <= k
    <3>1. k \in DOMAIN t.open /\ k > 0
      BY <1>5, <2>1
    <3>2. t.open[k].sp \in Nat /\ ~(t.open[k].sp <= p)
      BY <1>0, <1>2, <1>4, <3>1
    <3>3. i = k \/ t.open[i].sp > t.open[k].sp
      BY <1>5, <2>1, <3>1 DEF Falling
    <3> QED BY <1>5, <2>0, <2>1, <3>2, <3>3
  <2>2. CASE i > k
    BY <1>2, <1>4, <1>5, <2>0, <2>2
  <2> QED BY <1>5, <2>1, <2>2
<1>8. Falling(u)
  BY <1>6 DEF Falling
<1> QED BY <1>3, <1>6, <1>7, <1>8 DEF u

\* A node of this name, or [other], or of any where there is no more room.
Named(t, n, key) == t.nodes[n].key \in {key, OtherKey} \/ Len(t.nodes) = PoolSize

\* Names last.
LEMMA NamesLast ==
    ASSUME NEW t, NEW u, Grown(t, u), NEW n \in DOMAIN t.nodes, NEW key, Named(t, n, key)
    PROVE  Named(u, n, key)
BY DEF Grown, Named

\* child
LEMMA Children ==
    ASSUME TreeAssumption, NEW t, TreeType(t), NEW parent \in DOMAIN t.nodes, NEW key \in Routines
    PROVE  LET folded == FoldedKey(t, parent, key)
               u == WithChild(t, parent, folded)
               n == Child(u, parent, folded)
           IN  /\ TreeType(u) /\ Grown(t, u) /\ u.open = t.open /\ u.level = t.level
               /\ u.spent = t.spent /\ u.cur = t.cur
               /\ n \in DOMAIN u.nodes /\ Named(u, n, key)
<1> DEFINE folded == FoldedKey(t, parent, key)
           u == WithChild(t, parent, folded)
           n == Child(u, parent, folded)
           new == NewNode(parent, folded)
<1>0. Len(t.nodes) \in Nat /\ DOMAIN t.nodes = 1 .. Len(t.nodes)
  BY TreeSizes
<1>1. folded \in {key, OtherKey} /\ folded \in NodeKey
  BY DEF FoldedKey, NodeKey
<1> HIDE DEF folded
<1>2. CASE ChildrenOf(t, parent, folded) # {} \/ Len(t.nodes) = PoolSize
  <2>1. u = t
    BY <1>2 DEF WithChild
  <2>2. Grown(t, t)
    BY <1>0 DEF Grown
  <2>3. n \in DOMAIN t.nodes /\ Named(t, n, key)
    <3>1. CASE ChildrenOf(t, parent, folded) = {}
      <4>1. n = parent
        BY <2>1, <3>1 DEF Child
      <4> QED BY <1>2, <3>1, <4>1 DEF Named
    <3>2. CASE ChildrenOf(t, parent, folded) # {}
      <4>1. n \in ChildrenOf(t, parent, folded)
        BY <2>1, <3>2 DEF Child
      <4> QED BY <1>1, <4>1 DEF Named, ChildrenOf
    <3> QED BY <3>1, <3>2
  <2> HIDE DEF u, n
  <2> QED BY <2>1, <2>2, <2>3 DEF u, n, folded
<1>3. CASE ChildrenOf(t, parent, folded) = {} /\ Len(t.nodes) # PoolSize
  <2>1. u = [t EXCEPT !.nodes = Append(t.nodes, new)]
    BY <1>3 DEF WithChild
  <2>2. new \in Node /\ new.key = folded /\ new.parent = parent
    <3>1. 0 \in VideoFrame
      BY DEF TreeAssumption, VideoFrame
    <3>2. [f \in VideoFrame |-> 0] \in [VideoFrame -> Int]
      OBVIOUS
    <3> QED BY <1>0, <1>1, <3>1, <3>2 DEF NewNode, Node
  <2> HIDE DEF new, u, n
  <2>3. /\ u.nodes = Append(t.nodes, new) /\ u.open = t.open /\ u.level = t.level
        /\ u.spent = t.spent /\ u.cur = t.cur /\ u.frame = t.frame /\ u.finished = t.finished
        /\ DOMAIN u = TreeFields
    BY <2>1 DEF TreeType, TreeFields
  <2>4. /\ u.nodes \in Seq(Node) /\ Len(u.nodes) = Len(t.nodes) + 1
        /\ DOMAIN u.nodes = 1 .. Len(t.nodes) + 1
        /\ \A m \in DOMAIN t.nodes : u.nodes[m] = t.nodes[m]
        /\ u.nodes[Len(t.nodes) + 1] = new
    BY <2>2, <2>3 DEF TreeType
  <2>5. DOMAIN t.nodes \subseteq DOMAIN u.nodes
    BY <1>0, <2>4
  <2>6. TreeType(u)
    BY <1>0, <2>3, <2>4, <2>5 DEF TreeType
  <2>7. Grown(t, u)
    BY <1>0, <1>3, <2>3, <2>4 DEF Grown
  <2>8. Len(t.nodes) + 1 \in ChildrenOf(u, parent, folded)
    BY <1>0, <2>2, <2>4 DEF ChildrenOf
  <2>9. n \in ChildrenOf(u, parent, folded)
    BY <2>8 DEF Child, n
  <2>10. n \in DOMAIN u.nodes /\ Named(u, n, key)
    BY <1>1, <2>9 DEF Named, ChildrenOf
  <2> QED BY <2>3, <2>6, <2>7, <2>10 DEF u, n, folded
<1> QED BY <1>2, <1>3

\* push, where the frame fits in: after a call or an interrupt the routine has
\* the innermost frame.
LEMMA Opens ==
    ASSUME TreeAssumption, NEW t, TreeType(t), Falling(t), NEW p \in 1 .. StackTop,
           StackTop <= MaxOpen, \A i \in DOMAIN t.open : t.open[i].sp > p,
           NEW parent \in DOMAIN t.nodes, NEW key \in Routines, NEW irq \in BOOLEAN
    PROVE  LET u == Opened(t, parent, key, p, irq)
               n == Len(t.open) + 1
               v == WithChild(t, parent, FoldedKey(t, parent, key))
               level == IF irq /\ t.level < MaxNested THEN t.level + 1 ELSE t.level
           IN  /\ TreeType(u) /\ Grown(t, u) /\ Falling(u)
               /\ DOMAIN u.open = DOMAIN t.open \cup {n}
               /\ \A i \in DOMAIN t.open : u.open[i] = t.open[i]
               /\ u.open[n].sp = p /\ u.open[n].irq = irq
               /\ Named(u, u.open[n].node, key)
               /\ u.nodes = v.nodes /\ u.open[n].node = Child(v, parent, FoldedKey(t, parent, key))
               /\ u.open[n].resume = t.cur /\ u.open[n].level = level
               /\ u.open[n].start = t.spent[level]
               /\ u.cur = u.open[n].node /\ u.level = level /\ u.spent = t.spent
<1> DEFINE folded == FoldedKey(t, parent, key)
           v == WithChild(t, parent, folded)
           n == Child(v, parent, folded)
           level == IF irq /\ t.level < MaxNested THEN t.level + 1 ELSE t.level
           f == [irq |-> irq, node |-> n, resume |-> t.cur, sp |-> p, level |-> level,
                 start |-> t.spent[level]]
           u == Opened(t, parent, key, p, irq)
           k == Len(t.open)
<1>1. /\ TreeType(v) /\ Grown(t, v) /\ v.open = t.open /\ v.level = t.level
      /\ v.spent = t.spent /\ v.cur = t.cur
      /\ n \in DOMAIN v.nodes /\ Named(v, n, key)
  BY Children
<1>2. u = [Pushed(v, f) EXCEPT !.cur = n, !.level = level]
  BY DEF Opened
<1> HIDE DEF folded, v, n
<1>3. level \in 0 .. MaxNested
  <2>1. t.level \in 0 .. MaxNested /\ MaxNested \in Nat
    BY DEF TreeType, TreeAssumption
  <2>2. level = t.level \/ (t.level < MaxNested /\ level = t.level + 1)
    OBVIOUS
  <2> HIDE DEF level
  <2> QED BY <2>1, <2>2
<1> HIDE DEF level
<1>4. /\ k \in Nat /\ DOMAIN t.open = 1 .. k
      /\ DOMAIN v.nodes = 1 .. Len(v.nodes) /\ Len(v.nodes) \in Nat
      /\ StackTop \in Nat /\ MaxOpen \in Nat
  BY <1>1, TreeSizes DEF TreeAssumption
<1> HIDE DEF k
<1>5. k < MaxOpen /\ p <= StackTop - k
  <2>1. CASE k = 0
    BY <1>4, <2>1
  <2>2. CASE k # 0
    <3>1. k \in DOMAIN t.open
      BY <1>4, <2>2
    <3>2. t.open[k].sp > p /\ t.open[k].sp \in 1 .. StackTop + 1 - k
      BY <3>1 DEF Falling
    <3> QED BY <1>4, <3>2
  <2> QED BY <2>1, <2>2
<1>6. Pushed(v, f) = [v EXCEPT !.open = Append(t.open, f)]
  <2>1. Len(v.open) # MaxOpen
    BY <1>1, <1>4, <1>5 DEF k
  <2> HIDE DEF f
  <2> QED BY <1>1, <2>1 DEF Pushed
<1>7. f \in OpenFrame
  <2>1. /\ t.spent[level] \in Int /\ t.cur \in DOMAIN t.nodes /\ DOMAIN t.nodes \subseteq Nat
        /\ n \in Nat /\ p \in Nat
    <3>1. t.spent[level] \in Int /\ t.cur \in DOMAIN t.nodes
      BY <1>3 DEF TreeType
    <3>2. DOMAIN t.nodes \subseteq Nat
      BY TreeSizes
    <3> QED BY <1>1, <1>4, <3>1, <3>2
  <2> QED BY <1>3, <2>1 DEF OpenFrame
<1>8. /\ f.sp = p /\ f.irq = irq /\ f.node = n /\ f.resume = t.cur
      /\ f.level = level /\ f.start = t.spent[level]
  OBVIOUS
<1> HIDE DEF f, u
<1>9. /\ u.nodes = v.nodes /\ u.open = Append(t.open, f) /\ u.cur = n /\ u.level = level
      /\ u.spent = v.spent /\ u.frame = v.frame /\ u.finished = v.finished
      /\ DOMAIN u = TreeFields
  BY <1>1, <1>2, <1>6 DEF TreeType, TreeFields
<1>10. /\ u.open \in Seq(OpenFrame) /\ DOMAIN u.open = 1 .. k + 1
       /\ \A i \in 1 .. k : u.open[i] = t.open[i]
       /\ u.open[k + 1] = f
  BY <1>4, <1>7, <1>9 DEF TreeType, k
<1>11. /\ DOMAIN u.open = DOMAIN t.open \cup {k + 1} /\ k + 1 \notin DOMAIN t.open
       /\ \A i \in DOMAIN t.open : u.open[i] = t.open[i]
  BY <1>4, <1>10
<1>12. TreeType(u)
  <2>1. \A i \in DOMAIN u.open : {u.open[i].node, u.open[i].resume} \subseteq DOMAIN u.nodes
    <3>1. \A i \in DOMAIN t.open : {t.open[i].node, t.open[i].resume} \subseteq DOMAIN v.nodes
      BY <1>1 DEF TreeType
    <3>2. {f.node, f.resume} \subseteq DOMAIN v.nodes
      BY <1>1, <1>8 DEF TreeType
    <3> QED BY <1>9, <1>10, <1>11, <3>1, <3>2
  <2> QED BY <1>1, <1>3, <1>9, <1>10, <2>1 DEF TreeType
<1>13. Grown(t, u)
  BY <1>1, <1>9 DEF Grown
<1>14. Falling(u)
  <2>1. \A i \in DOMAIN u.open : u.open[i].sp \in 1 .. StackTop + 1 - i
    <3> SUFFICES ASSUME NEW i \in DOMAIN u.open PROVE u.open[i].sp \in 1 .. StackTop + 1 - i
      OBVIOUS
    <3>1. CASE i \in DOMAIN t.open
      BY <1>11, <3>1 DEF Falling
    <3>2. CASE i = k + 1
      BY <1>4, <1>5, <1>8, <1>10, <3>2
    <3> QED BY <1>11, <3>1, <3>2
  <2>2. ASSUME NEW i \in DOMAIN u.open, NEW j \in DOMAIN u.open, i < j
        PROVE  u.open[i].sp > u.open[j].sp
    <3>1. i \in DOMAIN t.open
      BY <1>4, <1>10, <2>2
    <3>2. CASE j \in DOMAIN t.open
      BY <1>11, <2>2, <3>1, <3>2 DEF Falling
    <3>3. CASE j = k + 1
      BY <1>8, <1>10, <1>11, <3>1, <3>3
    <3> QED BY <1>11, <3>2, <3>3
  <2> QED BY <2>1, <2>2 DEF Falling
<1>15. Named(u, n, key)
  BY <1>1, <1>9 DEF Named
<1>16. /\ u.nodes = v.nodes /\ u.open[k + 1] = f /\ f.node = n /\ f.resume = t.cur
       /\ f.level = level /\ f.start = t.spent[level]
       /\ u.cur = f.node /\ u.level = level /\ u.spent = t.spent
  BY <1>1, <1>8, <1>9, <1>10
<1> QED BY <1>8, <1>10, <1>11, <1>12, <1>13, <1>14, <1>15, <1>16 DEF u, k, v, n, folded, level


\* There is a frame for this routine.
HasFrame(t, r) ==
    \E j \in DOMAIN t.open :
        /\ t.open[j].sp = r.sp /\ t.open[j].irq = r.irq
        /\ Named(t, t.open[j].node, r.key)

\* u is t some events later, which took frames up to p only.
Leads(t, u, p) ==
    /\ TreeType(u) /\ Falling(u)
    /\ u.frame = t.frame /\ u.finished = t.finished
    /\ \A r : HasFrame(t, r) /\ r.sp > p => HasFrame(u, r)

\* A frame that stays is still the routine's.
LEMMA FramesStay ==
    ASSUME NEW t, NEW u, TreeType(t), Grown(t, u), NEW r, HasFrame(t, r),
           \A i \in DOMAIN t.open : t.open[i].sp = r.sp => i \in DOMAIN u.open /\ u.open[i] = t.open[i]
    PROVE  HasFrame(u, r)
<1>1. PICK j \in DOMAIN t.open :
        /\ t.open[j].sp = r.sp /\ t.open[j].irq = r.irq
        /\ Named(t, t.open[j].node, r.key)
  BY DEF HasFrame
<1>2. t.open[j].node \in DOMAIN t.nodes
  BY <1>1 DEF TreeType
<1>3. Named(u, t.open[j].node, r.key)
  BY <1>1, <1>2, NamesLast
<1> QED BY <1>1, <1>3 DEF HasFrame

\* One event after another.
LEMMA FollowsTwice ==
    ASSUME NEW t, NEW u, NEW v, NEW p, Leads(t, u, p), Leads(u, v, p)
    PROVE  Leads(t, v, p)
BY DEF Leads

\* cct_step counts a clock and moves no frame.
LEMMA Ticks ==
    ASSUME TreeAssumption, NEW t, TreeType(t), Falling(t), NEW p
    PROVE  Leads(t, Ticked(t), p)
<1> DEFINE u == Ticked(t)
           node == [t.nodes[t.cur] EXCEPT !.self = t.nodes[t.cur].self + 1]
           nodes == [t.nodes EXCEPT ![t.cur] = node]
           spent == [t.spent EXCEPT ![t.level] = t.spent[t.level] + 1]
<1>1. /\ u.nodes = nodes /\ u.open = t.open /\ u.cur = t.cur /\ u.level = t.level
      /\ u.spent = spent /\ u.frame = t.frame /\ u.finished = t.finished
      /\ DOMAIN u = TreeFields
  BY DEF TreeType, TreeFields, Ticked
<1>2. node \in Node /\ node.key = t.nodes[t.cur].key
  <2>1. t.nodes[t.cur] \in Node
    BY DEF TreeType
  <2> QED BY <2>1 DEF Node
<1>3. spent \in [0 .. MaxNested -> Int]
  <2>1. t.spent[t.level] + 1 \in Int
    BY DEF TreeType
  <2> QED BY <2>1 DEF TreeType
<1> HIDE DEF node, spent
<1>4. /\ nodes \in Seq(Node) /\ Len(nodes) = Len(t.nodes) /\ DOMAIN nodes = DOMAIN t.nodes
      /\ \A m \in DOMAIN t.nodes : nodes[m].key = t.nodes[m].key
  BY <1>2, NodePut DEF TreeType
<1> HIDE DEF nodes, u
<1>5. TreeType(u)
  BY <1>1, <1>3, <1>4 DEF TreeType
<1>6. Grown(t, u)
  BY <1>1, <1>4, TreeSizes DEF Grown
<1>7. Falling(u)
  BY <1>1 DEF Falling
<1>8. ASSUME NEW r, HasFrame(t, r) PROVE HasFrame(u, r)
  BY <1>1, <1>6, <1>8, FramesStay
<1> QED BY <1>1, <1>5, <1>7, <1>8 DEF Leads, u

\* retire, as an event.
LEMMA RetiresFollows ==
    ASSUME TreeAssumption, NEW t, TreeType(t), Falling(t), NEW p \in Nat
    PROVE  /\ Leads(t, Retired(t, p), p)
           /\ \A i \in DOMAIN Retired(t, p).open : Retired(t, p).open[i].sp > p
<1> DEFINE u == Retired(t, p)
<1>1. /\ TreeType(u) /\ Grown(t, u) /\ Falling(u)
      /\ \A i \in DOMAIN u.open : i \in DOMAIN t.open /\ u.open[i] = t.open[i]
      /\ \A i \in DOMAIN t.open : i \in DOMAIN u.open <=> t.open[i].sp > p
  BY Retires
<1> HIDE DEF u
<1>2. ASSUME NEW r, HasFrame(t, r), r.sp > p PROVE HasFrame(u, r)
  <2>1. \A i \in DOMAIN t.open : t.open[i].sp = r.sp => i \in DOMAIN u.open /\ u.open[i] = t.open[i]
    BY <1>1, <1>2
  <2> QED BY <1>1, <1>2, <2>1, FramesStay
<1>3. u.frame = t.frame /\ u.finished = t.finished
  BY <1>1 DEF Grown
<1>4. Leads(t, u, p)
  BY <1>1, <1>2, <1>3 DEF Leads
<1> QED BY <1>1, <1>4 DEF u

\* push, as an event: others keep their frames, and the new routine has one.
LEMMA OpensFollows ==
    ASSUME TreeAssumption, StackTop <= MaxOpen, NEW t, TreeType(t), Falling(t),
           NEW p \in 1 .. StackTop, \A i \in DOMAIN t.open : t.open[i].sp > p,
           NEW parent \in DOMAIN t.nodes, NEW key \in Routines, NEW irq \in BOOLEAN
    PROVE  LET u == Opened(t, parent, key, p, irq)
           IN  Leads(t, u, p) /\ HasFrame(u, [sp |-> p, key |-> key, irq |-> irq])
<1> DEFINE u == Opened(t, parent, key, p, irq)
           n == Len(t.open) + 1
<1>1. /\ TreeType(u) /\ Grown(t, u) /\ Falling(u)
      /\ DOMAIN u.open = DOMAIN t.open \cup {n}
      /\ \A i \in DOMAIN t.open : u.open[i] = t.open[i]
      /\ u.open[n].sp = p /\ u.open[n].irq = irq
      /\ Named(u, u.open[n].node, key)
  BY Opens
<1> HIDE DEF u, n
<1>2. ASSUME NEW r, HasFrame(t, r) PROVE HasFrame(u, r)
  BY <1>1, <1>2, FramesStay
<1>3. HasFrame(u, [sp |-> p, key |-> key, irq |-> irq])
  BY <1>1 DEF HasFrame
<1>4. u.frame = t.frame /\ u.finished = t.finished
  BY <1>1 DEF Grown
<1> QED BY <1>1, <1>2, <1>3, <1>4 DEF Leads, u

\* apply_call and cct_irq_enter.
LEMMA Enters ==
    ASSUME TreeAssumption, StackTop <= MaxOpen, NEW t, TreeType(t), Falling(t),
           NEW p \in 1 .. StackTop, NEW key \in Routines
    PROVE  /\ Leads(t, Called(t, key, p), p)
           /\ HasFrame(Called(t, key, p), [sp |-> p, key |-> key, irq |-> FALSE])
           /\ Leads(t, Interrupted(t, key, p), p)
           /\ HasFrame(Interrupted(t, key, p), [sp |-> p, key |-> key, irq |-> TRUE])
<1> DEFINE u == Retired(t, p)
<1>1. Leads(t, u, p) /\ \A i \in DOMAIN u.open : u.open[i].sp > p
  <2>1. p \in Nat
    OBVIOUS
  <2> QED BY <2>1, RetiresFollows
<1>2. Called(t, key, p) = Opened(u, u.cur, key, p, FALSE)
      /\ Interrupted(t, key, p) = Opened(u, IrqRoot, key, p, TRUE)
  BY DEF Called, Interrupted
<1> HIDE DEF u
<1>3. TreeType(u) /\ Falling(u)
  BY <1>1 DEF Leads
<1>4. u.cur \in DOMAIN u.nodes
  BY <1>3 DEF TreeType
<1>5. IrqRoot \in DOMAIN u.nodes
  <2>1. Len(u.nodes) >= 2
    BY <1>3 DEF TreeType
  <2> QED BY <1>3, <2>1, TreeSizes DEF IrqRoot
<1>6. ASSUME NEW parent \in DOMAIN u.nodes, NEW irq \in BOOLEAN
      PROVE  /\ Leads(t, Opened(u, parent, key, p, irq), p)
             /\ HasFrame(Opened(u, parent, key, p, irq), [sp |-> p, key |-> key, irq |-> irq])
  <2>1. /\ Leads(u, Opened(u, parent, key, p, irq), p)
        /\ HasFrame(Opened(u, parent, key, p, irq), [sp |-> p, key |-> key, irq |-> irq])
    BY <1>1, <1>3, OpensFollows
  <2> QED BY <1>1, <2>1, FollowsTwice
<1> QED BY <1>2, <1>4, <1>5, <1>6

\* apply_return
LEMMA ReturnsFollow ==
    ASSUME TreeAssumption, NEW t, TreeType(t), Falling(t), NEW p \in Nat
    PROVE  Leads(t, Returned(t, p), p)
<1>1. Leads(t, t, p)
  BY DEF Leads
<1>2. Leads(t, Retired(t, p), p)
  BY RetiresFollows
<1>3. Returned(t, p) = t \/ Returned(t, p) = Retired(t, p)
  BY DEF Returned
<1> QED BY <1>1, <1>2, <1>3

\* A routine the guest is in, by the place its return address was pushed at.
InRoutine == [sp : Nat, key : Routines, irq : BOOLEAN]

StackType ==
    /\ DOMAIN stack = {"sp", "in"}
    /\ stack.sp \in 0 .. StackTop
    /\ stack.in \in Seq(InRoutine)
    /\ \A i \in DOMAIN stack.in : stack.in[i].sp > stack.sp

\* The tree and the stack keep their types, and while a capture runs each
\* routine has its frame.
TreeInv ==
    /\ TreeType(tree) /\ StackType
    /\ ~tree.finished =>
        /\ tree.frame < MaxVideoFrames
        /\ Falling(tree)
        /\ \A i \in DOMAIN stack.in : HasFrame(tree, stack.in[i])

\* A stack pointer that moves leaves the routines it has not passed.
LEMMA StackMoves ==
    ASSUME StackType, NEW p \in 0 .. StackTop, stack' = StackAt(p)
    PROVE  /\ StackType'
           /\ \A i \in DOMAIN stack'.in : \E j \in DOMAIN stack.in :
                stack'.in[i] = stack.in[j] /\ stack.in[j].sp > p
<1> DEFINE at == {i \in DOMAIN stack.in : stack.in[i].sp > p}
           left == Picked(stack.in, at)
<1>1. stack' = [sp |-> p, in |-> left]
  BY DEF StackAt, StillIn
<1>2. at \in SUBSET (DOMAIN stack.in) /\ \A j \in at : stack.in[j].sp > p
  OBVIOUS
<1> HIDE DEF at
<1>3. left \in Seq(InRoutine) /\ \A i \in DOMAIN left : \E j \in at : left[i] = stack.in[j]
  BY <1>2, PickedOf DEF StackType
<1> HIDE DEF left
<1>4. \A i \in DOMAIN left : \E j \in DOMAIN stack.in : left[i] = stack.in[j] /\ stack.in[j].sp > p
  BY <1>2, <1>3
<1>5. stack'.sp = p /\ stack'.in = left /\ DOMAIN stack' = {"sp", "in"}
  BY <1>1
<1> QED BY <1>3, <1>4, <1>5 DEF StackType

\* A return address that is pushed.
LEMMA StackGrows ==
    ASSUME TreeAssumption, StackType, stack.sp > 0, NEW key \in Routines, NEW irq \in BOOLEAN,
           stack' = StackIn(key, irq)
    PROVE  /\ StackType'
           /\ \A i \in DOMAIN stack'.in :
                \/ stack'.in[i] = [sp |-> stack.sp, key |-> key, irq |-> irq]
                \/ \E j \in DOMAIN stack.in : stack'.in[i] = stack.in[j]
<1> DEFINE r == [sp |-> stack.sp, key |-> key, irq |-> irq]
<1>1. /\ stack'.sp = stack.sp - 1 /\ stack'.in = Append(stack.in, r)
      /\ DOMAIN stack' = {"sp", "in"}
  BY DEF StackIn
<1>2. r \in InRoutine /\ r.sp = stack.sp
  BY DEF StackType, InRoutine
<1>3. stack.sp - 1 \in 0 .. StackTop /\ stack.sp > stack.sp - 1 /\ stack.sp \in Nat
  BY DEF StackType, TreeAssumption
<1> HIDE DEF r
<1>4. /\ stack'.in \in Seq(InRoutine)
      /\ \A i \in DOMAIN stack'.in :
           stack'.in[i] = r \/ \E j \in DOMAIN stack.in : stack'.in[i] = stack.in[j]
  <2>1. stack.in \in Seq(InRoutine)
    BY DEF StackType
  <2>2. /\ DOMAIN stack.in = 1 .. Len(stack.in) /\ Len(stack.in) \in Nat
        /\ stack'.in \in Seq(InRoutine) /\ DOMAIN stack'.in = 1 .. Len(stack.in) + 1
        /\ \A i \in 1 .. Len(stack.in) : stack'.in[i] = stack.in[i]
        /\ stack'.in[Len(stack.in) + 1] = r
    BY <1>1, <1>2, <2>1
  <2> QED BY <2>2
<1>5. \A j \in DOMAIN stack.in : stack.in[j].sp > stack.sp - 1
  <2> SUFFICES ASSUME NEW j \in DOMAIN stack.in PROVE stack.in[j].sp > stack.sp - 1
    OBVIOUS
  <2>1. stack.in[j] \in InRoutine /\ stack.in[j].sp > stack.sp
    BY DEF StackType
  <2> QED BY <1>3, <2>1 DEF InRoutine
<1>6. StackType'
  BY <1>1, <1>2, <1>3, <1>4, <1>5 DEF StackType
<1> QED BY <1>4, <1>6 DEF r

\* A capture begins.
LEMMA TreeEmpty ==
    ASSUME TreeAssumption
    PROVE  TreeType(EmptyTree) /\ Falling(EmptyTree) /\ EmptyTree.frame < MaxVideoFrames
<1>1. 0 \in VideoFrame /\ 0 \in 0 .. MaxNested /\ 0 < MaxVideoFrames
  BY DEF TreeAssumption, VideoFrame
<1>2. [f \in VideoFrame |-> 0] \in [VideoFrame -> Int] /\ [l \in 0 .. MaxNested |-> 0] \in [0 .. MaxNested -> Int]
  OBVIOUS
<1>3. NewNode(0, "main") \in Node /\ NewNode(0, "irq") \in Node
  BY <1>1, <1>2 DEF NewNode, Node, NodeKey
<1>4. << NewNode(0, "main"), NewNode(0, "irq") >> \in Seq(Node)
      /\ Len(<< NewNode(0, "main"), NewNode(0, "irq") >>) = 2
  BY <1>3
<1>5. /\ DOMAIN EmptyTree = TreeFields
      /\ EmptyTree.nodes = << NewNode(0, "main"), NewNode(0, "irq") >>
      /\ EmptyTree.open = <<>> /\ EmptyTree.cur = 1 /\ EmptyTree.level = 0
      /\ EmptyTree.spent = [l \in 0 .. MaxNested |-> 0]
      /\ EmptyTree.frame = 0 /\ EmptyTree.finished = FALSE
  BY DEF EmptyTree, TreeFields, MainRoot
<1>6. <<>> \in Seq(OpenFrame) /\ DOMAIN <<>> = {}
  OBVIOUS
<1>7. 1 \in DOMAIN EmptyTree.nodes
  BY <1>5
<1> HIDE DEF NewNode
<1>8. TreeType(EmptyTree)
  <2>1. EmptyTree.nodes \in Seq(Node) /\ Len(EmptyTree.nodes) >= 2 /\ EmptyTree.cur \in DOMAIN EmptyTree.nodes
    <3> HIDE DEF EmptyTree
    <3> QED BY <1>4, <1>5, <1>7
  <2>2. /\ EmptyTree.open \in Seq(OpenFrame) /\ DOMAIN EmptyTree.open = {}
        /\ EmptyTree.level \in 0 .. MaxNested /\ EmptyTree.spent \in [0 .. MaxNested -> Int]
        /\ EmptyTree.frame \in VideoFrame /\ EmptyTree.finished \in BOOLEAN
    BY <1>1, <1>2, <1>5, <1>6
  <2> QED BY <1>5, <2>1, <2>2 DEF TreeType
<1>9. Falling(EmptyTree)
  BY <1>5, <1>6 DEF Falling
<1> QED BY <1>1, <1>5, <1>8, <1>9

\* cct_finish
LEMMA Finishes ==
    ASSUME TreeAssumption, NEW t, TreeType(t), t.frame < MaxVideoFrames
    PROVE  TreeType(Finished(t)) /\ Finished(t).finished
<1> DEFINE u == ClosedAll(t)
           frame == u.frame + 1
           nodes == [n \in DOMAIN u.nodes |-> FrameFlushed(u.nodes[n], frame)]
           v == Finished(t)
<1>1. TreeType(u) /\ Grown(t, u) /\ \E k \in 0 .. Len(t.open) : Outermost(t, u, k)
  BY PopsWhatGoes DEF ClosedAll
<1>2. v = [u EXCEPT !.cur = MainRoot, !.level = 0, !.finished = TRUE, !.frame = frame, !.nodes = nodes]
  BY DEF Finished
<1> HIDE DEF u
<1>3. frame \in VideoFrame
  <2>1. u.frame = t.frame
    BY <1>1 DEF Grown
  <2>2. t.frame \in 0 .. MaxVideoFrames /\ MaxVideoFrames \in Nat
    BY DEF TreeType, VideoFrame, TreeAssumption
  <2> QED BY <2>1, <2>2 DEF VideoFrame
<1> HIDE DEF frame
<1>4. nodes \in Seq(Node) /\ Len(nodes) = Len(u.nodes) /\ DOMAIN nodes = DOMAIN u.nodes
  <2>1. u.nodes \in Seq(Node) /\ DOMAIN u.nodes = 1 .. Len(u.nodes) /\ Len(u.nodes) \in Nat
    BY <1>1, TreeSizes DEF TreeType
  <2>2. \A n \in DOMAIN u.nodes : FrameFlushed(u.nodes[n], frame) \in Node
    <3> SUFFICES ASSUME NEW n \in DOMAIN u.nodes PROVE FrameFlushed(u.nodes[n], frame) \in Node
      OBVIOUS
    <3>1. u.nodes[n] \in Node
      BY <2>1
    <3> QED BY <1>3, <3>1, NodeTakes, 0 \in Int
  <2> QED BY <2>1, <2>2
<1> HIDE DEF nodes, v
<1>5. /\ v.nodes = nodes /\ v.open = u.open /\ v.cur = 1 /\ v.level = 0
      /\ v.spent = u.spent /\ v.frame = frame /\ v.finished = TRUE
      /\ DOMAIN v = TreeFields
  BY <1>1, <1>2 DEF TreeType, TreeFields, MainRoot
<1>6. 1 \in DOMAIN nodes /\ 0 \in 0 .. MaxNested
  BY <1>1, <1>4, TreeSizes DEF TreeType, TreeAssumption
<1> QED BY <1>1, <1>3, <1>4, <1>5, <1>6 DEF TreeType, v


\* To begin with.
LEMMA TreeStart == TreeInit => TreeInv
<1> SUFFICES ASSUME TreeInit PROVE TreeInv
  OBVIOUS
<1>1. tree = EmptyTree /\ stack.sp = StackTop /\ stack.in = <<>> /\ DOMAIN stack = {"sp", "in"}
  BY DEF TreeInit
<1>2. DOMAIN stack.in = {} /\ stack.in \in Seq(InRoutine) /\ StackTop \in 0 .. StackTop
  BY <1>1, TreeAssumption DEF TreeAssumption
<1> QED BY <1>1, <1>2, TreeEmpty, TreeAssumption DEF TreeInv, StackType

\* While a capture runs, an event of the tree with the stack's move keeps it.
LEMMA TreeMoves ==
    ASSUME TreeInv, ~tree.finished, NEW p, Leads(tree, tree', p), StackType',
           \A i \in DOMAIN stack'.in :
              \/ HasFrame(tree', stack'.in[i])
              \/ \E j \in DOMAIN stack.in : stack'.in[i] = stack.in[j] /\ stack.in[j].sp > p
    PROVE  TreeInv'
<1>1. TreeType(tree') /\ Falling(tree') /\ tree'.frame = tree.frame /\ tree'.finished = tree.finished
  BY DEF Leads
<1>2. \A i \in DOMAIN stack'.in : HasFrame(tree', stack'.in[i])
  BY DEF Leads, TreeInv
<1> QED BY <1>1, <1>2 DEF TreeInv

\* Calls, returns, interrupts and other instructions.
LEMMA GuestMoves ==
    ASSUME StackTop <= MaxOpen, TreeInv, ~tree.finished,
           \/ CallRoutine \/ ReturnFrom \/ TakeInterrupt \/ Break \/ ReturnFromInterrupt
           \/ OtherInstruction
    PROVE  TreeInv'
<1>0. TreeType(tree) /\ Falling(tree) /\ StackType /\ StackTop \in Nat
  BY TreeAssumption DEF TreeInv, TreeAssumption
<1>1. stack.sp \in 0 .. StackTop
  BY <1>0 DEF StackType
<1>2. \A j \in DOMAIN stack.in : stack.in[j].sp > stack.sp
  BY <1>0 DEF StackType
<1>3. \A p : Leads(tree, Ticked(tree), p)
  BY <1>0, Ticks, TreeAssumption
<1>4. TreeType(Ticked(tree)) /\ Falling(Ticked(tree))
  BY <1>3 DEF Leads
<1>5. CASE CallRoutine
  <2>1. PICK key \in Routines :
          stack.sp > 0 /\ tree' = Called(Ticked(tree), key, stack.sp) /\ stack' = StackIn(key, FALSE)
    BY <1>5 DEF CallRoutine
  <2>2. stack.sp \in 1 .. StackTop
    BY <1>0, <1>1, <2>1
  <2>3. /\ Leads(Ticked(tree), tree', stack.sp)
        /\ HasFrame(tree', [sp |-> stack.sp, key |-> key, irq |-> FALSE])
    BY <1>4, <2>1, <2>2, Enters, TreeAssumption
  <2>4. Leads(tree, tree', stack.sp)
    BY <1>3, <2>3, FollowsTwice
  <2>5. /\ StackType'
        /\ \A i \in DOMAIN stack'.in :
             \/ stack'.in[i] = [sp |-> stack.sp, key |-> key, irq |-> FALSE]
             \/ \E j \in DOMAIN stack.in : stack'.in[i] = stack.in[j]
    BY <1>0, <2>1, StackGrows, TreeAssumption
  <2>6. \A i \in DOMAIN stack'.in :
          \/ HasFrame(tree', stack'.in[i])
          \/ \E j \in DOMAIN stack.in : stack'.in[i] = stack.in[j] /\ stack.in[j].sp > stack.sp
    BY <1>2, <2>3, <2>5
  <2> QED BY <2>4, <2>5, <2>6, TreeMoves
<1>6. ASSUME NEW key \in Routines, stack.sp > 0, stack' = StackIn(key, TRUE),
             tree' \in {Interrupted(tree, key, stack.sp), Ticked(Interrupted(tree, key, stack.sp))}
      PROVE  TreeInv'
  <2> DEFINE t == Interrupted(tree, key, stack.sp)
             r == [sp |-> stack.sp, key |-> key, irq |-> TRUE]
  <2>1. stack.sp \in 1 .. StackTop
    BY <1>0, <1>1, <1>6
  <2>2. Leads(tree, t, stack.sp) /\ HasFrame(t, r)
    BY <1>0, <2>1, Enters, TreeAssumption
  <2>3. /\ StackType'
        /\ \A i \in DOMAIN stack'.in :
             stack'.in[i] = r \/ \E j \in DOMAIN stack.in : stack'.in[i] = stack.in[j]
    BY <1>0, <1>6, StackGrows, TreeAssumption
  <2> HIDE DEF t
  <2>4. Leads(t, Ticked(t), stack.sp) /\ Leads(t, Ticked(t), stack.sp - 1)
    BY <2>2, Ticks, TreeAssumption DEF Leads
  <2>5. Leads(tree, tree', stack.sp)
    <3>1. tree' = t \/ tree' = Ticked(t)
      BY <1>6 DEF t
    <3> QED BY <2>2, <2>4, <3>1, FollowsTwice
  <2>6. HasFrame(tree', r)
    <3>1. tree' = t \/ tree' = Ticked(t)
      BY <1>6 DEF t
    <3>2. r.sp > stack.sp - 1
      BY <1>1
    <3> HIDE DEF r
    <3> QED BY <2>2, <2>4, <3>1, <3>2 DEF Leads
  <2> HIDE DEF r
  <2>7. \A i \in DOMAIN stack'.in :
          \/ HasFrame(tree', stack'.in[i])
          \/ \E j \in DOMAIN stack.in : stack'.in[i] = stack.in[j] /\ stack.in[j].sp > stack.sp
    BY <1>2, <2>3, <2>6
  <2> QED BY <2>3, <2>5, <2>7, TreeMoves
<1>7. CASE TakeInterrupt
  BY <1>6, <1>7 DEF TakeInterrupt
<1>8. CASE Break
  BY <1>6, <1>8 DEF Break
<1>9. CASE ReturnFrom
  <2>1. /\ tree' = Returned(Ticked(tree), stack.sp + 1) /\ stack' = StackAt(stack.sp + 1)
        /\ stack.sp + 1 \in 0 .. StackTop /\ stack.sp + 1 \in Nat
    BY <1>0, <1>1, <1>9 DEF ReturnFrom
  <2>2. Leads(tree, tree', stack.sp + 1)
    <3>1. Leads(Ticked(tree), tree', stack.sp + 1)
      BY <1>4, <2>1, ReturnsFollow, TreeAssumption
    <3> QED BY <1>3, <3>1, FollowsTwice
  <2> QED BY <1>0, <2>1, <2>2, StackMoves, TreeMoves
<1>10. CASE ReturnFromInterrupt
  <2> DEFINE t == Returned(tree, stack.sp + 1)
  <2>1. /\ tree' = Ticked(t) /\ stack' = StackAt(stack.sp + 1)
        /\ stack.sp + 1 \in 0 .. StackTop /\ stack.sp + 1 \in Nat
    BY <1>0, <1>1, <1>10 DEF ReturnFromInterrupt
  <2>2. Leads(tree, t, stack.sp + 1)
    BY <1>0, <2>1, ReturnsFollow, TreeAssumption
  <2> HIDE DEF t
  <2>3. Leads(t, tree', stack.sp + 1)
    BY <2>1, <2>2, Ticks, TreeAssumption DEF Leads
  <2>4. Leads(tree, tree', stack.sp + 1)
    BY <2>2, <2>3, FollowsTwice
  <2> QED BY <1>0, <2>1, <2>4, StackMoves, TreeMoves
<1>11. CASE OtherInstruction
  <2>1. PICK p \in 0 .. StackTop : tree' = Ticked(tree) /\ stack' = StackAt(p)
    BY <1>11 DEF OtherInstruction
  <2> QED BY <1>0, <1>3, <2>1, StackMoves, TreeMoves
<1> QED BY <1>5, <1>7, <1>8, <1>9, <1>10, <1>11

\* And after every step.
LEMMA TreeStep ==
    ASSUME StackTop <= MaxOpen, TreeInv, [TreeNext]_treeVars
    PROVE  TreeInv'
<1>0. TreeType(tree) /\ StackType
  BY DEF TreeInv
<1>1. CASE CallRoutine \/ ReturnFrom \/ TakeInterrupt \/ Break \/ ReturnFromInterrupt \/ OtherInstruction
  <2>1. ~tree.finished
    BY <1>1 DEF CallRoutine, ReturnFrom, TakeInterrupt, Break, ReturnFromInterrupt, OtherInstruction, InTime
  <2> QED BY <1>1, <2>1, GuestMoves
<1>2. CASE EndVideoFrame
  <2>1. /\ tree' = [tree EXCEPT !.frame = tree.frame + 1] /\ stack' = stack
        /\ ~tree.finished /\ tree.frame < MaxVideoFrames - 1
    BY <1>2 DEF EndVideoFrame
  <2>2. /\ tree'.nodes = tree.nodes /\ tree'.open = tree.open /\ tree'.cur = tree.cur
        /\ tree'.level = tree.level /\ tree'.spent = tree.spent /\ tree'.finished = tree.finished
        /\ tree'.frame = tree.frame + 1 /\ DOMAIN tree' = TreeFields
    BY <1>0, <2>1 DEF TreeType, TreeFields
  <2>3. tree.frame + 1 \in VideoFrame /\ tree.frame + 1 < MaxVideoFrames
    BY <1>0, <2>1, TreeAssumption DEF TreeType, VideoFrame, TreeAssumption
  <2>4. TreeType(tree')
    BY <1>0, <2>2, <2>3 DEF TreeType
  <2>5. Falling(tree') /\ \A i \in DOMAIN stack.in : HasFrame(tree', stack.in[i])
    BY <2>1, <2>2 DEF TreeInv, Falling, HasFrame, Named
  <2> QED BY <1>0, <2>1, <2>2, <2>3, <2>4, <2>5 DEF TreeInv, StackType
<1>3. CASE FinishCapture
  <2>1. tree' = Finished(tree) /\ stack' = stack /\ ~tree.finished
    BY <1>3 DEF FinishCapture
  <2>2. TreeType(tree') /\ tree'.finished
    BY <1>0, <2>1, Finishes, TreeAssumption DEF TreeInv
  <2> QED BY <1>0, <2>1, <2>2 DEF TreeInv, StackType
<1>4. CASE StartCapture
  <2>1. tree' = EmptyTree /\ stack' = [stack EXCEPT !.in = <<>>]
    BY <1>4 DEF StartCapture
  <2>2. stack'.sp = stack.sp /\ stack'.in = <<>> /\ DOMAIN stack' = {"sp", "in"}
    BY <1>0, <2>1 DEF StackType
  <2>3. DOMAIN stack'.in = {} /\ stack'.in \in Seq(InRoutine)
    BY <2>2
  <2>4. StackType'
    BY <1>0, <2>2, <2>3 DEF StackType
  <2> QED BY <2>1, <2>3, <2>4, TreeEmpty, TreeAssumption DEF TreeInv
<1>5. CASE UNCHANGED treeVars
  BY <1>5 DEF treeVars, TreeInv, StackType
<1> QED BY <1>1, <1>2, <1>3, <1>4, <1>5 DEF TreeNext

\* Whatever the guest does to its stack, every routine it is in has a frame of
\* its own, under its own name or [other] while there is a node left, in the
\* order it was entered (profile_cct.c retire, push), where the shadow stack has a frame for
\* each place of the guest's.
THEOREM EveryRoutineHasItsFrame ==
    ASSUME StackTop <= MaxOpen PROVE TreeSpec => []RoutinesTracked
<1>1. TreeInv => RoutinesTracked
  BY DEF TreeInv, RoutinesTracked, Falling, HasFrame, Named
<1>2. TreeInv /\ [TreeNext]_treeVars => TreeInv'
  BY TreeStep
<1> QED BY <1>1, <1>2, TreeStart, PTL DEF TreeSpec
-----------------------------------------------------------------------------
(* ProfileTree: totals.                                                    *)

\* Partial sums.
IsTotal(s, values, from, to) ==
    s = [i \in from - 1 .. to |-> IF i < from THEN 0 ELSE s[i - 1] + values[i]]

\* They exist.
LEMMA TotalsExist ==
    ASSUME NEW values, NEW from \in Nat, NEW k \in Nat
    PROVE  \E s : IsTotal(s, values, from, from - 1 + k)
<1> DEFINE Bad == {n \in Nat : ~\E s : IsTotal(s, values, from, from - 1 + n)}
<1> SUFFICES Bad = {}
  OBVIOUS
<1> SUFFICES ASSUME Bad # {} PROVE FALSE
  OBVIOUS
<1>1. PICK n \in Bad : \A m \in Bad : n <= m
  BY LeastOf
<1>2. CASE n = 0
  <2> DEFINE s == [i \in from - 1 .. from - 1 + 0 |-> 0]
  <2>1. \A i \in from - 1 .. from - 1 + 0 : i < from
    OBVIOUS
  <2>2. s = [i \in from - 1 .. from - 1 + 0 |-> IF i < from THEN 0 ELSE s[i - 1] + values[i]]
    BY <2>1
  <2> QED BY <1>1, <1>2, <2>2 DEF IsTotal
<1>3. CASE n # 0
  <2> DEFINE top == from - 1 + n
  <2>1. /\ n - 1 \in Nat /\ n - 1 \notin Bad /\ n \in Nat
        /\ from - 1 + (n - 1) = top - 1 /\ top \in Int /\ from <= top
    BY <1>1, <1>3
  <2>2. PICK s : IsTotal(s, values, from, top - 1)
    BY <2>1
  <2> HIDE DEF top
  <2>3. s = [i \in from - 1 .. top - 1 |-> IF i < from THEN 0 ELSE s[i - 1] + values[i]]
    BY <2>2 DEF IsTotal
  <2> DEFINE g == [i \in from - 1 .. top |-> IF i < top THEN s[i] ELSE s[top - 1] + values[top]]
             h == [i \in from - 1 .. top |-> IF i < from THEN 0 ELSE g[i - 1] + values[i]]
  <2>4. ASSUME NEW i \in from - 1 .. top PROVE g[i] = h[i]
    <3>1. CASE i < from
      <4>1. i \in from - 1 .. top - 1 /\ i < top
        BY <2>1, <3>1
      <4>2. s[i] = 0
        BY <2>3, <3>1, <4>1
      <4> QED BY <3>1, <4>1, <4>2
    <3>2. CASE ~(i < from) /\ i < top
      <4>1. i \in from - 1 .. top - 1 /\ i - 1 \in from - 1 .. top /\ i - 1 < top
        BY <2>1, <3>2
      <4>2. s[i] = s[i - 1] + values[i]
        BY <2>3, <3>2, <4>1
      <4>3. g[i - 1] = s[i - 1]
        BY <4>1
      <4> QED BY <3>2, <4>2, <4>3
    <3>3. CASE ~(i < from) /\ ~(i < top)
      <4>1. i = top /\ top - 1 \in from - 1 .. top /\ top - 1 < top
        BY <2>1, <3>3
      <4>2. g[top - 1] = s[top - 1]
        BY <4>1
      <4> QED BY <3>3, <4>1, <4>2
    <3> QED BY <3>1, <3>2, <3>3
  <2>5. g = h
    BY <2>4
  <2>6. IsTotal(g, values, from, top)
    BY <2>5 DEF IsTotal
  <2> QED BY <1>1, <2>6 DEF top
<1> QED BY <1>2, <1>3

\* Each is the one before with a value added.
Sums(s, values, from, to) ==
    s[from - 1] = 0 /\ \A i \in from .. to : s[i] = s[i - 1] + values[i]

\* The total is the last of its partial sums.
LEMMA TotalIsLast ==
    ASSUME NEW values, NEW from \in Nat, NEW to \in Int, from - 1 <= to
    PROVE  \E s : Sums(s, values, from, to) /\ Total(values, from, to) = s[to]
<1> DEFINE s == CHOOSE f : IsTotal(f, values, from, to)
<1>1. IsTotal(s, values, from, to)
  <2>1. to - from + 1 \in Nat /\ from - 1 + (to - from + 1) = to
    OBVIOUS
  <2> QED BY <2>1, TotalsExist
<1>2. Total(values, from, to) = s[to]
  BY DEF Total, IsTotal
<1> HIDE DEF s
<1>3. s = [i \in from - 1 .. to |-> IF i < from THEN 0 ELSE s[i - 1] + values[i]]
  BY <1>1 DEF IsTotal
<1>4. from - 1 \in from - 1 .. to /\ from - 1 < from
  OBVIOUS
<1>5. \A i \in from .. to : i \in from - 1 .. to /\ ~(i < from)
  OBVIOUS
<1>6. s[from - 1] = 0
  BY <1>3, <1>4
<1>7. ASSUME NEW i \in from .. to PROVE s[i] = s[i - 1] + values[i]
  BY <1>3, <1>5
<1>8. Sums(s, values, from, to)
  BY <1>6, <1>7 DEF Sums
<1> QED BY <1>2, <1>8

\* Partial sums of the same values are the same.
LEMMA SumsSame ==
    ASSUME NEW s, NEW r, NEW f, NEW g, NEW from \in Nat, NEW to \in Int, from - 1 <= to,
           Sums(s, f, from, to), Sums(r, g, from, to), \A i \in from .. to : f[i] = g[i]
    PROVE  s[to] = r[to]
<1> DEFINE Bad == {n \in Nat : n <= to - from + 1 /\ s[from - 1 + n] # r[from - 1 + n]}
<1>1. Bad = {}
  <2> SUFFICES ASSUME Bad # {} PROVE FALSE
    OBVIOUS
  <2>1. PICK n \in Bad : \A m \in Bad : n <= m
    BY LeastOf
  <2>2. n \in Nat /\ n <= to - from + 1 /\ s[from - 1 + n] # r[from - 1 + n]
    BY <2>1
  <2>3. n # 0
    <3>1. from - 1 + 0 = from - 1
      OBVIOUS
    <3>2. s[from - 1] = 0 /\ r[from - 1] = 0
      BY DEF Sums
    <3> QED BY <2>2, <3>1, <3>2
  <2>4. n - 1 \in Nat /\ n - 1 <= to - from + 1 /\ n - 1 \notin Bad
    BY <2>1, <2>2, <2>3
  <2>5. s[from - 1 + (n - 1)] = r[from - 1 + (n - 1)]
    BY <2>4
  <2> DEFINE i == from - 1 + n
  <2>6. i \in from .. to /\ from - 1 + (n - 1) = i - 1
    BY <2>2, <2>3
  <2> HIDE DEF i
  <2>7. s[i] = s[i - 1] + f[i] /\ r[i] = r[i - 1] + g[i] /\ f[i] = g[i]
    BY <2>6 DEF Sums
  <2>8. s[i] # r[i]
    BY <2>2 DEF i
  <2> QED BY <2>5, <2>6, <2>7, <2>8
<1> DEFINE N == to - from + 1
<1>2. N \in Nat /\ N <= to - from + 1 /\ from - 1 + N = to
  OBVIOUS
<1> HIDE DEF N
<1>3. ~(N \in Bad)
  BY <1>1
<1>4. s[from - 1 + N] = r[from - 1 + N]
  BY <1>2, <1>3
<1> QED BY <1>2, <1>4

\* A total of nothing, and one value more.
LEMMA TotalNext ==
    ASSUME NEW values, NEW from \in Nat
    PROVE  /\ Total(values, from, from - 1) = 0
           /\ \A to \in Int : from <= to =>
                Total(values, from, to) = Total(values, from, to - 1) + values[to]
<1>1. Total(values, from, from - 1) = 0
  <2>1. from - 1 \in Int /\ from - 1 <= from - 1
    OBVIOUS
  <2>2. PICK s : Sums(s, values, from, from - 1) /\ Total(values, from, from - 1) = s[from - 1]
    BY <2>1, TotalIsLast
  <2> QED BY <2>2 DEF Sums
<1>2. ASSUME NEW to \in Int, from <= to
      PROVE  Total(values, from, to) = Total(values, from, to - 1) + values[to]
  <2>1. to - 1 \in Int /\ from - 1 <= to - 1 /\ from - 1 <= to
    BY <1>2
  <2>2. PICK s : Sums(s, values, from, to) /\ Total(values, from, to) = s[to]
    BY <2>1, TotalIsLast
  <2>3. PICK r : Sums(r, values, from, to - 1) /\ Total(values, from, to - 1) = r[to - 1]
    BY <2>1, TotalIsLast
  <2>4. Sums(s, values, from, to - 1)
    <3>1. \A i \in from .. to - 1 : i \in from .. to
      OBVIOUS
    <3> QED BY <2>2, <3>1 DEF Sums
  <2>5. s[to - 1] = r[to - 1]
    BY <2>1, <2>3, <2>4, SumsSame
  <2>6. to \in from .. to
    BY <1>2
  <2>7. s[to] = s[to - 1] + values[to]
    BY <2>2, <2>6 DEF Sums
  <2> QED BY <2>2, <2>3, <2>5, <2>7
<1> QED BY <1>1, <1>2

\* Values from one place to another that are the same but at p.
SameBut(f, g, from, to, p) ==
    /\ from \in Nat /\ to \in Int /\ from - 1 <= to
    /\ \A i \in from .. to : f[i] \in Int /\ g[i] \in Int /\ (i # p => f[i] = g[i])

\* Where values differ at one place only, so do their totals, and by as much.
LEMMA TotalBut ==
    ASSUME NEW f, NEW g, NEW from, NEW to, NEW p, SameBut(f, g, from, to, p)
    PROVE  /\ Total(f, from, to) \in Int /\ Total(g, from, to) \in Int
           /\ p \notin from .. to => Total(g, from, to) = Total(f, from, to)
           /\ p \in from .. to =>
                /\ f[p] \in Int /\ g[p] \in Int
                /\ Total(g, from, to) = Total(f, from, to) + g[p] - f[p]
<1>a. /\ from \in Nat /\ to \in Int /\ from - 1 <= to
      /\ \A i \in from .. to : f[i] \in Int /\ g[i] \in Int
      /\ \A i \in from .. to : i # p => f[i] = g[i]
  BY DEF SameBut
<1> USE <1>a
<1> DEFINE F(i) == Total(f, from, i)
           G(i) == Total(g, from, i)
           Fine(i) == /\ F(i) \in Int /\ G(i) \in Int
                      /\ p \notin from .. i => G(i) = F(i)
                      /\ p \in from .. i => G(i) = F(i) + g[p] - f[p]
           Bad == {n \in Nat : n <= to - from + 1 /\ ~Fine(from - 1 + n)}
<1>0. /\ F(from - 1) = 0 /\ G(from - 1) = 0
      /\ \A i \in from .. to : F(i) = F(i - 1) + f[i] /\ G(i) = G(i - 1) + g[i]
  <2>1. F(from - 1) = 0 /\ G(from - 1) = 0
    BY TotalNext
  <2>2. ASSUME NEW i \in from .. to PROVE F(i) = F(i - 1) + f[i] /\ G(i) = G(i - 1) + g[i]
    <3>1. i \in Int /\ from <= i
      OBVIOUS
    <3> QED BY <3>1, TotalNext
  <2> QED BY <2>1, <2>2
<1> HIDE DEF F, G
<1>1. Fine(from - 1)
  <2>1. p \notin from .. from - 1
    OBVIOUS
  <2> QED BY <1>0, <2>1
<1>2. ASSUME NEW i \in from .. to, Fine(i - 1) PROVE Fine(i)
  <2>1. F(i) = F(i - 1) + f[i] /\ G(i) = G(i - 1) + g[i] /\ f[i] \in Int /\ g[i] \in Int
    BY <1>0
  <2>2. F(i - 1) \in Int /\ G(i - 1) \in Int
    BY <1>2
  <2>3. CASE i = p
    <3>1. p \notin from .. i - 1 /\ p \in from .. i
      BY <2>3
    <3>2. G(i - 1) = F(i - 1)
      BY <1>2, <3>1
    <3>3. g[p] \in Int /\ f[p] \in Int /\ G(i) = F(i) + g[p] - f[p]
      BY <2>1, <2>2, <2>3, <3>2
    <3>4. F(i) \in Int /\ G(i) \in Int
      BY <2>1, <2>2
    <3> QED BY <3>1, <3>3, <3>4
  <2>4. CASE i # p
    <3>1. f[i] = g[i]
      BY <2>4
    <3>2. p \in from .. i <=> p \in from .. i - 1
      BY <2>4
    <3>3. F(i) \in Int /\ G(i) \in Int
      BY <2>1, <2>2
    <3>4. CASE p \in from .. i
      <4>1. f[p] \in Int /\ g[p] \in Int
        <5>1. p \in from .. to
          BY <3>4
        <5> QED BY <5>1
      <4>2. G(i - 1) = F(i - 1) + g[p] - f[p]
        BY <1>2, <3>2, <3>4
      <4>3. G(i) = F(i) + g[p] - f[p]
        BY <2>1, <2>2, <3>1, <4>1, <4>2
      <4> QED BY <3>3, <3>4, <4>3
    <3>5. CASE p \notin from .. i
      <4>1. G(i - 1) = F(i - 1)
        BY <1>2, <3>2, <3>5
      <4>2. G(i) = F(i)
        BY <2>1, <2>2, <3>1, <4>1
      <4> QED BY <3>3, <3>5, <4>2
    <3> QED BY <3>4, <3>5
  <2> QED BY <2>3, <2>4
<1> HIDE DEF Fine
<1>3. Bad = {}
  <2> SUFFICES ASSUME Bad # {} PROVE FALSE
    OBVIOUS
  <2>1. PICK n \in Bad : \A m \in Bad : n <= m
    BY LeastOf
  <2>2. n \in Nat /\ n <= to - from + 1 /\ ~Fine(from - 1 + n)
    BY <2>1
  <2>3. n # 0
    <3>1. from - 1 + 0 = from - 1
      OBVIOUS
    <3> QED BY <1>1, <2>2, <3>1
  <2>4. n - 1 \in Nat /\ n - 1 <= to - from + 1 /\ n - 1 \notin Bad
    BY <2>1, <2>2, <2>3
  <2>5. Fine(from - 1 + (n - 1))
    BY <2>4
  <2>6. from - 1 + n \in from .. to /\ from - 1 + (n - 1) = (from - 1 + n) - 1
    BY <2>2, <2>3
  <2> QED BY <1>2, <2>2, <2>5, <2>6
<1>4. Fine(to)
  <2> DEFINE N == to - from + 1
  <2>1. N \in Nat /\ N <= to - from + 1 /\ from - 1 + N = to
    OBVIOUS
  <2> HIDE DEF N
  <2>2. ~(N \in Bad)
    BY <1>3
  <2>3. Fine(from - 1 + N)
    BY <2>1, <2>2
  <2> QED BY <2>1, <2>3
<1> QED BY <1>4 DEF Fine, F, G

\* The same values have the same total, and one value more adds to it.
LEMMA TotalGrows ==
    ASSUME NEW f, NEW g, NEW from \in Nat, NEW to \in Int, from - 1 <= to,
           \A i \in from .. to : f[i] \in Int /\ g[i] = f[i]
    PROVE  /\ Total(f, from, to) \in Int
           /\ Total(g, from, to) = Total(f, from, to)
           /\ Total(g, from, to + 1) = Total(f, from, to) + g[to + 1]
<1> DEFINE none == to + 1
<1>1. none \notin from .. to
  OBVIOUS
<1> HIDE DEF none
<1>2. SameBut(f, g, from, to, none)
  BY DEF SameBut
<1>3. Total(f, from, to) \in Int /\ Total(g, from, to) = Total(f, from, to)
  BY <1>1, <1>2, TotalBut
<1>4. to + 1 \in Int /\ from <= to + 1 /\ (to + 1) - 1 = to
  OBVIOUS
<1>5. Total(g, from, to + 1) = Total(g, from, (to + 1) - 1) + g[to + 1]
  BY <1>4, TotalNext
<1> QED BY <1>3, <1>4, <1>5

\* Nothing adds up to nothing.
LEMMA TotalOfNothing ==
    ASSUME NEW f, NEW from \in Nat, NEW to \in Int, from - 1 <= to,
           \A i \in from .. to : f[i] = 0
    PROVE  Total(f, from, to) = 0
<1> DEFINE Bad == {n \in Nat : n <= to - from + 1 /\ Total(f, from, from - 1 + n) # 0}
<1>3. Bad = {}
  <2> SUFFICES ASSUME Bad # {} PROVE FALSE
    OBVIOUS
  <2>1. PICK n \in Bad : \A m \in Bad : n <= m
    BY LeastOf
  <2>2. n \in Nat /\ n <= to - from + 1 /\ Total(f, from, from - 1 + n) # 0
    BY <2>1
  <2>3. n # 0
    <3>1. from - 1 + 0 = from - 1
      OBVIOUS
    <3> QED BY <2>2, <3>1, TotalNext
  <2>4. n - 1 \in Nat /\ n - 1 <= to - from + 1 /\ n - 1 \notin Bad
    BY <2>1, <2>2, <2>3
  <2>5. Total(f, from, from - 1 + (n - 1)) = 0
    BY <2>4
  <2> DEFINE i == from - 1 + n
  <2>6. i \in from .. to /\ from - 1 + (n - 1) = i - 1 /\ i \in Int /\ from <= i
    BY <2>2, <2>3
  <2> HIDE DEF i
  <2>7. Total(f, from, i) = Total(f, from, i - 1) + f[i] /\ f[i] = 0
    BY <2>6, TotalNext
  <2> QED BY <2>2, <2>5, <2>6, <2>7 DEF i
<1> DEFINE N == to - from + 1
<1>4. N \in Nat /\ N <= to - from + 1 /\ from - 1 + N = to
  OBVIOUS
<1> HIDE DEF N
<1>5. ~(N \in Bad)
  BY <1>3
<1>6. Total(f, from, from - 1 + N) = 0
  BY <1>4, <1>5
<1> QED BY <1>4, <1>6

\* The first values are the same.
SameFirst(f, g, from, to) ==
    /\ from \in Nat /\ to \in Int /\ from - 1 <= to
    /\ \A i \in from .. to : f[i] \in Int /\ g[i] = f[i]

\* A total is of the values up to there, and the next adds its own.
LEMMA TotalFirst ==
    ASSUME NEW f, NEW g, NEW from, NEW to, SameFirst(f, g, from, to)
    PROVE  /\ Total(f, from, to) \in Int
           /\ Total(g, from, to) = Total(f, from, to)
           /\ Total(g, from, to + 1) = Total(f, from, to) + g[to + 1]
BY TotalGrows DEF SameFirst
-----------------------------------------------------------------------------
(* ProfileTree: the clocks of a path, by its nodes and by its calls.       *)

\* Parents come before their children; the roots have none.
Parents(t) ==
    /\ t.nodes[1].parent = 0 /\ t.nodes[2].parent = 0
    /\ \A n \in DOMAIN t.nodes : n > 2 => t.nodes[n].parent \in 1 .. n - 1

\* Which nodes are n and its descendants, as a function on the first k.
IsBelow(f, t, n, k) ==
    f = [m \in 1 .. k |-> m = n \/ (t.nodes[m].parent # 0 /\ f[t.nodes[m].parent])]

\* There is such a function, as parents come first.
LEMMA BelowExists ==
    ASSUME NEW t, TreeType(t), Parents(t), NEW n, NEW k \in 0 .. Len(t.nodes)
    PROVE  \E f : IsBelow(f, t, n, k)
<1> DEFINE Bad == {i \in Nat : i <= Len(t.nodes) /\ ~\E f : IsBelow(f, t, n, i)}
<1>0. Len(t.nodes) \in Nat /\ DOMAIN t.nodes = 1 .. Len(t.nodes)
  BY TreeSizes
<1> SUFFICES Bad = {}
  BY <1>0
<1> SUFFICES ASSUME Bad # {} PROVE FALSE
  OBVIOUS
<1>1. PICK i \in Bad : \A j \in Bad : i <= j
  BY LeastOf
<1>2. CASE i = 0
  <2> DEFINE f == [m \in 1 .. 0 |-> TRUE]
  <2>1. f = [m \in 1 .. 0 |-> m = n \/ (t.nodes[m].parent # 0 /\ f[t.nodes[m].parent])]
    BY 1 .. 0 = {}
  <2> QED BY <1>1, <1>2, <2>1 DEF IsBelow
<1>3. CASE i # 0
  <2>1. /\ i - 1 \in Nat /\ i - 1 <= Len(t.nodes) /\ i - 1 \notin Bad /\ i \in Nat
        /\ i \in 1 .. i /\ i <= Len(t.nodes)
    BY <1>0, <1>1, <1>3
  <2>2. PICK f : IsBelow(f, t, n, i - 1)
    BY <2>1
  <2> DEFINE Up(g, m) == m = n \/ (t.nodes[m].parent # 0 /\ g[t.nodes[m].parent])
  <2>3. f = [m \in 1 .. i - 1 |-> Up(f, m)]
    BY <2>2 DEF IsBelow
  <2> DEFINE g == [m \in 1 .. i |-> Up(f, m)]
             h == [m \in 1 .. i |-> Up(g, m)]
  <2>4. \A m \in 1 .. i - 1 : m \in 1 .. i /\ f[m] = g[m]
    <3> SUFFICES ASSUME NEW m \in 1 .. i - 1 PROVE m \in 1 .. i /\ f[m] = g[m]
      OBVIOUS
    <3>1. m \in 1 .. i
      BY <2>1
    <3> HIDE DEF Up
    <3>2. f[m] = Up(f, m) /\ g[m] = Up(f, m)
      BY <2>3, <3>1
    <3> QED BY <3>1, <3>2
  <2> HIDE DEF g
  <2>5. ASSUME NEW m \in 1 .. i PROVE Up(f, m) = Up(g, m)
    <3>1. t.nodes[m].parent = 0 \/ t.nodes[m].parent \in 1 .. i - 1
      <4>1. m \in DOMAIN t.nodes
        BY <1>0, <2>1
      <4>2. m \in 1 .. 2 \/ m > 2
        BY <2>1
      <4>3. CASE m > 2
        <5>1. t.nodes[m].parent \in 1 .. m - 1
          BY <4>1, <4>3 DEF Parents
        <5> QED BY <2>1, <5>1
      <4>4. CASE m \in 1 .. 2
        BY <4>4 DEF Parents
      <4> QED BY <4>2, <4>3, <4>4
    <3>2. CASE t.nodes[m].parent = 0
      BY <3>2
    <3>3. CASE t.nodes[m].parent # 0
      <4>1. f[t.nodes[m].parent] = g[t.nodes[m].parent]
        BY <2>4, <3>1, <3>3
      <4> QED BY <4>1
    <3> QED BY <3>2, <3>3
  <2>6. g = h
    <3> HIDE DEF Up
    <3> QED BY <2>5 DEF g
  <2>7. IsBelow(g, t, n, i)
    BY <2>6 DEF IsBelow
  <2> QED BY <1>1, <2>7
<1> QED BY <1>2, <1>3

\* n and the nodes whose parent is.
LEMMA BelowIs ==
    ASSUME NEW t, TreeType(t), Parents(t), NEW n
    PROVE  \A m \in DOMAIN t.nodes :
              Below(t, n)[m] <=> (m = n \/ (t.nodes[m].parent # 0 /\ Below(t, n)[t.nodes[m].parent]))
<1> DEFINE f == CHOOSE g : IsBelow(g, t, n, Len(t.nodes))
<1>0. Len(t.nodes) \in Nat /\ DOMAIN t.nodes = 1 .. Len(t.nodes) /\ Len(t.nodes) \in 0 .. Len(t.nodes)
  BY TreeSizes
<1>1. IsBelow(f, t, n, Len(t.nodes))
  BY <1>0, BelowExists
<1>2. Below(t, n) = f
  BY <1>0 DEF Below, IsBelow
<1> HIDE DEF f
<1>3. f = [m \in DOMAIN t.nodes |-> m = n \/ (t.nodes[m].parent # 0 /\ f[t.nodes[m].parent])]
  BY <1>0, <1>1 DEF IsBelow
<1>4. ASSUME NEW m \in DOMAIN t.nodes
      PROVE  f[m] = (m = n \/ (t.nodes[m].parent # 0 /\ f[t.nodes[m].parent]))
  BY <1>3
<1>5. \A m \in DOMAIN t.nodes : f[m] <=> (m = n \/ (t.nodes[m].parent # 0 /\ f[t.nodes[m].parent]))
  BY <1>4
<1> QED BY <1>2, <1>5

\* Neither root is below another node, and nothing before a node is below it.
LEMMA BelowLater ==
    ASSUME NEW t, TreeType(t), Parents(t), NEW n \in DOMAIN t.nodes, n > 2
    PROVE  \A m \in DOMAIN t.nodes : Below(t, n)[m] => m >= n
<1>0. Len(t.nodes) \in Nat /\ DOMAIN t.nodes = 1 .. Len(t.nodes)
  BY TreeSizes
<1> DEFINE Bad == {m \in Nat : m \in DOMAIN t.nodes /\ Below(t, n)[m] /\ m < n}
<1>1. Bad = {}
  <2> SUFFICES ASSUME Bad # {} PROVE FALSE
    OBVIOUS
  <2>1. PICK m \in Bad : \A i \in Bad : m <= i
    BY LeastOf
  <2>2. m \in DOMAIN t.nodes /\ Below(t, n)[m] /\ m < n /\ m # n /\ n \in Nat /\ m \in Nat
    BY <1>0, <2>1
  <2> DEFINE p == t.nodes[m].parent
  <2>3. p # 0 /\ Below(t, n)[p]
    BY <2>2, BelowIs
  <2>4. m > 2
    BY <1>0, <2>2, <2>3 DEF Parents
  <2>5. p \in 1 .. m - 1
    BY <2>2, <2>4 DEF Parents
  <2> HIDE DEF p
  <2>6. p \in Nat /\ p \in DOMAIN t.nodes /\ p < n /\ p < m
    BY <1>0, <2>2, <2>5
  <2>7. p \in Bad
    BY <2>3, <2>6
  <2> QED BY <2>1, <2>2, <2>6, <2>7
<1> QED BY <1>0, <1>1

\* Trees with the same parents have the same descendants.
LEMMA BelowSame ==
    ASSUME NEW t, NEW u, TreeType(t), TreeType(u), Parents(t), Parents(u),
           Len(t.nodes) <= Len(u.nodes),
           \A m \in DOMAIN t.nodes : u.nodes[m].parent = t.nodes[m].parent, NEW n
    PROVE  \A m \in DOMAIN t.nodes : m \in DOMAIN u.nodes /\ (Below(u, n)[m] <=> Below(t, n)[m])
<1>0. /\ Len(t.nodes) \in Nat /\ DOMAIN t.nodes = 1 .. Len(t.nodes)
      /\ Len(u.nodes) \in Nat /\ DOMAIN u.nodes = 1 .. Len(u.nodes)
  BY TreeSizes
<1>1. DOMAIN t.nodes \subseteq DOMAIN u.nodes
  BY <1>0
<1> DEFINE Bad == {m \in Nat : m \in DOMAIN t.nodes /\ ~(Below(u, n)[m] <=> Below(t, n)[m])}
<1>2. Bad = {}
  <2> SUFFICES ASSUME Bad # {} PROVE FALSE
    OBVIOUS
  <2>1. PICK m \in Bad : \A i \in Bad : m <= i
    BY LeastOf
  <2>2. m \in DOMAIN t.nodes /\ m \in DOMAIN u.nodes /\ ~(Below(u, n)[m] <=> Below(t, n)[m]) /\ m \in Nat
    BY <1>1, <2>1
  <2> DEFINE p == t.nodes[m].parent
  <2>3. /\ Below(t, n)[m] <=> (m = n \/ (p # 0 /\ Below(t, n)[p]))
        /\ Below(u, n)[m] <=> (m = n \/ (p # 0 /\ Below(u, n)[p]))
    BY <2>2, BelowIs
  <2>4. p # 0 /\ ~(Below(t, n)[p] <=> Below(u, n)[p])
    BY <2>2, <2>3
  <2>5. m > 2
    BY <1>0, <2>2, <2>4 DEF Parents
  <2>6. p \in 1 .. m - 1
    BY <2>2, <2>5 DEF Parents
  <2> HIDE DEF p
  <2>7. p \in Nat /\ p \in DOMAIN t.nodes /\ p < m
    BY <1>0, <2>2, <2>6
  <2>8. p \in Bad
    BY <2>4, <2>7
  <2> QED BY <2>1, <2>2, <2>7, <2>8
<1> QED BY <1>0, <1>1, <1>2

\* The level and the node below the frame at place j + 1.
LevelAt(t, j) == IF j = 0 THEN 0 ELSE t.open[j].level
NodeAt(t, j) == IF j = 0 THEN MainRoot ELSE t.open[j].node

\* Each open frame is one level above the frame below it if it is an
\* interrupt's, and on its level if not; it is of a child of that frame's node,
\* or of the interrupts' root.
PathOK(t) ==
    /\ t.cur = NodeAt(t, Len(t.open)) /\ t.level = LevelAt(t, Len(t.open))
    /\ \A j \in DOMAIN t.open :
         /\ t.open[j].resume = NodeAt(t, j - 1)
         /\ t.open[j].level = LevelAt(t, j - 1) + (IF t.open[j].irq THEN 1 ELSE 0)
         /\ t.open[j].node > 2
         /\ t.nodes[t.open[j].node].parent = IF t.open[j].irq THEN IrqRoot ELSE NodeAt(t, j - 1)

\* A frame of the node's on this level, among the first j.
Framed(t, n, l, j) == \E i \in 1 .. j : t.open[i].level = l /\ t.open[i].node = n

\* Levels rise along the stack, and nodes along a level; the frame at place j
\* belongs to a node and to those it is below on its level.
OnPath(t, j) ==
    /\ \A i \in 1 .. j : t.open[i].level <= LevelAt(t, j)
    /\ \A i \in 1 .. j : t.open[i].level = LevelAt(t, j) /\ i < j => t.open[i].node < NodeAt(t, j)
    /\ \A n \in DOMAIN t.nodes : n > 2 =>
          (Below(t, n)[NodeAt(t, j)] <=> Framed(t, n, LevelAt(t, j), j))

\* The fields of an open frame.
LEMMA FrameTypes ==
    ASSUME TreeAssumption, NEW t, TreeType(t), NEW j \in DOMAIN t.open
    PROVE  /\ t.open[j].level \in Nat /\ t.open[j].node \in Nat /\ t.open[j].node \in DOMAIN t.nodes
           /\ t.open[j].level \in 0 .. MaxNested
           /\ t.open[j].start \in Int /\ t.open[j].irq \in BOOLEAN
           /\ t.spent[t.open[j].level] \in Int
<1>1. t.open[j] \in OpenFrame
  BY DEF TreeType
<1>2. t.open[j].node \in DOMAIN t.nodes
  BY DEF TreeType
<1>3. t.open[j].level \in 0 .. MaxNested /\ MaxNested \in Nat
  BY <1>1 DEF OpenFrame, TreeAssumption
<1>4. t.spent[t.open[j].level] \in Int
  BY <1>3 DEF TreeType
<1> QED BY <1>1, <1>2, <1>3, <1>4 DEF OpenFrame

\* The roots are below no other node.
LEMMA RootsAlone ==
    ASSUME NEW t, TreeType(t), Parents(t), NEW n \in DOMAIN t.nodes, n > 2
    PROVE  1 \in DOMAIN t.nodes /\ 2 \in DOMAIN t.nodes /\ ~Below(t, n)[1] /\ ~Below(t, n)[2]
<1>1. 1 \in DOMAIN t.nodes /\ 2 \in DOMAIN t.nodes /\ n \in Nat
  BY TreeSizes DEF TreeType
<1> QED BY <1>1, BelowIs DEF Parents

\* From one frame to the next one in.
LEMMA OnPathNext ==
    ASSUME TreeAssumption, NEW t, TreeType(t), Parents(t), PathOK(t),
           NEW j \in DOMAIN t.open, OnPath(t, j - 1)
    PROVE  OnPath(t, j)
<1> DEFINE f == t.open[j]
           l == LevelAt(t, j - 1)
<1>0. /\ Len(t.open) \in Nat /\ DOMAIN t.open = 1 .. Len(t.open)
      /\ Len(t.nodes) \in Nat /\ DOMAIN t.nodes = 1 .. Len(t.nodes)
  BY TreeSizes
<1>1. j \in Nat /\ j # 0 /\ j - 1 \in Nat /\ LevelAt(t, j) = f.level /\ NodeAt(t, j) = f.node
  BY <1>0 DEF LevelAt, NodeAt
<1>2. \A i \in 1 .. j : i \in DOMAIN t.open /\ t.open[i].level \in Nat /\ t.open[i].node \in Nat
  <2> SUFFICES ASSUME NEW i \in 1 .. j
               PROVE  i \in DOMAIN t.open /\ t.open[i].level \in Nat /\ t.open[i].node \in Nat
    OBVIOUS
  <2>1. i \in DOMAIN t.open
    BY <1>0
  <2> QED BY <2>1, FrameTypes
<1>3. l \in Nat
  <2>1. j - 1 = 0 \/ j - 1 \in 1 .. j
    BY <1>1
  <2> QED BY <1>2, <2>1 DEF LevelAt
<1>4. /\ f.level = l + (IF f.irq THEN 1 ELSE 0) /\ f.node > 2
      /\ t.nodes[f.node].parent = IF f.irq THEN 2 ELSE NodeAt(t, j - 1)
      /\ f.node \in DOMAIN t.nodes /\ f.irq \in BOOLEAN /\ f.node \in Nat /\ f.level \in Nat
  BY FrameTypes DEF PathOK, IrqRoot
<1>5. \A i \in 1 .. j - 1 : t.open[i].level <= l
  BY DEF OnPath
<1>6. j \in 1 .. j /\ \A i \in 1 .. j : i = j \/ i \in 1 .. j - 1
  BY <1>1
<1>7. t.nodes[f.node].parent \in 1 .. f.node - 1
  BY <1>4 DEF Parents
<1>8. \A n \in DOMAIN t.nodes :
        Below(t, n)[f.node] <=> (f.node = n \/ Below(t, n)[t.nodes[f.node].parent])
  BY <1>4, <1>7, BelowIs
<1>9. CASE f.irq
  <2>1. f.level = l + 1 /\ t.nodes[f.node].parent = 2
    BY <1>4, <1>9
  <2>2. \A i \in 1 .. j - 1 : t.open[i].level # f.level
    BY <1>2, <1>3, <1>5, <2>1
  <2>3. \A i \in 1 .. j : t.open[i].level <= f.level
    BY <1>2, <1>3, <1>5, <1>6, <2>1
  <2>4. \A i \in 1 .. j : t.open[i].level = f.level => ~(i < j)
    BY <1>2, <1>6, <2>2
  <2>5. ASSUME NEW n \in DOMAIN t.nodes, n > 2
        PROVE  Below(t, n)[f.node] <=> Framed(t, n, f.level, j)
    <3>1. ~Below(t, n)[2]
      BY <2>5, RootsAlone
    <3>2. Below(t, n)[f.node] <=> f.node = n
      BY <1>8, <2>1, <3>1
    <3>3. Framed(t, n, f.level, j) <=> f.node = n
      BY <1>6, <2>2 DEF Framed
    <3> QED BY <3>2, <3>3
  <2> QED BY <1>1, <2>3, <2>4, <2>5 DEF OnPath
<1>10. CASE ~f.irq
  <2>1. f.level = l /\ t.nodes[f.node].parent = NodeAt(t, j - 1)
    BY <1>3, <1>4, <1>10
  <2>2. \A i \in 1 .. j : t.open[i].level <= f.level
    BY <1>2, <1>5, <1>6, <2>1
  <2>3. NodeAt(t, j - 1) < f.node /\ NodeAt(t, j - 1) \in Nat
    BY <1>4, <1>7, <2>1
  <2>4. ASSUME NEW i \in 1 .. j, t.open[i].level = f.level, i < j PROVE t.open[i].node < f.node
    <3>1. i \in 1 .. j - 1 /\ j - 1 \in 1 .. j
      BY <1>1, <2>4
    <3>2. CASE i = j - 1
      BY <2>3, <3>1, <3>2 DEF NodeAt
    <3>3. CASE i # j - 1
      <4>1. t.open[i].node < NodeAt(t, j - 1)
        BY <2>1, <2>4, <3>1, <3>3 DEF OnPath
      <4> QED BY <1>2, <1>4, <2>3, <4>1
    <3> QED BY <3>2, <3>3
  <2>5. ASSUME NEW n \in DOMAIN t.nodes, n > 2
        PROVE  Below(t, n)[f.node] <=> Framed(t, n, f.level, j)
    <3>1. Below(t, n)[NodeAt(t, j - 1)] <=> Framed(t, n, l, j - 1)
      BY <2>5 DEF OnPath
    <3>2. Below(t, n)[f.node] <=> (f.node = n \/ Framed(t, n, l, j - 1))
      BY <1>8, <2>1, <3>1
    <3>3. \A i \in 1 .. j - 1 : i \in 1 .. j
      BY <1>1
    <3>4. Framed(t, n, f.level, j) <=> (f.node = n \/ Framed(t, n, l, j - 1))
      BY <1>6, <2>1, <3>3 DEF Framed
    <3> QED BY <3>2, <3>4
  <2> QED BY <1>1, <2>2, <2>4, <2>5 DEF OnPath
<1> QED BY <1>4, <1>9, <1>10

\* So it is for every open frame.
LEMMA AllOnPath ==
    ASSUME TreeAssumption, NEW t, TreeType(t), Parents(t), PathOK(t), NEW j \in 0 .. Len(t.open)
    PROVE  OnPath(t, j)
<1> DEFINE Bad == {i \in Nat : i <= Len(t.open) /\ ~OnPath(t, i)}
<1>0. Len(t.open) \in Nat /\ DOMAIN t.open = 1 .. Len(t.open)
  BY TreeSizes
<1>1. OnPath(t, 0)
  <2>1. 1 .. 0 = {} /\ NodeAt(t, 0) = 1
    BY DEF NodeAt, MainRoot
  <2>2. \A n \in DOMAIN t.nodes : n > 2 => ~Below(t, n)[1]
    BY RootsAlone
  <2> QED BY <2>1, <2>2 DEF OnPath, Framed
<1>2. Bad = {}
  <2> SUFFICES ASSUME Bad # {} PROVE FALSE
    OBVIOUS
  <2>1. PICK i \in Bad : \A k \in Bad : i <= k
    BY LeastOf
  <2>2. i \in Nat /\ i # 0 /\ i <= Len(t.open) /\ ~OnPath(t, i)
    BY <1>1, <2>1
  <2>3. i - 1 \in Nat /\ i - 1 <= Len(t.open) /\ i - 1 \notin Bad /\ i \in DOMAIN t.open
    BY <1>0, <2>1, <2>2
  <2> QED BY <2>2, <2>3, OnPathNext
<1> QED BY <1>0, <1>2

\* The worst frame of a node, but for the one its calls are being added up in.
WorstKept(node, frame) ==
    /\ node.accFrame <= frame /\ node.acc = node.calls[node.accFrame] /\ node.frameMax >= 0
    /\ \A f \in VideoFrame : f # node.accFrame => node.calls[f] <= node.frameMax
    /\ \A f \in VideoFrame : f > node.accFrame => node.calls[f] = 0
    /\ node.frameMax = 0 \/ \E f \in VideoFrame : f # node.accFrame /\ node.calls[f] = node.frameMax

\* flush_frame_acc
LEMMA FlushIs ==
    ASSUME TreeAssumption, NEW node \in Node, NEW frame \in VideoFrame, WorstKept(node, frame)
    PROVE  LET g == FrameFlushed(node, frame)
           IN  /\ g \in Node /\ WorstKept(g, frame) /\ g.accFrame = frame /\ g.calls = node.calls
               /\ g.parent = node.parent /\ g.self = node.self
<1> DEFINE g == FrameFlushed(node, frame)
           most == Larger(node.frameMax, node.acc)
<1>0. /\ node.frameMax \in Int /\ node.acc \in Int /\ node.accFrame \in VideoFrame
      /\ node.calls \in [VideoFrame -> Int] /\ VideoFrame \subseteq Nat
      /\ DOMAIN node = {"parent", "key", "self", "acc", "accFrame", "frameMax", "calls"}
  <2>1. VideoFrame \subseteq Nat
    BY DEF VideoFrame, TreeAssumption
  <2> QED BY <2>1 DEF Node
<1>1. g \in Node
  BY NodeTakes, 0 \in Int
<1>2. CASE node.accFrame = frame
  <2>1. g = node
    BY <1>2 DEF FrameFlushed
  <2> QED BY <1>1, <1>2, <2>1
<1>3. CASE node.accFrame # frame
  <2>1. g = [node EXCEPT !.frameMax = most, !.acc = 0, !.accFrame = frame]
    BY <1>3 DEF FrameFlushed
  <2> HIDE DEF most
  <2>2. /\ g.frameMax = most /\ g.acc = 0 /\ g.accFrame = frame /\ g.calls = node.calls
        /\ g.parent = node.parent /\ g.self = node.self
    BY <1>0, <2>1
  <2>3. /\ most \in Int /\ most >= node.frameMax /\ most >= node.acc
        /\ most = node.frameMax \/ most = node.acc
    BY <1>0 DEF most, Larger
  <2> HIDE DEF g
  <2>4. node.accFrame < frame /\ node.calls[frame] = 0
    <3>1. node.accFrame <= frame /\ node.accFrame \in Nat /\ frame \in Nat
      BY <1>0 DEF WorstKept
    <3>2. frame > node.accFrame
      BY <1>3, <3>1
    <3>3. node.calls[frame] = 0
      BY <3>2 DEF WorstKept
    <3> QED BY <3>1, <3>2, <3>3
  <2>5. ASSUME NEW f \in VideoFrame PROVE node.calls[f] <= most
    <3>1. node.calls[f] \in Int
      BY <1>0
    <3>2. CASE f = node.accFrame
      BY <2>3, <3>2 DEF WorstKept
    <3>3. CASE f # node.accFrame
      BY <1>0, <2>3, <3>1, <3>3 DEF WorstKept
    <3> QED BY <3>2, <3>3
  <2>6. \A f \in VideoFrame : f > frame => node.calls[f] = 0
    <3>0. SUFFICES ASSUME NEW f \in VideoFrame, f > frame PROVE node.calls[f] = 0
      OBVIOUS
    <3>1. node.accFrame \in Nat /\ frame \in Nat /\ f \in Nat
      BY <1>0
    <3>2. f > node.accFrame
      BY <2>4, <3>0, <3>1
    <3> QED BY <3>2 DEF WorstKept
  <2>7. most = 0 \/ \E f \in VideoFrame : f # frame /\ node.calls[f] = most
    <3>1. CASE most = node.acc
      BY <1>0, <1>3, <3>1 DEF WorstKept
    <3>2. CASE most = node.frameMax /\ most # 0
      <4>1. PICK f \in VideoFrame : f # node.accFrame /\ node.calls[f] = node.frameMax
        BY <3>2 DEF WorstKept
      <4>2. f # frame
        BY <2>4, <3>2, <4>1
      <4> QED BY <3>2, <4>1, <4>2
    <3> QED BY <2>3, <3>1, <3>2
  <2>8. most >= 0 /\ frame <= frame
    BY <1>0, <2>3 DEF WorstKept
  <2>9. WorstKept(g, frame)
    BY <2>2, <2>4, <2>5, <2>6, <2>7, <2>8 DEF WorstKept
  <2> QED BY <1>1, <2>2, <2>9 DEF g
<1> QED BY <1>2, <1>3

\* What a call took is added to the frame it ends in.
LEMMA TookIs ==
    ASSUME TreeAssumption, NEW node \in Node, NEW frame \in VideoFrame, WorstKept(node, frame),
           NEW taken \in Int
    PROVE  LET h == Took(node, frame, taken)
           IN  /\ h \in Node /\ WorstKept(h, frame)
               /\ h.parent = node.parent /\ h.self = node.self
               /\ h.calls[frame] = node.calls[frame] + taken
               /\ \A f \in VideoFrame : f # frame => h.calls[f] = node.calls[f]
<1> DEFINE g == FrameFlushed(node, frame)
           h == Took(node, frame, taken)
<1>1. /\ g \in Node /\ WorstKept(g, frame) /\ g.accFrame = frame /\ g.calls = node.calls
      /\ g.parent = node.parent /\ g.self = node.self
  BY FlushIs
<1>2. h = [g EXCEPT !.acc = g.acc + taken, !.calls = [g.calls EXCEPT ![frame] = g.calls[frame] + taken]]
  BY DEF Took
<1>3. h \in Node
  BY NodeTakes
<1> HIDE DEF g
<1>4. /\ g.frameMax \in Int /\ g.acc \in Int /\ g.accFrame \in VideoFrame
      /\ g.calls \in [VideoFrame -> Int]
      /\ DOMAIN g = {"parent", "key", "self", "acc", "accFrame", "frameMax", "calls"}
  BY <1>1 DEF Node
<1>5. /\ h.frameMax = g.frameMax /\ h.acc = g.acc + taken /\ h.accFrame = frame
      /\ h.calls = [g.calls EXCEPT ![frame] = g.calls[frame] + taken]
      /\ h.parent = g.parent /\ h.self = g.self
  BY <1>1, <1>2, <1>4
<1> HIDE DEF h
<1>6. /\ h.calls[frame] = g.calls[frame] + taken
      /\ \A f \in VideoFrame : f # frame => h.calls[f] = g.calls[f]
  BY <1>4, <1>5
<1>7. \A f \in VideoFrame : f > frame => f # frame
  BY DEF VideoFrame
<1>8. WorstKept(h, frame)
  <2>1. h.acc = h.calls[frame]
    BY <1>1, <1>5, <1>6 DEF WorstKept
  <2>2. \A f \in VideoFrame : f # frame => h.calls[f] <= h.frameMax
    BY <1>1, <1>5, <1>6 DEF WorstKept
  <2>3. \A f \in VideoFrame : f > frame => h.calls[f] = 0
    BY <1>1, <1>6, <1>7 DEF WorstKept
  <2>4. h.frameMax = 0 \/ \E f \in VideoFrame : f # frame /\ h.calls[f] = h.frameMax
    BY <1>1, <1>5, <1>6 DEF WorstKept
  <2> QED BY <1>1, <1>5, <2>1, <2>2, <2>3, <2>4 DEF WorstKept
<1> QED BY <1>1, <1>3, <1>5, <1>6, <1>8 DEF h

\* The clocks of open frames that their nodes are still to be told of.
Share(t, n) ==
    [j \in DOMAIN t.open |->
        IF t.open[j].node = n THEN t.spent[t.open[j].level] - t.open[j].start ELSE 0]

Pending(t, n) == Total(Share(t, n), 1, Len(t.open))

Own(t, n) == [m \in DOMAIN t.nodes |-> IF Below(t, n)[m] THEN t.nodes[m].self ELSE 0]

\* What a node's calls took and what is pending are the clocks of its path.
ChargedAt(t, n) ==
    Inclusive(t, n) = Total(t.nodes[n].calls, 0, MaxVideoFrames) + Pending(t, n)

Tidy(t) ==
    /\ Parents(t) /\ PathOK(t)
    /\ \A n \in DOMAIN t.nodes : n > 2 => ChargedAt(t, n)
    /\ \A n \in DOMAIN t.nodes : WorstKept(t.nodes[n], t.frame)

\* Totals are numbers.
LEMMA TotalTypes ==
    ASSUME TreeAssumption, NEW t, TreeType(t), NEW n \in DOMAIN t.nodes
    PROVE  /\ Inclusive(t, n) = Total(Own(t, n), 1, Len(t.nodes))
           /\ \A m \in 1 .. Len(t.nodes) : Own(t, n)[m] \in Int
           /\ \A j \in 1 .. Len(t.open) : Share(t, n)[j] \in Int
           /\ \A f \in 0 .. MaxVideoFrames : t.nodes[n].calls[f] \in Int
           /\ Inclusive(t, n) \in Int /\ Pending(t, n) \in Int
           /\ Total(t.nodes[n].calls, 0, MaxVideoFrames) \in Int
<1>0. /\ Len(t.open) \in Nat /\ DOMAIN t.open = 1 .. Len(t.open)
      /\ Len(t.nodes) \in Nat /\ DOMAIN t.nodes = 1 .. Len(t.nodes) /\ MaxVideoFrames \in Nat
  BY TreeSizes DEF TreeAssumption
<1>1. Inclusive(t, n) = Total(Own(t, n), 1, Len(t.nodes))
  BY DEF Inclusive, Own
<1>2. ASSUME NEW m \in 1 .. Len(t.nodes) PROVE Own(t, n)[m] \in Int
  <2>1. t.nodes[m] \in Node
    BY <1>0 DEF TreeType
  <2>2. t.nodes[m].self \in Int
    BY <2>1 DEF Node
  <2> QED BY <1>0, <2>2 DEF Own
<1>3. ASSUME NEW j \in 1 .. Len(t.open) PROVE Share(t, n)[j] \in Int
  <2>1. t.spent[t.open[j].level] \in Int /\ t.open[j].start \in Int
    BY <1>0, FrameTypes
  <2> QED BY <1>0, <2>1 DEF Share
<1>4. \A f \in 0 .. MaxVideoFrames : t.nodes[n].calls[f] \in Int
  <2>1. t.nodes[n] \in Node
    BY DEF TreeType
  <2> QED BY <2>1 DEF Node, VideoFrame
<1>5. 1 \in Nat /\ 0 \in Nat /\ Len(t.nodes) \in Int /\ 1 - 1 <= Len(t.nodes) /\ Len(t.open) \in Int
      /\ 1 - 1 <= Len(t.open) /\ MaxVideoFrames \in Int /\ 0 - 1 <= MaxVideoFrames
  BY <1>0
<1>6. Total(Own(t, n), 1, Len(t.nodes)) \in Int
  BY <1>2, <1>5, TotalGrows
<1>7. Total(Share(t, n), 1, Len(t.open)) \in Int
  BY <1>3, <1>5, TotalGrows
<1>8. Total(t.nodes[n].calls, 0, MaxVideoFrames) \in Int
  BY <1>4, <1>5, TotalGrows
<1> QED BY <1>1, <1>2, <1>3, <1>4, <1>6, <1>7, <1>8 DEF Pending

\* One level's clocks count for one frame of a node at most.
LEMMA OneOpen ==
    ASSUME TreeAssumption, NEW t, TreeType(t), Parents(t), PathOK(t), NEW n \in DOMAIN t.nodes, n > 2
    PROVE  \/ /\ Below(t, n)[t.cur]
              /\ \E j \in DOMAIN t.open :
                    /\ t.open[j].node = n /\ t.open[j].level = t.level
                    /\ \A i \in DOMAIN t.open :
                          i # j => ~(t.open[i].node = n /\ t.open[i].level = t.level)
           \/ /\ ~Below(t, n)[t.cur]
              /\ \A i \in DOMAIN t.open : ~(t.open[i].node = n /\ t.open[i].level = t.level)
<1> DEFINE k == Len(t.open)
<1>0. k \in Nat /\ DOMAIN t.open = 1 .. k /\ k \in 0 .. k
  BY TreeSizes
<1>1. OnPath(t, k)
  BY <1>0, AllOnPath
<1>2. t.cur = NodeAt(t, k) /\ t.level = LevelAt(t, k)
  BY DEF PathOK
<1>3. Below(t, n)[t.cur] <=> Framed(t, n, t.level, k)
  BY <1>1, <1>2 DEF OnPath
<1>4. CASE ~Framed(t, n, t.level, k)
  BY <1>0, <1>3, <1>4 DEF Framed
<1>5. CASE Framed(t, n, t.level, k)
  <2>1. PICK j \in 1 .. k : t.open[j].level = t.level /\ t.open[j].node = n
    BY <1>5 DEF Framed
  <2>2. \A i, g \in 1 .. k : i < g /\ t.open[g].level = t.level /\ t.open[i].level = t.level
                               => t.open[i].node < t.open[g].node
    <3> SUFFICES ASSUME NEW i \in 1 .. k, NEW g \in 1 .. k, i < g,
                        t.open[g].level = t.level, t.open[i].level = t.level
                 PROVE  t.open[i].node < t.open[g].node
      OBVIOUS
    <3>1. g \in 0 .. k /\ g # 0 /\ i \in 1 .. g
      BY <1>0
    <3>2. OnPath(t, g)
      BY <3>1, AllOnPath
    <3>3. LevelAt(t, g) = t.level /\ NodeAt(t, g) = t.open[g].node
      BY <3>1 DEF LevelAt, NodeAt
    <3> QED BY <3>1, <3>2, <3>3 DEF OnPath
  <2>3. \A i \in 1 .. k : t.open[i].node = n /\ t.open[i].level = t.level => i = j
    <3> SUFFICES ASSUME NEW i \in 1 .. k, t.open[i].node = n, t.open[i].level = t.level, i # j
                 PROVE  FALSE
      OBVIOUS
    <3>1. i < j \/ j < i
      OBVIOUS
    <3>2. n < n
      BY <2>1, <2>2, <3>1
    <3>3. n \in Nat
      BY TreeSizes
    <3> QED BY <3>2, <3>3
  <2> QED BY <1>0, <1>3, <1>5, <2>1, <2>3
<1> QED BY <1>4, <1>5

\* cct_step
LEMMA TickIs ==
    ASSUME TreeAssumption, NEW t, TreeType(t), Falling(t)
    PROVE  LET u == Ticked(t)
           IN  /\ TreeType(u) /\ Falling(u)
               /\ Len(u.nodes) = Len(t.nodes) /\ u.open = t.open /\ u.cur = t.cur
               /\ u.level = t.level /\ u.frame = t.frame /\ u.finished = t.finished
               /\ u.spent[t.level] = t.spent[t.level] + 1
               /\ \A l \in 0 .. MaxNested : l # t.level => u.spent[l] = t.spent[l]
               /\ \A m \in DOMAIN t.nodes :
                    u.nodes[m] = IF m = t.cur THEN [t.nodes[m] EXCEPT !.self = @ + 1] ELSE t.nodes[m]
<1> DEFINE u == Ticked(t)
<1>1. /\ u.nodes = [t.nodes EXCEPT ![t.cur] = [t.nodes[t.cur] EXCEPT !.self = t.nodes[t.cur].self + 1]]
      /\ u.spent = [t.spent EXCEPT ![t.level] = t.spent[t.level] + 1]
      /\ u.open = t.open /\ u.cur = t.cur
      /\ u.level = t.level /\ u.frame = t.frame /\ u.finished = t.finished
  BY DEF TreeType, TreeFields, Ticked
<1>2. TreeType(u) /\ Falling(u)
  BY Ticks DEF Leads
<1> HIDE DEF u
<1>3. t.nodes \in Seq(Node) /\ t.cur \in DOMAIN t.nodes /\ t.spent \in [0 .. MaxNested -> Int]
      /\ t.level \in 0 .. MaxNested
  BY DEF TreeType
<1>4. Len(u.nodes) = Len(t.nodes)
  BY <1>1, <1>3
<1>5. \A m \in DOMAIN t.nodes :
        u.nodes[m] = IF m = t.cur THEN [t.nodes[m] EXCEPT !.self = t.nodes[m].self + 1] ELSE t.nodes[m]
  BY <1>1, <1>3
<1>6. /\ u.spent[t.level] = t.spent[t.level] + 1
      /\ \A l \in 0 .. MaxNested : l # t.level => u.spent[l] = t.spent[l]
  BY <1>1, <1>3
<1> QED BY <1>1, <1>2, <1>4, <1>5, <1>6 DEF u

\* A clock goes to one node and to one level, and is pending for the frames of
\* that level's path.
LEMMA TickTidy ==
    ASSUME TreeAssumption, NEW t, TreeType(t), Falling(t), Tidy(t)
    PROVE  Tidy(Ticked(t))
<1> DEFINE u == Ticked(t)
<1>1. /\ TreeType(u) /\ Falling(u)
      /\ Len(u.nodes) = Len(t.nodes) /\ u.open = t.open /\ u.cur = t.cur
      /\ u.level = t.level /\ u.frame = t.frame
      /\ u.spent[t.level] = t.spent[t.level] + 1
      /\ \A l \in 0 .. MaxNested : l # t.level => u.spent[l] = t.spent[l]
      /\ \A m \in DOMAIN t.nodes :
           u.nodes[m] = IF m = t.cur THEN [t.nodes[m] EXCEPT !.self = @ + 1] ELSE t.nodes[m]
  BY TickIs
<1> HIDE DEF u
<1>2. /\ Len(t.open) \in Nat /\ DOMAIN t.open = 1 .. Len(t.open)
      /\ Len(t.nodes) \in Nat /\ DOMAIN t.nodes = 1 .. Len(t.nodes)
      /\ DOMAIN u.nodes = DOMAIN t.nodes /\ Len(t.nodes) <= Len(u.nodes)
      /\ t.cur \in DOMAIN t.nodes
  BY <1>1, TreeSizes DEF TreeType
<1>3. ASSUME NEW m \in DOMAIN t.nodes
      PROVE  /\ u.nodes[m].parent = t.nodes[m].parent /\ u.nodes[m].calls = t.nodes[m].calls
             /\ u.nodes[m].acc = t.nodes[m].acc /\ u.nodes[m].accFrame = t.nodes[m].accFrame
             /\ u.nodes[m].frameMax = t.nodes[m].frameMax
             /\ u.nodes[m].self = t.nodes[m].self + (IF m = t.cur THEN 1 ELSE 0)
             /\ u.nodes[m].self \in Int /\ t.nodes[m].self \in Int
  <2>1. t.nodes[m] \in Node
    BY DEF TreeType
  <2>2. u.nodes[m] = IF m = t.cur THEN [t.nodes[m] EXCEPT !.self = @ + 1] ELSE t.nodes[m]
    BY <1>1
  <2>3. CASE m = t.cur
    BY <2>1, <2>2, <2>3 DEF Node
  <2>4. CASE m # t.cur
    BY <2>1, <2>2, <2>4 DEF Node
  <2> QED BY <2>3, <2>4
<1>30. \A m \in DOMAIN t.nodes : u.nodes[m].parent = t.nodes[m].parent
  BY <1>3
<1>31. TreeType(u)
  BY <1>1
<1>4. Parents(u)
  <2>1. 1 \in DOMAIN t.nodes /\ 2 \in DOMAIN t.nodes
    BY <1>2 DEF TreeType
  <2> QED BY <1>2, <1>3, <2>1 DEF Parents, Tidy
<1>5. PathOK(u)
  <2>1. \A j : LevelAt(u, j) = LevelAt(t, j) /\ NodeAt(u, j) = NodeAt(t, j)
    BY <1>1 DEF LevelAt, NodeAt
  <2>2. \A j \in DOMAIN t.open : t.open[j].node \in DOMAIN t.nodes
    BY DEF TreeType
  <2>3. PathOK(t)
    BY DEF Tidy
  <2>4. ASSUME NEW j \in DOMAIN u.open
        PROVE  /\ u.open[j].resume = NodeAt(u, j - 1)
               /\ u.open[j].level = LevelAt(u, j - 1) + (IF u.open[j].irq THEN 1 ELSE 0)
               /\ u.open[j].node > 2
               /\ u.nodes[u.open[j].node].parent = IF u.open[j].irq THEN IrqRoot ELSE NodeAt(u, j - 1)
    <3>1. j \in DOMAIN t.open /\ u.open[j] = t.open[j]
      BY <1>1
    <3>2. u.nodes[t.open[j].node].parent = t.nodes[t.open[j].node].parent
      BY <1>3, <2>2, <3>1
    <3> QED BY <2>1, <2>3, <3>1, <3>2 DEF PathOK
  <2>5. u.cur = NodeAt(u, Len(u.open)) /\ u.level = LevelAt(u, Len(u.open))
    BY <1>1, <2>1, <2>3 DEF PathOK
  <2> QED BY <2>4, <2>5 DEF PathOK
<1>6. ASSUME NEW n \in DOMAIN u.nodes PROVE WorstKept(u.nodes[n], u.frame)
  <2>1. n \in DOMAIN t.nodes
    BY <1>2
  <2>2. WorstKept(t.nodes[n], t.frame)
    BY <2>1 DEF Tidy
  <2>3. /\ u.nodes[n].acc = t.nodes[n].acc /\ u.nodes[n].accFrame = t.nodes[n].accFrame
        /\ u.nodes[n].frameMax = t.nodes[n].frameMax /\ u.nodes[n].calls = t.nodes[n].calls
    BY <1>3, <2>1
  <2> QED BY <1>1, <2>2, <2>3 DEF WorstKept
<1>7. ASSUME NEW n \in DOMAIN u.nodes, n > 2 PROVE ChargedAt(u, n)
  <2> DEFINE under == Below(t, n)[t.cur]
             more == IF under THEN 1 ELSE 0
  <2>0. n \in DOMAIN t.nodes
    BY <1>2
  <2>1. Parents(t) /\ PathOK(t) /\ ChargedAt(t, n)
    BY <1>7, <2>0 DEF Tidy
  <2>2. Inclusive(u, n) = Inclusive(t, n) + more
    <3>1. \A m \in 1 .. Len(t.nodes) : Own(t, n)[m] \in Int /\ Own(u, n)[m] \in Int
      BY <1>1, <1>2, <2>0, TotalTypes
    <3>2. \A m \in 1 .. Len(t.nodes) : m # t.cur => Own(t, n)[m] = Own(u, n)[m]
      <4>1. \A m \in DOMAIN t.nodes : u.nodes[m].self = t.nodes[m].self => Own(u, n)[m] = Own(t, n)[m]
        <5>1. \A m \in DOMAIN t.nodes : m \in DOMAIN u.nodes /\ (Below(u, n)[m] <=> Below(t, n)[m])
          BY <1>31, <1>2, <1>30, <1>4, <2>1, BelowSame
        <5> QED BY <5>1 DEF Own
      <4>2. \A m \in DOMAIN t.nodes : m # t.cur => u.nodes[m].self = t.nodes[m].self
        BY <1>3
      <4> QED BY <1>2, <4>1, <4>2
    <3>3. Len(t.nodes) \in Int /\ 1 - 1 <= Len(t.nodes) /\ t.cur \in 1 .. Len(t.nodes) /\ 1 \in Nat
      BY <1>2
    <3>4. Total(Own(u, n), 1, Len(t.nodes)) =
            Total(Own(t, n), 1, Len(t.nodes)) + Own(u, n)[t.cur] - Own(t, n)[t.cur]
      <4>1. SameBut(Own(t, n), Own(u, n), 1, Len(t.nodes), t.cur)
        BY <3>1, <3>2, <3>3 DEF SameBut
      <4> QED BY <3>3, <4>1, TotalBut
    <3>5. Own(u, n)[t.cur] - Own(t, n)[t.cur] = more
      <4>1. Below(u, n)[t.cur] <=> under
        BY <1>1, <1>2, <1>30, <1>4, <2>1, BelowSame
      <4>2. u.nodes[t.cur].self = t.nodes[t.cur].self + 1 /\ t.nodes[t.cur].self \in Int
        BY <1>2, <1>3
      <4> QED BY <1>2, <4>1, <4>2 DEF Own
    <3>6. /\ Inclusive(t, n) = Total(Own(t, n), 1, Len(t.nodes))
          /\ Inclusive(u, n) = Total(Own(u, n), 1, Len(t.nodes))
          /\ Inclusive(t, n) \in Int /\ Inclusive(u, n) \in Int
      BY <1>1, <2>0, <1>7, TotalTypes
    <3>7. Own(u, n)[t.cur] \in Int /\ Own(t, n)[t.cur] \in Int
      BY <3>1, <3>3
    <3> HIDE DEF more
    <3> QED BY <3>4, <3>5, <3>6, <3>7
  <2>3. Pending(u, n) = Pending(t, n) + more
    <3>1. \A j \in 1 .. Len(t.open) : Share(t, n)[j] \in Int /\ Share(u, n)[j] \in Int
      BY <1>1, <1>7, <2>0, TotalTypes
    <3>2. ASSUME NEW j \in 1 .. Len(t.open)
          PROVE  Share(u, n)[j] = Share(t, n)[j] +
                    (IF t.open[j].node = n /\ t.open[j].level = t.level THEN 1 ELSE 0)
      <4>1. /\ t.open[j].level \in 0 .. MaxNested /\ t.open[j].start \in Int
            /\ t.spent[t.open[j].level] \in Int
        BY <1>2, FrameTypes
      <4>2. u.spent[t.open[j].level] =
              t.spent[t.open[j].level] + (IF t.open[j].level = t.level THEN 1 ELSE 0)
        <5>1. CASE t.open[j].level = t.level
          BY <1>1, <5>1
        <5>2. CASE t.open[j].level # t.level
          <6>1. u.spent[t.open[j].level] = t.spent[t.open[j].level]
            BY <1>1, <4>1, <5>2
          <6> QED BY <4>1, <5>2, <6>1
        <5> QED BY <5>1, <5>2
      <4>3. CASE t.open[j].node = n
        BY <1>1, <1>2, <4>1, <4>2, <4>3 DEF Share
      <4>4. CASE t.open[j].node # n
        BY <1>1, <1>2, <4>4 DEF Share
      <4> QED BY <4>3, <4>4
    <3>3. Len(t.open) \in Int /\ 1 - 1 <= Len(t.open) /\ 1 \in Nat
      BY <1>2
    <3>4. /\ Pending(t, n) = Total(Share(t, n), 1, Len(t.open))
          /\ Pending(u, n) = Total(Share(u, n), 1, Len(t.open))
          /\ Pending(t, n) \in Int
      BY <1>1, <2>0, TotalTypes DEF Pending
    <3>5. CASE under
      <4>1. PICK j \in DOMAIN t.open :
              /\ t.open[j].node = n /\ t.open[j].level = t.level
              /\ \A i \in DOMAIN t.open :
                    i # j => ~(t.open[i].node = n /\ t.open[i].level = t.level)
        BY <1>7, <2>0, <2>1, <3>5, OneOpen
      <4>2. \A i \in 1 .. Len(t.open) : i # j => Share(t, n)[i] = Share(u, n)[i]
        BY <1>2, <3>1, <3>2, <4>1
      <4>3. Share(u, n)[j] = Share(t, n)[j] + 1 /\ j \in 1 .. Len(t.open)
        BY <1>2, <3>2, <4>1
      <4>4. Total(Share(u, n), 1, Len(t.open)) =
              Total(Share(t, n), 1, Len(t.open)) + Share(u, n)[j] - Share(t, n)[j]
        <5>1. SameBut(Share(t, n), Share(u, n), 1, Len(t.open), j)
          BY <3>1, <3>3, <4>2 DEF SameBut
        <5> QED BY <4>3, <5>1, TotalBut
      <4>5. Share(t, n)[j] \in Int
        BY <3>1, <4>3
      <4>6. more = 1
        BY <3>5
      <4> HIDE DEF more
      <4> QED BY <3>4, <4>3, <4>4, <4>5, <4>6
    <3>6. CASE ~under
      <4>1. \A i \in DOMAIN t.open : ~(t.open[i].node = n /\ t.open[i].level = t.level)
        BY <1>7, <2>0, <2>1, <3>6, OneOpen
      <4>2. \A i \in 1 .. Len(t.open) : Share(t, n)[i] \in Int /\ Share(u, n)[i] = Share(t, n)[i]
        BY <1>2, <3>1, <3>2, <4>1
      <4>3. Total(Share(u, n), 1, Len(t.open)) = Total(Share(t, n), 1, Len(t.open))
        <5>1. SameFirst(Share(t, n), Share(u, n), 1, Len(t.open))
          BY <3>3, <4>2 DEF SameFirst
        <5> QED BY <5>1, TotalFirst
      <4> QED BY <3>4, <3>6, <4>3
    <3> QED BY <3>5, <3>6
  <2>4. u.nodes[n].calls = t.nodes[n].calls
    BY <1>3, <2>0
  <2>5. /\ Inclusive(t, n) \in Int /\ Pending(t, n) \in Int
        /\ Total(t.nodes[n].calls, 0, MaxVideoFrames) \in Int
    BY <2>0, TotalTypes
  <2>6. more \in Int
    OBVIOUS
  <2> HIDE DEF more
  <2> QED BY <2>1, <2>2, <2>3, <2>4, <2>5, <2>6 DEF ChargedAt
<1> QED BY <1>4, <1>5, <1>6, <1>7 DEF Tidy, u

\* pop, with what the call took told to its node.
LEMMA PopIs ==
    ASSUME TreeAssumption, NEW t, TreeType(t), t.open # <<>>
    PROVE  LET u == FramePopped(t)
               k == Len(t.open)
               f == t.open[k]
           IN  /\ k \in DOMAIN t.open /\ TreeType(u) /\ Grown(t, u) /\ Len(u.nodes) = Len(t.nodes)
               /\ Len(u.open) = k - 1 /\ \A i \in 1 .. k - 1 : u.open[i] = t.open[i]
               /\ u.cur = f.resume /\ u.level = IF f.irq /\ t.level > 0 THEN t.level - 1 ELSE t.level
               /\ u.spent = t.spent
               /\ u.nodes[f.node] = Took(t.nodes[f.node], t.frame, t.spent[f.level] - f.start)
               /\ \A m \in DOMAIN t.nodes : m # f.node => u.nodes[m] = t.nodes[m]
<1> DEFINE k == Len(t.open)
           f == t.open[k]
           node == Took(t.nodes[f.node], t.frame, t.spent[f.level] - f.start)
           u == FramePopped(t)
<1>1. TreeType(u) /\ Grown(t, u) /\ Outermost(t, u, k - 1)
  BY Pops
<1>2. k \in DOMAIN t.open /\ Last(t.open) = f /\ k \in Nat
  BY DEF TreeType, Last
<1>3. /\ u.nodes = [t.nodes EXCEPT ![f.node] = node]
      /\ u.cur = f.resume /\ u.level = IF f.irq /\ t.level > 0 THEN t.level - 1 ELSE t.level
      /\ u.spent = t.spent
  BY <1>2 DEF TreeType, TreeFields, FramePopped
<1> HIDE DEF u, node
<1>4. f.node \in DOMAIN t.nodes /\ t.nodes \in Seq(Node)
  BY <1>2 DEF TreeType
<1>5. /\ Len(u.nodes) = Len(t.nodes) /\ u.nodes[f.node] = node
      /\ \A m \in DOMAIN t.nodes : m # f.node => u.nodes[m] = t.nodes[m]
  BY <1>3, <1>4
<1> QED BY <1>1, <1>2, <1>3, <1>5 DEF u, node, Outermost

\* What was pending for a frame is in its node's account once it is popped.
LEMMA PopTidy ==
    ASSUME TreeAssumption, NEW t, TreeType(t), t.open # <<>>, Tidy(t)
    PROVE  Tidy(FramePopped(t)) /\ FramePopped(t).level <= t.level
<1> DEFINE u == FramePopped(t)
           k == Len(t.open)
           f == t.open[k]
           taken == t.spent[f.level] - f.start
<1>1. /\ k \in DOMAIN t.open /\ TreeType(u) /\ Grown(t, u) /\ Len(u.nodes) = Len(t.nodes)
      /\ Len(u.open) = k - 1 /\ \A i \in 1 .. k - 1 : u.open[i] = t.open[i]
      /\ u.cur = f.resume /\ u.level = IF f.irq /\ t.level > 0 THEN t.level - 1 ELSE t.level
      /\ u.spent = t.spent
      /\ u.nodes[f.node] = Took(t.nodes[f.node], t.frame, taken)
      /\ \A m \in DOMAIN t.nodes : m # f.node => u.nodes[m] = t.nodes[m]
  BY PopIs
<1>10. TreeType(u) /\ u.frame = t.frame
  BY <1>1 DEF Grown
<1> HIDE DEF u
<1>2. /\ k \in Nat /\ DOMAIN t.open = 1 .. k /\ k > 0
      /\ DOMAIN u.open = 1 .. k - 1
      /\ Len(t.nodes) \in Nat /\ DOMAIN t.nodes = 1 .. Len(t.nodes)
      /\ DOMAIN u.nodes = DOMAIN t.nodes /\ Len(t.nodes) <= Len(u.nodes)
  BY <1>1, TreeSizes
<1>3. /\ f.level \in Nat /\ f.level \in 0 .. MaxNested /\ f.node \in DOMAIN t.nodes
      /\ f.start \in Int /\ f.irq \in BOOLEAN /\ t.spent[f.level] \in Int /\ taken \in Int
  BY <1>1, FrameTypes
<1>4. Parents(t) /\ PathOK(t)
  BY DEF Tidy
<1> HIDE DEF taken
<1>5. /\ u.nodes[f.node] \in Node /\ WorstKept(u.nodes[f.node], t.frame)
      /\ u.nodes[f.node].parent = t.nodes[f.node].parent
      /\ u.nodes[f.node].self = t.nodes[f.node].self
      /\ u.nodes[f.node].calls[t.frame] = t.nodes[f.node].calls[t.frame] + taken
      /\ \A v \in VideoFrame : v # t.frame => u.nodes[f.node].calls[v] = t.nodes[f.node].calls[v]
  <2>1. t.nodes[f.node] \in Node /\ t.frame \in VideoFrame
    BY <1>3 DEF TreeType
  <2>2. WorstKept(t.nodes[f.node], t.frame)
    BY <1>3 DEF Tidy
  <2>3. u.nodes[f.node] = Took(t.nodes[f.node], t.frame, taken) /\ taken \in Int
    BY <1>1, <1>3
  <2> DEFINE node == t.nodes[f.node]
  <2>4. node \in Node /\ WorstKept(node, t.frame)
    BY <2>1, <2>2
  <2>5. u.nodes[f.node] = Took(node, t.frame, taken)
    BY <2>3
  <2> HIDE DEF node, f
  <2>6. /\ Took(node, t.frame, taken) \in Node /\ WorstKept(Took(node, t.frame, taken), t.frame)
        /\ Took(node, t.frame, taken).parent = node.parent
        /\ Took(node, t.frame, taken).self = node.self
        /\ Took(node, t.frame, taken).calls[t.frame] = node.calls[t.frame] + taken
        /\ \A v \in VideoFrame : v # t.frame => Took(node, t.frame, taken).calls[v] = node.calls[v]
    BY <2>1, <2>3, <2>4, TookIs
  <2> QED BY <2>5, <2>6 DEF node
<1>6. /\ \A m \in DOMAIN t.nodes : u.nodes[m].parent = t.nodes[m].parent
      /\ \A m \in DOMAIN t.nodes : u.nodes[m].self = t.nodes[m].self
  <2> SUFFICES ASSUME NEW m \in DOMAIN t.nodes
               PROVE  u.nodes[m].parent = t.nodes[m].parent /\ u.nodes[m].self = t.nodes[m].self
    OBVIOUS
  <2>1. m = f.node \/ u.nodes[m] = t.nodes[m]
    BY <1>1
  <2> QED BY <1>5, <2>1
<1>7. Parents(u)
  <2>1. 1 \in DOMAIN t.nodes /\ 2 \in DOMAIN t.nodes
    BY <1>2 DEF TreeType
  <2> QED BY <1>2, <1>4, <1>6, <2>1 DEF Parents
<1>8. \A i \in 0 .. k - 1 : LevelAt(u, i) = LevelAt(t, i) /\ NodeAt(u, i) = NodeAt(t, i)
  <2> SUFFICES ASSUME NEW i \in 0 .. k - 1
               PROVE  LevelAt(u, i) = LevelAt(t, i) /\ NodeAt(u, i) = NodeAt(t, i)
    OBVIOUS
  <2>1. i = 0 \/ i \in 1 .. k - 1
    BY <1>2
  <2> QED BY <1>1, <2>1 DEF LevelAt, NodeAt
<1>9. t.level = f.level /\ f.resume = NodeAt(t, k - 1)
      /\ f.level = LevelAt(t, k - 1) + (IF f.irq THEN 1 ELSE 0)
  <2>1. t.level = LevelAt(t, k)
    BY <1>4 DEF PathOK
  <2>2. LevelAt(t, k) = t.open[k].level
    BY <1>2 DEF LevelAt
  <2>3. t.open[k].resume = NodeAt(t, k - 1)
        /\ t.open[k].level = LevelAt(t, k - 1) + (IF t.open[k].irq THEN 1 ELSE 0)
    BY <1>1, <1>4 DEF PathOK
  <2> QED BY <2>1, <2>2, <2>3
<1>11. LevelAt(t, k - 1) \in Nat
  <2>1. k - 1 = 0 \/ k - 1 \in DOMAIN t.open
    <3> HIDE DEF k
    <3> QED BY <1>2
  <2>2. CASE k - 1 \in DOMAIN t.open
    <3>1. t.open[k - 1].level \in Nat
      BY <2>2, FrameTypes
    <3> QED BY <1>2, <2>2, <3>1 DEF LevelAt
  <2> QED BY <2>1, <2>2 DEF LevelAt
<1>12. u.level = LevelAt(t, k - 1) /\ u.level <= t.level
  <2>1. u.level = IF f.irq /\ t.level > 0 THEN t.level - 1 ELSE t.level
    BY <1>1
  <2>2. CASE f.irq
    BY <1>9, <1>11, <2>1, <2>2
  <2>3. CASE ~f.irq
    BY <1>9, <1>11, <2>1, <2>3
  <2> QED BY <2>2, <2>3
<1>13. PathOK(u)
  <2>1. u.cur = NodeAt(u, Len(u.open)) /\ u.level = LevelAt(u, Len(u.open))
    <3>1. Len(u.open) = k - 1 /\ k - 1 \in 0 .. k - 1 /\ u.cur = f.resume
      BY <1>1, <1>2
    <3> QED BY <1>8, <1>9, <1>12, <3>1
  <2>2. ASSUME NEW j \in DOMAIN u.open
        PROVE  /\ u.open[j].resume = NodeAt(u, j - 1)
               /\ u.open[j].level = LevelAt(u, j - 1) + (IF u.open[j].irq THEN 1 ELSE 0)
               /\ u.open[j].node > 2
               /\ u.nodes[u.open[j].node].parent = IF u.open[j].irq THEN IrqRoot ELSE NodeAt(u, j - 1)
    <3>1. j \in DOMAIN t.open /\ u.open[j] = t.open[j] /\ j - 1 \in 0 .. k - 1
      <4>1. j \in 1 .. k - 1
        BY <1>2
      <4>2. u.open[j] = t.open[j]
        BY <1>1, <4>1
      <4> HIDE DEF k
      <4> QED BY <1>2, <4>1, <4>2
    <3>2. u.nodes[t.open[j].node].parent = t.nodes[t.open[j].node].parent
      <4>1. t.open[j].node \in DOMAIN t.nodes
        BY <3>1, FrameTypes
      <4> QED BY <1>6, <4>1
    <3>3. LevelAt(u, j - 1) = LevelAt(t, j - 1) /\ NodeAt(u, j - 1) = NodeAt(t, j - 1)
      BY <1>8, <3>1
    <3> QED BY <1>4, <3>1, <3>2, <3>3 DEF PathOK
  <2> QED BY <2>1, <2>2 DEF PathOK
<1>14. ASSUME NEW n \in DOMAIN u.nodes PROVE WorstKept(u.nodes[n], u.frame)
  <2>1. n \in DOMAIN t.nodes
    BY <1>2
  <2>2. CASE n = f.node
    BY <1>5, <1>10, <2>2
  <2>3. CASE n # f.node
    <3>1. u.nodes[n] = t.nodes[n]
      BY <1>1, <2>1, <2>3
    <3>2. WorstKept(t.nodes[n], t.frame)
      BY <2>1 DEF Tidy
    <3> QED BY <1>10, <3>1, <3>2
  <2> QED BY <2>2, <2>3
<1>15. ASSUME NEW n \in DOMAIN u.nodes, n > 2 PROVE ChargedAt(u, n)
  <2> DEFINE mine == IF n = f.node THEN taken ELSE 0
  <2>0. n \in DOMAIN t.nodes
    BY <1>2
  <2>1. ChargedAt(t, n)
    BY <1>15, <2>0 DEF Tidy
  <2>2. Inclusive(u, n) = Inclusive(t, n)
    <3>1. \A m \in DOMAIN t.nodes : m \in DOMAIN u.nodes /\ (Below(u, n)[m] <=> Below(t, n)[m])
      BY <1>10, <1>2, <1>4, <1>6, <1>7, BelowSame
    <3>2. \A m \in DOMAIN t.nodes : Own(u, n)[m] = Own(t, n)[m]
      BY <1>6, <3>1 DEF Own
    <3>3. \A m \in 1 .. Len(t.nodes) : Own(t, n)[m] \in Int
      BY <2>0, TotalTypes
    <3>4. Len(t.nodes) \in Int /\ 1 - 1 <= Len(t.nodes) /\ 1 \in Nat
      BY <1>2
    <3>5. SameFirst(Own(t, n), Own(u, n), 1, Len(t.nodes))
      BY <1>2, <3>2, <3>3, <3>4 DEF SameFirst
    <3>6. Total(Own(u, n), 1, Len(t.nodes)) = Total(Own(t, n), 1, Len(t.nodes))
      BY <3>5, TotalFirst
    <3>7. Inclusive(t, n) = Total(Own(t, n), 1, Len(t.nodes))
      BY <2>0, TotalTypes
    <3>8. Inclusive(u, n) = Total(Own(u, n), 1, Len(u.nodes))
      BY <1>10, <1>15, TotalTypes
    <3> QED BY <1>1, <3>6, <3>7, <3>8
  <2>3. Pending(t, n) = Pending(u, n) + mine
    <3>1. \A j \in 1 .. k : Share(t, n)[j] \in Int
      BY <2>0, TotalTypes
    <3>2. \A j \in 1 .. k - 1 : Share(u, n)[j] = Share(t, n)[j]
      <4> SUFFICES ASSUME NEW j \in 1 .. k - 1 PROVE Share(u, n)[j] = Share(t, n)[j]
        OBVIOUS
      <4>1. j \in DOMAIN t.open /\ j \in DOMAIN u.open /\ u.open[j] = t.open[j] /\ u.spent = t.spent
        BY <1>1, <1>2
      <4> QED BY <4>1 DEF Share
    <3>3. k - 1 \in Int /\ 1 - 1 <= k - 1 /\ 1 \in Nat /\ (k - 1) + 1 = k
      BY <1>2
    <3>4. SameFirst(Share(u, n), Share(t, n), 1, k - 1)
      <4>1. \A j \in 1 .. k - 1 : j \in 1 .. k
        BY <1>2
      <4> HIDE DEF k
      <4> QED BY <3>1, <3>2, <3>3, <4>1 DEF SameFirst
    <3>5. Total(Share(t, n), 1, (k - 1) + 1) = Total(Share(u, n), 1, k - 1) + Share(t, n)[(k - 1) + 1]
      BY <3>4, TotalFirst
    <3>6. Share(t, n)[k] = mine
      BY <1>1 DEF Share, taken
    <3> QED BY <1>1, <3>3, <3>5, <3>6 DEF Pending
  <2>4. Total(u.nodes[n].calls, 0, MaxVideoFrames) = Total(t.nodes[n].calls, 0, MaxVideoFrames) + mine
    <3>0. Total(t.nodes[n].calls, 0, MaxVideoFrames) \in Int
      BY <2>0, TotalTypes
    <3>1. CASE n # f.node
      BY <1>1, <2>0, <3>0, <3>1
    <3>2. CASE n = f.node
      <4>1. /\ \A v \in 0 .. MaxVideoFrames : t.nodes[n].calls[v] \in Int
            /\ \A v \in 0 .. MaxVideoFrames : u.nodes[n].calls[v] \in Int
        BY <1>10, <1>15, <2>0, TotalTypes
      <4>2. /\ t.frame \in 0 .. MaxVideoFrames /\ MaxVideoFrames \in Int /\ 0 \in Nat
            /\ 0 - 1 <= MaxVideoFrames
        BY DEF TreeType, VideoFrame, TreeAssumption
      <4>3. \A v \in 0 .. MaxVideoFrames : v # t.frame => t.nodes[n].calls[v] = u.nodes[n].calls[v]
        BY <1>5, <3>2 DEF VideoFrame
      <4>4. SameBut(t.nodes[n].calls, u.nodes[n].calls, 0, MaxVideoFrames, t.frame)
        BY <4>1, <4>2, <4>3 DEF SameBut
      <4>5. /\ t.nodes[n].calls[t.frame] \in Int /\ u.nodes[n].calls[t.frame] \in Int
            /\ Total(u.nodes[n].calls, 0, MaxVideoFrames) =
                 Total(t.nodes[n].calls, 0, MaxVideoFrames) + u.nodes[n].calls[t.frame]
                   - t.nodes[n].calls[t.frame]
        BY <4>2, <4>4, TotalBut
      <4>6. u.nodes[n].calls[t.frame] = t.nodes[n].calls[t.frame] + taken /\ mine = taken
        BY <1>5, <3>2
      <4> QED BY <1>3, <3>0, <4>5, <4>6
    <3> QED BY <3>1, <3>2
  <2>5. /\ Inclusive(t, n) \in Int /\ Pending(t, n) \in Int
        /\ Total(t.nodes[n].calls, 0, MaxVideoFrames) \in Int
    BY <2>0, TotalTypes
  <2>6. Pending(u, n) \in Int
    BY <1>10, <1>15, TotalTypes
  <2>7. mine \in Int
    BY <1>3
  <2> HIDE DEF mine
  <2> QED BY <2>1, <2>2, <2>3, <2>4, <2>5, <2>6, <2>7 DEF ChargedAt
<1> QED BY <1>7, <1>12, <1>13, <1>14, <1>15 DEF Tidy, u

\* retire and cct_finish's loop.
LEMMA PoppedTidy ==
    ASSUME TreeAssumption, NEW t, TreeType(t), Tidy(t), NEW going
    PROVE  LET u == Popped(t, going)
           IN  Tidy(u) /\ u.level <= t.level /\ Len(u.nodes) = Len(t.nodes)
<1> DEFINE N == Len(t.open)
           f == CHOOSE g : IsPopping(g, t, going, N)
           Fine(n) == /\ TreeType(f[n]) /\ Tidy(f[n]) /\ f[n].level <= t.level
                      /\ Len(f[n].nodes) = Len(t.nodes)
           Bad == {n \in 0 .. N : ~Fine(n)}
<1>0. N \in Nat /\ \A u : TreeType(u) => u.level \in Nat
  BY TreeSizes DEF TreeType
<1> HIDE DEF N
<1>1. IsPopping(f, t, going, N)
  BY <1>0, PoppingExists
<1>2. Popped(t, going) = f[N]
  BY DEF Popped, IsPopping, N
<1> HIDE DEF f
<1>3. Fine(0)
  <2>1. f[0] = t
    BY <1>0, <1>1 DEF IsPopping
  <2> QED BY <1>0, <2>1
<1>4. ASSUME NEW n \in 1 .. N, Fine(n - 1) PROVE Fine(n)
  <2> DEFINE u == f[n - 1]
             v == f[n]
  <2>1. v = IF u.open # <<>> /\ Last(u.open) \in going THEN FramePopped(u) ELSE u
    <3>1. n \in 0 .. N /\ n # 0
      BY <1>0
    <3> QED BY <1>1, <3>1 DEF IsPopping
  <2>2. TreeType(u) /\ Tidy(u) /\ u.level <= t.level /\ Len(u.nodes) = Len(t.nodes)
    BY <1>4
  <2> HIDE DEF u, v
  <2>3. CASE u.open # <<>> /\ Last(u.open) \in going
    <3>1. v = FramePopped(u)
      BY <2>1, <2>3
    <3>2. Tidy(v) /\ v.level <= u.level
      BY <2>2, <2>3, <3>1, PopTidy
    <3>3. TreeType(v) /\ Len(v.nodes) = Len(u.nodes)
      BY <2>2, <2>3, <3>1, PopIs
    <3>4. v.level <= t.level
      BY <1>0, <2>2, <3>2, <3>3
    <3> QED BY <2>2, <3>2, <3>3, <3>4 DEF v
  <2>4. CASE ~(u.open # <<>> /\ Last(u.open) \in going)
    BY <2>1, <2>2, <2>4 DEF v
  <2> QED BY <2>3, <2>4
<1> HIDE DEF Fine
<1>5. Bad = {}
  <2> SUFFICES ASSUME Bad # {} PROVE FALSE
    OBVIOUS
  <2>1. Bad \in SUBSET Nat
    BY <1>0
  <2>2. PICK n \in Bad : \A m \in Bad : n <= m
    BY <2>1, LeastOf
  <2>3. n # 0 /\ n \in 0 .. N /\ ~Fine(n)
    BY <1>3, <2>2
  <2>4. n \in 1 .. N /\ n - 1 \in 0 .. N /\ n - 1 \notin Bad
    BY <1>0, <2>2, <2>3
  <2> QED BY <1>4, <2>3, <2>4
<1>6. Fine(N)
  BY <1>0, <1>5
<1> QED BY <1>2, <1>6 DEF Fine

\* child, where nodes are left: a child of the parent's, found or added.
LEMMA ChildIs ==
    ASSUME TreeAssumption, NEW t, TreeType(t), NEW parent \in DOMAIN t.nodes, NEW key \in Routines,
           Len(t.nodes) < PoolSize
    PROVE  LET folded == FoldedKey(t, parent, key)
               u == WithChild(t, parent, folded)
               n == Child(u, parent, folded)
           IN  /\ n \in DOMAIN u.nodes /\ u.nodes[n].parent = parent
               /\ \A m \in DOMAIN t.nodes : m \in DOMAIN u.nodes /\ u.nodes[m] = t.nodes[m]
               /\ Len(u.nodes) = Len(t.nodes) \/ Len(u.nodes) = Len(t.nodes) + 1
               /\ Len(u.nodes) = Len(t.nodes) + 1 =>
                     u.nodes[Len(t.nodes) + 1] = NewNode(parent, folded)
<1> DEFINE folded == FoldedKey(t, parent, key)
           u == WithChild(t, parent, folded)
           n == Child(u, parent, folded)
           new == NewNode(parent, folded)
<1>0. /\ Len(t.nodes) \in Nat /\ DOMAIN t.nodes = 1 .. Len(t.nodes) /\ Len(t.nodes) # PoolSize
      /\ PoolSize \in Nat /\ t.nodes \in Seq(Node)
  BY TreeSizes DEF TreeAssumption, TreeType
<1> HIDE DEF folded
<1>1. CASE ChildrenOf(t, parent, folded) # {}
  <2>1. u = t
    BY <1>1 DEF WithChild
  <2>2. n \in ChildrenOf(t, parent, folded)
    BY <1>1, <2>1 DEF Child
  <2>3. n \in DOMAIN t.nodes /\ t.nodes[n].parent = parent
    BY <2>2 DEF ChildrenOf
  <2> HIDE DEF u, n, new
  <2>4. Len(u.nodes) # Len(t.nodes) + 1
    BY <1>0, <2>1
  <2> QED BY <2>1, <2>3, <2>4 DEF u, n, folded
<1>2. CASE ChildrenOf(t, parent, folded) = {}
  <2>1. u = [t EXCEPT !.nodes = Append(t.nodes, new)]
    BY <1>0, <1>2 DEF WithChild
  <2>2. new.key = folded /\ new.parent = parent
    BY DEF NewNode
  <2> HIDE DEF new, u, n
  <2>3. u.nodes = Append(t.nodes, new)
    BY <2>1 DEF TreeType, TreeFields
  <2>4. /\ Len(u.nodes) = Len(t.nodes) + 1 /\ DOMAIN u.nodes = 1 .. Len(t.nodes) + 1
        /\ \A m \in DOMAIN t.nodes : u.nodes[m] = t.nodes[m]
        /\ u.nodes[Len(t.nodes) + 1] = new
    BY <1>0, <2>3
  <2>5. DOMAIN t.nodes \subseteq DOMAIN u.nodes
    BY <1>0, <2>4
  <2>6. Len(t.nodes) + 1 \in ChildrenOf(u, parent, folded)
    BY <1>0, <2>2, <2>4 DEF ChildrenOf
  <2>7. n \in ChildrenOf(u, parent, folded)
    BY <2>6 DEF Child, n
  <2>8. n \in DOMAIN u.nodes /\ u.nodes[n].parent = parent
    BY <2>7 DEF ChildrenOf
  <2> QED BY <2>4, <2>5, <2>8 DEF u, n, folded, new
<1> QED BY <1>1, <1>2

\* t, and the frame that was opened for a node of the parent's.
OpenedOn(t, u, parent, irq) ==
    LET k == Len(t.open)
        L == Len(t.nodes)
        f == u.open[k + 1]
    IN  /\ Len(u.open) = k + 1 /\ \A i \in 1 .. k : u.open[i] = t.open[i]
        /\ f.irq = irq /\ f.resume = t.cur /\ f.level = t.level + (IF irq THEN 1 ELSE 0)
        /\ f.start = t.spent[f.level]
        /\ u.cur = f.node /\ u.level = f.level /\ u.spent = t.spent /\ u.frame = t.frame
        /\ f.node \in DOMAIN u.nodes /\ u.nodes[f.node].parent = parent
        /\ \A m \in DOMAIN t.nodes : m \in DOMAIN u.nodes /\ u.nodes[m] = t.nodes[m]
        /\ Len(u.nodes) = L \/ Len(u.nodes) = L + 1
        /\ Len(u.nodes) = L + 1 => \E key : u.nodes[L + 1] = NewNode(parent, key)

\* Calls and interrupts open frames like that.
LEMMA OpenIs ==
    ASSUME TreeAssumption, NEW t, TreeType(t), Falling(t), NEW p \in 1 .. StackTop,
           StackTop <= MaxOpen, \A i \in DOMAIN t.open : t.open[i].sp > p,
           NEW parent \in DOMAIN t.nodes, NEW key \in Routines, NEW irq \in BOOLEAN,
           Len(t.nodes) < PoolSize, irq => t.level < MaxNested
    PROVE  LET u == Opened(t, parent, key, p, irq)
           IN  TreeType(u) /\ Falling(u) /\ Grown(t, u) /\ OpenedOn(t, u, parent, irq)
<1> DEFINE u == Opened(t, parent, key, p, irq)
           k == Len(t.open)
           v == WithChild(t, parent, FoldedKey(t, parent, key))
           n == Child(v, parent, FoldedKey(t, parent, key))
           level == IF irq /\ t.level < MaxNested THEN t.level + 1 ELSE t.level
           f == u.open[k + 1]
<1>1. /\ TreeType(u) /\ Grown(t, u) /\ Falling(u)
      /\ DOMAIN u.open = DOMAIN t.open \cup {k + 1}
      /\ \A i \in DOMAIN t.open : u.open[i] = t.open[i]
      /\ f.irq = irq /\ u.nodes = v.nodes /\ f.node = n
      /\ f.resume = t.cur /\ f.level = level /\ f.start = t.spent[level]
      /\ u.cur = f.node /\ u.level = level /\ u.spent = t.spent
  BY Opens
<1>2. /\ n \in DOMAIN v.nodes /\ v.nodes[n].parent = parent
      /\ \A m \in DOMAIN t.nodes : m \in DOMAIN v.nodes /\ v.nodes[m] = t.nodes[m]
      /\ Len(v.nodes) = Len(t.nodes) \/ Len(v.nodes) = Len(t.nodes) + 1
      /\ Len(v.nodes) = Len(t.nodes) + 1 => \E kk : v.nodes[Len(t.nodes) + 1] = NewNode(parent, kk)
  BY ChildIs
<1> HIDE DEF u, v, n
<1>3. level = t.level + (IF irq THEN 1 ELSE 0)
  BY DEF TreeType
<1>4. TreeType(u)
  BY <1>1
<1>5. /\ k \in Nat /\ DOMAIN t.open = 1 .. k /\ Len(u.open) \in Nat /\ DOMAIN u.open = 1 .. Len(u.open)
  BY <1>4, TreeSizes
<1> HIDE DEF k, level
<1>6. Len(u.open) = k + 1
  <2>1. DOMAIN u.open = (1 .. k) \cup {k + 1}
    BY <1>1, <1>5
  <2> DEFINE m == Len(u.open)
  <2>2. m \in Nat /\ 1 .. m = (1 .. k) \cup {k + 1}
    BY <1>5, <2>1
  <2> HIDE DEF m
  <2>3. m >= k + 1 /\ m \in 1 .. m
    <3>1. k + 1 \in 1 .. m
      BY <2>2
    <3> QED BY <1>5, <2>2, <3>1
  <2> QED BY <1>5, <2>2, <2>3 DEF m
<1>7. u.frame = t.frame
  BY <1>1 DEF Grown
<1>8. \A i \in 1 .. k : u.open[i] = t.open[i]
  BY <1>1, <1>5
<1> QED BY <1>1, <1>2, <1>3, <1>6, <1>7, <1>8 DEF OpenedOn, u, k

\* A new frame has nothing to tell its node yet, and a new node no clocks.
LEMMA OpenTidy ==
    ASSUME TreeAssumption, NEW t, NEW u, TreeType(t), TreeType(u), Tidy(t),
           NEW parent \in DOMAIN t.nodes, NEW irq \in BOOLEAN, OpenedOn(t, u, parent, irq),
           parent = IF irq THEN IrqRoot ELSE t.cur
    PROVE  Tidy(u)
<1> DEFINE k == Len(t.open)
           L == Len(t.nodes)
           f == u.open[k + 1]
<1>1. /\ Len(u.open) = k + 1 /\ \A i \in 1 .. k : u.open[i] = t.open[i]
      /\ f.irq = irq /\ f.resume = t.cur /\ f.level = t.level + (IF irq THEN 1 ELSE 0)
      /\ f.start = t.spent[f.level]
      /\ u.cur = f.node /\ u.level = f.level /\ u.spent = t.spent /\ u.frame = t.frame
      /\ f.node \in DOMAIN u.nodes /\ u.nodes[f.node].parent = parent
      /\ \A m \in DOMAIN t.nodes : m \in DOMAIN u.nodes /\ u.nodes[m] = t.nodes[m]
      /\ Len(u.nodes) = L \/ Len(u.nodes) = L + 1
  BY DEF OpenedOn
<1>2. Len(u.nodes) = L + 1 => \E key : u.nodes[L + 1] = NewNode(parent, key)
  BY DEF OpenedOn
<1>3. /\ k \in Nat /\ DOMAIN t.open = 1 .. k /\ DOMAIN u.open = 1 .. Len(u.open)
      /\ L \in Nat /\ DOMAIN t.nodes = 1 .. L /\ DOMAIN u.nodes = 1 .. Len(u.nodes) /\ L >= 2
  BY TreeSizes DEF TreeType
<1> HIDE DEF k, L
<1>4. DOMAIN u.open = 1 .. k + 1 /\ k + 1 \in DOMAIN u.open /\ Len(u.open) \in Nat
      /\ Len(u.nodes) \in Nat
  BY <1>1, <1>3
<1>5. /\ f.level \in 0 .. MaxNested /\ f.node \in Nat /\ u.spent[f.level] \in Int /\ f.irq \in BOOLEAN
  BY <1>4, FrameTypes
<1> HIDE DEF f
<1>6. ASSUME NEW m \in DOMAIN u.nodes, m \notin DOMAIN t.nodes
      PROVE  /\ m = L + 1 /\ Len(u.nodes) = L + 1 /\ u.nodes[m].parent = parent
             /\ u.nodes[m].self = 0 /\ u.nodes[m].acc = 0 /\ u.nodes[m].accFrame = 0
             /\ u.nodes[m].frameMax = 0 /\ u.nodes[m].calls = [v \in VideoFrame |-> 0]
  <2>1. m = L + 1 /\ Len(u.nodes) = L + 1
    BY <1>1, <1>3, <1>4, <1>6
  <2>2. PICK key : u.nodes[m] = NewNode(parent, key)
    BY <1>2, <2>1
  <2> QED BY <2>1, <2>2 DEF NewNode
<1>7. Parents(t) /\ PathOK(t)
  BY DEF Tidy
<1>8. Parents(u)
  <2>1. 1 \in DOMAIN t.nodes /\ 2 \in DOMAIN t.nodes
    BY <1>3
  <2>2. u.nodes[1].parent = 0 /\ u.nodes[2].parent = 0
    BY <1>1, <1>7, <2>1 DEF Parents
  <2>3. ASSUME NEW m \in DOMAIN u.nodes, m > 2 PROVE u.nodes[m].parent \in 1 .. m - 1
    <3>1. CASE m \in DOMAIN t.nodes
      BY <1>1, <1>7, <2>3, <3>1 DEF Parents
    <3>2. CASE m \notin DOMAIN t.nodes
      BY <1>3, <1>6, <3>2
    <3> QED BY <3>1, <3>2
  <2> QED BY <2>2, <2>3 DEF Parents
<1>9. f.node > 2
  <2>1. parent # 0 /\ parent \in Nat
    BY <1>3
  <2>2. f.node # 1 /\ f.node # 2 /\ f.node # 0
    BY <1>1, <1>3, <1>4, <1>8, <2>1 DEF Parents
  <2> QED BY <1>5, <2>2
<1>10. \A i \in 0 .. k : LevelAt(u, i) = LevelAt(t, i) /\ NodeAt(u, i) = NodeAt(t, i)
  <2> SUFFICES ASSUME NEW i \in 0 .. k
               PROVE  LevelAt(u, i) = LevelAt(t, i) /\ NodeAt(u, i) = NodeAt(t, i)
    OBVIOUS
  <2>1. i = 0 \/ i \in 1 .. k
    BY <1>3
  <2> QED BY <1>1, <2>1 DEF LevelAt, NodeAt
<1>11. t.cur = NodeAt(t, k) /\ t.level = LevelAt(t, k)
  BY <1>7 DEF PathOK, k
<1>12. PathOK(u)
  <2>1. u.cur = NodeAt(u, Len(u.open)) /\ u.level = LevelAt(u, Len(u.open))
    <3>1. Len(u.open) = k + 1 /\ k + 1 # 0 /\ u.open[k + 1] = f
      BY <1>1, <1>3 DEF f
    <3> QED BY <1>1, <3>1 DEF NodeAt, LevelAt
  <2>2. ASSUME NEW j \in DOMAIN u.open
        PROVE  /\ u.open[j].resume = NodeAt(u, j - 1)
               /\ u.open[j].level = LevelAt(u, j - 1) + (IF u.open[j].irq THEN 1 ELSE 0)
               /\ u.open[j].node > 2
               /\ u.nodes[u.open[j].node].parent = IF u.open[j].irq THEN IrqRoot ELSE NodeAt(u, j - 1)
    <3>1. CASE j \in 1 .. k
      <4>1. j \in DOMAIN t.open /\ u.open[j] = t.open[j] /\ j - 1 \in 0 .. k
        BY <1>1, <1>3, <3>1
      <4>2. t.open[j].node \in DOMAIN t.nodes
        BY <4>1, FrameTypes
      <4>3. u.nodes[t.open[j].node].parent = t.nodes[t.open[j].node].parent
        BY <1>1, <4>2
      <4>4. LevelAt(u, j - 1) = LevelAt(t, j - 1) /\ NodeAt(u, j - 1) = NodeAt(t, j - 1)
        BY <1>10, <4>1
      <4> QED BY <1>7, <4>1, <4>3, <4>4 DEF PathOK
    <3>2. CASE j = k + 1
      <4>1. u.open[j] = f /\ j - 1 = k /\ k \in 0 .. k
        BY <1>3, <3>2 DEF f
      <4>2. LevelAt(u, k) = t.level /\ NodeAt(u, k) = t.cur
        BY <1>10, <1>11, <4>1
      <4> QED BY <1>1, <1>9, <4>1, <4>2
    <3> QED BY <1>3, <1>4, <3>1, <3>2
  <2> QED BY <2>1, <2>2 DEF PathOK
<1>13. ASSUME NEW m \in DOMAIN u.nodes PROVE WorstKept(u.nodes[m], u.frame)
  <2>1. CASE m \in DOMAIN t.nodes
    BY <1>1, <2>1 DEF Tidy
  <2>2. CASE m \notin DOMAIN t.nodes
    <3>1. 0 \in VideoFrame /\ u.frame \in VideoFrame /\ 0 <= u.frame
      BY DEF VideoFrame, TreeType, TreeAssumption
    <3> QED BY <1>6, <2>2, <3>1 DEF WorstKept
  <2> QED BY <2>1, <2>2
<1>14. ASSUME NEW m PROVE Share(u, m)[k + 1] = 0
  <2>1. k + 1 \in DOMAIN u.open /\ u.open[k + 1] = f /\ u.spent[f.level] = f.start
    BY <1>1, <1>4 DEF f
  <2> QED BY <1>5, <2>1 DEF Share
<1>15. ASSUME NEW m \in DOMAIN u.nodes, m > 2, m \in DOMAIN t.nodes PROVE ChargedAt(u, m)
  <2>1. ChargedAt(t, m)
    BY <1>15 DEF Tidy
  <2>2. u.nodes[m] = t.nodes[m]
    BY <1>1, <1>15
  <2>3. Inclusive(u, m) = Inclusive(t, m)
    <3>1. \A i \in DOMAIN t.nodes : i \in DOMAIN u.nodes /\ (Below(u, m)[i] <=> Below(t, m)[i])
      <4>1. Len(t.nodes) <= Len(u.nodes)
        BY <1>1, <1>3 DEF L
      <4>2. \A i \in DOMAIN t.nodes : u.nodes[i].parent = t.nodes[i].parent
        BY <1>1
      <4> QED BY <1>7, <1>8, <4>1, <4>2, BelowSame
    <3>2. \A i \in 1 .. L : Own(u, m)[i] = Own(t, m)[i]
      BY <1>1, <1>3, <3>1 DEF Own
    <3>3. \A i \in 1 .. L : Own(t, m)[i] \in Int
      BY <1>15, TotalTypes DEF L
    <3>4. L \in Int /\ 1 - 1 <= L /\ 1 \in Nat
      BY <1>3
    <3>5. SameFirst(Own(t, m), Own(u, m), 1, L)
      BY <3>2, <3>3, <3>4 DEF SameFirst
    <3>6. /\ Total(Own(t, m), 1, L) \in Int
          /\ Total(Own(u, m), 1, L) = Total(Own(t, m), 1, L)
          /\ Total(Own(u, m), 1, L + 1) = Total(Own(t, m), 1, L) + Own(u, m)[L + 1]
      BY <3>5, TotalFirst
    <3>7. Inclusive(t, m) = Total(Own(t, m), 1, L)
      BY <1>15, TotalTypes DEF L
    <3>8. Inclusive(u, m) = Total(Own(u, m), 1, Len(u.nodes))
      BY TotalTypes
    <3>9. CASE Len(u.nodes) = L
      BY <3>6, <3>7, <3>8, <3>9
    <3>10. CASE Len(u.nodes) = L + 1
      <4>1. L + 1 \in DOMAIN u.nodes /\ L + 1 \notin DOMAIN t.nodes
        BY <1>3, <3>10
      <4>2. u.nodes[L + 1].self = 0
        BY <1>6, <4>1
      <4>3. Own(u, m)[L + 1] = 0
        BY <4>1, <4>2 DEF Own
      <4> QED BY <3>6, <3>7, <3>8, <3>10, <4>3
    <3> QED BY <1>1, <3>9, <3>10
  <2>4. Pending(u, m) = Pending(t, m)
    <3>1. \A j \in 1 .. k : Share(u, m)[j] = Share(t, m)[j]
      <4> SUFFICES ASSUME NEW j \in 1 .. k PROVE Share(u, m)[j] = Share(t, m)[j]
        OBVIOUS
      <4>1. j \in DOMAIN t.open /\ j \in DOMAIN u.open /\ u.open[j] = t.open[j] /\ u.spent = t.spent
        BY <1>1, <1>3, <1>4
      <4> QED BY <4>1 DEF Share
    <3>2. \A j \in 1 .. k : Share(t, m)[j] \in Int
      BY <1>15, TotalTypes DEF k
    <3>3. k \in Int /\ 1 - 1 <= k /\ 1 \in Nat
      BY <1>3
    <3>4. SameFirst(Share(t, m), Share(u, m), 1, k)
      BY <3>1, <3>2, <3>3 DEF SameFirst
    <3>5. /\ Total(Share(t, m), 1, k) \in Int
          /\ Total(Share(u, m), 1, k + 1) = Total(Share(t, m), 1, k) + Share(u, m)[k + 1]
      BY <3>4, TotalFirst
    <3>6. Share(u, m)[k + 1] = 0
      BY <1>14
    <3>7. Pending(t, m) = Total(Share(t, m), 1, k)
      BY DEF Pending, k
    <3>8. Pending(u, m) = Total(Share(u, m), 1, k + 1)
      BY <1>1 DEF Pending
    <3> QED BY <3>5, <3>6, <3>7, <3>8
  <2> QED BY <2>1, <2>2, <2>3, <2>4 DEF ChargedAt
<1>16. ASSUME NEW m \in DOMAIN u.nodes, m > 2, m \notin DOMAIN t.nodes PROVE ChargedAt(u, m)
  <2>1. m = L + 1 /\ Len(u.nodes) = L + 1 /\ u.nodes[m].self = 0
        /\ u.nodes[m].calls = [v \in VideoFrame |-> 0]
    BY <1>6, <1>16
  <2>2. Inclusive(u, m) = 0
    <3>1. \A i \in 1 .. L + 1 : Own(u, m)[i] = 0
      <4> SUFFICES ASSUME NEW i \in 1 .. L + 1 PROVE Own(u, m)[i] = 0
        OBVIOUS
      <4>1. i \in DOMAIN u.nodes
        BY <1>3, <2>1
      <4>2. Below(u, m)[i] => i >= m
        BY <1>8, <1>16, <4>1, BelowLater
      <4>3. Below(u, m)[i] => i = m
        BY <1>3, <2>1, <4>2
      <4> QED BY <2>1, <4>1, <4>3 DEF Own
    <3>2. Inclusive(u, m) = Total(Own(u, m), 1, L + 1)
      BY <2>1, TotalTypes
    <3>3. L + 1 \in Int /\ 1 - 1 <= L + 1 /\ 1 \in Nat
      BY <1>3
    <3> QED BY <3>1, <3>2, <3>3, TotalOfNothing
  <2>3. Total(u.nodes[m].calls, 0, MaxVideoFrames) = 0
    <3>1. \A v \in 0 .. MaxVideoFrames : u.nodes[m].calls[v] = 0
      BY <2>1 DEF VideoFrame
    <3>2. 0 \in Nat /\ MaxVideoFrames \in Int /\ 0 - 1 <= MaxVideoFrames
      BY DEF TreeAssumption
    <3> QED BY <3>1, <3>2, TotalOfNothing
  <2>4. Pending(u, m) = 0
    <3>1. \A j \in 1 .. k + 1 : Share(u, m)[j] = 0
      <4> SUFFICES ASSUME NEW j \in 1 .. k + 1 PROVE Share(u, m)[j] = 0
        OBVIOUS
      <4>1. CASE j = k + 1
        BY <1>14, <4>1
      <4>2. CASE j # k + 1
        <5>1. j \in DOMAIN t.open /\ j \in DOMAIN u.open /\ u.open[j] = t.open[j]
          BY <1>1, <1>3, <1>4, <4>2
        <5>2. t.open[j].node \in DOMAIN t.nodes
          BY <5>1, FrameTypes
        <5> QED BY <1>16, <5>1, <5>2 DEF Share
      <4> QED BY <4>1, <4>2
    <3>2. k + 1 \in Int /\ 1 - 1 <= k + 1 /\ 1 \in Nat
      BY <1>3
    <3>3. Pending(u, m) = Total(Share(u, m), 1, k + 1)
      BY <1>1 DEF Pending
    <3> QED BY <3>1, <3>2, <3>3, TotalOfNothing
  <2> QED BY <2>2, <2>3, <2>4 DEF ChargedAt
<1> QED BY <1>8, <1>12, <1>13, <1>15, <1>16 DEF Tidy

\* A capture begins with the roots alone.
LEMMA EmptyTidy == TreeAssumption => Tidy(EmptyTree)
<1> SUFFICES ASSUME TreeAssumption PROVE Tidy(EmptyTree)
  OBVIOUS
<1> DEFINE t == EmptyTree
           a == NewNode(0, "main")
           b == NewNode(0, "irq")
<1>1. t.nodes = <<a, b>> /\ t.open = <<>> /\ t.cur = 1 /\ t.level = 0 /\ t.frame = 0
  BY DEF EmptyTree, MainRoot
<1>2. /\ a.parent = 0 /\ a.acc = 0 /\ a.accFrame = 0 /\ a.frameMax = 0 /\ a.calls = [v \in VideoFrame |-> 0]
      /\ b.parent = 0 /\ b.acc = 0 /\ b.accFrame = 0 /\ b.frameMax = 0 /\ b.calls = [v \in VideoFrame |-> 0]
  BY DEF NewNode
<1> HIDE DEF t, a, b
<1>3. DOMAIN t.nodes = 1 .. 2 /\ t.nodes[1] = a /\ t.nodes[2] = b /\ Len(t.open) = 0 /\ DOMAIN t.open = {}
  BY <1>1
<1>4. \A n \in DOMAIN t.nodes : n = 1 \/ n = 2
  BY <1>3
<1>5. Parents(t)
  BY <1>2, <1>3, <1>4 DEF Parents
<1>6. PathOK(t)
  BY <1>1, <1>3 DEF PathOK, NodeAt, LevelAt, MainRoot
<1>7. 0 \in VideoFrame
  BY DEF VideoFrame, TreeAssumption
<1>8. WorstKept(a, 0) /\ WorstKept(b, 0)
  BY <1>2, <1>7 DEF WorstKept
<1>9. \A n \in DOMAIN t.nodes : WorstKept(t.nodes[n], t.frame)
  BY <1>1, <1>3, <1>4, <1>8
<1>10. \A n \in DOMAIN t.nodes : ~(n > 2)
  BY <1>4
<1> QED BY <1>5, <1>6, <1>9, <1>10 DEF Tidy, t

\* What a video frame's end leaves, a node's account and the path, needs no frame.
LEMMA WorstLater ==
    ASSUME NEW node, NEW frame \in Nat, WorstKept(node, frame), node.accFrame \in Nat
    PROVE  WorstKept(node, frame + 1)
<1>1. node.accFrame <= frame + 1
  BY DEF WorstKept
<1> QED BY <1>1 DEF WorstKept

\* cct_close_frame
LEMMA FrameTidy ==
    ASSUME TreeAssumption, NEW t, TreeType(t), Tidy(t), NEW u,
           u.nodes = t.nodes, u.open = t.open, u.cur = t.cur, u.level = t.level, u.spent = t.spent,
           u.frame = t.frame + 1
    PROVE  Tidy(u)
<1>1. Parents(u) /\ PathOK(u)
  BY DEF Tidy, Parents, PathOK, NodeAt, LevelAt
<1>2. ASSUME NEW n \in DOMAIN t.nodes, n > 2 PROVE ChargedAt(u, n)
  <2>1. Below(u, n) = Below(t, n)
    BY DEF Below
  <2>2. Inclusive(u, n) = Inclusive(t, n)
    BY <2>1 DEF Inclusive
  <2>3. Pending(u, n) = Pending(t, n)
    BY DEF Pending, Share
  <2>4. ChargedAt(t, n)
    BY <1>2 DEF Tidy
  <2> QED BY <2>2, <2>3, <2>4 DEF ChargedAt
<1>3. ASSUME NEW n \in DOMAIN t.nodes PROVE WorstKept(t.nodes[n], t.frame + 1)
  <2>1. t.nodes[n] \in Node /\ t.frame \in Nat
    BY DEF TreeType, VideoFrame
  <2>2. t.nodes[n].accFrame \in Nat
    BY <2>1 DEF Node, VideoFrame
  <2>3. WorstKept(t.nodes[n], t.frame)
    BY DEF Tidy
  <2> QED BY <2>1, <2>2, <2>3, WorstLater
<1> QED BY <1>1, <1>2, <1>3 DEF Tidy

\* What the report says of a node.
Agrees(t, n) ==
    /\ Inclusive(t, n) = Total(t.nodes[n].calls, 0, MaxVideoFrames)
    /\ \A f \in VideoFrame : t.nodes[n].calls[f] <= t.nodes[n].frameMax
    /\ \E f \in VideoFrame : t.nodes[n].calls[f] = t.nodes[n].frameMax

\* With every call closed nothing is pending.
LEMMA ClosedTidy ==
    ASSUME TreeAssumption, NEW t, TreeType(t), Tidy(t)
    PROVE  LET u == ClosedAll(t)
           IN  /\ TreeType(u) /\ Tidy(u) /\ u.frame = t.frame /\ Len(u.nodes) = Len(t.nodes)
               /\ \A n \in DOMAIN u.nodes : n > 2 =>
                     Inclusive(u, n) = Total(u.nodes[n].calls, 0, MaxVideoFrames)
<1> DEFINE u == ClosedAll(t)
           going == Range(t.open)
<1>1. u = Popped(t, going)
  BY DEF ClosedAll
<1>2. Len(t.open) \in Nat /\ DOMAIN t.open = 1 .. Len(t.open)
  BY TreeSizes
<1>3. \A i \in DOMAIN t.open : t.open[i] \in going
  BY DEF Range
<1> HIDE DEF u, going
<1>4. TreeType(u) /\ Grown(t, u) /\ \E k \in 0 .. Len(t.open) : Outermost(t, u, k) /\ (k > 0 => t.open[k] \notin going)
  BY <1>1, PopsWhatGoes
<1>5. TreeType(u)
  BY <1>4
<1>6. PICK k \in 0 .. Len(t.open) : Outermost(t, u, k) /\ (k > 0 => t.open[k] \notin going)
  BY <1>4
<1>7. Len(u.open) = 0
  <2>1. k = 0 \/ (k > 0 /\ k \in DOMAIN t.open)
    BY <1>2
  <2>2. k = 0
    BY <1>3, <1>6, <2>1
  <2> QED BY <1>6, <2>2 DEF Outermost
<1>8. Tidy(u) /\ Len(u.nodes) = Len(t.nodes)
  BY <1>1, PoppedTidy
<1>9. ASSUME NEW n \in DOMAIN u.nodes, n > 2
      PROVE  Inclusive(u, n) = Total(u.nodes[n].calls, 0, MaxVideoFrames)
  <2>1. ChargedAt(u, n)
    BY <1>8, <1>9 DEF Tidy
  <2>2. Pending(u, n) = 0
    <3>1. 1 \in Nat /\ 1 - 1 = 0
      OBVIOUS
    <3>2. Total(Share(u, n), 1, 1 - 1) = 0
      BY <3>1, TotalNext
    <3> QED BY <1>7, <3>1, <3>2 DEF Pending
  <2>3. Total(u.nodes[n].calls, 0, MaxVideoFrames) \in Int
    BY <1>5, TotalTypes
  <2> QED BY <2>1, <2>2, <2>3 DEF ChargedAt
<1>10. u.frame = t.frame
  BY <1>4 DEF Grown
<1> QED BY <1>5, <1>8, <1>9, <1>10 DEF u

\* cct_finish forgets no node.
LEMMA FinishGrows ==
    ASSUME TreeAssumption, NEW t, TreeType(t)
    PROVE  Len(t.nodes) <= Len(Finished(t).nodes)
<1> DEFINE u == ClosedAll(t)
           v == Finished(t)
           nodes == [n \in DOMAIN u.nodes |-> FrameFlushed(u.nodes[n], u.frame + 1)]
<1>1. TreeType(u) /\ Grown(t, u)
  BY PopsWhatGoes DEF ClosedAll
<1>2. v = [u EXCEPT !.cur = MainRoot, !.level = 0, !.finished = TRUE, !.frame = u.frame + 1, !.nodes = nodes]
  BY DEF Finished
<1> HIDE DEF u, v
<1>3. v.nodes = nodes
  <2> HIDE DEF nodes
  <2> QED BY <1>1, <1>2 DEF TreeType, TreeFields
<1>4. DOMAIN u.nodes = 1 .. Len(u.nodes) /\ Len(u.nodes) \in Nat
  BY <1>1, TreeSizes
<1>5. Len(v.nodes) = Len(u.nodes)
  <2>1. DOMAIN v.nodes = 1 .. Len(u.nodes)
    BY <1>3, <1>4
  <2> HIDE DEF nodes
  <2> QED BY <1>4, <2>1
<1> QED BY <1>1, <1>5 DEF Grown, v

\* cct_finish
LEMMA FinishAgrees ==
    ASSUME TreeAssumption, NEW t, TreeType(t), Tidy(t), t.frame < MaxVideoFrames
    PROVE  /\ Len(Finished(t).nodes) = Len(t.nodes)
           /\ \A n \in DOMAIN Finished(t).nodes \ {1, 2} : Agrees(Finished(t), n)
<1> DEFINE u == ClosedAll(t)
           v == Finished(t)
           frame == u.frame + 1
           nodes == [n \in DOMAIN u.nodes |-> FrameFlushed(u.nodes[n], frame)]
<1>1. /\ TreeType(u) /\ Tidy(u) /\ u.frame = t.frame /\ Len(u.nodes) = Len(t.nodes)
      /\ \A n \in DOMAIN u.nodes : n > 2 =>
            Inclusive(u, n) = Total(u.nodes[n].calls, 0, MaxVideoFrames)
  BY ClosedTidy
<1>2. TreeType(v)
  BY Finishes
<1>3. v = [u EXCEPT !.cur = MainRoot, !.level = 0, !.finished = TRUE, !.frame = frame, !.nodes = nodes]
  BY DEF Finished
<1> HIDE DEF u, v
<1>4. frame \in VideoFrame /\ u.frame \in Nat /\ frame > u.frame
  <2>1. t.frame \in 0 .. MaxVideoFrames /\ MaxVideoFrames \in Nat
    BY DEF TreeType, VideoFrame, TreeAssumption
  <2> QED BY <1>1, <2>1 DEF VideoFrame
<1>5. v.nodes = nodes
  <2> HIDE DEF nodes, frame
  <2> QED BY <1>1, <1>3 DEF TreeType, TreeFields
<1>6. DOMAIN v.nodes = DOMAIN u.nodes /\ \A n \in DOMAIN u.nodes : v.nodes[n] = FrameFlushed(u.nodes[n], frame)
  <2> HIDE DEF frame
  <2> QED BY <1>5
<1> HIDE DEF nodes
<1>7. ASSUME NEW n \in DOMAIN u.nodes
      PROVE  /\ u.nodes[n] \in Node
             /\ v.nodes[n].calls = u.nodes[n].calls /\ v.nodes[n].accFrame = frame
             /\ v.nodes[n].parent = u.nodes[n].parent /\ v.nodes[n].self = u.nodes[n].self
             /\ WorstKept(v.nodes[n], frame) /\ WorstKept(u.nodes[n], frame)
             /\ WorstKept(u.nodes[n], u.frame) /\ u.nodes[n].accFrame \in Nat
  <2>1. u.nodes[n] \in Node
    BY <1>1 DEF TreeType
  <2>2. u.nodes[n].accFrame \in Nat
    BY <2>1 DEF Node, VideoFrame
  <2>3. WorstKept(u.nodes[n], u.frame)
    BY <1>1 DEF Tidy
  <2>4. WorstKept(u.nodes[n], frame)
    BY <1>4, <2>2, <2>3, WorstLater
  <2> HIDE DEF frame
  <2> QED BY <1>4, <1>6, <2>1, <2>2, <2>3, <2>4, FlushIs
<1>8. Parents(u)
  BY <1>1 DEF Tidy
<1>9. /\ Len(u.nodes) \in Nat /\ DOMAIN u.nodes = 1 .. Len(u.nodes)
      /\ Len(v.nodes) \in Nat /\ DOMAIN v.nodes = 1 .. Len(v.nodes)
      /\ 1 \in DOMAIN u.nodes /\ 2 \in DOMAIN u.nodes
  <2>1. TreeType(u)
    BY <1>1
  <2>2. Len(u.nodes) \in Nat /\ DOMAIN u.nodes = 1 .. Len(u.nodes) /\ Len(u.nodes) >= 2
    BY <2>1, TreeSizes DEF TreeType
  <2>3. Len(v.nodes) \in Nat /\ DOMAIN v.nodes = 1 .. Len(v.nodes)
    BY <1>2, TreeSizes
  <2> QED BY <2>2, <2>3
<1>10. Len(v.nodes) = Len(u.nodes)
  BY <1>6, <1>9
<1>11. Parents(v)
  BY <1>6, <1>7, <1>8, <1>9 DEF Parents
<1>12. ASSUME NEW n \in DOMAIN u.nodes, n > 2 PROVE Agrees(v, n)
  <2>1. Inclusive(v, n) = Inclusive(u, n)
    <3>1. \A m \in DOMAIN u.nodes : m \in DOMAIN v.nodes /\ (Below(v, n)[m] <=> Below(u, n)[m])
      <4>1. TreeType(u) /\ Len(u.nodes) <= Len(v.nodes)
        BY <1>1, <1>9, <1>10
      <4>2. \A m \in DOMAIN u.nodes : v.nodes[m].parent = u.nodes[m].parent
        BY <1>7
      <4> QED BY <1>2, <1>8, <1>11, <4>1, <4>2, BelowSame
    <3>2. \A m \in 1 .. Len(u.nodes) : Own(v, n)[m] = Own(u, n)[m]
      BY <1>6, <1>7, <1>9, <3>1 DEF Own
    <3>3. \A m \in 1 .. Len(u.nodes) : Own(u, n)[m] \in Int
      BY <1>1, <1>12, TotalTypes
    <3>4. Len(u.nodes) \in Int /\ 1 - 1 <= Len(u.nodes) /\ 1 \in Nat
      BY <1>9
    <3>5. SameFirst(Own(u, n), Own(v, n), 1, Len(u.nodes))
      BY <3>2, <3>3, <3>4 DEF SameFirst
    <3>6. Total(Own(v, n), 1, Len(u.nodes)) = Total(Own(u, n), 1, Len(u.nodes))
      BY <3>5, TotalFirst
    <3>7. Inclusive(u, n) = Total(Own(u, n), 1, Len(u.nodes))
      BY <1>1, <1>12, TotalTypes
    <3>8. Inclusive(v, n) = Total(Own(v, n), 1, Len(v.nodes))
      BY <1>2, <1>6, <1>12, TotalTypes
    <3> QED BY <1>10, <3>6, <3>7, <3>8
  <2> DEFINE calls == u.nodes[n].calls
             most == v.nodes[n].frameMax
  <2>2. v.nodes[n].calls = calls /\ v.nodes[n].accFrame = frame
    BY <1>7
  <2>3. calls[frame] = 0
    <3>1. u.nodes[n].accFrame <= u.frame
      BY <1>7 DEF WorstKept
    <3>2. frame > u.nodes[n].accFrame
      BY <1>4, <1>7, <3>1
    <3> QED BY <1>4, <1>7, <3>2 DEF WorstKept
  <2>4. most >= 0 /\ (\A f \in VideoFrame : f # frame => calls[f] <= most)
        /\ (most = 0 \/ \E f \in VideoFrame : calls[f] = most)
    BY <1>7, <2>2 DEF WorstKept
  <2>5. \A f \in VideoFrame : calls[f] <= most
    <3> HIDE DEF calls, most, frame
    <3>1. most \in Int
      <4>1. v.nodes[n] \in Node
        BY <1>2, <1>6 DEF TreeType
      <4> QED BY <4>1 DEF Node, most
    <3> QED BY <2>3, <2>4, <3>1
  <2>6. \E f \in VideoFrame : calls[f] = most
    <3> HIDE DEF calls, most, frame
    <3> QED BY <1>4, <2>3, <2>4
  <2>7. Inclusive(u, n) = Total(calls, 0, MaxVideoFrames)
    BY <1>1, <1>12
  <2> HIDE DEF calls
  <2> QED BY <2>1, <2>2, <2>5, <2>6, <2>7 DEF Agrees
<1>13. ASSUME NEW n \in DOMAIN v.nodes \ {1, 2} PROVE Agrees(v, n)
  <2>1. n \in DOMAIN u.nodes /\ n > 2
    BY <1>6, <1>9, <1>13
  <2> QED BY <1>12, <2>1
<1> QED BY <1>1, <1>10, <1>13 DEF v

\* The tree is tidy as long as there are nodes left.
TidyYet(t) == Len(t.nodes) < PoolSize => Tidy(t)

\* An event of the tree that leaves it so.
Keeps(t, u) == TreeType(u) /\ Falling(u) /\ u.finished = t.finished /\ TidyYet(u)

\* cct_step
LEMMA TickKeeps ==
    ASSUME TreeAssumption, NEW t, TreeType(t), Falling(t), TidyYet(t)
    PROVE  Keeps(t, Ticked(t)) /\ Ticked(t).level = t.level
<1> DEFINE u == Ticked(t)
<1>1. TreeType(u) /\ Falling(u) /\ Len(u.nodes) = Len(t.nodes) /\ u.finished = t.finished
      /\ u.level = t.level
  BY TickIs
<1>2. Tidy(t) => Tidy(u)
  BY TickTidy
<1> HIDE DEF u
<1> QED BY <1>1, <1>2 DEF TidyYet, Keeps, u

\* retire
LEMMA RetireKeeps ==
    ASSUME TreeAssumption, NEW t, TreeType(t), Falling(t), TidyYet(t), NEW p \in Nat
    PROVE  LET u == Retired(t, p)
           IN  /\ Keeps(t, u)
               /\ \A i \in DOMAIN u.open : u.open[i].sp > p
               /\ Tidy(t) => Len(u.nodes) = Len(t.nodes) /\ u.level <= t.level
               /\ Len(t.nodes) <= Len(u.nodes)
<1> DEFINE u == Retired(t, p)
           going == {f \in Range(t.open) : f.sp <= p}
<1>1. TreeType(u) /\ Grown(t, u) /\ Falling(u)
  BY Retires
<1>2. \A i \in DOMAIN u.open : u.open[i].sp > p
  BY RetiresFollows
<1>3. u = Popped(t, going)
  BY DEF Retired
<1> HIDE DEF u, going
<1>4. Tidy(t) => Tidy(u) /\ u.level <= t.level /\ Len(u.nodes) = Len(t.nodes)
  BY <1>3, PoppedTidy
<1>5. Len(t.nodes) <= Len(u.nodes) /\ u.finished = t.finished
  BY <1>1 DEF Grown
<1>6. Len(u.nodes) \in Nat /\ Len(t.nodes) \in Nat
  BY <1>1, TreeSizes
<1>7. TidyYet(u)
  BY <1>4, <1>5, <1>6, TreeAssumption DEF TidyYet, TreeAssumption
<1> QED BY <1>1, <1>2, <1>4, <1>5, <1>7 DEF Keeps, u

\* apply_return
LEMMA ReturnKeeps ==
    ASSUME TreeAssumption, NEW t, TreeType(t), Falling(t), TidyYet(t), NEW p \in Nat
    PROVE  Keeps(t, Returned(t, p))
<1>1. Keeps(t, t)
  BY DEF Keeps
<1>2. Keeps(t, Retired(t, p))
  BY RetireKeeps
<1>3. Returned(t, p) = t \/ Returned(t, p) = Retired(t, p)
  BY DEF Returned
<1> QED BY <1>1, <1>2, <1>3

\* push, for a call or an interrupt.
LEMMA PushKeeps ==
    ASSUME TreeAssumption, NEW t, TreeType(t), Falling(t), TidyYet(t), NEW p \in 1 .. StackTop,
           StackTop <= MaxOpen, \A i \in DOMAIN t.open : t.open[i].sp > p,
           NEW parent, NEW key \in Routines, NEW irq \in BOOLEAN,
           parent = IF irq THEN IrqRoot ELSE t.cur,
           irq /\ Len(t.nodes) < PoolSize => t.level < MaxNested
    PROVE  Keeps(t, Opened(t, parent, key, p, irq))
<1> DEFINE u == Opened(t, parent, key, p, irq)
<1>1. parent \in DOMAIN t.nodes
  <2>1. IrqRoot \in DOMAIN t.nodes
    <3>1. DOMAIN t.nodes = 1 .. Len(t.nodes) /\ Len(t.nodes) \in Nat /\ Len(t.nodes) >= 2
      BY TreeSizes DEF TreeType
    <3> QED BY <3>1 DEF IrqRoot
  <2>2. t.cur \in DOMAIN t.nodes
    BY DEF TreeType
  <2> QED BY <2>1, <2>2
<1>2. TreeType(u) /\ Grown(t, u) /\ Falling(u)
  BY <1>1, Opens
<1>3. Len(t.nodes) < PoolSize => OpenedOn(t, u, parent, irq)
  BY <1>1, OpenIs
<1> HIDE DEF u
<1>4. /\ Len(t.nodes) <= Len(u.nodes) /\ Len(u.nodes) \in Nat /\ Len(t.nodes) \in Nat
      /\ PoolSize \in Nat /\ u.finished = t.finished
  BY <1>2, TreeSizes DEF Grown, TreeAssumption
<1>5. ASSUME Len(u.nodes) < PoolSize PROVE Tidy(u)
  <2>1. Len(t.nodes) < PoolSize
    BY <1>4, <1>5
  <2>2. Tidy(t)
    BY <2>1 DEF TidyYet
  <2>3. TreeType(u)
    BY <1>2
  <2> QED BY <1>1, <1>3, <2>1, <2>2, <2>3, OpenTidy
<1> QED BY <1>2, <1>4, <1>5 DEF Keeps, TidyYet, u

\* apply_call, cct_irq_enter
LEMMA EnterKeeps ==
    ASSUME TreeAssumption, StackTop <= MaxOpen, NEW t, TreeType(t), Falling(t), TidyYet(t),
           NEW p \in 1 .. StackTop, NEW key \in Routines
    PROVE  /\ Keeps(t, Called(t, key, p))
           /\ t.level < MaxNested => Keeps(t, Interrupted(t, key, p))
<1> DEFINE u == Retired(t, p)
<1>1. /\ Keeps(t, u) /\ \A i \in DOMAIN u.open : u.open[i].sp > p
      /\ Tidy(t) => Len(u.nodes) = Len(t.nodes) /\ u.level <= t.level
      /\ Len(t.nodes) <= Len(u.nodes)
  <2>1. p \in Nat
    OBVIOUS
  <2> QED BY <2>1, RetireKeeps
<1>2. Called(t, key, p) = Opened(u, u.cur, key, p, FALSE)
      /\ Interrupted(t, key, p) = Opened(u, IrqRoot, key, p, TRUE)
  BY DEF Called, Interrupted
<1> HIDE DEF u
<1>3. TreeType(u) /\ Falling(u) /\ TidyYet(u) /\ u.finished = t.finished
  BY <1>1 DEF Keeps
<1>4. Keeps(u, Opened(u, u.cur, key, p, FALSE))
  <2>1. u.cur = IF FALSE THEN IrqRoot ELSE u.cur
    OBVIOUS
  <2>2. FALSE /\ Len(u.nodes) < PoolSize => u.level < MaxNested
    OBVIOUS
  <2> QED BY <1>1, <1>3, <2>1, <2>2, PushKeeps
<1>5. ASSUME t.level < MaxNested PROVE Keeps(u, Opened(u, IrqRoot, key, p, TRUE))
  <2>1. Len(u.nodes) < PoolSize => u.level < MaxNested
    <3>1. /\ Len(u.nodes) \in Nat /\ Len(t.nodes) \in Nat /\ PoolSize \in Nat
          /\ u.level \in Nat /\ t.level \in Nat /\ MaxNested \in Nat
      <4>1. Len(u.nodes) \in Nat /\ Len(t.nodes) \in Nat
        BY <1>3, TreeSizes
      <4> QED BY <1>3, <4>1 DEF TreeType, TreeAssumption
    <3> QED BY <1>1, <1>5, <3>1 DEF TidyYet
  <2>2. IrqRoot = IF TRUE THEN IrqRoot ELSE u.cur
    OBVIOUS
  <2> QED BY <1>1, <1>3, <2>1, <2>2, PushKeeps
<1> QED BY <1>2, <1>3, <1>4, <1>5 DEF Keeps

\* The tree is tidy while a capture runs, and its accounts agree once it ended.
AccInv ==
    /\ TreeInv /\ AccountsAgree
    /\ ~tree.finished => TidyYet(tree)

\* No interrupt comes where as many are open as keep clocks of their own.
NestingHeld == [][tree.level = MaxNested => ~TakeInterrupt /\ ~Break]_treeVars

\* Calls, returns, interrupts and other instructions.
LEMMA GuestKeeps ==
    ASSUME StackTop <= MaxOpen, TreeInv, ~tree.finished, TidyYet(tree),
           tree.level = MaxNested => ~TakeInterrupt /\ ~Break,
           \/ CallRoutine \/ ReturnFrom \/ TakeInterrupt \/ Break \/ ReturnFromInterrupt
           \/ OtherInstruction
    PROVE  Keeps(tree, tree')
<1>0. /\ TreeType(tree) /\ Falling(tree) /\ StackTop \in Nat /\ stack.sp \in 0 .. StackTop
      /\ TreeAssumption
  BY TreeAssumption DEF TreeInv, StackType, TreeAssumption
<1>1. Keeps(tree, Ticked(tree))
  BY <1>0, TickKeeps
<1>2. /\ TreeType(Ticked(tree)) /\ Falling(Ticked(tree)) /\ TidyYet(Ticked(tree))
      /\ Ticked(tree).finished = tree.finished
  BY <1>1 DEF Keeps
<1>3. CASE CallRoutine
  <2>1. PICK key \in Routines : stack.sp > 0 /\ tree' = Called(Ticked(tree), key, stack.sp)
    BY <1>3 DEF CallRoutine
  <2>2. stack.sp \in 1 .. StackTop
    BY <1>0, <2>1
  <2>3. Keeps(Ticked(tree), tree')
    BY <1>0, <1>2, <2>1, <2>2, EnterKeeps
  <2> QED BY <1>2, <2>3 DEF Keeps
<1>4. ASSUME TakeInterrupt \/ Break PROVE Keeps(tree, tree')
  <2>1. PICK key \in Routines :
          /\ stack.sp > 0
          /\ tree' \in {Interrupted(tree, key, stack.sp), Ticked(Interrupted(tree, key, stack.sp))}
    BY <1>4 DEF TakeInterrupt, Break
  <2>2. stack.sp \in 1 .. StackTop
    BY <1>0, <2>1
  <2>3. tree.level < MaxNested
    BY <1>0, <1>4 DEF TreeType, TreeAssumption
  <2> DEFINE t == Interrupted(tree, key, stack.sp)
  <2>4. Keeps(tree, t)
    BY <1>0, <2>2, <2>3, EnterKeeps
  <2> HIDE DEF t
  <2>5. Keeps(t, Ticked(t))
    BY <1>0, <2>4, TickKeeps DEF Keeps
  <2> QED BY <2>1, <2>4, <2>5 DEF Keeps, t
<1>5. CASE ReturnFrom
  <2>1. tree' = Returned(Ticked(tree), stack.sp + 1) /\ stack.sp + 1 \in Nat
    BY <1>0, <1>5 DEF ReturnFrom
  <2>2. Keeps(Ticked(tree), tree')
    BY <1>0, <1>2, <2>1, ReturnKeeps
  <2> QED BY <1>2, <2>2 DEF Keeps
<1>6. CASE ReturnFromInterrupt
  <2> DEFINE t == Returned(tree, stack.sp + 1)
  <2>1. tree' = Ticked(t) /\ stack.sp + 1 \in Nat
    BY <1>0, <1>6 DEF ReturnFromInterrupt
  <2>2. Keeps(tree, t)
    BY <1>0, <2>1, ReturnKeeps
  <2> HIDE DEF t
  <2>3. Keeps(t, Ticked(t))
    BY <1>0, <2>2, TickKeeps DEF Keeps
  <2> QED BY <2>1, <2>2, <2>3 DEF Keeps
<1>7. CASE OtherInstruction
  BY <1>1, <1>7 DEF OtherInstruction
<1> QED BY <1>3, <1>4, <1>5, <1>6, <1>7

\* And every step.
LEMMA AccStep ==
    ASSUME StackTop <= MaxOpen, AccInv, [TreeNext]_treeVars,
           [tree.level = MaxNested => ~TakeInterrupt /\ ~Break]_treeVars
    PROVE  AccInv'
<1>0. TreeType(tree) /\ TreeInv /\ TreeInv' /\ TreeAssumption
  BY TreeStep, TreeAssumption DEF AccInv, TreeInv
<1>1. CASE UNCHANGED treeVars
  <2>1. tree' = tree
    BY <1>1 DEF treeVars
  <2>2. AccountsAgree' /\ (~tree'.finished => TidyYet(tree'))
    BY <2>1 DEF AccInv, AccountsAgree
  <2> QED BY <1>0, <2>2 DEF AccInv
<1>2. CASE (CallRoutine \/ ReturnFrom \/ TakeInterrupt \/ Break \/ ReturnFromInterrupt \/ OtherInstruction)
           /\ ~UNCHANGED treeVars
  <2>1. ~tree.finished
    BY <1>2 DEF CallRoutine, ReturnFrom, TakeInterrupt, Break, ReturnFromInterrupt, OtherInstruction, InTime
  <2>2. tree.level = MaxNested => ~TakeInterrupt /\ ~Break
    BY <1>2
  <2>3. Keeps(tree, tree')
    BY <1>0, <1>2, <2>1, <2>2, GuestKeeps DEF AccInv
  <2>4. ~tree'.finished /\ TidyYet(tree')
    BY <2>1, <2>3 DEF Keeps
  <2>5. AccountsAgree'
    BY <2>4 DEF AccountsAgree
  <2> QED BY <1>0, <2>4, <2>5 DEF AccInv
<1>3. CASE EndVideoFrame
  <2>1. tree' = [tree EXCEPT !.frame = tree.frame + 1] /\ ~tree.finished
    BY <1>3 DEF EndVideoFrame
  <2>2. /\ tree'.nodes = tree.nodes /\ tree'.open = tree.open /\ tree'.cur = tree.cur
        /\ tree'.level = tree.level /\ tree'.spent = tree.spent /\ tree'.finished = tree.finished
        /\ tree'.frame = tree.frame + 1
    BY <1>0, <2>1 DEF TreeType, TreeFields
  <2>3. Tidy(tree) => Tidy(tree')
    BY <1>0, <2>2, FrameTidy
  <2>4. TidyYet(tree')
    BY <2>1, <2>2, <2>3 DEF AccInv, TidyYet
  <2>5. AccountsAgree'
    BY <2>1, <2>2 DEF AccountsAgree
  <2> QED BY <1>0, <2>4, <2>5 DEF AccInv
<1>4. CASE FinishCapture
  <2>1. tree' = Finished(tree) /\ ~tree.finished
    BY <1>4 DEF FinishCapture
  <2>2. tree'.finished /\ tree.frame < MaxVideoFrames
    BY <1>0, <2>1, Finishes DEF TreeInv
  <2>3. ASSUME Len(tree'.nodes) < PoolSize PROVE \A n \in DOMAIN tree'.nodes \ {1, 2} : Agrees(tree', n)
    <3>1. Len(tree.nodes) < PoolSize
      <4>1. Len(tree.nodes) <= Len(tree'.nodes)
        BY <1>0, <2>1, FinishGrows
      <4>2. Len(tree.nodes) \in Nat /\ Len(tree'.nodes) \in Nat /\ PoolSize \in Nat
        BY <1>0, TreeSizes DEF TreeInv, TreeAssumption
      <4> QED BY <2>3, <4>1, <4>2
    <3>2. Tidy(tree)
      BY <2>1, <3>1 DEF AccInv, TidyYet
    <3> QED BY <1>0, <2>1, <2>2, <3>2, FinishAgrees
  <2>4. AccountsAgree'
    BY <2>3 DEF AccountsAgree, Agrees, MainRoot, IrqRoot
  <2> QED BY <1>0, <2>2, <2>4 DEF AccInv
<1>5. CASE StartCapture
  <2>1. tree' = EmptyTree
    BY <1>5 DEF StartCapture
  <2>2. Tidy(tree') /\ ~tree'.finished
    BY <1>0, <2>1, EmptyTidy DEF EmptyTree
  <2>3. AccountsAgree'
    BY <2>2 DEF AccountsAgree
  <2> QED BY <1>0, <2>2, <2>3 DEF AccInv, TidyYet
<1> QED BY <1>1, <1>2, <1>3, <1>4, <1>5 DEF TreeNext

\* The two accounts of the clocks agree in every report (profile_cct.c cct_step,
\* pop, cct_finish), where the shadow stack has a frame for each place of the
\* guest's and no more interrupts are open at once than keep clocks of their own.
THEOREM ClocksAreAccountedFor ==
    ASSUME StackTop <= MaxOpen PROVE TreeSpec /\ NestingHeld => []AccountsAgree
<1>1. TreeInit => AccInv
  <2> SUFFICES ASSUME TreeInit PROVE AccInv
    OBVIOUS
  <2>1. tree = EmptyTree
    BY DEF TreeInit
  <2>2. Tidy(tree) /\ ~tree.finished
    BY <2>1, EmptyTidy, TreeAssumption DEF EmptyTree
  <2>3. AccountsAgree
    BY <2>2 DEF AccountsAgree
  <2> QED BY <2>2, <2>3, TreeStart DEF AccInv, TidyYet
<1>2. AccInv /\ [TreeNext]_treeVars /\ [tree.level = MaxNested => ~TakeInterrupt /\ ~Break]_treeVars => AccInv'
  BY AccStep
<1>3. AccInv => AccountsAgree
  BY DEF AccInv
<1> QED BY <1>1, <1>2, <1>3, PTL DEF TreeSpec, NestingHeld
=============================================================================
