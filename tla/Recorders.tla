----------------------------- MODULE Recorders -----------------------------
(***************************************************************************)
(* Who the profiler's recorders run for (profile_capture.c and the hooks   *)
(* profile_session.c gives it, perf_budget.c, vera_bandwidth.c,            *)
(* perf_hist.c, the requests of debug_server.c and the Performance panel). *)
(*                                                                         *)
(* The cycle budget and the bandwidth accounting run while any of three    *)
(* owners claims them: the panel, a DAP client, a capture.  The histogram  *)
(* has one switch, which a client and a capture share, and the call tree   *)
(* and the waterfall run for captures only.  A capture may wait for the    *)
(* guest's marker, and is ended by its limit, a marker or a request.       *)
(*                                                                         *)
(* What is recorded is left out, but for the budget's ring of frames: of   *)
(* each, whether the machine ran in it before the capture and during it.   *)
(* Frames the budget closes itself, when a program runs four times its     *)
(* budget without one, are left out.                                       *)
(***************************************************************************)
EXTENDS Naturals, SequencesExt

CONSTANTS
    Configs,        \* what a capture may be asked for
    Shortages,      \* what cannot be allocated together
    RingSize,       \* frames the budget's history holds
    MaxFrames,      \* bound on a capture's frames
    PanelStarts,    \* a person may start a capture from the panel
    HistogramInUse  \* a client may use the histogram while a capture runs or waits

Claimed == {"budget", "bandwidth"}
Owner   == {"ui", "dap", "capture"}

\* What a capture may run, CAP_REC_*; "vram" is the bandwidth accounting.
Recorder == {"hist", "tree", "waterfall", "budget", "vram"}

ASSUME RecordersAssumption ==
    /\ Configs \subseteq [recorders : SUBSET Recorder, frames : 0 .. MaxFrames, onMarker : BOOLEAN]
    /\ Shortages \subseteq SUBSET Recorder
    /\ RingSize \in Nat \ {0} /\ MaxFrames \in Nat
    /\ PanelStarts \in BOOLEAN /\ HistogramInUse \in BOOLEAN

VARIABLES
    rec,        \* the recorders, their claims and the budget's history
    cap,        \* the capture
    summary,    \* the frames the last capture's budget summary is of
    ran,        \* an instruction ended since the debugger's turn, so a frame may
    asked       \* not in the code: what the client turned on and not off since

recorderVars == <<rec, cap, summary, ran, asked>>

\* The history: frames, oldest first, and the one in progress.
NoHistory == [frames |-> <<>>, open |-> {}]

Running == cap.state = "running"

(***************************************************************************)
(* The recorders.                                                          *)
(***************************************************************************)

\* perf_budget_arm, vera_bandwidth_arm.  Turned off, the budget forgets its
\* history; turned on, it starts with none.
Claim(r, x, owner, want, fails) ==
    LET claims == IF want THEN r.wants[x] \cup {owner} ELSE r.wants[x] \ {owner}
        on     == claims # {} /\ (r.on[x] \/ x \notin fails)
    IN  [r EXCEPT !.wants[x] = claims, !.on[x] = on,
                  !.history = IF x = "budget" /\ on # r.on[x] THEN NoHistory ELSE @]

\* A slip: an owner's word is everyone's.
ClaimForAll(r, x, owner, want, fails) ==
    LET on == want /\ (r.on[x] \/ x \notin fails)
    IN  [r EXCEPT !.wants[x] = IF want THEN @ \cup {owner} ELSE {}, !.on[x] = on,
                  !.history = IF x = "budget" /\ on # r.on[x] THEN NoHistory ELSE @]

\* The history of the frames before a capture, as seen from it.
Aged(h) ==
    [frames |-> [i \in DOMAIN h.frames |-> {"before"}],
     open |-> IF h.open = {} THEN {} ELSE {"before"}]

\* Asked for, it can be allocated, and so is the histogram that feeds it.
Fed(mask, x, fails) == x \in mask => "hist" \in mask /\ x \notin fails

\* profile_session's arm.  What cannot be armed stays off, and with it what
\* comes after it here; the waterfall needs the budget, asked for or not.
Armed(r, mask, oom) ==
    LET fails  == oom \ r.ready
        hist   == "hist" \in mask
        histOk == hist => "hist" \notin fails
        treeOk == histOk /\ Fed(mask, "tree", fails)
        wfOk   == treeOk /\ Fed(mask, "waterfall", fails)
        lent   == "waterfall" \in mask /\ wfOk /\ "budget" \notin mask
        r1     == [r EXCEPT
                      !.histWas = IF hist THEN r.hist ELSE @,
                      !.hist = IF hist THEN histOk ELSE @,
                      !.tree = @ \/ ("tree" \in mask /\ treeOk),
                      !.taps = @ \/ ("waterfall" \in mask /\ wfOk),
                      !.ready = @ \cup ((mask \cap {"hist", "tree", "waterfall"}) \ fails),
                      !.lent = lent,
                      !.history = Aged(@)]
        r2     == IF "budget" \in mask \/ lent THEN Claim(r1, "budget", "capture", TRUE, fails) ELSE r1
        r3     == IF "vram" \in mask THEN Claim(r2, "bandwidth", "capture", TRUE, {}) ELSE r2
    IN  [rec |-> r3,
         ok  |-> wfOk /\ ("budget" \in mask \/ lent => r2.on["budget"])]

\* A slip: what the waterfall borrowed is kept.
DisarmedButLent(r, mask) ==
    LET r1 == [r EXCEPT
                  !.taps = @ /\ "waterfall" \notin mask,
                  !.tree = @ /\ "tree" \notin mask,
                  !.hist = IF "hist" \in mask THEN r.histWas ELSE @]
        r2 == IF "budget" \in mask THEN Claim(r1, "budget", "capture", FALSE, {}) ELSE r1
    IN  IF "vram" \in mask THEN Claim(r2, "bandwidth", "capture", FALSE, {}) ELSE r2

\* profile_session's disarm.
Disarmed(r, mask) ==
    LET r1 == [r EXCEPT
                  !.taps = @ /\ "waterfall" \notin mask,
                  !.tree = @ /\ "tree" \notin mask,
                  !.hist = IF "hist" \in mask THEN r.histWas ELSE @]
        r2 == IF "budget" \in mask \/ ("waterfall" \in mask /\ r1.lent)
              THEN Claim(r1, "budget", "capture", FALSE, {}) ELSE r1
        r3 == IF "waterfall" \in mask THEN [r2 EXCEPT !.lent = FALSE] ELSE r2
    IN  IF "vram" \in mask THEN Claim(r3, "bandwidth", "capture", FALSE, {}) ELSE r3

(***************************************************************************)
(* The capture, profile_capture.c.                                         *)
(***************************************************************************)

CaptureIn(state, config) == [state |-> state, config |-> config, frames |-> 0]

\* begin_recording
BeginRecording(config, oom) ==
    LET armed == Armed(rec, config.recorders, oom)
    IN  IF armed.ok
        THEN rec' = armed.rec /\ cap' = CaptureIn("running", config)
        ELSE rec' = Disarmed(armed.rec, config.recorders) /\ cap' = CaptureIn("done", config)

\* A slip: whatever the ring holds.
WholeRing(h, n) == h.frames

\* The frames finished() takes for the capture's: as many as it had, the newest.
MostRecent(h, n) ==
    SubSeq(h.frames, (IF n < Len(h.frames) THEN Len(h.frames) - n ELSE 0) + 1, Len(h.frames))

\* finish: the summary is made while the recorders still hold their data.
Finish(r, n) ==
    /\ cap' = [cap EXCEPT !.state = "done", !.frames = n]
    /\ summary' = IF "budget" \in cap.config.recorders THEN MostRecent(r.history, n) ELSE <<>>
    /\ rec' = Disarmed(r, cap.config.recorders)

\* cap_start, by a client or the command line between instructions, or by a
\* person, who has a turn between a frame's last instruction and its end.
CapStart(oom) ==
    /\ cap.state \notin {"armed", "running"}
    /\ \E config \in Configs :
          IF config.onMarker
          THEN cap' = CaptureIn("armed", config) /\ UNCHANGED rec
          ELSE BeginRecording(config, oom)
    /\ ran' = (PanelStarts /\ ran)
    /\ UNCHANGED <<summary, asked>>

\* cap_stop
CapStop ==
    /\ \/ Running /\ Finish(rec, cap.frames)
       \/ cap.state = "armed" /\ cap' = [cap EXCEPT !.state = "idle"] /\ UNCHANGED <<rec, summary>>
    /\ UNCHANGED <<ran, asked>>

(***************************************************************************)
(* The guest.                                                              *)
(***************************************************************************)
Seen(r, running) ==
    IF r.on["budget"]
    THEN [r EXCEPT !.history.open = @ \cup {IF running THEN "during" ELSE "before"}]
    ELSE r

\* An instruction.
Execute ==
    /\ rec' = Seen(rec, Running)
    /\ ran' = TRUE
    /\ UNCHANGED <<cap, summary, asked>>

\* One that stores a marker, whose clocks are counted when it ends.  Nothing but
\* a capture that waits is started by one.
StartMarker(oom) ==
    /\ cap.state = "armed" /\ BeginRecording(cap.config, oom)
    /\ ran' = FALSE
    /\ UNCHANGED <<summary, asked>>

StopMarker ==
    /\ Running /\ Finish(rec, cap.frames)
    /\ ran' = FALSE
    /\ UNCHANGED asked

\* perf_budget_frame_end
Closed(r) ==
    IF ~r.on["budget"] THEN r
    ELSE LET full == Len(r.history.frames) = RingSize
             old  == IF full THEN Tail(r.history.frames) ELSE r.history.frames
         IN  [r EXCEPT !.history = [frames |-> Append(old, r.history.open), open |-> {}]]

\* The budget's frame ends, then cap_frame_end looks at the limits, of frames
\* and of time.
FrameEnd ==
    /\ ran /\ ran' = FALSE
    /\ IF ~Running
       THEN rec' = Closed(rec) /\ UNCHANGED <<cap, summary>>
       ELSE LET n == cap.frames + 1
            IN  \/ Finish(Closed(rec), n)
                \/ /\ n < MaxFrames /\ n # cap.config.frames
                   /\ rec' = Closed(rec) /\ cap' = [cap EXCEPT !.frames = n]
                   /\ UNCHANGED summary
    /\ UNCHANGED asked

(***************************************************************************)
(* The panel and the client.                                               *)
(***************************************************************************)

\* The Performance panel is shown or has been hidden for long enough
\* (perf_recorders_set).  While a capture runs no panel is drawn.
PanelTurns(want, oom) ==
    /\ want # ("ui" \in rec.wants["budget"])
    /\ want => ~Running
    /\ rec' = Claim(Claim(rec, "budget", "ui", want, oom), "bandwidth", "ui", want, {})
    /\ UNCHANGED <<cap, summary, ran, asked>>

\* x16/perfStats: what is already running is not claimed.
Polled(r, x, oom) == IF r.on[x] THEN r ELSE Claim(r, x, "dap", TRUE, oom)

PollStats(oom) ==
    /\ rec' = Polled(Polled(rec, "budget", oom), "bandwidth", {})
    /\ asked' = asked \cup {"stats"}
    /\ UNCHANGED <<cap, summary, ran>>

\* x16/perfConfig; the bandwidth is left as it is if the budget fails, which it
\* may on behalf of another owner.
ConfigureStats(want, oom) ==
    LET r == Claim(rec, "budget", "dap", want, oom)
        ok == r.on["budget"] = (r.wants["budget"] # {})
    IN  /\ rec' = IF ok THEN Claim(r, "bandwidth", "dap", want, {}) ELSE r
        /\ asked' = IF ~ok THEN asked ELSE IF want THEN asked \cup {"stats"} ELSE asked \ {"stats"}
        /\ UNCHANGED <<cap, summary, ran>>

\* x16/perfHist
SetHistogram(want, oom) ==
    LET ok == want => "hist" \notin oom \ rec.ready
    IN  /\ HistogramInUse \/ ~Running
        /\ rec' = [rec EXCEPT !.hist = want /\ ok,
                              !.ready = IF want /\ ok THEN @ \cup {"hist"} ELSE @]
        /\ asked' = IF ~ok THEN asked ELSE IF want THEN asked \cup {"hist"} ELSE asked \ {"hist"}
        /\ UNCHANGED <<cap, summary, ran>>

\* dap_release_session_state
ClientLeaves ==
    /\ asked # {} /\ (HistogramInUse \/ "hist" \notin asked)
    /\ rec' = Claim(Claim(rec, "budget", "dap", FALSE, {}), "bandwidth", "dap", FALSE, {})
    /\ asked' = {}
    /\ UNCHANGED <<cap, summary, ran>>

\* perf_budget_reset, by the panel, a client, the guest's marker, or a state
\* that is loaded.
ForgetHistory ==
    /\ rec' = [rec EXCEPT !.history = NoHistory]
    /\ UNCHANGED <<cap, summary, ran, asked>>

RecordersInit ==
    /\ rec = [on |-> [x \in Claimed |-> FALSE], wants |-> [x \in Claimed |-> {}],
              hist |-> FALSE, histWas |-> FALSE, tree |-> FALSE, taps |-> FALSE, lent |-> FALSE,
              ready |-> {}, history |-> NoHistory]
    /\ cap = [state |-> "idle", config |-> CHOOSE c \in Configs : TRUE, frames |-> 0]
    /\ summary = <<>> /\ ran = FALSE /\ asked = {}

RecordersNext ==
    \/ CapStop \/ Execute \/ StopMarker \/ FrameEnd \/ ClientLeaves \/ ForgetHistory
    \/ \E oom \in Shortages :
          \/ CapStart(oom) \/ StartMarker(oom) \/ PollStats(oom)
          \/ \E want \in BOOLEAN :
                PanelTurns(want, oom) \/ ConfigureStats(want, oom) \/ SetHistogram(want, oom)

RecordersSpec == RecordersInit /\ [][RecordersNext]_recorderVars

(***************************************************************************)
(* Properties.                                                             *)
(***************************************************************************)

\* What a running capture needs, and what it borrows.
Needed(x) ==
    \/ x = "budget" /\ cap.config.recorders \cap {"budget", "waterfall"} # {}
    \/ x = "bandwidth" /\ "vram" \in cap.config.recorders

\* A recorder runs for somebody who asked for it and for nobody else: nothing a
\* capture armed outlives it, however it ended and whatever of it failed; what
\* others had on before is on after; and while it runs nobody can take its own
\* recorders away (perf_budget.h: "neither is entitled to revoke the other's").
\* Of the histogram's one switch this holds as long as no client uses it while
\* a capture runs, and none that uses it leaves.
RecordersFollowWants ==
    /\ \A x \in Claimed :
          /\ rec.on[x] => rec.wants[x] # {}
          /\ ("capture" \in rec.wants[x]) <=> (Running /\ Needed(x))
          /\ Running /\ Needed(x) => rec.on[x]
    /\ rec.tree = (Running /\ "tree" \in cap.config.recorders)
    /\ rec.taps = (Running /\ "waterfall" \in cap.config.recorders)
    /\ rec.hist = (IF Running /\ "hist" \in cap.config.recorders THEN TRUE ELSE "hist" \in asked)

\* No frame the budget's summary is made of was over before the capture began
\* ("the capture's frames are the most recent ones", profile_session.c).
\* Violated by captures a person starts, while a frame's last instructions are
\* over and the frame is not: it is counted as the capture's first.
SummaryIsOfCapture == \A i \in DOMAIN summary : summary[i] # {"before"}

\* A client that asked for statistics has them collected until it says otherwise
\* or leaves, whoever else stops wanting them (perf_budget.h: "not switched off
\* the moment somebody closes the debugger panel").  Violated: a client that
\* finds the statistics running is not entered as wanting them.
PolledIsKept == "stats" \in asked => rec.on["bandwidth"]
============================================================================
