---------------------------- MODULE RunStopProofs ----------------------------
(***************************************************************************)
(* Proofs about RunControl for every program, setting and breakpoint: what *)
(* the loop, a client and a user do keeps the debugger's record in shape,  *)
(* counts an arrival once, stops at every breakpoint, steps a single       *)
(* instruction, and tells a client of its stops and of the frames it asked *)
(* for.  S1 .. S6 are the stages of the check; RequestCases and UserCases  *)
(* say what a command does in the terms of RunControlProofs.               *)
(***************************************************************************)
EXTENDS RunControlProofs

-----------------------------------------------------------------------------
(* The check before an instruction, by its stages.                         *)

S1 == FollowInterrupt(d)
S2 == ReportWatch(S1)
S3 == RetireStep(S2)
S4 == DropSkip(S3)
S5 == TestArrival(S4)
S6 == Break(S5)

\* The stages add up to the check.
LEMMA StagesOfCheck == S4 = Before(d) /\ S5 = Check(d) /\ S6 = CheckBroken(d)
BY DEF S1, S2, S3, S4, S5, S6, Before, Check, CheckBroken

\* Doing nothing keeps the session.
LEMMA KeepsSelf == ASSUME NEW s, Shape(s) PROVE Keeps(s, s)
BY DEF Keeps

\* So does what leaves its part of the record alone.
LEMMA KeepsSame == ASSUME NEW s, NEW r, Shape(r), SameSession(s, r) PROVE Keeps(s, r)
BY DEF Keeps, SameSession, Ears

\* Every stage keeps the session, and none sets off a watched store.
LEMMA StagesKeep ==
    ASSUME Shape(d), Ears(d)
    PROVE  /\ Keeps(d, S1) /\ Keeps(d, S2) /\ Keeps(d, S3) /\ Keeps(d, S4)
           /\ Keeps(d, S5) /\ Keeps(d, S6)
           /\ ~S2.wp /\ ~S3.wp /\ ~S4.wp /\ ~S5.wp /\ ~S6.wp
<1>0. Shape(d) /\ Keeps(d, d)
  BY KeepsSelf
<1>1. Shape(S1) /\ Keeps(d, S1)
  BY <1>0, FollowCases DEF S1, Stops, Keeps
<1>2. Shape(S2) /\ Keeps(d, S2) /\ ~S2.wp
  <2>1. (~S1.wp /\ S2 = S1) \/ Reports(S1, S2)
    BY <1>1, ReportWatchCases DEF S2
  <2> QED
    BY <1>1, <2>1, KeepsOn DEF Reports, Keeps
<1>3. Shape(S3) /\ Keeps(d, S3) /\ ~S3.wp
  <2>1. S3 = S2 \/ Stops(S2, S3) \/ Goes(S2, S3)
    BY <1>2, RetireStepCases DEF S3, GoesOn
  <2>2. Keeps(S2, S3) /\ S3.wp = S2.wp
    BY <1>2, <2>1, KeepsSelf DEF Stops, Goes
  <2> QED
    BY <1>2, <2>2, KeepsOn DEF Keeps
<1>4. Shape(S4) /\ Keeps(d, S4) /\ ~S4.wp
  <2>1. Shape(S4) /\ SameSession(S3, S4)
    BY <1>3, DropSkipCases DEF S4
  <2> QED
    BY <1>3, <2>1, KeepsSame, KeepsOn DEF SameSession
<1>5. Shape(S5) /\ Keeps(d, S5) /\ ~S5.wp
  <2>1. S5 = S4 \/ Stops(S4, S5) \/ Goes(S4, S5)
    BY <1>4, ArrivalCases DEF S5, GoesOn
  <2>2. Keeps(S4, S5) /\ S5.wp = S4.wp
    BY <1>4, <2>1, KeepsSelf DEF Stops, Goes
  <2> QED
    BY <1>4, <2>2, KeepsOn DEF Keeps
<1>6. Keeps(d, S6) /\ ~S6.wp
  <2>1. Rests(S5, S6) \/ Stops(S5, S6)
    BY <1>5, BreakCases DEF S6
  <2>2. Keeps(S5, S6) /\ S6.wp = S5.wp
    BY <1>5, <2>1, KeepsSame DEF Stops, Rests, SameSession
  <2> QED
    BY <1>5, <2>2, KeepsOn
<1> QED
  BY <1>1, <1>2, <1>3, <1>4, <1>5, <1>6

-----------------------------------------------------------------------------
(* The session, and what is counted at an address.                         *)

ObsFields == {"tested", "halted", "fresh", "synced", "cmd", "ran", "from", "asked", "ended"}

\* What a step leaves of the session: a client that stays keeps it.
Plain(s, r) ==
    /\ Shape(r) /\ Ears(r)
    /\ r.client => s.client /\ r.session = s.session

\* A check keeps the session, or loses it, and leaves no store unreported.
LEMMA PollPlain ==
    ASSUME Shape(d), Ears(d), PollFull
    PROVE  Plain(d, d') /\ ~d'.wp
<1>1. PICK s \in {S5, S6} : d' = StepPoll(s)
  BY StagesOfCheck DEF PollFull
<1>2. Keeps(d, s) /\ ~s.wp
  BY <1>1, StagesKeep
<1>3. Shape(s) /\ Ears(s)
  BY <1>2 DEF Keeps
<1>4. d' = s \/ Replies(s, d')
  BY <1>1, <1>3, StepPollCases
<1> QED
  BY <1>2, <1>3, <1>4 DEF Plain, Keeps, Replies

\* A request, and step_poll after it.
LEMMA StepPollPlain ==
    ASSUME NEW s, NEW t, Plain(s, t), t.wp = s.wp
    PROVE  LET r == StepPoll(t) IN Plain(s, r) /\ r.wp = s.wp
<1>1. StepPoll(t) = t \/ Replies(t, StepPoll(t))
  BY StepPollCases DEF Plain
<1> QED
  BY <1>1 DEF Plain, Replies

\* A request that sets the machine going keeps the session, or loses it.
LEMMA ResumesPlain ==
    ASSUME NEW s, NEW t, Resumes(s, t)
    PROVE  Plain(s, t) /\ t.wp = s.wp
BY DEF Resumes, Plain

\* A machine that was set going has no reply due.
LEMMA ResumesPolled ==
    ASSUME NEW s, NEW t, Resumes(s, t)
    PROVE  StepPoll(t) = t
BY DEF Resumes, StepPoll

\* What each request makes of the debugger and the session.
LEMMA RequestCases ==
    ASSUME Shape(d), Ears(d)
    PROVE  /\ ServeContinue => Resumes(d, d') /\ ~d'.src.on /\ d'.mode = "run"
           /\ ServeStepIn => /\ Resumes(d, d') /\ d'.mode = "step"
                             /\ d'.src.on => opts.byLine \/ d.src.on
                             /\ ~ByLine(d) /\ d'.src.on => d.src.on
           /\ ServeNext => Resumes(d, d') /\ (d'.src.on => opts.byLine \/ d.src.on)
           /\ ServeStepOut => Resumes(d, d') /\ (d'.src.on => d.src.on)
           /\ ServePause => \E s : Answers(d, s) /\ (Stopped(s) \/ LetGo(d, s)) /\ d' = StepPoll(s)
           /\ ServeConfigured => \E s : Answers(d, s) /\ d' = StepPoll(s)
           /\ ServeTerminate \/ ServeDisconnect => Ends(d, d')
           /\ ServeContinue \/ ServeStepIn \/ ServeNext \/ ServeStepOut => ~d'.frames.pending
<1>1. ASSUME ServeContinue
      PROVE  Resumes(d, d') /\ ~d'.src.on /\ d'.mode = "run"
  BY <1>1, ContinueResumes, ResumesPolled DEF ServeContinue, Session
<1>2. ASSUME ServeStepIn
      PROVE  /\ Resumes(d, d') /\ d'.mode = "step"
             /\ d'.src.on => opts.byLine \/ d.src.on
             /\ ~ByLine(d) /\ d'.src.on => d.src.on
  BY <1>2, StepInResumes, ResumesPolled DEF ServeStepIn, Session
<1>3. ASSUME ServeNext
      PROVE  Resumes(d, d') /\ (d'.src.on => opts.byLine \/ d.src.on)
  BY <1>3, NextResumes, ResumesPolled DEF ServeNext, Session
<1>4. ASSUME ServeStepOut
      PROVE  Resumes(d, d') /\ (d'.src.on => d.src.on)
  BY <1>4, StepOutResumes, ResumesPolled DEF ServeStepOut, Session
<1>5. ASSUME ServePause
      PROVE  \E s : Answers(d, s) /\ (Stopped(s) \/ LetGo(d, s)) /\ d' = StepPoll(s)
  BY <1>5, PauseAnswers DEF ServePause, Session
<1>6. ASSUME ServeConfigured
      PROVE  \E s : Answers(d, s) /\ d' = StepPoll(s)
  BY <1>6, ConfiguredAnswers DEF ServeConfigured, Session
<1>7. ASSUME NEW s, Ends(d, s)
      PROVE  StepPoll(s) = s
  BY <1>7 DEF Ends, StepPoll
<1>8. ASSUME ServeTerminate \/ ServeDisconnect
      PROVE  Ends(d, d')
  BY <1>7, <1>8, EndsOK, TerminateEnds DEF ServeTerminate, ServeDisconnect, Session
<1>9. ASSUME ServeContinue \/ ServeStepIn \/ ServeNext \/ ServeStepOut
      PROVE  ~d'.frames.pending
  BY <1>9, ContinueResumes, StepInResumes, NextResumes, StepOutResumes, ResumesPolled
     DEF ServeContinue, ServeStepIn, ServeNext, ServeStepOut, Session
<1> QED
  BY <1>1, <1>2, <1>3, <1>4, <1>5, <1>6, <1>8, <1>9

\* x16/step, from a stopped machine.
LEMMA FramesCases ==
    ASSUME Shape(d), Ears(d), opts \in Options, ServeFrames
    PROVE  /\ Stopped(d) /\ opts.frames > 0
           /\ \E q : /\ Resumes(q, d') /\ ~q.frames.byFrames
                     /\ q.client = d.client /\ q.session = d.session
                     /\ q.bps = d.bps /\ q.wp = d.wp
           /\ ~d'.src.on /\ d'.mode = "run"
<1>1. PICK n \in 1 .. opts.frames, events \in BOOLEAN : d' = StepPoll(ReqFrames(d, n, events))
  BY DEF ServeFrames, Session
<1>2. d.session /\ Stopped(d)
  BY DEF ServeFrames, Session
<1>3. opts.frames > 0
  <2>1. opts.frames \in Nat
    BY RunAssumption
  <2> QED
    BY <1>1, <2>1
<1> DEFINE q == Counting(d, n, events)
           r == ReqFrames(d, n, events)
<1>4. /\ Resumes(q, r) /\ ~r.src.on /\ r.mode = "run"
      /\ ~q.frames.byFrames /\ q.client = d.client /\ q.session = d.session
      /\ q.bps = d.bps /\ q.wp = d.wp
  BY <1>2, FramesResumes
<1> HIDE DEF q, r
<1>5. d' = r
  BY <1>1, <1>4, ResumesPolled DEF r
<1> QED
  BY <1>2, <1>3, <1>4, <1>5

\* setBreakpoints: nothing but the set changes before the reply.
LEMMA BreakpointsCases ==
    ASSUME Shape(d), Ears(d), ServeBreakpoints
    PROVE  \E t, s :
             /\ d' = StepPoll(s)
             /\ Passes(t, s) /\ Ears(s) /\ (s = t \/ Gone(s))
             /\ t.mode = d.mode /\ t.shown = d.shown /\ t.skip = d.skip /\ t.moved = d.moved
             /\ t.src = d.src /\ t.wp = d.wp /\ t.client = d.client /\ t.session = d.session
             /\ t.heard = d.heard /\ t.replied = d.replied /\ t.frames = d.frames
<1>1. PICK b \in ClientBps : d' = StepPoll(Say([d EXCEPT !.bps = b]))
  BY DEF ServeBreakpoints, Session
<1> DEFINE t == [d EXCEPT !.bps = b]
           s == Say(t)
<1>2. /\ Passes(t, s) /\ Ears(s) /\ (s = t \/ Gone(s))
      /\ t.mode = d.mode /\ t.shown = d.shown /\ t.skip = d.skip /\ t.moved = d.moved
      /\ t.src = d.src /\ t.wp = d.wp /\ t.client = d.client /\ t.session = d.session
      /\ t.heard = d.heard /\ t.replied = d.replied /\ t.frames = d.frames
  BY BreakpointsOK
<1>3. d' = StepPoll(s)
  BY <1>1
<1> HIDE DEF t, s
<1> QED
  BY <1>2, <1>3

\* What each command of the user does.
LEMMA UserCases ==
    ASSUME Shape(d), Ears(d), User
    PROVE  \/ UIPause /\ d.mode = "run" /\ (Rests(d, d') \/ Stops(d, d'))
           \/ UIContinue /\ Goes(d, d') /\ d'.mode = "run" /\ ~d'.src.on
           \/ UIStepInto /\ Goes(d, d') /\ d'.mode = "step" /\ d'.src = d.src
           \/ UIStepIntoAuto /\ Goes(d, d') /\ d'.mode = "step"
                             /\ (d'.src.on => ByLine(d) \/ d.src.on)
           \/ UIStepOverAuto /\ Goes(d, d') /\ (d'.src.on => ByLine(d) \/ d.src.on)
           \/ (UIStepOver \/ UIStepOut) /\ Goes(d, d') /\ d'.src = d.src
           \/ UIRunTo /\ Goes(d, d') /\ ~d'.src.on
<1>1. CASE UIPause
  BY <1>1, BreakCases DEF UIPause, Interface
<1>2. CASE UIContinue
  BY <1>2, ContinueGoes DEF UIContinue, Interface
<1>3. CASE UIStepInto
  BY <1>3, StepIntoGoes DEF UIStepInto, Interface
<1>4. CASE UIStepIntoAuto
  BY <1>4, StepIntoAutoGoes DEF UIStepIntoAuto, Interface
<1>5. CASE UIStepOverAuto
  BY <1>5, StepOverAutoGoes DEF UIStepOverAuto, Interface
<1>6. CASE UIStepOver
  BY <1>6, StepOverGoes DEF UIStepOver, Interface
<1>7. CASE UIStepOut
  BY <1>7, StepOutGoes DEF UIStepOut, Interface
<1>8. CASE UIRunTo
  <2> DEFINE t == [d EXCEPT !.src.on = FALSE]
  <2>1. Shape(t) /\ SameSession(d, t) /\ ~t.src.on
    BY DEF Shape, Fields, SourceFields, SameSession
  <2>2. PICK pc \in Pc : d' = RunTo(t, pc, "ui")
    BY <1>8 DEF UIRunTo, Interface
  <2> HIDE DEF t
  <2>3. Goes(t, d') /\ d'.src = t.src
    BY <2>1, <2>2, RunToGoes
  <2> QED
    BY <1>8, <2>1, <2>3, GoesFrom
<1> QED
  BY <1>1, <1>2, <1>3, <1>4, <1>5, <1>6, <1>7, <1>8 DEF User

\* The rest of the loop, and the client's coming, going and stalling.
LEMMA WatchOK ==
    ASSUME Shape(d), Ears(d), NEW kind, d' = Watch([d EXCEPT !.moved = TRUE], kind)
    PROVE  /\ Shape(d') /\ Ears(d') /\ d'.moved
           /\ d'.client = d.client /\ d'.session = d.session /\ d'.announced = d.announced
           /\ d'.heard = d.heard /\ d'.replied = d.replied /\ d'.bps = d.bps
           /\ d'.frames = d.frames /\ d'.src = d.src /\ d'.skip = d.skip /\ d'.shown = d.shown
           /\ \/ d'.mode = d.mode /\ d'.wp = d.wp
              \/ ~Stopped(d) /\ Stopped(d') /\ d'.wp /\ kind \in opts.watch
<1>1. /\ Shape(d') /\ d'.moved
      /\ d'.client = d.client /\ d'.session = d.session /\ d'.announced = d.announced
      /\ d'.heard = d.heard /\ d'.replied = d.replied /\ d'.bps = d.bps
      /\ d'.frames = d.frames /\ d'.src = d.src /\ d'.skip = d.skip /\ d'.shown = d.shown
  BY DEF Watch, Shape, Fields, Stopped
<1>2. \/ d'.mode = d.mode /\ d'.wp = d.wp
      \/ ~Stopped(d) /\ Stopped(d') /\ d'.wp /\ kind \in opts.watch
  BY DEF Watch, Shape, Fields, Stopped
<1>3. Ears(d')
  BY <1>1 DEF Ears
<1> QED
  BY <1>1, <1>2, <1>3

\* A tick spent waiting.
LEMMA WaitTickOK ==
    ASSUME Shape(d), Ears(d), WaitTick
    PROVE  /\ Shape(d') /\ Ears(d') /\ SameSession(d, d')
           /\ d'.moved /\ d'.src = d.src /\ d'.skip = d.skip /\ d'.shown = d.shown /\ d'.mode = d.mode
<1>1. /\ Shape(d') /\ SameSession(d, d')
      /\ d'.moved /\ d'.src = d.src /\ d'.skip = d.skip /\ d'.shown = d.shown /\ d'.mode = d.mode
  BY DEF WaitTick, Shape, Fields, SameSession
<1> QED
  BY <1>1 DEF Ears, SameSession

\* A frame's end, which is counted, may be the last one and stop the machine.
LEMMA FrameEndOK ==
    ASSUME Shape(d), Ears(d), FrameEnd
    PROVE  /\ Shape(d') /\ Ears(d') /\ d.frames.pending
           /\ d'.client = d.client /\ d'.session = d.session /\ d'.announced = d.announced
           /\ d'.heard = d.heard /\ d'.replied = d.replied /\ d'.bps = d.bps /\ d'.wp = d.wp
           /\ d'.src = d.src /\ d'.skip = d.skip /\ d'.shown = d.shown /\ d'.moved = d.moved
           /\ d'.frames.pending
           /\ \/ d' = d
              \/ ~Stopped(d) /\ Stopped(d') /\ d'.frames.byFrames
              \/ ~Stopped(d) /\ d'.mode = d.mode /\ (d'.frames.byFrames => d.frames.byFrames)
<1>1. CASE Stopped(d)
  BY <1>1 DEF FrameEnd
<1>2. CASE ~Stopped(d)
  <2> DEFINE last == d.frames.left = 1
             f == [d.frames EXCEPT !.left = @ - 1, !.byFrames = @ \/ last]
             m == IF last THEN "stop" ELSE d.mode
  <2>1. d' = [d EXCEPT !.frames = f, !.mode = m] /\ d.frames.pending
    BY <1>2 DEF FrameEnd, Shape, Fields
  <2>2. /\ DOMAIN f = FrameFields /\ f.pending = d.frames.pending
        /\ f.byFrames = (d.frames.byFrames \/ last)
    BY DEF Shape, FrameFields
  <2>3. m \in {"run", "step", "stop"} /\ (last => m = "stop") /\ (~last => m = d.mode)
    BY DEF Shape
  <2> HIDE DEF f, m
  <2>4. /\ Shape(d') /\ d'.frames = f /\ d'.mode = m
        /\ d'.client = d.client /\ d'.session = d.session /\ d'.announced = d.announced
        /\ d'.heard = d.heard /\ d'.replied = d.replied /\ d'.bps = d.bps /\ d'.wp = d.wp
        /\ d'.src = d.src /\ d'.skip = d.skip /\ d'.shown = d.shown /\ d'.moved = d.moved
    BY <2>1, <2>2, <2>3 DEF Shape, Fields
  <2>5. Ears(d')
    BY <2>1, <2>2, <2>4 DEF Ears
  <2>6. CASE last
    BY <1>2, <2>1, <2>2, <2>3, <2>4, <2>5, <2>6 DEF Stopped
  <2>7. CASE ~last
    <3>1. d'.frames.byFrames => d.frames.byFrames
      BY <2>2, <2>4, <2>7
    <3> QED
      BY <1>2, <2>1, <2>2, <2>3, <2>4, <2>5, <2>7, <3>1
  <2> QED
    BY <2>6, <2>7
<1> QED
  BY <1>1, <1>2

\* A client attaches.
LEMMA AttachOK ==
    ASSUME Shape(d), Ears(d), ServeAttach
    PROVE  /\ Shape(d') /\ Ears(d') /\ opts.dap /\ d'.client /\ d'.session /\ ~d.client
           /\ d'.heard = 0 /\ ~d'.replied
           /\ d'.mode = d.mode /\ d'.wp = d.wp /\ d'.bps = d.bps /\ d'.frames = d.frames
           /\ d'.src = d.src /\ d'.skip = d.skip /\ d'.shown = d.shown /\ d'.moved = d.moved
<1>1. /\ Shape(d') /\ opts.dap /\ d'.client /\ d'.session /\ ~d.client
      /\ d'.heard = 0 /\ ~d'.replied /\ d'.announced = d.announced
      /\ d'.mode = d.mode /\ d'.wp = d.wp /\ d'.bps = d.bps /\ d'.frames = d.frames
      /\ d'.src = d.src /\ d'.skip = d.skip /\ d'.shown = d.shown /\ d'.moved = d.moved
  BY DEF ServeAttach, Shape, Fields
<1>2. Ears(d')
  BY <1>1 DEF Ears
<1> QED
  BY <1>1, <1>2

\* A client stops reading.
LEMMA StallOK ==
    ASSUME Shape(d), Ears(d), ClientStalls
    PROVE  /\ Shape(d') /\ Ears(d')
           /\ d'.client = d.client /\ d'.session = d.session /\ d'.announced = d.announced
           /\ d'.heard = d.heard /\ d'.replied = d.replied /\ d'.bps = d.bps
           /\ d'.frames = d.frames /\ d'.wp = d.wp /\ d'.mode = d.mode
           /\ d'.src = d.src /\ d'.skip = d.skip /\ d'.shown = d.shown /\ d'.moved = d.moved
<1>1. /\ Shape(d')
      /\ d'.client = d.client /\ d'.session = d.session /\ d'.announced = d.announced
      /\ d'.heard = d.heard /\ d'.replied = d.replied /\ d'.bps = d.bps
      /\ d'.frames = d.frames /\ d'.wp = d.wp /\ d'.mode = d.mode
      /\ d'.src = d.src /\ d'.skip = d.skip /\ d'.shown = d.shown /\ d'.moved = d.moved
  BY DEF ClientStalls, Shape, Fields
<1>2. Ears(d')
  BY <1>1 DEF Ears
<1> QED
  BY <1>1, <1>2

\* A client's socket is closed.
LEMMA ServeDropOK ==
    ASSUME Shape(d), Ears(d), ServeDrop
    PROVE  Passes(d, d') /\ Gone(d') /\ Ears(d') /\ d.client
<1>1. Passes(d, d') /\ Gone(d')
  BY DropPasses DEF ServeDrop
<1> QED
  BY <1>1 DEF Gone, Ears, ServeDrop

\* The settings do not change.
LEMMA OptsStep ==
    ASSUME Next
    PROVE  opts' = opts
BY DEF Next, Loop, Client, User, PollFast, PollFull, LeaveServe, LeavePump, Instruction,
       WaitTick, FrameEnd, Interrupt, MaskedInterrupt, NoInterrupt, ServeContinue, ServeStepIn,
       ServeNext, ServeStepOut, ServePause, ServeFrames, ServeTerminate, ServeDisconnect,
       ServeConfigured, ServeBreakpoints, ServeDrop, ServeAttach, ClientStalls, Session,
       UIPause, UIContinue, UIStepOut, UIStepInto, UIStepOver, UIStepIntoAuto, UIStepOverAuto,
       UIRunTo, Interface

\* Neither a request nor a command takes the session out of shape, or touches
\* a watched store's mark.
LEMMA ServeSession ==
    ASSUME Shape(d), Ears(d), opts \in Options, Client \/ User
    PROVE  /\ Shape(d') /\ Ears(d')
           /\ d'.client => d.client \/ opts.dap
           /\ d'.wp = d.wp
<1>1. CASE ServeContinue \/ ServeStepIn \/ ServeNext \/ ServeStepOut
  BY <1>1, RequestCases DEF Resumes
<1>2. CASE ServePause \/ ServeConfigured
  <2>1. PICK s : Answers(d, s) /\ d' = StepPoll(s)
    BY <1>2, RequestCases
  <2>2. Plain(d, s) /\ s.wp = d.wp
    BY <2>1 DEF Answers, Keeps, Plain
  <2> QED
    BY <2>1, <2>2, StepPollPlain DEF Plain
<1>3. CASE ServeTerminate \/ ServeDisconnect
  BY <1>3, RequestCases DEF Ends
<1>4. CASE ServeFrames
  BY <1>4, FramesCases DEF Resumes
<1>5. CASE ServeBreakpoints
  <2>1. PICK t, s : /\ d' = StepPoll(s)
                    /\ Passes(t, s) /\ Ears(s)
                    /\ t.wp = d.wp /\ t.client = d.client /\ t.session = d.session
    BY <1>5, BreakpointsCases
  <2>2. Plain(d, s) /\ s.wp = d.wp
    BY <2>1 DEF Passes, Plain
  <2> QED
    BY <2>1, <2>2, StepPollPlain DEF Plain
<1>6. CASE ServeDrop
  BY <1>6, ServeDropOK DEF Passes
<1>7. CASE ServeAttach
  BY <1>7, AttachOK
<1>8. CASE ClientStalls
  BY <1>8, StallOK
<1>9. CASE User
  BY <1>9, UserCases DEF Goes, Stops, Keeps, Rests, SameSession, Ears
<1> QED
  BY <1>1, <1>2, <1>3, <1>4, <1>5, <1>6, <1>7, <1>8, <1>9 DEF Client

\* Whatever happens to the debugger, its record and the session stay in shape.
LEMMA SessionStep ==
    ASSUME Shape(d), Ears(d), opts \in Options, Next
    PROVE  /\ Shape(d') /\ Ears(d')
           /\ d'.client => d.client \/ opts.dap
<1>1. CASE PollFull
  BY <1>1, PollPlain DEF Plain
<1>2. CASE Instruction \/ Interrupt
  <2>1. PICK kind : d' = Watch([d EXCEPT !.moved = TRUE], kind)
    BY <1>2 DEF Instruction, Interrupt
  <2> QED
    BY <1>2, <2>1, WatchOK
<1>3. CASE WaitTick
  BY <1>3, WaitTickOK DEF SameSession
<1>4. CASE FrameEnd
  BY <1>4, FrameEndOK
<1>5. CASE PollFast \/ LeaveServe \/ LeavePump \/ MaskedInterrupt \/ NoInterrupt
  BY <1>5 DEF PollFast, LeaveServe, LeavePump, MaskedInterrupt, NoInterrupt
<1>6. CASE Client \/ User
  BY <1>6, ServeSession
<1> QED
  BY <1>1, <1>2, <1>3, <1>4, <1>5, <1>6 DEF Next, Loop

-----------------------------------------------------------------------------
(* What is observed.                                                       *)

\* What is observed keeps its parts.
LEMMA SeenOK ==
    ASSUME NEW o, DOMAIN o = ObsFields
    PROVE  LET r == Seen(o)
           IN  /\ DOMAIN r = ObsFields
               /\ r.tested = o.tested /\ r.fresh = o.fresh /\ r.synced = o.synced
               /\ r.ran = o.ran /\ r.from = o.from
               /\ r.halted = (o.halted \/ Stopped(d) \/ Stopped(d'))
               /\ d.client /\ ~d'.client => r.cmd = "other"
               /\ r.cmd \in {o.cmd, "other"}
BY DEF Seen, ObsFields

\* A command's beginning.
LEMMA ToldOK ==
    ASSUME NEW o, DOMAIN o = ObsFields, NEW cmd
    PROVE  LET r == Told(o, cmd)
           IN  /\ DOMAIN r = ObsFields
               /\ r.tested = o.tested /\ r.fresh = o.fresh /\ r.synced = o.synced
               /\ r.halted = o.halted /\ r.cmd = cmd /\ r.ran = 0 /\ r.from = c.pc
BY DEF Told, ObsFields

\* An address come to.
LEMMA AfreshOK ==
    ASSUME NEW o, DOMAIN o = ObsFields
    PROVE  LET r == Afresh(o)
           IN  /\ DOMAIN r = ObsFields /\ r.tested = 0
               /\ r.synced = o.synced /\ r.cmd = o.cmd /\ r.ran = o.ran /\ r.from = o.from
BY DEF Afresh, ObsFields

\* Requests and commands: what was done at this address is not forgotten.
Remembers ==
    /\ DOMAIN obs' = ObsFields
    /\ obs'.tested = obs.tested
    /\ obs.fresh => obs'.fresh
    /\ obs.halted \/ Stopped(d) \/ Stopped(d') => obs'.halted
    /\ d.client /\ ~d'.client => obs'.cmd = "other"

\* A request that is seen, and that says "other" or is a pause.
LEMMA SeenRemembers ==
    ASSUME NEW o, DOMAIN o = ObsFields, obs' = Seen(o),
           o.tested = obs.tested, obs.fresh => o.fresh, o.halted = obs.halted
    PROVE  Remembers /\ obs'.synced = o.synced /\ obs'.cmd \in {o.cmd, "other"}
           /\ obs'.ran = o.ran /\ obs'.from = o.from
BY SeenOK DEF Remembers

\* A command, whatever else its request notes.
LEMMA OtherSeen ==
    ASSUME DOMAIN obs = ObsFields, NEW cmd, NEW s, NEW n, NEW e,
           \/ obs' = Seen(Told(obs, cmd)) /\ s = obs.synced
           \/ obs' = Seen([Told(obs, cmd) EXCEPT !.synced = s])
           \/ obs' = Seen([Told(obs, cmd) EXCEPT !.asked = n, !.ended = e]) /\ s = obs.synced
           \/ obs' = Seen([[Told(obs, cmd) EXCEPT !.asked = n, !.ended = e] EXCEPT !.synced = s])
    PROVE  Remembers /\ obs'.synced = s /\ obs'.cmd \in {cmd, "other"}
           /\ obs'.ran = 0 /\ obs'.from = c.pc
<1> DEFINE q == Told(obs, cmd)
           q1 == [q EXCEPT !.synced = s]
           q2 == [q EXCEPT !.asked = n, !.ended = e]
           q3 == [q2 EXCEPT !.synced = s]
<1>1. /\ DOMAIN q = ObsFields
      /\ q.tested = obs.tested /\ q.fresh = obs.fresh /\ q.synced = obs.synced
      /\ q.halted = obs.halted /\ q.cmd = cmd /\ q.ran = 0 /\ q.from = c.pc
  BY ToldOK
<1> HIDE DEF q
<1>2. \A o \in {q1, q2, q3} :
        /\ DOMAIN o = ObsFields
        /\ o.tested = obs.tested /\ o.fresh = obs.fresh
        /\ o.halted = obs.halted /\ o.cmd = cmd /\ o.ran = 0 /\ o.from = c.pc
  BY <1>1 DEF ObsFields
<1>3. q1.synced = s /\ q2.synced = obs.synced /\ q3.synced = s
  BY <1>1 DEF ObsFields
<1>4. PICK o \in {q, q1, q2, q3} : obs' = Seen(o) /\ o.synced = s
  BY <1>1, <1>3 DEF q
<1>5. /\ DOMAIN o = ObsFields
      /\ o.tested = obs.tested /\ o.fresh = obs.fresh
      /\ o.halted = obs.halted /\ o.cmd = cmd /\ o.ran = 0 /\ o.from = c.pc
  BY <1>1, <1>2, <1>4
<1> QED
  BY <1>4, <1>5, SeenRemembers

\* A command of the client.
LEMMA RequestSeen ==
    ASSUME DOMAIN obs = ObsFields
    PROVE  /\ ServeContinue \/ ServeNext \/ ServeStepOut \/ ServeFrames
                => Remembers /\ obs'.synced = obs.synced /\ obs'.cmd = "other"
           /\ ServeStepIn
                => /\ Remembers /\ obs'.synced = obs.synced
                   /\ obs'.cmd = "other" \/ (~ByLine(d) /\ obs'.ran = 0 /\ obs'.from = c.pc)
           /\ ServeTerminate \/ ServeDisconnect
                => Remembers /\ ~obs'.synced /\ obs'.cmd = "other"
           /\ ServeConfigured => Remembers /\ obs'.synced /\ obs'.cmd = "other"
<1>1. ASSUME ServeContinue \/ ServeNext \/ ServeStepOut
      PROVE  Remembers /\ obs'.synced = obs.synced /\ obs'.cmd = "other"
  <2>1. obs' = Seen([Told(obs, "other") EXCEPT !.asked = 0, !.ended = 0])
    BY <1>1 DEF ServeContinue, ServeNext, ServeStepOut, Session, TakenOver
  <2> QED
    BY <2>1, OtherSeen
<1>2. ASSUME ServeFrames
      PROVE  Remembers /\ obs'.synced = obs.synced /\ obs'.cmd = "other"
  <2>1. PICK n \in 1 .. opts.frames : obs' = Seen([Told(obs, "other") EXCEPT !.asked = n, !.ended = 0])
    BY <1>2 DEF ServeFrames, Session
  <2> QED
    BY <2>1, OtherSeen
<1>3. ASSUME ServeStepIn
      PROVE  /\ Remembers /\ obs'.synced = obs.synced
             /\ obs'.cmd = "other" \/ (~ByLine(d) /\ obs'.ran = 0 /\ obs'.from = c.pc)
  <2>1. CASE ByLine(d)
    <3>1. obs' = Seen([Told(obs, "other") EXCEPT !.asked = 0, !.ended = 0])
      BY <1>3, <2>1 DEF ServeStepIn, Session, TakenOver
    <3> QED
      BY <3>1, OtherSeen
  <2>2. CASE ~ByLine(d)
    <3>1. obs' = Seen([Told(obs, "into") EXCEPT !.asked = 0, !.ended = 0])
      BY <1>3, <2>2 DEF ServeStepIn, Session, TakenOver
    <3> QED
      BY <2>2, <3>1, OtherSeen
  <2> QED
    BY <2>1, <2>2
<1>4. ASSUME ServeTerminate \/ ServeDisconnect
      PROVE  Remembers /\ ~obs'.synced /\ obs'.cmd = "other"
  <2>1. \/ obs' = Seen([Told(obs, "other") EXCEPT !.synced = FALSE])
        \/ obs' = Seen([[Told(obs, "other") EXCEPT !.asked = 0, !.ended = 0] EXCEPT !.synced = FALSE])
    BY <1>4 DEF ServeTerminate, ServeDisconnect, Session, TakenOver
  <2> QED
    BY <2>1, OtherSeen
<1>5. ASSUME ServeConfigured
      PROVE  Remembers /\ obs'.synced /\ obs'.cmd = "other"
  <2>1. obs' = Seen([Told(obs, "other") EXCEPT !.synced = TRUE])
    BY <1>5 DEF ServeConfigured, Session
  <2> QED
    BY <2>1, OtherSeen
<1> QED
  BY <1>1, <1>2, <1>3, <1>4, <1>5

\* What else is seen of a client.
LEMMA ClientSeen ==
    ASSUME DOMAIN obs = ObsFields
    PROVE  /\ ServePause => /\ Remembers /\ obs'.synced = obs.synced
                            /\ obs'.cmd \in {obs.cmd, "other"}
                            /\ obs'.ran = obs.ran /\ obs'.from = obs.from
           /\ ServeBreakpoints => /\ Remembers /\ obs'.synced = obs.synced /\ obs'.fresh
                                  /\ obs'.cmd \in {obs.cmd, "other"}
                                  /\ obs'.ran = obs.ran /\ obs'.from = obs.from
           /\ ServeDrop => /\ Remembers /\ ~obs'.synced
                           /\ obs'.cmd \in {obs.cmd, "other"}
                           /\ obs'.ran = obs.ran /\ obs'.from = obs.from
           /\ ServeAttach => /\ DOMAIN obs' = ObsFields /\ ~obs'.synced
                             /\ obs'.tested = obs.tested /\ obs'.halted = obs.halted
                             /\ obs'.fresh = obs.fresh /\ obs'.cmd = obs.cmd
                             /\ obs'.ran = obs.ran /\ obs'.from = obs.from
<1> DEFINE b == [obs EXCEPT !.fresh = TRUE]
           q == [obs EXCEPT !.synced = FALSE]
<1>1. /\ DOMAIN b = ObsFields /\ b.fresh /\ b.synced = obs.synced
      /\ b.tested = obs.tested /\ b.halted = obs.halted /\ b.cmd = obs.cmd
      /\ b.ran = obs.ran /\ b.from = obs.from
  BY DEF ObsFields
<1>2. /\ DOMAIN q = ObsFields /\ q.fresh = obs.fresh /\ ~q.synced
      /\ q.tested = obs.tested /\ q.halted = obs.halted /\ q.cmd = obs.cmd
      /\ q.ran = obs.ran /\ q.from = obs.from
  BY DEF ObsFields
<1>3. /\ ServePause => obs' = Seen(obs)
      /\ ServeBreakpoints => obs' = Seen(b)
      /\ ServeDrop => obs' = Seen(q)
      /\ ServeAttach => obs' = q
  BY DEF ServePause, ServeBreakpoints, ServeDrop, ServeAttach, Session
<1> HIDE DEF b, q
<1>4. ASSUME obs' = Seen(obs)
      PROVE  /\ Remembers /\ obs'.synced = obs.synced
             /\ obs'.cmd \in {obs.cmd, "other"}
             /\ obs'.ran = obs.ran /\ obs'.from = obs.from
  BY <1>4, SeenRemembers
<1>5. ASSUME obs' = Seen(b)
      PROVE  /\ Remembers /\ obs'.synced = obs.synced /\ obs'.fresh
             /\ obs'.cmd \in {obs.cmd, "other"}
             /\ obs'.ran = obs.ran /\ obs'.from = obs.from
  BY <1>1, <1>5, SeenRemembers, SeenOK
<1>6. ASSUME obs' = Seen(q)
      PROVE  /\ Remembers /\ ~obs'.synced
             /\ obs'.cmd \in {obs.cmd, "other"}
             /\ obs'.ran = obs.ran /\ obs'.from = obs.from
  BY <1>2, <1>6, SeenRemembers
<1> QED
  BY <1>2, <1>3, <1>4, <1>5, <1>6

\* A command of the user.
LEMMA UserSeen ==
    ASSUME DOMAIN obs = ObsFields, User
    PROVE  /\ Remembers /\ obs'.synced = obs.synced
           /\ \/ /\ UIPause /\ obs'.cmd \in {obs.cmd, "other"}
                 /\ obs'.ran = obs.ran /\ obs'.from = obs.from
              \/ obs'.cmd = "other"
              \/ UIStepInto /\ obs'.ran = 0 /\ obs'.from = c.pc
              \/ UIStepIntoAuto /\ ~ByLine(d) /\ obs'.ran = 0 /\ obs'.from = c.pc
<1>1. CASE UIPause
  <2>1. obs' = Seen(obs)
    BY <1>1 DEF UIPause, Interface
  <2> QED
    BY <1>1, <2>1, SeenRemembers
<1>2. CASE UIContinue \/ UIStepOut \/ UIStepOver \/ UIStepOverAuto \/ UIRunTo
  <2>1. obs' = Seen(Told(obs, "other"))
    BY <1>2 DEF UIContinue, UIStepOut, UIStepOver, UIStepOverAuto, UIRunTo, Interface
  <2> QED
    BY <2>1, OtherSeen
<1>3. CASE UIStepInto
  <2>1. obs' = Seen(Told(obs, "into"))
    BY <1>3 DEF UIStepInto, Interface
  <2> QED
    BY <1>3, <2>1, OtherSeen
<1>4. CASE UIStepIntoAuto
  <2>1. CASE ByLine(d)
    <3>1. obs' = Seen(Told(obs, "other"))
      BY <1>4, <2>1 DEF UIStepIntoAuto, Interface
    <3> QED
      BY <3>1, OtherSeen
  <2>2. CASE ~ByLine(d)
    <3>1. obs' = Seen(Told(obs, "into"))
      BY <1>4, <2>2 DEF UIStepIntoAuto, Interface
    <3> QED
      BY <1>4, <2>2, <3>1, OtherSeen
  <2> QED
    BY <2>1, <2>2
<1> QED
  BY <1>1, <1>2, <1>3, <1>4 DEF User

\* The loop's own steps.
LEMMA PollSeen ==
    ASSUME DOMAIN obs = ObsFields, PollFull
    PROVE  /\ DOMAIN obs' = ObsFields
           /\ obs'.tested = IF Arrives(S4) /\ obs.tested < 2 THEN obs.tested + 1 ELSE obs.tested
           /\ obs'.fresh = obs.fresh /\ obs'.synced = obs.synced
           /\ obs'.ran = obs.ran /\ obs'.from = obs.from
           /\ obs.halted \/ Stopped(d) \/ Stopped(d') => obs'.halted
           /\ d.client /\ ~d'.client => obs'.cmd = "other"
           /\ obs'.cmd \in {obs.cmd, "other"}
<1> DEFINE n == IF Arrives(S4) /\ obs.tested < 2 THEN obs.tested + 1 ELSE obs.tested
           o == [obs EXCEPT !.tested = n]
<1>1. obs' = Seen(o)
  BY StagesOfCheck DEF PollFull, ObsFields
<1> HIDE DEF n
<1>2. /\ DOMAIN o = ObsFields /\ o.tested = n /\ o.fresh = obs.fresh /\ o.synced = obs.synced
      /\ o.ran = obs.ran /\ o.from = obs.from /\ o.halted = obs.halted /\ o.cmd = obs.cmd
  BY DEF ObsFields
<1> HIDE DEF o
<1> QED
  BY <1>1, <1>2, SeenOK DEF n

\* An instruction.
LEMMA InstructionSeen ==
    ASSUME DOMAIN obs = ObsFields, Instruction
    PROVE  /\ DOMAIN obs' = ObsFields /\ obs'.tested = 0
           /\ obs'.synced = obs.synced /\ obs'.cmd = obs.cmd /\ obs'.from = obs.from
<1> DEFINE n == IF Afresh(obs).ran < 2 THEN Afresh(obs).ran + 1 ELSE Afresh(obs).ran
           o == Afresh(obs)
<1>1. /\ DOMAIN o = ObsFields /\ o.tested = 0
      /\ o.synced = obs.synced /\ o.cmd = obs.cmd /\ o.from = obs.from
  BY AfreshOK
<1>2. obs' = [o EXCEPT !.ran = n]
  BY DEF Instruction
<1> HIDE DEF o, n
<1> QED
  BY <1>1, <1>2 DEF ObsFields

\* A frame's end.
LEMMA FrameEndSeen ==
    ASSUME DOMAIN obs = ObsFields, FrameEnd
    PROVE  /\ DOMAIN obs' = ObsFields /\ obs'.tested = obs.tested /\ obs'.fresh = obs.fresh
           /\ obs'.synced = obs.synced /\ obs'.halted = obs.halted /\ obs'.cmd = obs.cmd
           /\ obs'.ran = obs.ran /\ obs'.from = obs.from
BY DEF FrameEnd, ObsFields

-----------------------------------------------------------------------------
(* The loop's own shape.                                                   *)

Phases == {"poll", "serve", "answer", "pump", "exec", "frame", "irq"}

LoopInv ==
    /\ CpuOK /\ opts \in Options /\ phase \in Phases
    /\ DOMAIN obs = ObsFields
    /\ Shape(d) /\ Ears(d)
    /\ d.client => opts.dap
    /\ obs.synced /\ d.client => d.session

\* The loop's shape at the start.
LEMMA LoopInit ==
    ASSUME Init
    PROVE  LoopInv
<1>1. Shape(d)
  BY DEF Init, Shape, Fields, FrameFields, SourceFields, NoFrames, NoSource
<1>2. Ears(d) /\ ~d.client
  BY DEF Init, Ears, NoFrames
<1>3. DOMAIN obs = ObsFields
  BY DEF Init, ObsFields
<1> QED
  BY <1>1, <1>2, <1>3, CpuInit DEF Init, LoopInv, Phases

\* The loop moves among its phases.
LEMMA PhaseStep ==
    ASSUME phase \in Phases, Next
    PROVE  phase' \in Phases
<1> USE DEF Phases
<1>1. CASE Loop
  BY <1>1 DEF Loop, PollFast, PollFull, LeaveServe, LeavePump, Instruction, WaitTick, FrameEnd,
         Interrupt, MaskedInterrupt, NoInterrupt, Onward
<1>2. CASE Client
  BY <1>2 DEF Client, ServeContinue, ServeStepIn, ServeNext, ServeStepOut, ServePause,
         ServeFrames, ServeTerminate, ServeDisconnect, ServeConfigured, ServeBreakpoints,
         ServeDrop, ServeAttach, ClientStalls, Session, Onward
<1>3. CASE User
  BY <1>3 DEF User, UIPause, UIContinue, UIStepOut, UIStepInto, UIStepOver, UIStepIntoAuto,
         UIStepOverAuto, UIRunTo, Interface
<1> QED
  BY <1>1, <1>2, <1>3 DEF Next

\* A client that stays has its session, and what it said of itself, unless it
\* ended the session.
LEMMA SyncedStep ==
    ASSUME LoopInv, Next
    PROVE  DOMAIN obs' = ObsFields /\ (obs'.synced /\ d'.client => d'.session)
<1> USE DEF LoopInv
<1>1. CASE PollFull
  BY <1>1, PollSeen, PollPlain DEF Plain
<1>2. CASE Instruction
  <2>1. PICK kind : d' = Watch([d EXCEPT !.moved = TRUE], kind)
    BY <1>2 DEF Instruction
  <2> QED
    BY <1>2, <2>1, InstructionSeen, WatchOK
<1>3. CASE Interrupt
  <2>1. /\ \E kind : d' = Watch([d EXCEPT !.moved = TRUE], kind)
        /\ obs' = Afresh(obs)
    BY <1>3 DEF Interrupt
  <2> QED
    BY <1>3, <2>1, AfreshOK, WatchOK
<1>4. CASE WaitTick
  BY <1>4, WaitTickOK DEF SameSession, WaitTick
<1>5. CASE FrameEnd
  BY <1>5, FrameEndOK, FrameEndSeen
<1>6. CASE PollFast \/ LeaveServe \/ LeavePump \/ MaskedInterrupt \/ NoInterrupt
  BY <1>6 DEF PollFast, LeaveServe, LeavePump, MaskedInterrupt, NoInterrupt
<1>7. CASE ServeContinue \/ ServeStepIn \/ ServeNext \/ ServeStepOut
  BY <1>7, RequestCases, RequestSeen DEF Resumes, Remembers
<1>8. CASE ServeFrames
  BY <1>8, FramesCases, RequestSeen DEF Resumes, Remembers
<1>9. CASE ServeTerminate \/ ServeDisconnect
  BY <1>9, RequestSeen DEF Remembers
<1>10. CASE ServePause \/ ServeConfigured
  <2>1. PICK s : Answers(d, s) /\ d' = StepPoll(s)
    BY <1>10, RequestCases
  <2>2. Plain(d, s) /\ s.wp = d.wp
    BY <2>1 DEF Answers, Keeps, Plain
  <2>3. d.session
    BY <1>10 DEF ServePause, ServeConfigured, Session
  <2>4. d'.client => d'.session
    BY <2>1, <2>2, <2>3, StepPollPlain DEF Plain
  <2> QED
    BY <1>10, <2>4, ClientSeen, RequestSeen DEF Remembers
<1>11. CASE ServeBreakpoints
  <2>1. PICK t, s : /\ d' = StepPoll(s)
                    /\ Passes(t, s) /\ Ears(s)
                    /\ t.wp = d.wp /\ t.client = d.client /\ t.session = d.session
    BY <1>11, BreakpointsCases
  <2>2. Plain(d, s) /\ s.wp = d.wp
    BY <2>1 DEF Passes, Plain
  <2>3. d.session
    BY <1>11 DEF ServeBreakpoints, Session
  <2>4. d'.client => d'.session
    BY <2>1, <2>2, <2>3, StepPollPlain DEF Plain
  <2> QED
    BY <1>11, <2>4, ClientSeen DEF Remembers
<1>12. CASE ServeDrop \/ ServeAttach
  BY <1>12, ClientSeen DEF Remembers
<1>13. CASE ClientStalls
  BY <1>13, StallOK DEF ClientStalls
<1>14. CASE User
  BY <1>14, UserCases, UserSeen DEF Goes, Stops, Keeps, Rests, SameSession, Remembers
<1> QED
  BY <1>1, <1>2, <1>3, <1>4, <1>5, <1>6, <1>7, <1>8, <1>9, <1>10, <1>11, <1>12, <1>13, <1>14
     DEF Next, Loop, Client

\* The loop's shape is kept by every step.
LEMMA LoopStep ==
    ASSUME LoopInv, [Next]_vars
    PROVE  LoopInv'
<1>1. CASE Next
  <2>1. CpuOK' /\ phase' \in Phases /\ opts' = opts
    BY <1>1, CpuStep, PhaseStep, OptsStep DEF LoopInv
  <2>2. Shape(d') /\ Ears(d') /\ (d'.client => d.client \/ opts.dap)
    BY <1>1, SessionStep DEF LoopInv
  <2>3. DOMAIN obs' = ObsFields /\ (obs'.synced /\ d'.client => d'.session)
    BY <1>1, SyncedStep
  <2> QED
    BY <2>1, <2>2, <2>3 DEF LoopInv
<1>2. CASE UNCHANGED vars
  BY <1>2 DEF vars, LoopInv, CpuOK
<1> QED
  BY <1>1, <1>2

\* Whatever the loop, the client and the user do in whatever order, the debugger's
\* record keeps its parts, a client is told within its session alone, and one that
\* said it is configured has a session (debugger.c, debug_server.c).
THEOREM LoopKept == Spec => []LoopInv
BY LoopInit, LoopStep, PTL DEF Spec

-----------------------------------------------------------------------------
(* An arrival is counted once.                                             *)

\* What was tested at this address was left, or the machine stands there.
Counted ==
    /\ obs.tested \in 0 .. 1
    /\ obs.tested = 1 => /\ ~c.waiting /\ ~c.entered /\ ~d.wp
                         /\ phase \notin {"frame", "irq"}
                         /\ phase = "poll" => Stopped(d)

\* A machine that stands where its arrival was tested does not arrive again.
LEMMA StandsStill ==
    ASSUME Shape(d), Stopped(d), ~c.entered, ~d.wp
    PROVE  ~Arrives(S4)
<1>1. S1 = d
  BY FollowCases DEF S1
<1>2. S2 = d
  BY <1>1, ReportWatchCases DEF S2
<1>3. S3 = d
  BY <1>2, RetireStepCases DEF S3, Stopped
<1>4. S4.mode = d.mode
  BY <1>3, DropSkipCases DEF S4
<1> QED
  BY <1>4 DEF Arrives, Stopped

\* A check counts an arrival only where none was counted.
LEMMA CountedPoll ==
    ASSUME LoopInv, Counted, PollFull
    PROVE  Counted'
<1>1. obs'.tested = IF Arrives(S4) /\ obs.tested < 2 THEN obs.tested + 1 ELSE obs.tested
  BY PollSeen DEF LoopInv
<1>2. phase = "poll" /\ phase' \in {"serve", "exec"} /\ ~c'.entered /\ c'.waiting = c.waiting
  BY DEF PollFull, LoopInv, CpuOK
<1>3. ~d'.wp
  BY PollPlain DEF LoopInv
<1>4. CASE obs.tested = 1
  <2>1. ~Arrives(S4)
    BY <1>2, <1>4, StandsStill DEF Counted, LoopInv
  <2> QED
    BY <1>1, <1>2, <1>3, <1>4, <2>1 DEF Counted
<1>5. CASE obs.tested = 0 /\ Arrives(S4)
  <2>1. ~c.waiting
    BY <1>5 DEF Arrives
  <2> QED
    BY <1>1, <1>2, <1>3, <1>5, <2>1 DEF Counted
<1>6. CASE obs.tested = 0 /\ ~Arrives(S4)
  BY <1>1, <1>6 DEF Counted
<1> QED
  BY <1>4, <1>5, <1>6 DEF Counted

\* A step of the client or the user leaves the CPU and the phase's side of the
\* loop alone.
LEMMA VisitOnly ==
    ASSUME Client \/ User
    PROVE  /\ UNCHANGED c
           /\ phase' = phase \/ (phase \in {"serve", "answer"} /\ phase' \in {"answer", "pump", "exec"})
           /\ Client => ClientStalls \/ phase \in {"serve", "answer"}
           /\ User => phase \in {"pump", "frame"}
<1>1. CASE Client
  <2>1. /\ UNCHANGED c
        /\ phase' = phase \/ (phase \in {"serve", "answer"} /\ phase' \in {"answer", "pump", "exec"})
        /\ ClientStalls \/ phase \in {"serve", "answer"}
    BY <1>1 DEF Client, ServeContinue, ServeStepIn, ServeNext, ServeStepOut, ServePause,
           ServeFrames, ServeTerminate, ServeDisconnect, ServeConfigured, ServeBreakpoints,
           ServeDrop, ServeAttach, ClientStalls, Session, Onward
  <2>2. User => phase \in {"pump", "frame"}
    BY DEF User, UIPause, UIContinue, UIStepOut, UIStepInto, UIStepOver, UIStepIntoAuto,
           UIStepOverAuto, UIRunTo, Interface
  <2> QED
    BY <2>1, <2>2
<1>2. CASE User
  <2>1. UNCHANGED c /\ phase' = phase /\ phase \in {"pump", "frame"}
    BY <1>2 DEF User, UIPause, UIContinue, UIStepOut, UIStepInto, UIStepOver, UIStepIntoAuto,
           UIStepOverAuto, UIRunTo, Interface
  <2>2. Client => ClientStalls \/ phase \in {"serve", "answer"}
    BY DEF Client, ServeContinue, ServeStepIn, ServeNext, ServeStepOut, ServePause,
           ServeFrames, ServeTerminate, ServeDisconnect, ServeConfigured, ServeBreakpoints,
           ServeDrop, ServeAttach, Session
  <2> QED
    BY <2>1, <2>2
<1> QED
  BY <1>1, <1>2

\* Neither client nor user has an arrival counted.
LEMMA CountedServe ==
    ASSUME LoopInv, Counted, Client \/ User
    PROVE  Counted'
<1>1. obs'.tested = obs.tested
  <2>1. CASE ClientStalls
    BY <2>1 DEF ClientStalls
  <2>2. CASE Client /\ ~ClientStalls
    BY <2>2, RequestSeen, ClientSeen DEF Client, LoopInv, Remembers
  <2>3. CASE User
    BY <2>3, UserSeen DEF LoopInv, Remembers
  <2> QED
    BY <2>1, <2>2, <2>3
<1>2. d'.wp = d.wp
  BY ServeSession DEF LoopInv
<1>3. /\ c' = c
      /\ phase' = phase \/ (phase \in {"serve", "answer"} /\ phase' \in {"answer", "pump", "exec"})
  BY VisitOnly
<1>4. phase = "poll" => d'.mode = d.mode
  <2>1. phase = "poll" => ClientStalls
    BY VisitOnly
  <2> QED
    BY <2>1, StallOK DEF LoopInv
<1> QED
  BY <1>1, <1>2, <1>3, <1>4 DEF Counted, Stopped

\* Every step counts an arrival at most once.
LEMMA CountedStep ==
    ASSUME LoopInv, Counted, [Next]_vars
    PROVE  Counted'
<1>1. CASE PollFull
  BY <1>1, CountedPoll
<1>2. CASE Client \/ User
  BY <1>2, CountedServe
<1>3. CASE Instruction
  BY <1>3, InstructionSeen DEF LoopInv, Counted
<1>4. CASE Interrupt
  BY <1>4, AfreshOK DEF LoopInv, Counted, Interrupt
<1>5. CASE WaitTick
  BY <1>5 DEF LoopInv, Counted, WaitTick
<1>6. CASE FrameEnd
  BY <1>6, FrameEndSeen DEF LoopInv, Counted, FrameEnd
<1>7. CASE MaskedInterrupt \/ NoInterrupt
  BY <1>7 DEF Counted, MaskedInterrupt, NoInterrupt
<1>8. CASE PollFast
  BY <1>8 DEF Counted, PollFast
<1>9. CASE LeaveServe \/ LeavePump
  BY <1>9 DEF Counted, LeaveServe, LeavePump, Onward, Stopped
<1>10. CASE UNCHANGED vars
  BY <1>10 DEF Counted, vars, Stopped
<1> QED
  BY <1>1, <1>2, <1>3, <1>4, <1>5, <1>6, <1>7, <1>8, <1>9, <1>10 DEF Next, Loop

\* However often the check polls an arrival, before, during and after a stop, it
\* counts it once (debugger.c, the resume guard).
THEOREM ArrivalsCountedOnce == Spec => []CountedOnce
<1>1. Init => Counted
  BY DEF Init, Counted
<1>2. LoopInv /\ Counted /\ [Next]_vars => Counted'
  BY CountedStep
<1>3. Counted => CountedOnce
  BY DEF Counted, CountedOnce
<1> QED
  BY <1>1, <1>2, <1>3, LoopKept, PTL DEF Spec

-----------------------------------------------------------------------------
(* Breakpoints stop.                                                       *)

\* Lines are stepped by the graphical interface of a machine without a client:
\* a client that continues in the middle of a source step passes what the step
\* did not test.  Without an interface nobody sets breakpoints of his own.
PlainOptions ==
    \A o \in Options : /\ o.byLine => ~o.dap
                       /\ o.ui = "none" => o.bps = NoBps

Visit == {"serve", "answer", "pump", "exec"}

Between == {"poll", "frame", "irq"}

\* On a visit to an address with a breakpoint the machine was seen stopped
\* there; between visits, what lets it pass a breakpoint was armed there.
StopInv ==
    /\ d.src.on => opts.byLine /\ UI = "graphical"
    /\ phase = "exec" => ~Stopped(d)
    /\ phase \in Visit /\ ~c.waiting /\ "stops" \in BpHere(d) /\ ~d.src.on => obs.halted \/ obs.fresh
    /\ phase \in Between /\ d.skip # None /\ ~d.moved => obs.halted
    /\ phase \in {"serve", "answer", "pump"} /\ Stopped(d) => obs.halted

\* A set of breakpoints that is emptied stops nowhere new.
LEMMA FewerBps ==
    ASSUME CpuOK, NEW s, NEW r, r.bps = s.bps \/ r.bps = NoBps
    PROVE  "stops" \in BpHere(r) => "stops" \in BpHere(s)
BY DEF BpHere, NoBps, CpuOK

\* Without an interface no breakpoint outlives its client.
LEMMA NoneLeft ==
    ASSUME PlainOptions, CpuOK, opts \in Options, NEW r, ~HasUI, r.bps = NoBps
    PROVE  "stops" \notin BpHere(r)
BY DEF PlainOptions, BpHere, NoBps, CpuOK, HasUI, UI

\* A stop leaves the machine stopped, or no breakpoint behind.
LEMMA StopsHere ==
    ASSUME PlainOptions, CpuOK, opts \in Options, NEW s, NEW r, Stops(s, r)
    PROVE  "stops" \in BpHere(r) => Stopped(r)
BY NoneLeft DEF Stops

\* No stage starts a source step.
LEMMA StagesSource ==
    ASSUME Shape(d), Ears(d)
    PROVE  /\ S5.src.on => d.src.on
           /\ S6.src.on => d.src.on
<1>0. Shape(S1) /\ Shape(S2) /\ Shape(S3) /\ Shape(S4) /\ Shape(S5)
  BY StagesKeep DEF Keeps
<1>1. S1.src.on => d.src.on
  BY FollowCases DEF S1, Stops
<1>2. S2.src.on => S1.src.on
  BY <1>0, ReportWatchCases DEF S2, Reports
<1>3. S3.src.on => S2.src.on
  BY <1>0, RetireStepCases DEF S3, Stops, GoesOn
<1>4. S4.src.on => S3.src.on
  BY <1>0, DropSkipCases DEF S4
<1>5. S5.src.on => S4.src.on
  BY <1>0, ArrivalCases DEF S5, Stops, GoesOn
<1>6. S6.src.on => S5.src.on
  BY <1>0, BreakCases DEF S6, Stops, Rests
<1> QED
  BY <1>1, <1>2, <1>3, <1>4, <1>5, <1>6

\* The check does not let a breakpoint pass unless the machine was stopped there.
LEMMA CheckStops ==
    ASSUME PlainOptions, CpuOK, opts \in Options, Shape(d), Ears(d), ~c.waiting,
           d.skip = None \/ d.moved
    PROVE  /\ "stops" \in BpHere(S5) => Stopped(S5) \/ S5.src.on
           /\ "stops" \in BpHere(S6) => Stopped(S6)
<1> DEFINE B(s) == "stops" \in BpHere(s) => Stopped(s) \/ s.src.on \/ s.skip = None \/ s.moved
<1>0. Shape(S1) /\ Shape(S2) /\ Shape(S3) /\ Shape(S4) /\ Shape(S5)
  BY StagesKeep DEF Keeps
<1>1. B(S1)
  <2>1. S1 = d \/ Stops(d, S1)
    BY FollowCases DEF S1
  <2> QED
    BY <2>1, StopsHere
<1>2. B(S2)
  <2>1. S2 = S1 \/ Reports(S1, S2)
    BY <1>0, ReportWatchCases DEF S2
  <2>2. CASE Reports(S1, S2) /\ S2.mode = S1.mode
    <3>1. "stops" \in BpHere(S2) => "stops" \in BpHere(S1)
      BY <2>2, FewerBps DEF Reports, Keeps
    <3> QED
      BY <1>1, <2>2, <3>1 DEF Reports, Stopped
  <2>3. CASE Reports(S1, S2) /\ S2.mode # S1.mode
    BY <2>3, NoneLeft DEF Reports
  <2> QED
    BY <1>1, <2>1, <2>2, <2>3
<1>3. B(S3)
  <2>1. S3 = S2 \/ Stops(S2, S3) \/ S3.src.on
    BY <1>0, RetireStepCases DEF S3, GoesOn
  <2> QED
    BY <1>2, <2>1, StopsHere
<1>4. "stops" \in BpHere(S4) => Stopped(S4) \/ S4.src.on \/ S4.skip = None
  <2>1. /\ S4.mode = S3.mode /\ S4.src = S3.src /\ S4.bps = S3.bps
        /\ \/ S4.skip = S3.skip /\ (S3.skip = None \/ ~S3.moved)
           \/ S4.skip = None
    BY <1>0, DropSkipCases DEF S4, SameSession
  <2> QED
    BY <1>3, <2>1 DEF BpHere, Stopped
<1>5. "stops" \in BpHere(S5) => Stopped(S5) \/ S5.src.on
  <2>1. \/ S5 = S4 /\ ~(Arrives(S4) /\ "stops" \in BpHere(S4))
        \/ Stops(S4, S5)
        \/ S5.src.on
    BY <1>0, ArrivalCases DEF S5, GoesOn
  <2> QED
    BY <1>4, <2>1, StopsHere DEF Arrives
<1>6. "stops" \in BpHere(S6) => Stopped(S6)
  <2>1. Rests(S5, S6) \/ Stops(S5, S6)
    BY <1>0, BreakCases DEF S6
  <2> QED
    BY <2>1, StopsHere DEF Rests
<1> QED
  BY <1>5, <1>6

\* After a check the machine was seen stopped at a breakpoint.
LEMMA StopPoll ==
    ASSUME PlainOptions, LoopInv, StopInv, PollFull
    PROVE  StopInv'
<1> USE DEF LoopInv
<1>1. PICK s \in {S5, S6} : d' = StepPoll(s)
  BY StagesOfCheck DEF PollFull
<1>2. Keeps(d, s) /\ Shape(s) /\ Ears(s) /\ (s.src.on => d.src.on)
  BY <1>1, StagesKeep, StagesSource DEF Keeps
<1>3. d' = s \/ Replies(s, d')
  BY <1>1, <1>2, StepPollCases
<1>4. /\ phase = "poll" /\ phase' \in {"serve", "exec"} /\ (phase' = "exec" => d'.mode = "run")
      /\ c'.pc = c.pc /\ c'.waiting = c.waiting /\ opts' = opts
  BY DEF PollFull, CpuOK
<1>5. /\ obs.halted \/ Stopped(d) \/ Stopped(d') => obs'.halted
      /\ obs'.fresh = obs.fresh
  BY PollSeen
<1>6. d'.src.on => opts'.byLine /\ opts'.ui = "graphical"
  BY <1>2, <1>3, <1>4 DEF StopInv, Replies, UI
<1>7. ASSUME ~c.waiting, "stops" \in BpHere(d'), ~d'.src.on, ~obs'.halted
      PROVE  FALSE
  <2>1. ~Stopped(d) /\ ~Stopped(d') /\ (d.skip = None \/ d.moved)
    BY <1>4, <1>5, <1>7 DEF StopInv, Between
  <2>2. "stops" \in BpHere(s) => Stopped(s) \/ s.src.on
    BY <1>1, <1>7, <2>1, CheckStops
  <2>3. d' # s
    BY <1>7, <2>1, <2>2
  <2>4. Replies(s, d') /\ ~HasUI /\ d'.bps = NoBps
    BY <1>3, <2>1, <2>3 DEF Replies
  <2> QED
    BY <1>7, <2>4, NoneLeft
<1>8. "stops" \in BpHere(d)' => "stops" \in BpHere(d')
  BY <1>4 DEF BpHere
<1> QED
  BY <1>4, <1>5, <1>6, <1>7, <1>8 DEF StopInv, Stopped, Visit, Between, UI

\* A request finds no source step under way and starts none; the breakpoints it
\* leaves are the ones it found, or new ones.
LEMMA RequestStops ==
    ASSUME PlainOptions, LoopInv, StopInv, Client, ~ClientStalls
    PROVE  /\ DOMAIN obs' = ObsFields
           /\ obs.halted => obs'.halted
           /\ obs.fresh => obs'.fresh
           /\ Stopped(d') => obs'.halted \/ (ServeAttach /\ Stopped(d))
           /\ d'.src.on => d.src.on
           /\ d.src.on => ServeAttach \/ ServeDrop
           /\ (d'.bps = d.bps \/ d'.bps = NoBps) \/ obs'.fresh
           /\ d.src.on /\ ServeDrop => d'.src.on
           /\ d.src.on /\ ServeAttach => d'.src.on
<1> USE DEF LoopInv
<1>1. d.session => ~d.src.on /\ ~opts.byLine
  BY DEF Ears, PlainOptions, StopInv
<1>2. ~ServeDrop /\ ~ServeAttach => d.session
  BY DEF Client, ServeContinue, ServeStepIn, ServeNext, ServeStepOut, ServePause, ServeFrames,
         ServeTerminate, ServeDisconnect, ServeConfigured, ServeBreakpoints, Session
<1>3. CASE ServeContinue \/ ServeStepIn \/ ServeNext \/ ServeStepOut
  <2>1. d.session
    BY <1>3 DEF ServeContinue, ServeStepIn, ServeNext, ServeStepOut, Session
  <2>2. (d'.bps = d.bps \/ d'.bps = NoBps) /\ ~d'.src.on /\ ~Stopped(d')
    BY <1>1, <1>3, <2>1, RequestCases DEF Resumes
  <2>3. Remembers
    BY <1>3, RequestSeen
  <2> QED
    BY <1>1, <2>1, <2>2, <2>3 DEF Remembers
<1>4. CASE ServeFrames
  <2>1. d.session
    BY <1>4 DEF ServeFrames, Session
  <2>2. (d'.bps = d.bps \/ d'.bps = NoBps) /\ ~d'.src.on /\ ~Stopped(d')
    BY <1>4, FramesCases DEF Resumes
  <2>3. Remembers
    BY <1>4, RequestSeen
  <2> QED
    BY <1>1, <2>1, <2>2, <2>3 DEF Remembers
<1>5. CASE ServePause \/ ServeConfigured
  <2>1. d.session
    BY <1>5 DEF ServePause, ServeConfigured, Session
  <2>2. PICK s : Answers(d, s) /\ d' = StepPoll(s)
    BY <1>5, RequestCases
  <2>3. Shape(s) /\ Ears(s) /\ (s.bps = d.bps \/ s.bps = NoBps) /\ (s.src.on => d.src.on)
    BY <2>2 DEF Answers, Keeps
  <2>4. d' = s \/ Replies(s, d')
    BY <2>2, <2>3, StepPollCases
  <2>5. (d'.bps = d.bps \/ d'.bps = NoBps) /\ ~d'.src.on
    BY <1>1, <2>1, <2>3, <2>4 DEF Replies
  <2>6. Remembers
    BY <1>5, RequestSeen, ClientSeen
  <2> QED
    BY <1>1, <2>1, <2>5, <2>6 DEF Remembers
<1>6. CASE ServeTerminate \/ ServeDisconnect
  <2>1. d.session
    BY <1>6 DEF ServeTerminate, ServeDisconnect, Session
  <2>2. d'.bps = NoBps /\ d'.src = d.src
    BY <1>6, RequestCases DEF Ends
  <2>3. Remembers
    BY <1>6, RequestSeen
  <2> QED
    BY <1>1, <2>1, <2>2, <2>3 DEF Remembers
<1>7. CASE ServeBreakpoints
  <2>1. d.session
    BY <1>7 DEF ServeBreakpoints, Session
  <2>2. PICK t, s : d' = StepPoll(s) /\ Passes(t, s) /\ Ears(s) /\ t.src = d.src
    BY <1>7, BreakpointsCases
  <2>3. Shape(s) /\ s.src = d.src
    BY <2>2 DEF Passes
  <2>4. d' = s \/ Replies(s, d')
    BY <2>2, <2>3, StepPollCases
  <2>5. ~d'.src.on
    BY <1>1, <2>1, <2>3, <2>4 DEF Replies
  <2>6. Remembers /\ obs'.fresh
    BY <1>7, ClientSeen
  <2> QED
    BY <1>1, <2>1, <2>5, <2>6 DEF Remembers
<1>8. CASE ServeDrop
  <2>1. (d'.bps = d.bps \/ d'.bps = NoBps) /\ d'.src = d.src
    BY <1>8, ServeDropOK DEF Passes
  <2>2. Remembers
    BY <1>8, ClientSeen
  <2> QED
    BY <1>8, <2>1, <2>2 DEF Remembers
<1>9. CASE ServeAttach
  <2>1. d'.bps = d.bps /\ d'.src = d.src /\ d'.mode = d.mode
    BY <1>9, AttachOK
  <2>2. DOMAIN obs' = ObsFields /\ obs'.halted = obs.halted /\ obs'.fresh = obs.fresh
    BY <1>9, ClientSeen
  <2> QED
    BY <1>9, <2>1, <2>2 DEF Stopped
<1> QED
  BY <1>3, <1>4, <1>5, <1>6, <1>7, <1>8, <1>9 DEF Client

\* A client's requests leave nothing unseen.
LEMMA StopClient ==
    ASSUME PlainOptions, LoopInv, StopInv, Client
    PROVE  StopInv'
<1> USE DEF LoopInv
<1>0. c' = c /\ opts' = opts
  BY VisitOnly, OptsStep DEF Next
<1>1. CASE ClientStalls
  <2>1. /\ d'.bps = d.bps /\ d'.mode = d.mode /\ d'.src = d.src /\ d'.skip = d.skip
        /\ d'.moved = d.moved /\ phase' = phase /\ obs' = obs
    BY <1>1, StallOK DEF ClientStalls
  <2> QED
    BY <1>0, <2>1 DEF StopInv, BpHere, Stopped, UI
<1>2. CASE ~ClientStalls
  <2>1. /\ obs.halted => obs'.halted
        /\ obs.fresh => obs'.fresh
        /\ Stopped(d') => obs'.halted \/ (ServeAttach /\ Stopped(d))
        /\ d'.src.on => d.src.on
        /\ d.src.on => d'.src.on
        /\ (d'.bps = d.bps \/ d'.bps = NoBps) \/ obs'.fresh
    BY <1>2, RequestStops
  <2>2. /\ phase \in {"serve", "answer"}
        /\ phase' \in {"serve", "answer", "pump", "exec"}
        /\ phase' = "exec" => ServeDrop /\ ~Stopped(d')
        /\ ServeAttach => phase = "serve"
    BY <1>2 DEF Client, ServeContinue, ServeStepIn, ServeNext, ServeStepOut, ServePause,
           ServeFrames, ServeTerminate, ServeDisconnect, ServeConfigured, ServeBreakpoints,
           ServeDrop, ServeAttach, Session, Onward
  <2>3. d'.src.on => opts'.byLine /\ opts'.ui = "graphical"
    BY <1>0, <2>1 DEF StopInv, UI
  <2>4. ASSUME ~c.waiting, "stops" \in BpHere(d'), ~d'.src.on
        PROVE  obs'.halted \/ obs'.fresh
    <3>1. CASE obs'.fresh
      BY <3>1
    <3>2. CASE d'.bps = d.bps \/ d'.bps = NoBps
      <4>1. "stops" \in BpHere(d)
        BY <2>4, <3>2, FewerBps
      <4> QED
        BY <2>1, <2>2, <2>4, <4>1 DEF StopInv, Visit
    <3> QED
      BY <2>1, <3>1, <3>2
  <2>5. "stops" \in BpHere(d)' => "stops" \in BpHere(d')
    BY <1>0 DEF BpHere
  <2>6. Stopped(d') => obs'.halted
    BY <2>1, <2>2 DEF StopInv
  <2> QED
    BY <1>0, <2>2, <2>3, <2>4, <2>5, <2>6 DEF StopInv, Visit, Between, UI, Stopped
<1> QED
  BY <1>1, <1>2

\* A command of the graphical user finds the machine stopped, or stops it; one
\* in the text debugger finds no source step.
LEMMA StopUser ==
    ASSUME PlainOptions, LoopInv, StopInv, User
    PROVE  StopInv'
<1> USE DEF LoopInv
<1>0. c' = c /\ opts' = opts /\ phase' = phase /\ phase \in {"pump", "frame"}
  <2>1. phase' = phase
    BY DEF User, UIPause, UIContinue, UIStepOut, UIStepInto, UIStepOver, UIStepIntoAuto,
           UIStepOverAuto, UIRunTo, Interface
  <2> QED
    BY <2>1, VisitOnly, OptsStep DEF Next
<1>1. Remembers
  BY UserSeen
<1>2. phase = "frame" => UI = "graphical"
  BY DEF User, UIPause, UIContinue, UIStepOut, UIStepInto, UIStepOver, UIStepIntoAuto,
         UIStepOverAuto, UIRunTo, Interface
<1>3. \/ UIPause /\ UI = "graphical"
      \/ UI = "graphical" /\ Stopped(d)
      \/ UI = "text"
  BY DEF User, UIPause, UIContinue, UIStepOut, UIStepInto, UIStepOver, UIStepIntoAuto,
         UIStepOverAuto, UIRunTo, Graphical
<1>4. /\ d'.bps = d.bps \/ d'.bps = NoBps
      /\ \/ ~d'.src.on \/ d'.src = d.src
         \/ (UIStepIntoAuto \/ UIStepOverAuto) /\ (d'.src.on => ByLine(d) \/ d.src.on)
      /\ UIPause => /\ Stopped(d') \/ ~HasUI
                    /\ d'.skip = d.skip /\ d'.moved = d.moved
  <2>1. ASSUME UIPause
        PROVE  /\ Stopped(d') \/ ~HasUI
               /\ d'.skip = d.skip /\ d'.moved = d.moved
    <3>1. Rests(d, d') \/ Stops(d, d')
      BY <2>1, BreakCases DEF UIPause, Interface
    <3> QED
      BY <3>1 DEF Rests, Stops
  <2>2. d'.bps = d.bps \/ d'.bps = NoBps
    BY UserCases DEF Goes, Stops, Keeps, Rests, SameSession
  <2>3. \/ ~d'.src.on \/ d'.src = d.src
        \/ (UIStepIntoAuto \/ UIStepOverAuto) /\ (d'.src.on => ByLine(d) \/ d.src.on)
    BY UserCases DEF Stops, Rests
  <2> QED
    BY <2>1, <2>2, <2>3
<1>5. d'.src.on => opts'.byLine /\ opts'.ui = "graphical"
  BY <1>0, <1>4 DEF StopInv, UI, ByLine, UIStepIntoAuto, UIStepOverAuto, Graphical
<1>6. "stops" \in BpHere(d)' => "stops" \in BpHere(d)
  BY <1>0, <1>4, FewerBps DEF BpHere
<1>7. ASSUME phase = "pump", ~c.waiting, "stops" \in BpHere(d), ~d'.src.on
      PROVE  obs'.halted \/ obs'.fresh
  <2>1. CASE ~d.src.on
    BY <1>1, <1>7, <2>1 DEF StopInv, Visit, Remembers
  <2>2. CASE Stopped(d) \/ Stopped(d')
    BY <1>1, <2>2 DEF Remembers
  <2>3. CASE d.src.on
    BY <1>3, <1>4, <2>2, <2>3 DEF StopInv, HasUI
  <2> QED
    BY <2>1, <2>3
<1>8. ASSUME phase = "frame", d'.skip # None, ~d'.moved
      PROVE  obs'.halted
  <2>1. CASE Stopped(d)
    BY <1>1, <2>1 DEF Remembers
  <2>2. CASE UIPause
    BY <1>1, <1>4, <1>8, <2>2 DEF StopInv, Between, Remembers
  <2> QED
    BY <1>2, <1>3, <1>8, <2>1, <2>2
<1>9. Stopped(d') => obs'.halted
  BY <1>1 DEF Remembers
<1> QED
  BY <1>0, <1>5, <1>6, <1>7, <1>8, <1>9 DEF StopInv, Visit, Between, UI, Stopped

\* Nor do the loop's other steps.
LEMMA StopLoop ==
    ASSUME LoopInv, StopInv,
           \/ PollFast \/ LeaveServe \/ LeavePump \/ Instruction \/ WaitTick \/ FrameEnd
           \/ Interrupt \/ MaskedInterrupt \/ NoInterrupt
    PROVE  StopInv'
<1> USE DEF LoopInv
<1>0. opts' = opts
  BY OptsStep DEF Next, Loop
<1>1. CASE PollFast
  <2>1. c' = c /\ d' = d /\ obs' = obs /\ phase' = "exec" /\ d.mode = "run" /\ BpHere(d) = {"none"}
    BY <1>1 DEF PollFast, NothingToDo
  <2> QED
    BY <1>0, <2>1 DEF StopInv, Visit, Between, BpHere, Stopped, UI
<1>2. CASE LeaveServe \/ LeavePump
  <2>1. /\ c' = c /\ d' = d /\ obs' = obs
        /\ phase \in {"serve", "answer", "pump"}
        /\ phase' \in {"pump", "exec", "poll"}
        /\ phase' = "exec" => ~Stopped(d)
        /\ phase' = "poll" => Stopped(d)
    BY <1>2 DEF LeaveServe, LeavePump, Onward
  <2> QED
    BY <1>0, <2>1 DEF StopInv, Visit, Between, BpHere, Stopped, UI
<1>3. CASE Instruction \/ Interrupt
  <2>1. PICK kind : d' = Watch([d EXCEPT !.moved = TRUE], kind)
    BY <1>3 DEF Instruction, Interrupt
  <2>2. d'.moved /\ d'.src = d.src
    BY <2>1, WatchOK
  <2>3. phase' \in {"frame", "poll"}
    BY <1>3 DEF Instruction, Interrupt
  <2> QED
    BY <1>0, <2>2, <2>3 DEF StopInv, Visit, Between, UI
<1>4. CASE WaitTick
  <2>1. d'.moved /\ d'.src = d.src /\ phase' = "frame"
    BY <1>4, WaitTickOK DEF WaitTick
  <2> QED
    BY <1>0, <2>1 DEF StopInv, Visit, Between, UI
<1>5. CASE FrameEnd
  <2>1. d'.moved = d.moved /\ d'.src = d.src /\ d'.skip = d.skip /\ phase = "frame" /\ phase' = "irq"
    BY <1>5, FrameEndOK DEF FrameEnd
  <2>2. obs'.halted = obs.halted
    BY <1>5, FrameEndSeen
  <2> QED
    BY <1>0, <2>1, <2>2 DEF StopInv, Visit, Between, UI
<1>6. CASE MaskedInterrupt \/ NoInterrupt
  <2>1. d' = d /\ obs' = obs /\ phase \in {"frame", "irq"} /\ phase' = "poll"
    BY <1>6 DEF MaskedInterrupt, NoInterrupt
  <2> QED
    BY <1>0, <2>1 DEF StopInv, Visit, Between, UI
<1> QED
  BY <1>1, <1>2, <1>3, <1>4, <1>5, <1>6

\* Every step keeps what breakpoints rest on.
LEMMA StopStep ==
    ASSUME PlainOptions, LoopInv, StopInv, [Next]_vars
    PROVE  StopInv'
<1>1. CASE UNCHANGED vars
  BY <1>1 DEF StopInv, vars, BpHere, Stopped, UI
<1> QED
  BY <1>1, StopPoll, StopClient, StopUser, StopLoop DEF Next, Loop

\* At the start no breakpoint was passed.
LEMMA StopInit ==
    ASSUME Init
    PROVE  StopInv
BY RunAssumption DEF Init, StopInv, NoSource, Visit, Between, Stopped

\* No instruction with a breakpoint on it is executed before the machine was seen
\* stopped there, whatever interrupts, watched stores, clients and users do in
\* between, source steps aside (debugger.c, DEBUGGetCurrentStatusEx and
\* DEBUGArmResumeSkip).
THEOREM BreakpointsAlwaysStop ==
    ASSUME PlainOptions
    PROVE  Spec => BreakpointsStop
<1>1. Init => StopInv
  BY StopInit
<1>2. LoopInv /\ StopInv /\ [Next]_vars => StopInv'
  BY StopStep
<1>3. StopInv => [Instruction /\ "stops" \in BpHere(d) /\ ~d.src.on => obs.halted \/ obs.fresh]_vars
  BY DEF StopInv, Visit, Instruction
<1> QED
  BY <1>1, <1>2, <1>3, LoopKept, PTL DEF Spec, BreakpointsStop

-----------------------------------------------------------------------------
(* A watched store's mark.                                                 *)

\* Away from the graphical interface, which may act between the store and the
\* check that reports it, a mark means that the machine has just been stopped.
Marked ==
    d.wp => /\ opts.watch # {}
            /\ UI # "graphical" => phase \in Between /\ Stopped(d)

\* Every step keeps a watched store's mark with its stop.
LEMMA MarkedStep ==
    ASSUME LoopInv, Marked, [Next]_vars
    PROVE  Marked'
<1> USE DEF LoopInv
<1>0. opts' = opts
  BY OptsStep DEF vars
<1>1. CASE PollFull
  BY <1>1, PollPlain DEF Marked
<1>2. CASE Instruction \/ Interrupt
  <2>1. PICK kind : d' = Watch([d EXCEPT !.moved = TRUE], kind)
    BY <1>2 DEF Instruction, Interrupt
  <2>2. /\ phase' \in Between
        /\ \/ d'.mode = d.mode /\ d'.wp = d.wp
           \/ Stopped(d') /\ kind \in opts.watch
    BY <1>2, <2>1, WatchOK DEF Instruction, Interrupt, Between
  <2>3. phase \in Between => phase # "exec"
    BY DEF Between
  <2> QED
    BY <1>0, <2>2 DEF Marked, UI, Stopped
<1>3. CASE WaitTick
  BY <1>0, <1>3, WaitTickOK DEF Marked, UI, Stopped, SameSession, WaitTick, Between
<1>4. CASE FrameEnd
  BY <1>0, <1>4, FrameEndOK DEF Marked, UI, Stopped, FrameEnd, Between
<1>5. CASE PollFast \/ LeaveServe \/ LeavePump \/ MaskedInterrupt \/ NoInterrupt
  BY <1>0, <1>5 DEF Marked, UI, Stopped, Between, PollFast, NothingToDo, LeaveServe, LeavePump,
     MaskedInterrupt, NoInterrupt
<1>6. CASE Client \/ User
  <2>1. d'.wp = d.wp
    BY <1>6, ServeSession
  <2>2. CASE ClientStalls
    BY <1>0, <2>1, <2>2, StallOK DEF Marked, UI, Stopped, ClientStalls
  <2>3. CASE Client /\ ~ClientStalls
    BY <1>0, <2>1, <2>3, VisitOnly DEF Marked, UI, Between
  <2>4. CASE User
    <3>1. phase = "pump" \/ UI = "graphical"
      BY <2>4 DEF User, UIPause, UIContinue, UIStepOut, UIStepInto, UIStepOver, UIStepIntoAuto,
         UIStepOverAuto, UIRunTo, Interface
    <3> QED
      BY <1>0, <2>1, <3>1 DEF Marked, UI, Between
  <2> QED
    BY <1>6, <2>2, <2>3, <2>4
<1>7. CASE UNCHANGED vars
  BY <1>7 DEF Marked, vars, UI, Stopped
<1> QED
  BY <1>1, <1>2, <1>3, <1>4, <1>5, <1>6, <1>7 DEF Next, Loop

\* A watched store's stop is reported at the next check, and until then the
\* machine stands where DEBUGBreakOnWatchpoint stopped it, unless a graphical user
\* acts in between (debugger.c).
THEOREM MarkKept == Spec => []Marked
<1>1. Init => Marked
  BY DEF Init, Marked
<1>2. LoopInv /\ Marked /\ [Next]_vars => Marked'
  BY MarkedStep
<1> QED
  BY <1>1, <1>2, LoopKept, PTL DEF Spec

-----------------------------------------------------------------------------
(* A single step executes one instruction.                                 *)

\* As above, and a graphical user, who may command between a watched store and
\* the check that reports it, watches none.
StepOptions ==
    \A o \in Options : /\ o.byLine => ~o.dap
                       /\ o.ui = "graphical" => o.watch = {}

\* After a command to step once the machine is stopped, or it stands where it
\* was given, or has not been seen since the instruction.
SingleInv ==
    /\ d.src.on => opts.byLine /\ UI = "graphical" /\ ~Stopped(d)
    /\ phase = "exec" => ~Stopped(d)
    /\ obs.cmd = "into" =>
          /\ ~d.src.on
          /\ d.mode # "run"
          /\ d.mode = "step" => d.shown = obs.from
          /\ d.mode = "step" /\ phase \in Visit => obs.ran = 0 \/ c.pc = obs.from

\* No stage leaves a source step to a stopped machine.
LEMMA SourceRuns ==
    ASSUME Shape(d), Ears(d), d.src.on => ~Stopped(d)
    PROVE  /\ S5.src.on => ~Stopped(S5)
           /\ ~S6.src.on
<1>0. Shape(S1) /\ Shape(S2) /\ Shape(S3) /\ Shape(S4) /\ Shape(S5)
  BY StagesKeep DEF Keeps
<1>1. S1.src.on => ~Stopped(S1)
  BY FollowCases DEF S1, Stops
<1>2. S2.src.on => ~Stopped(S2)
  BY <1>0, <1>1, ReportWatchCases DEF S2, Reports, Stopped
<1>3. S3.src.on => ~Stopped(S3)
  BY <1>0, <1>2, RetireStepCases DEF S3, Stops, GoesOn, Goes
<1>4. S4.src.on => ~Stopped(S4)
  BY <1>0, <1>3, DropSkipCases DEF S4, Stopped
<1>5. S5.src.on => ~Stopped(S5)
  BY <1>0, <1>4, ArrivalCases DEF S5, Stops, GoesOn, Goes
<1>6. ~S6.src.on
  BY <1>0, BreakCases DEF S6, Stops, Rests
<1> QED
  BY <1>5, <1>6

\* The check of a machine that steps once, and loses no client over it.
LEMMA SingleCheck ==
    ASSUME Shape(d), Ears(d), ~d.src.on, d.mode # "run", d.wp => Stopped(d),
           NEW s \in {S5, S6}, d.client => s.client
    PROVE  \/ Stopped(s)
           \/ d.mode = "step" /\ s.mode = "step" /\ s.shown = d.shown /\ s.shown = c.pc
<1> DEFINE Mine(r) == d.client => r.client
<1>0. /\ Shape(S1) /\ Shape(S2) /\ Shape(S3) /\ Shape(S4) /\ Shape(S5)
      /\ S1.client => d.client
  BY StagesKeep DEF Keeps
<1>1. /\ S6.client => S5.client
      /\ S5.client => S4.client
      /\ S4.client = S3.client
      /\ S3.client => S2.client
      /\ S2.client => S1.client
  BY <1>0, FollowCases, ReportWatchCases, RetireStepCases, DropSkipCases, ArrivalCases, BreakCases
     DEF S1, S2, S3, S4, S5, S6, Stops, Reports, GoesOn, Goes, Keeps, Rests, SameSession
<1>2. Mine(S1) /\ Mine(S2) /\ Mine(S3) /\ Mine(S4) /\ Mine(S5)
  BY <1>1
<1>3. S1 = d \/ (Stopped(S1) /\ ~S1.src.on)
  <2>1. S1 = d \/ Stops(d, S1)
    BY FollowCases DEF S1
  <2> QED
    BY <1>2, <2>1 DEF Stops
<1>4. ~S2.src.on /\ (Stopped(S2) \/ (d.mode = "step" /\ S2.mode = "step" /\ S2.shown = d.shown))
  <2>1. (~S1.wp /\ S2 = S1) \/ (S1.wp /\ Reports(S1, S2))
    BY <1>0, ReportWatchCases DEF S2
  <2>2. CASE S2 = S1
    BY <1>3, <2>2 DEF Stopped, Shape
  <2>3. CASE S1.wp /\ Reports(S1, S2)
    <3>1. Stopped(S1) /\ ~S1.src.on
      BY <1>3, <2>3
    <3>2. S2.mode = S1.mode
      BY <1>0, <1>2, <2>3 DEF Reports
    <3> QED
      BY <2>3, <3>1, <3>2 DEF Reports, Stopped
  <2> QED
    BY <2>1, <2>2, <2>3
<1>5. /\ ~S3.src.on
      /\ \/ Stopped(S3)
         \/ d.mode = "step" /\ S3.mode = "step" /\ S3.shown = d.shown /\ S3.shown = c.pc
  <2>1. \/ S3 = S2 /\ (S2.mode = "step" => S2.shown = c.pc)
        \/ Stops(S2, S3) \/ GoesOn(S2, S3)
    BY <1>0, RetireStepCases DEF S3
  <2>2. CASE Stops(S2, S3)
    BY <1>0, <1>1, <1>2, <2>2 DEF Stops
  <2> QED
    BY <1>4, <2>1, <2>2 DEF GoesOn
<1>6. /\ ~S4.src.on
      /\ \/ Stopped(S4)
         \/ d.mode = "step" /\ S4.mode = "step" /\ S4.shown = d.shown /\ S4.shown = c.pc
  BY <1>0, <1>5, DropSkipCases DEF S4, Stopped
<1>7. /\ ~S5.src.on
      /\ \/ Stopped(S5)
         \/ d.mode = "step" /\ S5.mode = "step" /\ S5.shown = d.shown /\ S5.shown = c.pc
  <2>1. S5 = S4 \/ Stops(S4, S5) \/ GoesOn(S4, S5)
    BY <1>0, ArrivalCases DEF S5
  <2>2. CASE Stops(S4, S5)
    BY <1>0, <1>1, <1>2, <2>2 DEF Stops
  <2> QED
    BY <1>6, <2>1, <2>2 DEF GoesOn
<1>8. CASE s = S6
  <2>1. Rests(S5, S6) \/ Stops(S5, S6)
    BY <1>0, BreakCases DEF S6
  <2> QED
    BY <1>0, <1>1, <1>2, <1>8, <2>1 DEF Rests, Stops
<1> QED
  BY <1>7, <1>8

\* A check retires a step once it has gone anywhere.
LEMMA SinglePoll ==
    ASSUME StepOptions, LoopInv, Marked, SingleInv, PollFull
    PROVE  SingleInv'
<1> USE DEF LoopInv
<1>1. PICK s \in {S5, S6} : d' = StepPoll(s)
  BY StagesOfCheck DEF PollFull
<1>2. /\ Keeps(d, s) /\ Shape(s) /\ Ears(s)
      /\ s.src.on => d.src.on /\ ~Stopped(s)
  BY <1>1, StagesKeep, StagesSource, SourceRuns DEF Keeps, SingleInv
<1>3. d' = s \/ Replies(s, d')
  BY <1>1, <1>2, StepPollCases
<1>4. /\ phase = "poll" /\ (phase' = "exec" => d'.mode = "run")
      /\ c'.pc = c.pc /\ opts' = opts
  BY DEF PollFull, CpuOK
<1>5. /\ d.client /\ ~d'.client => obs'.cmd = "other"
      /\ obs'.cmd \in {obs.cmd, "other"}
      /\ obs'.from = obs.from
  BY PollSeen
<1>6. d'.src.on => opts'.byLine /\ opts'.ui = "graphical" /\ ~Stopped(d')
  BY <1>2, <1>3, <1>4 DEF SingleInv, Replies, UI
<1>7. ASSUME obs'.cmd = "into"
      PROVE  ~d'.src.on /\ (Stopped(d') \/ (d'.mode = "step" /\ d'.shown = obs'.from /\ c'.pc = obs'.from))
  <2>1. obs.cmd = "into" /\ (d.client => d'.client)
    BY <1>5, <1>7
  <2>2. d.client => s.client
    BY <1>3, <2>1 DEF Replies
  <2>3. d.wp => Stopped(d)
    BY DEF Marked, StepOptions, UI
  <2>4. ~d.src.on /\ d.mode # "run" /\ (d.mode = "step" => d.shown = obs.from)
    BY <2>1 DEF SingleInv
  <2>5. Stopped(s) \/ (d.mode = "step" /\ s.mode = "step" /\ s.shown = d.shown /\ s.shown = c.pc)
    BY <1>1, <2>2, <2>3, <2>4, SingleCheck
  <2>6. CASE d' = s
    <3>1. ~d'.src.on
      BY <1>2, <2>4, <2>6
    <3>2. CASE Stopped(s)
      BY <2>6, <3>1, <3>2
    <3>3. CASE d.mode = "step" /\ s.mode = "step" /\ s.shown = d.shown /\ s.shown = c.pc
      BY <1>4, <1>5, <2>4, <2>6, <3>1, <3>3
    <3> QED
      BY <2>5, <3>2, <3>3
  <2>7. CASE Replies(s, d')
    <3>1. ~d'.src.on
      BY <1>2, <2>4, <2>7 DEF Replies
    <3>2. s.client => d'.client
      BY <1>2, <2>1 DEF Keeps
    <3> QED
      BY <2>7, <3>1, <3>2 DEF Replies
  <2> QED
    BY <1>3, <2>6, <2>7
<1> QED
  BY <1>4, <1>6, <1>7 DEF SingleInv, Stopped, UI

\* A source step is under way for no client, nor is one begun.
LEMMA NoClientSource ==
    ASSUME StepOptions, LoopInv, SingleInv, d.client
    PROVE  ~d.src.on /\ ~opts.byLine
BY DEF StepOptions, LoopInv, SingleInv

\* A client's commands.
LEMMA SingleClient ==
    ASSUME StepOptions, LoopInv, SingleInv, Client
    PROVE  SingleInv'
<1> USE DEF LoopInv
<1>0. c' = c /\ opts' = opts
  BY VisitOnly, OptsStep DEF Next
<1> DEFINE Held == /\ d'.src = d.src /\ d'.mode = d.mode /\ d'.shown = d.shown
                   /\ obs'.cmd \in {obs.cmd, "other"} /\ obs'.ran = obs.ran /\ obs'.from = obs.from
           Other == ~d'.src.on /\ obs'.cmd # "into"
           Halt == ~d'.src.on /\ (obs'.cmd = "into" => Stopped(d'))
<1>1. CASE ClientStalls
  <2>1. Held /\ phase' = phase
    BY <1>1, StallOK DEF ClientStalls
  <2> QED
    BY <1>0, <2>1 DEF SingleInv, Stopped, UI
<1>2. CASE ~ClientStalls
  <2>1. /\ phase \in {"serve", "answer"}
        /\ phase' \in Visit
        /\ phase' = "exec" => ~Stopped(d')
    BY <1>2 DEF Client, ServeContinue, ServeStepIn, ServeNext, ServeStepOut, ServePause,
           ServeFrames, ServeTerminate, ServeDisconnect, ServeConfigured, ServeBreakpoints,
           ServeDrop, ServeAttach, Session, Onward, Visit
  <2>2. d.session => ~d.src.on /\ ~opts.byLine
    BY NoClientSource DEF Ears
  <2>3. CASE ServeContinue \/ ServeNext \/ ServeStepOut
    <3>1. d.session
      BY <2>3 DEF ServeContinue, ServeNext, ServeStepOut, Session
    <3>2. Other
      BY <2>2, <2>3, <3>1, RequestCases, RequestSeen
    <3> QED
      BY <2>1, <3>2 DEF SingleInv
  <2>4. CASE ServeStepIn
    <3>1. d.session
      BY <2>4 DEF ServeStepIn, Session
    <3>2. Resumes(d, d') /\ d'.mode = "step" /\ ~d'.src.on
      BY <2>2, <2>4, <3>1, RequestCases
    <3>3. obs'.cmd # "into" \/ (obs'.ran = 0 /\ obs'.from = c.pc)
      BY <2>4, RequestSeen
    <3> QED
      BY <2>1, <3>2, <3>3 DEF SingleInv, Resumes
  <2>5. CASE ServeFrames
    <3>1. Other
      BY <2>5, FramesCases, RequestSeen
    <3> QED
      BY <2>1, <3>1 DEF SingleInv
  <2>6. CASE ServeTerminate \/ ServeDisconnect
    <3>1. d.session
      BY <2>6 DEF ServeTerminate, ServeDisconnect, Session
    <3>2. Other
      BY <2>2, <2>6, <3>1, RequestCases, RequestSeen DEF Ends
    <3> QED
      BY <2>1, <3>2 DEF SingleInv
  <2>7. CASE ServePause \/ ServeConfigured
    <3>1. d.session /\ d.client
      BY <2>7 DEF ServePause, ServeConfigured, Session, Ears
    <3>2. PICK s : /\ Answers(d, s) /\ d' = StepPoll(s)
                   /\ Stopped(s) \/ LetGo(d, s) \/ ServeConfigured
      BY <2>7, RequestCases
    <3>3. Shape(s) /\ Ears(s) /\ ~s.src.on
      BY <2>2, <3>1, <3>2 DEF Answers, Keeps
    <3>4. d' = s \/ Replies(s, d')
      BY <3>2, <3>3, StepPollCases
    <3>5. ~d'.src.on
      BY <3>3, <3>4 DEF Replies
    <3>6. CASE ServeConfigured
      <4>1. Other
        BY <3>5, <3>6, RequestSeen
      <4> QED
        BY <2>1, <4>1 DEF SingleInv
    <3>7. CASE ServePause /\ ~ServeConfigured
      <4>1. d.client /\ ~d'.client => obs'.cmd = "other"
        BY <3>7, ClientSeen DEF Remembers
      <4>2. Stopped(d') \/ ~d'.client
        BY <3>2, <3>4, <3>7 DEF Replies, LetGo
      <4>3. Halt
        BY <3>1, <3>5, <4>1, <4>2
      <4> QED
        BY <2>1, <4>3 DEF SingleInv, Stopped
    <3> QED
      BY <2>7, <3>6, <3>7
  <2>8. CASE ServeBreakpoints
    <3>1. d.session /\ d.client
      BY <2>8 DEF ServeBreakpoints, Session, Ears
    <3>2. PICK t, s : /\ d' = StepPoll(s) /\ Passes(t, s) /\ Ears(s)
                      /\ t.mode = d.mode /\ t.shown = d.shown /\ t.src = d.src
                      /\ t.client = d.client
      BY <2>8, BreakpointsCases
    <3>3. /\ Shape(s) /\ s.src = d.src /\ s.shown = d.shown
          /\ s.mode = d.mode \/ ~s.client
      BY <3>2 DEF Passes, Freed
    <3>4. d' = s \/ Replies(s, d')
      BY <3>2, <3>3, StepPollCases
    <3>5. ~d'.src.on
      BY <2>2, <3>1, <3>3, <3>4 DEF Replies
    <3>6. /\ d.client /\ ~d'.client => obs'.cmd = "other"
          /\ obs'.cmd \in {obs.cmd, "other"} /\ obs'.ran = obs.ran /\ obs'.from = obs.from
      BY <2>8, ClientSeen DEF Remembers
    <3>7. CASE obs'.cmd # "into"
      BY <2>1, <3>5, <3>7 DEF SingleInv
    <3>8. CASE obs'.cmd = "into"
      <4>1. d'.client /\ obs.cmd = "into"
        BY <3>1, <3>6, <3>8
      <4>2. CASE d' = s
        <5>1. d'.mode = d.mode /\ d'.shown = d.shown
          BY <3>3, <4>1, <4>2
        <5> QED
          BY <1>0, <2>1, <3>5, <3>6, <4>1, <5>1 DEF SingleInv, Visit
      <4>3. CASE Replies(s, d')
        <5>1. Stopped(d')
          BY <4>1, <4>3 DEF Replies
        <5> QED
          BY <2>1, <3>5, <5>1 DEF SingleInv, Stopped
      <4> QED
        BY <3>4, <4>2, <4>3
    <3> QED
      BY <3>7, <3>8
  <2>9. CASE ServeDrop
    <3>1. ~d.src.on /\ d'.src = d.src
      BY <2>9, NoClientSource, ServeDropOK DEF Passes
    <3>2. obs'.cmd = "other"
      BY <2>9, ServeDropOK, ClientSeen DEF Gone, Remembers
    <3> QED
      BY <2>1, <3>1, <3>2 DEF SingleInv
  <2>10. CASE ServeAttach
    <3>1. Held
      BY <2>10, AttachOK, ClientSeen
    <3> QED
      BY <1>0, <2>1, <3>1 DEF SingleInv, Stopped, UI, Visit
  <2> QED
    BY <1>2, <2>3, <2>4, <2>5, <2>6, <2>7, <2>8, <2>9, <2>10 DEF Client
<1> QED
  BY <1>1, <1>2

\* A user's commands.
LEMMA SingleUser ==
    ASSUME StepOptions, LoopInv, SingleInv, User
    PROVE  SingleInv'
<1> USE DEF LoopInv
<1>0. c' = c /\ opts' = opts /\ phase' = phase /\ phase # "exec"
  <2>1. phase' = phase
    BY DEF User, UIPause, UIContinue, UIStepOut, UIStepInto, UIStepOver, UIStepIntoAuto,
           UIStepOverAuto, UIRunTo, Interface
  <2> QED
    BY <2>1, VisitOnly, OptsStep DEF Next
<1>1. /\ UIStepInto \/ UIStepOver => UI = "text"
      /\ UIStepIntoAuto \/ UIStepOverAuto => UI = "graphical" /\ Stopped(d)
      /\ UIStepOut => UI = "text" \/ Stopped(d)
  BY DEF UIStepInto, UIStepOver, UIStepIntoAuto, UIStepOverAuto, UIStepOut, Graphical
<1>2. d.src.on => UI = "graphical" /\ ~Stopped(d) /\ opts.byLine
  BY DEF SingleInv
<1>3. ~Stopped(d') \/ ~d'.src.on
  BY UserCases DEF Goes, Stops, Rests
<1>4. d'.src.on => opts.byLine /\ UI = "graphical"
  BY <1>1, <1>2, UserCases DEF ByLine, Stops, Rests
<1>5. ASSUME obs'.cmd = "into"
      PROVE  ~d'.src.on /\ d'.mode = "step" /\ d'.shown = obs'.from /\ obs'.ran = 0
  <2>1. PICK act \in {"pause", "into", "auto"} :
          \/ act = "pause" /\ UIPause /\ obs.cmd = "into"
          \/ act = "into" /\ UIStepInto /\ obs'.ran = 0 /\ obs'.from = c.pc
          \/ act = "auto" /\ UIStepIntoAuto /\ ~ByLine(d) /\ obs'.ran = 0 /\ obs'.from = c.pc
    BY <1>5, UserSeen
  <2>2. CASE act = "pause"
    BY <2>1, <2>2 DEF SingleInv, UIPause
  <2>3. CASE act = "into"
    <3>1. d' = StepInto(d)
      BY <2>1, <2>3 DEF UIStepInto, Interface
    <3> QED
      BY <1>1, <1>2, <2>1, <2>3, <3>1, StepIntoGoes DEF Goes
  <2>4. CASE act = "auto"
    <3>1. d' = StepIntoAuto(d)
      BY <2>1, <2>4 DEF UIStepIntoAuto, Interface
    <3> QED
      BY <1>1, <1>2, <2>1, <2>4, <3>1, StepIntoAutoGoes DEF Goes
  <2> QED
    BY <2>1, <2>2, <2>3, <2>4
<1> QED
  BY <1>0, <1>3, <1>4, <1>5 DEF SingleInv, UI, Stopped

\* The loop's other steps.
LEMMA SingleLoop ==
    ASSUME StepOptions, LoopInv, SingleInv,
           \/ PollFast \/ LeaveServe \/ LeavePump \/ Instruction \/ WaitTick \/ FrameEnd
           \/ Interrupt \/ MaskedInterrupt \/ NoInterrupt
    PROVE  SingleInv'
<1> USE DEF LoopInv
<1>0. opts' = opts
  BY OptsStep DEF Next, Loop
<1>1. CASE PollFast
  <2>1. c' = c /\ d' = d /\ obs' = obs /\ phase' = "exec" /\ d.mode = "run"
    BY <1>1 DEF PollFast, NothingToDo
  <2> QED
    BY <1>0, <2>1 DEF SingleInv, Stopped, UI
<1>2. CASE LeaveServe \/ LeavePump
  <2>1. /\ c' = c /\ d' = d /\ obs' = obs
        /\ phase \in Visit
        /\ phase' = "exec" => ~Stopped(d)
    BY <1>2 DEF LeaveServe, LeavePump, Onward, Visit
  <2> QED
    BY <1>0, <2>1 DEF SingleInv, Stopped, UI
<1>3. CASE Instruction \/ Interrupt
  <2>1. PICK kind : d' = Watch([d EXCEPT !.moved = TRUE], kind)
    BY <1>3 DEF Instruction, Interrupt
  <2>2. /\ d'.src = d.src /\ d'.shown = d.shown
        /\ \/ d'.mode = d.mode
           \/ Stopped(d') /\ kind \in opts.watch
    BY <2>1, WatchOK
  <2>3. phase' \in Between
    BY <1>3 DEF Instruction, Interrupt, Between
  <2>4. obs'.cmd = obs.cmd /\ obs'.from = obs.from
    <3>1. CASE Instruction
      BY <3>1, InstructionSeen
    <3>2. CASE Interrupt
      BY <3>2, AfreshOK DEF Interrupt
    <3> QED
      BY <1>3, <3>1, <3>2
  <2>5. d.src.on => d'.mode = d.mode
    BY <2>2 DEF SingleInv, StepOptions, UI
  <2> QED
    BY <1>0, <2>2, <2>3, <2>4, <2>5 DEF SingleInv, Visit, Between, UI, Stopped
<1>4. CASE WaitTick
  <2>1. /\ d'.src = d.src /\ d'.mode = d.mode /\ d'.shown = d.shown /\ phase' = "frame"
        /\ obs' = obs
    BY <1>4, WaitTickOK DEF WaitTick
  <2> QED
    BY <1>0, <2>1 DEF SingleInv, Visit, Stopped, UI
<1>5. CASE FrameEnd
  <2>1. /\ d'.src = d.src /\ d'.shown = d.shown /\ phase' = "irq" /\ d.frames.pending
        /\ Stopped(d') \/ d'.mode = d.mode
    BY <1>5, FrameEndOK DEF FrameEnd
  <2>2. obs'.cmd = obs.cmd /\ obs'.from = obs.from
    BY <1>5, FrameEndSeen
  <2>3. ~d.src.on
    BY <2>1, NoClientSource DEF Ears
  <2> QED
    BY <1>0, <2>1, <2>2, <2>3 DEF SingleInv, Visit, Stopped
<1>6. CASE MaskedInterrupt \/ NoInterrupt
  <2>1. d' = d /\ obs' = obs /\ phase' = "poll"
    BY <1>6 DEF MaskedInterrupt, NoInterrupt
  <2> QED
    BY <1>0, <2>1 DEF SingleInv, Visit, Stopped, UI
<1> QED
  BY <1>1, <1>2, <1>3, <1>4, <1>5, <1>6

\* A step into an instruction executes that one, whatever is served, interrupts
\* or ends a session in between (debugger.c, DEBUGStepInto).
THEOREM StepsOneInstruction ==
    ASSUME StepOptions
    PROVE  Spec => OneInstruction
<1>1. Init => SingleInv
  BY DEF Init, SingleInv, NoSource, Stopped
<1>2. LoopInv /\ Marked /\ SingleInv /\ [Next]_vars => SingleInv'
  <2> SUFFICES ASSUME LoopInv, Marked, SingleInv, [Next]_vars
               PROVE  SingleInv'
    OBVIOUS
  <2>1. CASE UNCHANGED vars
    BY <2>1 DEF SingleInv, vars, Stopped, UI
  <2> QED
    BY <2>1, SinglePoll, SingleClient, SingleUser, SingleLoop DEF Next, Loop
<1>3. LoopInv /\ SingleInv => [Instruction /\ obs.cmd = "into" => obs.ran = 0 \/ c.pc = obs.from]_vars
  <2> SUFFICES ASSUME LoopInv, SingleInv, Instruction, obs.cmd = "into"
               PROVE  obs.ran = 0 \/ c.pc = obs.from
    OBVIOUS
  <2>1. phase = "exec" /\ d.mode = "step"
    BY DEF SingleInv, Instruction, LoopInv, Shape, Stopped
  <2> QED
    BY <2>1 DEF SingleInv, Visit
<1> QED
  BY <1>1, <1>2, <1>3, LoopKept, MarkKept, PTL DEF Spec, OneInstruction

-----------------------------------------------------------------------------
(* What a client in its session has been told.                             *)

ToldStop(s) == s.heard > 0 \/ s.replied

\* It was told of a stop only if the machine is stopped, and once; a stop that
\* is still to be told, a watched store's or the last frame's, was not.
Informed(s) ==
    s.session =>
      /\ ToldStop(s) => Stopped(s)
      /\ s.heard <= 1
      /\ s.replied => UI = "none"
      /\ s.frames.pending => opts.frames > 0
      /\ s.frames.pending /\ s.frames.byFrames => Stopped(s) /\ ~ToldStop(s)
      /\ s.wp => Stopped(s) /\ ~ToldStop(s) /\ ~(s.frames.pending /\ s.frames.byFrames)

\* A stopped machine's client was told of it, or is about to be.
Owed(s) == s.session /\ Stopped(s) => ToldStop(s) \/ s.wp \/ s.frames.pending

\* A stop of a machine that ran is told once, or will be by the reply.
LEMMA StopsInforms ==
    ASSUME NEW s, NEW r, Shape(s), Ears(s), Informed(s), s.session => ~Stopped(s), Stops(s, r)
    PROVE  Informed(r) /\ Owed(r)
<1> SUFFICES ASSUME r.session
             PROVE  Informed(r) /\ Owed(r)
  BY DEF Informed, Owed
<1>1. s.session /\ r.frames = s.frames /\ r.wp = s.wp
  BY DEF Stops, Keeps
<1>2. /\ ~s.replied /\ s.heard = 0 /\ ~s.wp /\ ~(s.frames.pending /\ s.frames.byFrames)
      /\ s.frames.pending => opts.frames > 0
  BY <1>1 DEF Informed, ToldStop, Shape
<1>3. /\ Stopped(r) /\ ~r.replied /\ r.heard <= 1
      /\ r.heard > 0 \/ r.frames.pending
  BY <1>1, <1>2 DEF Stops
<1> QED
  BY <1>1, <1>2, <1>3 DEF Informed, Owed, ToldStop

\* A machine set going, of which nothing is still to be told.
LEMMA GoesInforms ==
    ASSUME NEW s, NEW r, Shape(s), Ears(s), Informed(s), Goes(s, r),
           s.session => ~s.replied /\ ~s.wp /\ ~(s.frames.pending /\ s.frames.byFrames)
    PROVE  Informed(r) /\ Owed(r) /\ ~Stopped(r)
<1>1. ~Stopped(r)
  BY DEF Goes
<1> SUFFICES ASSUME r.session
             PROVE  Informed(r)
  BY <1>1 DEF Informed, Owed
<1>2. s.session /\ r.frames = s.frames /\ r.wp = s.wp /\ r.heard = 0 /\ ~r.replied
  BY DEF Goes, Keeps
<1> QED
  BY <1>2 DEF Informed, ToldStop

\* The machine set going while it still ran, as by a source step.
LEMMA RunsOnInforms ==
    ASSUME NEW s, NEW r, Shape(s), Ears(s), Informed(s), s.session => ~Stopped(s), Goes(s, r)
    PROVE  Informed(r) /\ Owed(r)
<1>1. s.session => ~s.replied /\ ~s.wp /\ ~(s.frames.pending /\ s.frames.byFrames)
  BY DEF Informed, ToldStop
<1> QED
  BY <1>1, GoesInforms

\* A watched store's stop is told when it is reported.
LEMMA ReportsInforms ==
    ASSUME NEW s, NEW r, Shape(s), Ears(s), Informed(s), s.wp, Reports(s, r)
    PROVE  Informed(r) /\ Owed(r)
<1> SUFFICES ASSUME r.session
             PROVE  Informed(r) /\ Owed(r)
  BY DEF Informed, Owed
<1>1. s.session /\ r.frames = s.frames /\ ~r.wp
  BY DEF Reports, Keeps
<1>2. /\ ~s.replied /\ s.heard = 0 /\ Stopped(s) /\ ~(s.frames.pending /\ s.frames.byFrames)
      /\ s.frames.pending => opts.frames > 0
  BY <1>1 DEF Informed, ToldStop, Shape
<1>3. /\ Stopped(r) /\ ~r.replied /\ r.heard <= 1
      /\ r.heard > 0 \/ r.frames.pending
  BY <1>1, <1>2 DEF Reports, Stopped
<1> QED
  BY <1>1, <1>2, <1>3 DEF Informed, Owed, ToldStop

\* Nothing that is told changes.
LEMMA SameInforms ==
    ASSUME NEW s, NEW r, SameSession(s, r), s.session => (Stopped(r) <=> Stopped(s))
    PROVE  (Informed(s) => Informed(r)) /\ (Owed(s) => Owed(r))
BY DEF SameSession, Informed, Owed, ToldStop

\* The reply to x16/step tells of the stop, and an event may once more.
LEMMA RepliesInforms ==
    ASSUME NEW s, NEW r, Shape(s), Ears(s), Informed(s), Replies(s, r),
           opts.frames > 0 => UI = "none", ~s.wp
    PROVE  Informed(r) /\ Owed(r)
<1> SUFFICES ASSUME r.session
             PROVE  Informed(r) /\ Owed(r)
  BY DEF Informed, Owed
<1>1. s.session /\ s.frames.pending /\ ~r.frames.pending /\ ~r.wp /\ Stopped(r) /\ r.replied
  BY DEF Replies
<1>2. UI = "none"
  BY <1>1 DEF Informed
<1>3. r.heard <= 1
  <2>1. CASE s.frames.byFrames
    <3>1. s.heard = 0
      BY <1>1, <2>1 DEF Informed, ToldStop, Shape
    <3> QED
      BY <3>1 DEF Replies
  <2>2. CASE ~s.frames.byFrames
    BY <1>1, <2>2 DEF Replies, Informed
  <2> QED
    BY <2>1, <2>2
<1> QED
  BY <1>1, <1>2, <1>3 DEF Informed, Owed, ToldStop

\* step_poll, at the end of a visit's every step.
LEMMA PolledInforms ==
    ASSUME NEW s, Shape(s), Ears(s), Informed(s), ~s.wp,
           opts.frames > 0 => UI = "none"
    PROVE  LET r == StepPoll(s)
           IN  /\ Informed(r)
               /\ Owed(s) => Owed(r)
               /\ ~r.wp
               /\ r.frames.pending => ~Stopped(r)
               /\ r.mode = s.mode \/ Stopped(s)
<1> DEFINE r == StepPoll(s)
<1>1. \/ r = s /\ ~(s.frames.pending /\ Stopped(s))
      \/ Replies(s, r)
  BY StepPollCases
<1> HIDE DEF r
<1>2. CASE r = s /\ ~(s.frames.pending /\ Stopped(s))
  BY <1>2 DEF r
<1>3. CASE Replies(s, r)
  <2>1. Informed(r) /\ Owed(r)
    BY <1>3, RepliesInforms
  <2> QED
    BY <1>3, <2>1 DEF Replies, r
<1> QED
  BY <1>1, <1>2, <1>3

-----------------------------------------------------------------------------
(* The check, and the reply it may make.                                   *)

\* The settings under which a client is told the truth.  Left out: a stop by a
\* watched store, or a taken interrupt that always stops, on top of another stop
\* or between it and a person's next command; and a person who sets a machine
\* going behind a client that asked not to be told.
KnowsOptions ==
    \A o \in Options :
        /\ o.dap /\ o.watch # {} => o.ui # "graphical" /\ ~o.breakOn
        /\ o.dap /\ o.breakOn => o.ui # "graphical" /\ o.frames = 0
        /\ o.frames > 0 => o.ui = "none"

\* What holds of the loop between its steps.
KnowsInv ==
    /\ Informed(d)
    /\ obs.synced => Owed(d)
    /\ phase = "exec" => ~Stopped(d)
    /\ d.session /\ phase \in Visit => ~d.wp /\ (d.frames.pending => ~Stopped(d))
    /\ c.entered => phase = "poll"
    /\ opts.dap /\ opts.breakOn /\ (phase \in {"frame", "irq"} \/ c.entered) => ~Stopped(d)

\* What the options say of the settings in force.
InForce ==
    /\ opts.dap /\ opts.watch # {} => UI # "graphical" /\ ~opts.breakOn
    /\ opts.dap /\ opts.breakOn => UI # "graphical" /\ opts.frames = 0
    /\ opts.frames > 0 => UI = "none"

\* The hypothesis holds of the settings in force.
LEMMA OptionsInForce ==
    ASSUME KnowsOptions, opts \in Options
    PROVE  InForce
BY DEF KnowsOptions, InForce, UI

\* What the check makes of the session, up to the Break key.
LEMMA StagesInform ==
    ASSUME LoopInv, KnowsInv
    PROVE  /\ Shape(S5) /\ Ears(S5) /\ Informed(S5) /\ (Owed(d) => Owed(S5)) /\ ~S5.wp
           /\ Shape(S6) /\ Ears(S6) /\ Informed(S6) /\ (Owed(d) => Owed(S6)) /\ ~S6.wp
<1>0. /\ Shape(d) /\ Ears(d)
      /\ Shape(S1) /\ Ears(S1) /\ Shape(S2) /\ Ears(S2) /\ Shape(S3) /\ Ears(S3)
      /\ Shape(S4) /\ Ears(S4) /\ Shape(S5) /\ Ears(S5) /\ Shape(S6) /\ Ears(S6)
      /\ ~S2.wp /\ ~S5.wp /\ ~S6.wp
  <2>1. Shape(d) /\ Ears(d)
    BY DEF LoopInv
  <2> QED
    BY <2>1, StagesKeep DEF Keeps
<1>1. Informed(S1) /\ (Owed(d) => Owed(S1))
  <2>1. S1 = d \/ (c.entered /\ (opts.breakOn \/ ~Stopped(d)) /\ Stops(d, S1))
    BY <1>0, FollowCases DEF S1
  <2>2. CASE S1 = d
    BY <2>2 DEF KnowsInv
  <2>3. CASE c.entered /\ (opts.breakOn \/ ~Stopped(d)) /\ Stops(d, S1)
    <3>1. d.session => ~Stopped(d)
      BY <2>3 DEF KnowsInv, LoopInv, Ears
    <3> QED
      BY <1>0, <2>3, <3>1, StopsInforms DEF KnowsInv
  <2> QED
    BY <2>1, <2>2, <2>3
<1>2. Informed(S2) /\ (Owed(d) => Owed(S2))
  <2>1. (~S1.wp /\ S2 = S1) \/ (S1.wp /\ Reports(S1, S2))
    BY <1>0, ReportWatchCases DEF S2
  <2> QED
    BY <1>0, <1>1, <2>1, ReportsInforms
<1>3. Informed(S3) /\ (Owed(d) => Owed(S3))
  <2>1. S3 = S2 \/ (S2.mode = "step" /\ (Stops(S2, S3) \/ Goes(S2, S3)))
    BY <1>0, RetireStepCases DEF S3, GoesOn
  <2>2. S2.mode = "step" => ~Stopped(S2)
    BY DEF Stopped
  <2> QED
    BY <1>0, <1>2, <2>1, <2>2, StopsInforms, RunsOnInforms
<1>4. Informed(S4) /\ (Owed(d) => Owed(S4))
  <2>1. SameSession(S3, S4) /\ S4.mode = S3.mode
    BY <1>0, DropSkipCases DEF S4
  <2>2. Stopped(S4) <=> Stopped(S3)
    BY <2>1 DEF Stopped
  <2> QED
    BY <1>3, <2>1, <2>2, SameInforms
<1>5. Informed(S5) /\ (Owed(d) => Owed(S5))
  <2>1. S5 = S4 \/ (Arrives(S4) /\ (Stops(S4, S5) \/ Goes(S4, S5)))
    BY <1>0, ArrivalCases DEF S5, GoesOn
  <2>2. Arrives(S4) => ~Stopped(S4)
    BY DEF Arrives
  <2> QED
    BY <1>0, <1>4, <2>1, <2>2, StopsInforms, RunsOnInforms
<1>6. Informed(S6) /\ (Owed(d) => Owed(S6))
  <2>1. Rests(S5, S6) \/ (~Stopped(S5) /\ Stops(S5, S6))
    BY <1>0, BreakCases DEF S6
  <2>2. CASE Rests(S5, S6)
    BY <1>5, <2>2, SameInforms DEF Rests
  <2>3. CASE ~Stopped(S5) /\ Stops(S5, S6)
    BY <1>0, <1>5, <2>3, StopsInforms
  <2> QED
    BY <2>1, <2>2, <2>3
<1> QED
  BY <1>0, <1>5, <1>6

\* A check leaves the client told.
LEMMA PollKnows ==
    ASSUME LoopInv, KnowsInv, InForce, PollFull
    PROVE  KnowsInv'
<1>1. PICK s \in {S5, S6} : d' = StepPoll(s)
  BY StagesOfCheck DEF PollFull
<1>2. Shape(s) /\ Ears(s) /\ Informed(s) /\ (Owed(d) => Owed(s)) /\ ~s.wp
  BY <1>1, StagesInform
<1>3. /\ Informed(d') /\ (Owed(d) => Owed(d')) /\ ~d'.wp
      /\ d'.frames.pending => ~Stopped(d')
  BY <1>1, <1>2, PolledInforms DEF InForce
<1>4. /\ ~c'.entered /\ opts' = opts
      /\ phase' \in {"serve", "exec"} /\ (phase' = "exec" => d'.mode = "run")
  BY DEF PollFull, CpuOK, LoopInv
<1>5. obs'.synced = obs.synced
  BY PollSeen DEF LoopInv
<1> QED
  BY <1>3, <1>4, <1>5 DEF KnowsInv, Informed, Owed, ToldStop, Stopped, UI

-----------------------------------------------------------------------------
(* Requests.                                                               *)

\* A machine that a request set going.
LEMMA ResumesInforms ==
    ASSUME NEW s, NEW r, Resumes(s, r), s.session => ~s.wp,
           s.frames.pending => opts.frames > 0 /\ ~s.frames.byFrames
    PROVE  Informed(r) /\ Owed(r) /\ ~Stopped(r) /\ (r.session => ~r.wp)
BY DEF Resumes, Informed, Owed, ToldStop

\* A pause, or the end of the configuration.
LEMMA AnswersInforms ==
    ASSUME NEW s, NEW r, Shape(s), Ears(s), Informed(s), ~s.wp, Answers(s, r),
           ~(s.frames.pending /\ s.frames.byFrames)
    PROVE  Informed(r) /\ Owed(r) /\ Shape(r) /\ Ears(r) /\ ~r.wp
<1>1. Shape(r) /\ Ears(r) /\ ~r.wp
  BY DEF Answers, Keeps
<1> SUFFICES ASSUME r.session
             PROVE  Informed(r) /\ Owed(r)
  BY <1>1 DEF Informed, Owed
<1>2. s.session /\ r.frames = s.frames /\ r.replied = s.replied
  BY DEF Answers, Keeps
<1>3. CASE Stopped(r)
  <2>1. r.heard > 0 \/ r.frames.pending
    BY <1>2, <1>3 DEF Answers
  <2>2. r.heard <= 1
    <3>1. CASE s.heard > 0
      BY <1>2, <3>1 DEF Answers, Informed, ToldStop
    <3>2. CASE ~(s.heard > 0)
      BY <3>2 DEF Answers, Shape
    <3> QED
      BY <3>1, <3>2
  <2> QED
    BY <1>1, <1>2, <1>3, <2>1, <2>2 DEF Informed, Owed, ToldStop
<1>4. CASE ~Stopped(r)
  <2>1. ~Stopped(s) /\ r.heard = s.heard
    BY <1>4 DEF Answers
  <2>2. r.heard = 0 /\ ~r.replied
    BY <1>2, <2>1 DEF Informed, ToldStop, Shape
  <2> QED
    BY <1>1, <1>2, <1>4, <2>2 DEF Informed, Owed, ToldStop
<1> QED
  BY <1>3, <1>4

\* What a request within the session leaves: all of the invariant.
LEMMA SessionKnows ==
    ASSUME LoopInv, KnowsInv, phase \in {"serve", "answer"}, phase' = "answer", c' = c, opts' = opts,
           Informed(d'), obs'.synced => Owed(d'), d'.session => ~d'.wp,
           d'.frames.pending => ~Stopped(d')
    PROVE  KnowsInv'
<1>1. Informed(d)' /\ (obs.synced => Owed(d))'
  BY DEF Informed, Owed, ToldStop, Stopped, UI
<1>2. ~c'.entered
  BY DEF KnowsInv
<1> QED
  BY <1>1, <1>2 DEF KnowsInv, Visit, Stopped

\* A client's requests.
LEMMA RequestKnows ==
    ASSUME LoopInv, KnowsInv, InForce,
           \/ ServeContinue \/ ServeStepIn \/ ServeNext \/ ServeStepOut \/ ServePause
           \/ ServeFrames \/ ServeTerminate \/ ServeDisconnect \/ ServeConfigured
           \/ ServeBreakpoints
    PROVE  KnowsInv'
<1> USE DEF LoopInv
<1>1. /\ phase \in {"serve", "answer"} /\ phase' = "answer" /\ c' = c /\ opts' = opts
      /\ d.session
  BY DEF ServeContinue, ServeStepIn, ServeNext, ServeStepOut, ServePause, ServeFrames,
         ServeTerminate, ServeDisconnect, ServeConfigured, ServeBreakpoints, Session
<1>2. /\ ~d.wp
      /\ d.frames.pending => opts.frames > 0 /\ ~d.frames.byFrames
      /\ Informed(d)
  BY <1>1 DEF KnowsInv, Informed, Visit
<1>3. CASE ServeContinue \/ ServeStepIn \/ ServeNext \/ ServeStepOut
  <2>1. Resumes(d, d')
    BY <1>3, RequestCases
  <2> QED
    BY <1>1, <1>2, <2>1, ResumesInforms, SessionKnows
<1>4. CASE ServeFrames
  <2>1. opts.frames > 0
    BY <1>4, FramesCases
  <2>2. PICK q : Resumes(q, d') /\ ~q.frames.byFrames /\ q.wp = d.wp
    BY <1>4, FramesCases
  <2> QED
    BY <1>1, <1>2, <2>1, <2>2, ResumesInforms, SessionKnows
<1>5. CASE ServeTerminate \/ ServeDisconnect
  <2>1. Ends(d, d')
    BY <1>5, RequestCases
  <2>2. ~d'.session /\ ~d'.frames.pending
    BY <2>1 DEF Ends
  <2> QED
    BY <1>1, <2>2, SessionKnows DEF Informed, Owed
<1>6. CASE ServePause \/ ServeConfigured
  <2>1. PICK s : Answers(d, s) /\ d' = StepPoll(s)
    BY <1>6, RequestCases
  <2>2. Informed(s) /\ Owed(s) /\ Shape(s) /\ Ears(s) /\ ~s.wp
    BY <1>2, <2>1, AnswersInforms
  <2>3. /\ Informed(d') /\ Owed(d') /\ ~d'.wp
        /\ d'.frames.pending => ~Stopped(d')
    BY <2>1, <2>2, PolledInforms DEF InForce
  <2> QED
    BY <1>1, <2>3, SessionKnows
<1>7. CASE ServeBreakpoints
  <2>1. PICK t, s :
          /\ d' = StepPoll(s)
          /\ Passes(t, s) /\ Ears(s) /\ (s = t \/ Gone(s))
          /\ t.mode = d.mode /\ t.wp = d.wp /\ t.client = d.client /\ t.session = d.session
          /\ t.heard = d.heard /\ t.replied = d.replied /\ t.frames = d.frames
    BY <1>7, BreakpointsCases
  <2>2. Shape(s) /\ ~s.wp
    BY <1>2, <2>1 DEF Passes
  <2>3. Informed(s) /\ (Owed(d) => Owed(s))
    <3>1. CASE s = t
      BY <1>2, <2>1, <3>1 DEF Informed, Owed, ToldStop, Stopped
    <3>2. CASE Gone(s)
      BY <3>2 DEF Gone, Informed, Owed
    <3> QED
      BY <2>1, <3>1, <3>2
  <2>4. /\ Informed(d') /\ (Owed(s) => Owed(d')) /\ ~d'.wp
        /\ d'.frames.pending => ~Stopped(d')
    BY <2>1, <2>2, <2>3, PolledInforms DEF InForce
  <2>5. obs'.synced = obs.synced
    BY <1>7, ClientSeen
  <2>6. obs'.synced => Owed(d')
    BY <2>3, <2>4, <2>5 DEF KnowsInv
  <2> QED
    BY <1>1, <2>4, <2>6, SessionKnows
<1> QED
  BY <1>3, <1>4, <1>5, <1>6, <1>7

-----------------------------------------------------------------------------
(* The client's coming and going, the user, and the rest of the loop.      *)

\* A client's coming, going and stalling.
LEMMA ComesAndGoes ==
    ASSUME LoopInv, KnowsInv, InForce, Marked, ServeDrop \/ ServeAttach \/ ClientStalls
    PROVE  KnowsInv'
<1> USE DEF LoopInv
<1>1. CASE ServeDrop
  <2>1. Gone(d') /\ ~obs'.synced
    BY <1>1, ServeDropOK, ClientSeen
  <2>2. phase' = Onward(d') /\ c' = c /\ opts' = opts /\ phase = "serve"
    BY <1>1 DEF ServeDrop
  <2>3. ~c.entered
    BY <2>2 DEF KnowsInv
  <2> QED
    BY <2>1, <2>2, <2>3 DEF KnowsInv, Gone, Informed, Onward, Stopped
<1>2. CASE ServeAttach
  <2>1. /\ phase = "serve" /\ phase' = phase /\ c' = c /\ opts' = opts /\ opts.dap
        /\ ~obs'.synced
    BY <1>2, ClientSeen DEF ServeAttach
  <2>2. d'.heard = 0 /\ ~d'.replied /\ d'.wp = d.wp /\ d'.frames = d.frames
    BY <1>2, AttachOK
  <2>3. ~d.wp
    BY <2>1 DEF Marked, InForce, Between
  <2>4. ~d.frames.pending
    BY <1>2 DEF ServeAttach, Ears
  <2>5. ~c.entered
    BY <2>1 DEF KnowsInv
  <2> QED
    BY <2>1, <2>2, <2>3, <2>4, <2>5 DEF KnowsInv, Informed, ToldStop, Stopped
<1>3. CASE ClientStalls
  <2>1. phase' = phase /\ c' = c /\ opts' = opts /\ obs' = obs
    BY <1>3 DEF ClientStalls
  <2>2. /\ d'.session = d.session /\ d'.heard = d.heard /\ d'.replied = d.replied
        /\ d'.frames = d.frames /\ d'.wp = d.wp /\ d'.mode = d.mode
    BY <1>3, StallOK
  <2> QED
    BY <2>1, <2>2 DEF KnowsInv, Informed, Owed, ToldStop, Stopped, UI
<1> QED
  BY <1>1, <1>2, <1>3

\* A user's commands.
LEMMA UserKnows ==
    ASSUME LoopInv, KnowsInv, InForce, Marked, User
    PROVE  KnowsInv'
<1> USE DEF LoopInv
<1>1. /\ phase' = phase /\ c' = c /\ opts' = opts
      /\ \/ phase = "pump" /\ UI # "none"
         \/ phase = "frame" /\ UI = "graphical"
  BY DEF User, UIPause, UIContinue, UIStepOut, UIStepInto, UIStepOver, UIStepIntoAuto,
         UIStepOverAuto, UIRunTo, Interface, HasUI
<1>2. d.session => opts.dap /\ ~d.replied /\ ~d.frames.pending
  BY <1>1 DEF KnowsInv, Informed, InForce, Ears
<1>3. d.session => ~d.wp
  <2>1. CASE phase = "pump"
    BY <2>1 DEF KnowsInv, Visit
  <2>2. CASE phase = "frame" /\ UI = "graphical"
    BY <1>2, <2>2 DEF Marked, InForce
  <2> QED
    BY <1>1, <2>1, <2>2
<1>4. Informed(d') /\ Owed(d') /\ Keeps(d, d')
  <2>1. CASE Goes(d, d')
    BY <1>2, <1>3, <2>1, GoesInforms DEF KnowsInv, Goes
  <2>2. CASE d.mode = "run" /\ (Rests(d, d') \/ Stops(d, d'))
    <3>1. ~Stopped(d)
      BY <2>2 DEF Stopped
    <3>2. Stops(d, d')
      BY <2>2, <3>1 DEF Rests
    <3> QED
      BY <3>1, <3>2, StopsInforms DEF KnowsInv, Stops
  <2> QED
    BY <2>1, <2>2, UserCases
<1>5. d'.wp = d.wp
  BY ServeSession
<1>6. d'.session => d.session /\ ~d'.frames.pending
  BY <1>2, <1>4 DEF Keeps
<1>7. ~c.entered /\ ~(opts.dap /\ opts.breakOn /\ phase = "frame")
  BY <1>1 DEF KnowsInv, InForce
<1> QED
  BY <1>1, <1>3, <1>4, <1>5, <1>6, <1>7 DEF KnowsInv, Informed, Owed, ToldStop, Stopped, UI

\* A watched store, or an interrupt's push, stops a machine that runs.
LEMMA WatchKnows ==
    ASSUME LoopInv, KnowsInv, InForce, Instruction \/ Interrupt
    PROVE  KnowsInv'
<1> USE DEF LoopInv
<1>1. PICK kind : d' = Watch([d EXCEPT !.moved = TRUE], kind)
  BY DEF Instruction, Interrupt
<1>2. /\ d'.session = d.session /\ d'.heard = d.heard /\ d'.replied = d.replied
      /\ d'.frames = d.frames
      /\ \/ d'.mode = d.mode /\ d'.wp = d.wp
         \/ ~Stopped(d) /\ Stopped(d') /\ d'.wp /\ kind \in opts.watch
  BY <1>1, WatchOK
<1>3. opts' = opts /\ obs'.synced = obs.synced
  <2>1. CASE Instruction
    BY <2>1, InstructionSeen DEF Instruction
  <2>2. CASE Interrupt
    BY <2>2, AfreshOK DEF Interrupt
  <2> QED
    BY <2>1, <2>2
<1>4. /\ phase' \in {"frame", "poll"}
      /\ c'.entered => phase' = "poll"
      /\ ~Stopped(d) \/ phase \in {"frame", "irq"}
  <2>1. CASE Instruction
    <3>1. phase = "exec" /\ phase' = "frame" /\ c'.entered = c.entered
      BY <2>1 DEF Instruction, CpuOK
    <3> QED
      BY <3>1 DEF KnowsInv
  <2>2. CASE Interrupt
    BY <2>2 DEF Interrupt
  <2> QED
    BY <2>1, <2>2
<1>5. Informed(d)' /\ (obs.synced => Owed(d))'
  <2>1. CASE d'.mode = d.mode /\ d'.wp = d.wp
    BY <1>2, <1>3, <2>1 DEF KnowsInv, Informed, Owed, ToldStop, Stopped, UI
  <2>2. CASE ~Stopped(d) /\ Stopped(d') /\ d'.wp /\ kind \in opts.watch
    BY <1>2, <1>3, <2>2 DEF KnowsInv, Informed, Owed, ToldStop, Stopped, UI
  <2> QED
    BY <1>2, <2>1, <2>2
<1>6. opts.dap /\ opts.breakOn => ~Stopped(d')
  <2>1. opts.dap /\ opts.breakOn => ~Stopped(d) /\ opts.watch = {}
    BY <1>4 DEF KnowsInv, InForce
  <2> QED
    BY <1>2, <2>1 DEF Stopped
<1>7. phase' \notin Visit
  BY <1>4 DEF Visit
<1> QED
  BY <1>3, <1>4, <1>5, <1>6, <1>7 DEF KnowsInv, Stopped, Visit

\* A frame's end.
LEMMA FrameEndKnows ==
    ASSUME LoopInv, KnowsInv, InForce, FrameEnd
    PROVE  KnowsInv'
<1> USE DEF LoopInv
<1>1. /\ d.frames.pending /\ d'.frames.pending
      /\ d'.session = d.session /\ d'.heard = d.heard /\ d'.replied = d.replied /\ d'.wp = d.wp
      /\ \/ d' = d
         \/ ~Stopped(d) /\ Stopped(d') /\ d'.frames.byFrames
         \/ ~Stopped(d) /\ d'.mode = d.mode /\ (d'.frames.byFrames => d.frames.byFrames)
  BY FrameEndOK
<1>2. phase = "frame" /\ phase' = "irq" /\ c' = c /\ opts' = opts
  BY DEF FrameEnd
<1>3. obs'.synced = obs.synced
  BY FrameEndSeen
<1>4. d.session /\ opts.dap /\ opts.frames > 0
  BY <1>1 DEF KnowsInv, Informed, Ears
<1>5. ~opts.breakOn
  <2>1. ~(0 > 0)
    OBVIOUS
  <2> QED
    BY <1>4, <2>1 DEF InForce
<1>6. Informed(d')
  <2>1. CASE d' = d
    BY <2>1 DEF KnowsInv
  <2>2. CASE ~Stopped(d) /\ Stopped(d')
    BY <1>1, <2>2 DEF KnowsInv, Informed, ToldStop
  <2>3. CASE ~Stopped(d) /\ d'.mode = d.mode /\ (d'.frames.byFrames => d.frames.byFrames)
    BY <1>1, <2>3 DEF KnowsInv, Informed, ToldStop, Stopped
  <2> QED
    BY <1>1, <2>1, <2>2, <2>3
<1> QED
  BY <1>1, <1>2, <1>3, <1>5, <1>6 DEF KnowsInv, Informed, Owed, ToldStop, Stopped, UI, Visit

\* The loop's other steps.
LEMMA LoopKnows ==
    ASSUME LoopInv, KnowsInv, InForce,
           \/ PollFast \/ LeaveServe \/ LeavePump \/ WaitTick \/ MaskedInterrupt \/ NoInterrupt
    PROVE  KnowsInv'
<1> USE DEF LoopInv
<1>1. CASE PollFast
  BY <1>1 DEF PollFast, NothingToDo, KnowsInv, Informed, Owed, ToldStop, Stopped, UI, Visit
<1>2. CASE LeaveServe
  BY <1>2 DEF LeaveServe, Onward, KnowsInv, Informed, Owed, ToldStop, Stopped, UI, Visit
<1>3. CASE LeavePump
  BY <1>3 DEF LeavePump, KnowsInv, Informed, Owed, ToldStop, Stopped, UI, Visit
<1>4. CASE WaitTick
  <2>1. /\ SameSession(d, d') /\ d'.mode = d.mode
        /\ phase = "exec" /\ phase' = "frame" /\ c' = c /\ opts' = opts /\ obs' = obs
    BY <1>4, WaitTickOK DEF WaitTick
  <2> QED
    BY <2>1 DEF SameSession, KnowsInv, Informed, Owed, ToldStop, Stopped, UI, Visit
<1>5. CASE MaskedInterrupt
  <2>1. c'.entered = c.entered
    BY <1>5 DEF MaskedInterrupt, CpuOK
  <2> QED
    BY <1>5, <2>1 DEF MaskedInterrupt, KnowsInv, Informed, Owed, ToldStop, Stopped, UI, Visit
<1>6. CASE NoInterrupt
  BY <1>6 DEF NoInterrupt, KnowsInv, Informed, Owed, ToldStop, Stopped, UI, Visit
<1> QED
  BY <1>1, <1>2, <1>3, <1>4, <1>5, <1>6

\* Every step keeps the client told, or something owed to it.
LEMMA KnowsStep ==
    ASSUME KnowsOptions, LoopInv, KnowsInv, Marked, [Next]_vars
    PROVE  KnowsInv'
<1>0. InForce
  BY OptionsInForce DEF LoopInv
<1>1. CASE PollFull
  BY <1>0, <1>1, PollKnows
<1>2. CASE Instruction \/ Interrupt
  BY <1>0, <1>2, WatchKnows
<1>3. CASE FrameEnd
  BY <1>0, <1>3, FrameEndKnows
<1>4. CASE PollFast \/ LeaveServe \/ LeavePump \/ WaitTick \/ MaskedInterrupt \/ NoInterrupt
  BY <1>0, <1>4, LoopKnows
<1>5. CASE Client
  BY <1>0, <1>5, RequestKnows, ComesAndGoes DEF Client
<1>6. CASE User
  BY <1>0, <1>6, UserKnows
<1>7. CASE UNCHANGED vars
  BY <1>7 DEF vars, KnowsInv, Informed, Owed, ToldStop, Stopped, UI
<1> QED
  BY <1>1, <1>2, <1>3, <1>4, <1>5, <1>6, <1>7 DEF Next, Loop

\* At the start there is no client.
LEMMA KnowsInit ==
    ASSUME Init
    PROVE  KnowsInv
BY DEF Init, KnowsInv, Informed, Owed, NoFrames, Visit, Stopped

\* The client is always told, or owed.
LEMMA KnowsKept ==
    ASSUME KnowsOptions
    PROVE  Spec => []KnowsInv
<1>1. Init => KnowsInv
  BY KnowsInit
<1>2. LoopInv /\ Marked /\ KnowsInv /\ [Next]_vars => KnowsInv'
  BY KnowsStep
<1> QED
  BY <1>1, <1>2, LoopKept, MarkKept, PTL DEF Spec

\* A configured client knows whether the machine runs whenever it could ask,
\* through every order of stops, resumes, requests, replies and lost connections
\* (debug_server.c, debug_server_notify_stopped and debug_server_note_resumed).
THEOREM ClientsAreTold ==
    ASSUME KnowsOptions
    PROVE  Spec => []ClientKnows
<1>1. LoopInv /\ KnowsInv => ClientKnows
  <2> SUFFICES ASSUME LoopInv, KnowsInv, d.client, obs.synced,
                      phase \in {"serve", "answer", "pump", "exec"}
               PROVE  Stopped(d) <=> d.heard > 0 \/ d.replied
    BY DEF ClientKnows
  <2>1. d.session
    BY DEF LoopInv
  <2>2. ~d.wp /\ (d.frames.pending => ~Stopped(d))
    BY <2>1 DEF KnowsInv, Visit
  <2> QED
    BY <2>1, <2>2 DEF KnowsInv, Informed, Owed, ToldStop
<1> QED
  BY <1>1, KnowsKept, LoopKept, PTL

\* No stop is announced twice in a session: not by the check and the request that
\* made it, nor by the check and the reply to x16/step (debugger.c,
\* DEBUGAnnounceStop).
THEOREM StopsAnnouncedOnce ==
    ASSUME KnowsOptions
    PROVE  Spec => []AnnouncedOnce
<1>1. KnowsInv => AnnouncedOnce
  BY DEF KnowsInv, Informed, AnnouncedOnce
<1> QED
  BY <1>1, KnowsKept, PTL

-----------------------------------------------------------------------------
(* Frames run for a client.                                                *)

\* What is seen leaves alone what was asked and what has ended.
SameCount == obs'.asked = obs.asked /\ obs'.ended = obs.ended

\* What is observed changes no count.
LEMMA SeenCount ==
    ASSUME NEW o, DOMAIN o = ObsFields, o.asked = obs.asked, o.ended = obs.ended, obs' = Seen(o)
    PROVE  SameCount
BY DEF Seen, ObsFields, SameCount

\* Another request takes the machine over.
TakesMachine == ServeContinue \/ ServeStepIn \/ ServeNext \/ ServeStepOut \/ ServeTerminate

\* Only x16/step, what takes over from it and a frame's end change the counts.
LEMMA CountKept ==
    ASSUME DOMAIN obs = ObsFields, Next, ~ServeFrames, ~FrameEnd, ~TakesMachine
    PROVE  SameCount
<1>1. CASE obs' = obs \/ obs' = Afresh(obs) \/ \E n : obs' = [Afresh(obs) EXCEPT !.ran = n]
  BY <1>1 DEF Afresh, ObsFields, SameCount
<1>2. ASSUME NEW o, obs' = Seen(o),
             \/ o = obs
             \/ \E n : o = [obs EXCEPT !.tested = n]
             \/ o = [obs EXCEPT !.fresh = TRUE]
             \/ o = [obs EXCEPT !.synced = FALSE]
             \/ \E cmd : o = Told(obs, cmd)
             \/ \E cmd, y : o = [Told(obs, cmd) EXCEPT !.synced = y]
      PROVE  SameCount
  <2>1. DOMAIN o = ObsFields /\ o.asked = obs.asked /\ o.ended = obs.ended
    BY <1>2 DEF Told, ObsFields
  <2> QED
    BY <1>2, <2>1, SeenCount
<1>3. CASE PollFull
  BY <1>2, <1>3 DEF PollFull
<1>4. CASE Loop /\ ~PollFull
  <2>1. obs' = obs \/ obs' = Afresh(obs) \/ \E n : obs' = [Afresh(obs) EXCEPT !.ran = n]
    BY <1>4 DEF Loop, PollFast, LeaveServe, LeavePump, Instruction, WaitTick, Interrupt,
       MaskedInterrupt, NoInterrupt
  <2> QED
    BY <1>1, <2>1
<1>6. CASE ServeDisconnect \/ ServeConfigured
  <2>1. PICK y : obs' = Seen([Told(obs, "other") EXCEPT !.synced = y])
    BY <1>6 DEF ServeDisconnect, ServeConfigured, Session
  <2> QED
    BY <1>2, <2>1
<1>7. CASE ServePause \/ ServeBreakpoints \/ ServeDrop
  BY <1>2, <1>7 DEF ServePause, ServeBreakpoints, ServeDrop, Session
<1>8. CASE ServeAttach \/ ClientStalls
  BY <1>8 DEF ServeAttach, ClientStalls, ObsFields, SameCount
<1>9. CASE User
  <2>1. obs' = Seen(obs) \/ \E cmd : obs' = Seen(Told(obs, cmd))
    BY <1>9 DEF User, UIPause, UIContinue, UIStepOut, UIStepInto, UIStepOver, UIStepIntoAuto,
         UIStepOverAuto, UIRunTo, Interface
  <2> QED
    BY <1>2, <2>1
<1> QED
  BY <1>3, <1>4, <1>6, <1>7, <1>8, <1>9 DEF Next, Client, TakesMachine

\* The frames still to run and those that have ended are those asked for, until
\* something stops the machine; a machine stopped before the poll only waits
\* for its reply.
FramesInv ==
    /\ d.frames.pending =>
         /\ d.frames.left \in Int /\ obs.ended \in Int /\ obs.asked \in Int /\ obs.asked > 0
         /\ IF d.frames.byFrames
            THEN phase \in {"irq", "poll"} /\ Stopped(d) /\ obs.ended = obs.asked
            ELSE \/ d.frames.left + obs.ended = obs.asked
                 \/ phase \in {"irq", "poll"} /\ Stopped(d)
         /\ phase \in {"serve", "answer", "exec"} => ~Stopped(d)
    /\ phase = "pump" => ~d.frames.pending

\* A machine stopped before the check is stopped after it, unless its client is
\* lost.
LEMMA StagesRest ==
    ASSUME Shape(d), Ears(d), Stopped(d)
    PROVE  (S5.session => Stopped(S5)) /\ (S6.session => Stopped(S6))
<1>0. /\ Shape(d) /\ Ears(d)
      /\ Shape(S1) /\ Ears(S1) /\ Shape(S2) /\ Ears(S2) /\ Shape(S3) /\ Ears(S3)
      /\ Shape(S4) /\ Ears(S4) /\ Shape(S5) /\ Ears(S5) /\ Shape(S6) /\ Ears(S6)
  BY StagesKeep DEF Keeps
<1>1. S1.session => Stopped(S1)
  BY <1>0, FollowCases DEF S1, Stops
<1>2. S2.session => Stopped(S2)
  <2>1. S2 = S1 \/ Reports(S1, S2)
    BY <1>0, ReportWatchCases DEF S2
  <2> QED
    BY <1>0, <1>1, <2>1 DEF Reports, Keeps, Stopped
<1>3. S3.session => Stopped(S3)
  <2>1. S3 = S2 \/ (S2.mode = "step" /\ Goes(S2, S3)) \/ Stops(S2, S3)
    BY <1>0, RetireStepCases DEF S3, GoesOn
  <2>2. CASE S2.mode = "step" /\ Goes(S2, S3)
    BY <1>2, <2>2 DEF Goes, Keeps, Stopped
  <2> QED
    BY <1>0, <1>2, <2>1, <2>2 DEF Stops
<1>4. S4.session => Stopped(S4)
  BY <1>0, <1>3, DropSkipCases DEF S4, SameSession, Stopped
<1>5. S5.session => Stopped(S5)
  <2>1. S5 = S4 \/ (~Stopped(S4) /\ Goes(S4, S5)) \/ Stops(S4, S5)
    BY <1>0, ArrivalCases DEF S5, GoesOn, Arrives
  <2>2. CASE ~Stopped(S4) /\ Goes(S4, S5)
    BY <1>4, <2>2 DEF Goes, Keeps
  <2> QED
    BY <1>0, <1>4, <2>1, <2>2 DEF Stops
<1>6. S6.session => Stopped(S6)
  <2>1. Rests(S5, S6) \/ Stops(S5, S6)
    BY <1>0, BreakCases DEF S6
  <2> QED
    BY <1>0, <2>1 DEF Rests, Stops
<1> QED
  BY <1>5, <1>6

\* What is left of a request for frames after step_poll.
Leaves(s, r) ==
    /\ r.frames = s.frames \/ ~r.frames.pending
    /\ r.frames.pending => ~Stopped(r) /\ r.mode = s.mode

\* After step_poll nothing pends of a machine that stands.
LEMMA PolledLeaves ==
    ASSUME NEW s, Shape(s), Ears(s)
    PROVE  Leaves(s, StepPoll(s))
<1>1. \/ StepPoll(s) = s /\ ~(s.frames.pending /\ Stopped(s))
      \/ Replies(s, StepPoll(s))
  BY StepPollCases
<1> QED
  BY <1>1 DEF Replies, Leaves

\* A request answered in a visit leaves the frames of a machine that runs, or none.
LEMMA VisitFrames ==
    ASSUME FramesInv, SameCount, phase \in {"serve", "answer"}, phase' = "answer",
           d'.frames = d.frames \/ ~d'.frames.pending,
           d'.frames.pending => ~Stopped(d')
    PROVE  FramesInv'
BY DEF FramesInv, SameCount, Stopped

\* The other requests.
LEMMA RequestFrames ==
    ASSUME LoopInv, FramesInv,
           TakesMachine \/ (SameCount /\ (\/ ServePause \/ ServeDisconnect
                                         \/ ServeConfigured \/ ServeBreakpoints))
    PROVE  FramesInv'
<1> USE DEF LoopInv
<1>1. phase \in {"serve", "answer"} /\ phase' = "answer"
  BY DEF TakesMachine, ServeContinue, ServeStepIn, ServeNext, ServeStepOut, ServePause,
         ServeTerminate, ServeDisconnect, ServeConfigured, ServeBreakpoints, Session
<1>2. CASE TakesMachine \/ ServeDisconnect
  <2>1. ~d'.frames.pending
    BY <1>2, RequestCases DEF TakesMachine, Ends
  <2> QED
    BY <1>1, <2>1 DEF FramesInv
<1>3. CASE SameCount /\ (ServePause \/ ServeConfigured)
  <2>1. PICK s : Answers(d, s) /\ d' = StepPoll(s)
    BY <1>3, RequestCases
  <2>2. Shape(s) /\ Ears(s) /\ (s.frames = d.frames \/ ~s.frames.pending)
    BY <2>1 DEF Answers, Keeps
  <2>3. Leaves(s, d')
    BY <2>1, <2>2, PolledLeaves
  <2> QED
    BY <1>1, <1>3, <2>2, <2>3, VisitFrames DEF Leaves
<1>4. CASE SameCount /\ ServeBreakpoints
  <2>1. PICK t, s : /\ d' = StepPoll(s)
                    /\ Passes(t, s) /\ Ears(s) /\ t.frames = d.frames
    BY <1>4, BreakpointsCases
  <2>2. Shape(s) /\ Ears(s) /\ (s.frames = d.frames \/ ~s.frames.pending)
    BY <2>1 DEF Passes
  <2>3. Leaves(s, d')
    BY <2>1, <2>2, PolledLeaves
  <2> QED
    BY <1>1, <1>4, <2>2, <2>3, VisitFrames DEF Leaves
<1> QED
  BY <1>2, <1>3, <1>3, <1>4

\* x16/step itself.
LEMMA ServeFramesFrames ==
    ASSUME LoopInv, ServeFrames
    PROVE  FramesInv'
<1> USE DEF LoopInv
<1>1. PICK n \in 1 .. opts.frames, events \in BOOLEAN :
         /\ d' = StepPoll(ReqFrames(d, n, events))
         /\ obs' = Seen([Told(obs, "other") EXCEPT !.asked = n, !.ended = 0])
         /\ phase' = "answer" /\ d.session
  BY DEF ServeFrames, Session
<1> DEFINE q == Counting(d, n, events)
           r == ReqFrames(d, n, events)
<1>2. Resumes(q, r)
  BY <1>1, FramesResumes
<1>3. q.frames.left = n /\ ~q.frames.byFrames
  BY DEF Counting, Shape, Fields
<1> HIDE DEF q, r
<1>4. d' = r
  BY <1>1, <1>2, ResumesPolled DEF r
<1>5. ~Stopped(d') /\ (d'.frames.pending => d'.frames.left = n /\ ~d'.frames.byFrames)
  BY <1>2, <1>3, <1>4 DEF Resumes
<1>6. obs'.asked = n /\ obs'.ended = 0
  BY <1>1 DEF Seen, Told, ObsFields
<1>7. n \in Int /\ n + 0 = n /\ n > 0
  <2>1. opts.frames \in Nat
    BY RunAssumption
  <2> QED
    BY <2>1
<1> QED
  BY <1>1, <1>5, <1>6, <1>7 DEF FramesInv, Stopped

\* A frame's end.
LEMMA FrameEndFrames ==
    ASSUME LoopInv, FramesInv, FrameEnd
    PROVE  FramesInv'
<1> USE DEF LoopInv
<1>1. phase = "frame" /\ phase' = "irq" /\ d.frames.pending
  BY DEF FrameEnd
<1>2. /\ ~d.frames.byFrames /\ d.frames.left + obs.ended = obs.asked
      /\ d.frames.left \in Int /\ obs.ended \in Int /\ obs.asked \in Int
  BY <1>1 DEF FramesInv
<1>3. obs'.asked = obs.asked /\ obs'.ended = obs.ended + 1
  BY DEF FrameEnd, ObsFields
<1>4. CASE Stopped(d)
  <2>1. d' = d
    BY <1>4 DEF FrameEnd
  <2> QED
    BY <1>1, <1>2, <1>3, <1>4, <2>1 DEF FramesInv, Stopped
<1>5. CASE ~Stopped(d) /\ d.frames.left = 1
  <2> DEFINE f == [d.frames EXCEPT !.left = @ - 1, !.byFrames = @ \/ d.frames.left = 1]
  <2>1. d'.frames = f /\ d'.mode = "stop"
    BY <1>5 DEF FrameEnd, Shape, Fields
  <2>2. f.byFrames /\ f.pending
    BY <1>1, <1>5 DEF Shape, FrameFields
  <2>3. f.left = d.frames.left - 1
    BY DEF Shape, FrameFields
  <2> HIDE DEF f
  <2>4. /\ Stopped(d') /\ d'.frames.byFrames /\ d'.frames.left \in Int
        /\ d'.frames.pending
    BY <1>2, <2>1, <2>2, <2>3 DEF Stopped
  <2>5. obs.ended + 1 = obs.asked
    BY <1>2, <1>5
  <2> QED
    BY <1>1, <1>2, <1>3, <2>4, <2>5 DEF FramesInv, Stopped
<1>6. CASE ~Stopped(d) /\ d.frames.left # 1
  <2> DEFINE f == [d.frames EXCEPT !.left = @ - 1, !.byFrames = @ \/ d.frames.left = 1]
  <2>1. d'.frames = f
    BY <1>6 DEF FrameEnd, Shape, Fields
  <2>2. f.left = d.frames.left - 1 /\ f.pending
    BY <1>1 DEF Shape, FrameFields
  <2>3. ~f.byFrames
    BY <1>2, <1>6 DEF Shape, FrameFields
  <2> HIDE DEF f
  <2>4. d'.frames.left + obs'.ended = obs'.asked /\ d'.frames.left \in Int
    BY <1>2, <1>3, <2>1, <2>2
  <2> QED
    BY <1>1, <1>2, <1>3, <2>1, <2>2, <2>3, <2>4 DEF FramesInv
<1> QED
  BY <1>4, <1>5, <1>6

\* A check.
LEMMA PollFrames ==
    ASSUME LoopInv, FramesInv, SameCount, PollFull
    PROVE  FramesInv'
<1> USE DEF LoopInv
<1>1. PICK s \in {S5, S6} : d' = StepPoll(s)
  BY StagesOfCheck DEF PollFull
<1>2. Shape(s) /\ Ears(s) /\ (s.frames = d.frames \/ ~s.frames.pending)
  BY <1>1, StagesKeep DEF Keeps
<1>3. Leaves(s, d')
  BY <1>1, <1>2, PolledLeaves
<1>4. phase' \in {"serve", "exec"}
  BY DEF PollFull
<1>5. ASSUME d'.frames.pending
      PROVE  d'.frames = d.frames /\ ~Stopped(d') /\ ~Stopped(d)
  <2>1. d'.frames = s.frames /\ s.frames = d.frames /\ ~Stopped(d') /\ d'.mode = s.mode
    BY <1>2, <1>3, <1>5 DEF Leaves
  <2>2. s.session
    BY <1>2, <1>5, <2>1 DEF Ears
  <2>3. ~Stopped(d)
    BY <1>1, <2>1, <2>2, StagesRest DEF Stopped
  <2> QED
    BY <2>1, <2>3
<1> QED
  BY <1>4, <1>5 DEF FramesInv, SameCount, Stopped

\* The client's coming and going, the user, and the instructions.
LEMMA OtherFrames ==
    ASSUME LoopInv, FramesInv, SameCount,
           \/ ServeDrop \/ ServeAttach \/ ClientStalls \/ User
           \/ Instruction \/ Interrupt
    PROVE  FramesInv'
<1> USE DEF LoopInv
<1>1. CASE ServeDrop
  <2>1. ~d'.frames.pending
    BY <1>1, ServeDropOK DEF Gone
  <2> QED
    BY <2>1 DEF FramesInv
<1>2. CASE ServeAttach
  <2>1. ~d'.frames.pending
    BY <1>2, AttachOK DEF ServeAttach, Ears
  <2> QED
    BY <2>1 DEF FramesInv
<1>3. CASE ClientStalls
  <2>1. d'.frames = d.frames /\ d'.mode = d.mode /\ phase' = phase
    BY <1>3, StallOK DEF ClientStalls
  <2> QED
    BY <2>1 DEF FramesInv, SameCount, Stopped
<1>4. CASE User
  <2>1. phase' = phase /\ phase \in {"pump", "frame"}
    BY <1>4 DEF User, UIPause, UIContinue, UIStepOut, UIStepInto, UIStepOver, UIStepIntoAuto,
         UIStepOverAuto, UIRunTo, Interface
  <2>2. d'.frames = d.frames \/ ~d'.frames.pending
    BY <1>4, UserCases DEF Goes, Stops, Keeps, Rests, SameSession
  <2> QED
    BY <2>1, <2>2 DEF FramesInv, SameCount, Stopped
<1>5. CASE Instruction \/ Interrupt
  <2>1. PICK kind : d' = Watch([d EXCEPT !.moved = TRUE], kind)
    BY <1>5 DEF Instruction, Interrupt
  <2>2. d'.frames = d.frames /\ (d'.mode = d.mode \/ Stopped(d'))
    BY <2>1, WatchOK
  <2>3. (phase = "exec" /\ phase' = "frame") \/ (phase \in {"frame", "irq"} /\ phase' = "poll")
    BY <1>5 DEF Instruction, Interrupt
  <2> QED
    BY <2>2, <2>3 DEF FramesInv, SameCount, Stopped
<1> QED
  BY <1>1, <1>2, <1>3, <1>4, <1>5

\* The loop's other steps.
LEMMA LoopFrames ==
    ASSUME LoopInv, FramesInv, SameCount,
           \/ PollFast \/ LeaveServe \/ LeavePump \/ WaitTick \/ MaskedInterrupt \/ NoInterrupt
    PROVE  FramesInv'
<1> USE DEF LoopInv
<1>1. CASE PollFast
  BY <1>1 DEF PollFast, NothingToDo, FramesInv, SameCount, Stopped
<1>2. CASE LeaveServe
  BY <1>2 DEF LeaveServe, Onward, FramesInv, SameCount, Stopped
<1>3. CASE LeavePump
  BY <1>3 DEF LeavePump, FramesInv, SameCount, Stopped
<1>4. CASE WaitTick
  <2>1. SameSession(d, d') /\ d'.mode = d.mode /\ phase = "exec" /\ phase' = "frame"
    BY <1>4, WaitTickOK DEF WaitTick
  <2> QED
    BY <2>1 DEF SameSession, FramesInv, SameCount, Stopped
<1>5. CASE MaskedInterrupt \/ NoInterrupt
  BY <1>5 DEF MaskedInterrupt, NoInterrupt, FramesInv, SameCount, Stopped
<1> QED
  BY <1>1, <1>2, <1>3, <1>4, <1>5

\* Every step keeps the count.
LEMMA FramesStep ==
    ASSUME LoopInv, FramesInv, [Next]_vars
    PROVE  FramesInv'
<1>1. CASE ServeFrames
  BY <1>1, ServeFramesFrames
<1>2. CASE FrameEnd
  BY <1>2, FrameEndFrames
<1>3. CASE Next /\ ~ServeFrames /\ ~FrameEnd
  <2>1. TakesMachine \/ SameCount
    BY <1>3, CountKept DEF LoopInv
  <2> QED
    BY <1>3, <2>1, RequestFrames, PollFrames, OtherFrames, LoopFrames
       DEF Next, Loop, Client, TakesMachine
<1>4. CASE UNCHANGED vars
  BY <1>4 DEF vars, FramesInv, Stopped
<1> QED
  BY <1>1, <1>2, <1>3, <1>4

\* A reply to x16/step that says the frames were run comes after as many frames
\* as were asked for, whatever stopped the machine, told the client or changed
\* hands in between; and one that another request took over has had its reply and
\* gets none from a later stop (debug_server.c, debug_server_frame_end, step_poll
\* and dispatch_dap).
THEOREM FramesAreCounted == Spec => FramesCounted
<1>1. Init => FramesInv
  BY DEF Init, FramesInv, NoFrames
<1>2. LoopInv /\ FramesInv /\ [Next]_vars => FramesInv'
  BY FramesStep
<1>3. FramesInv => [d.frames.pending /\ ~d'.frames.pending /\ d'.session /\ d'.replied
                      => obs.asked > 0 /\ (d.frames.byFrames => obs.ended = obs.asked)]_vars
  BY DEF FramesInv
<1> QED
  BY <1>1, <1>2, <1>3, LoopKept, PTL DEF Spec, FramesCounted
=============================================================================
