---------------------------- MODULE VoiceCapture ----------------------------
(***************************************************************************)
(* The speculative capture session with its audio: the energy detector of  *)
(* voice/vad_energy.py, the utterance segmenter, the keyphrase gate and    *)
(* the frame loop of voice/speculative_capture_session.py.  A frame is one *)
(* chunk, its audio one of three levels; durations are counted in chunks.  *)
(* The spotter's verdict and the audio it returns for replay are free.     *)
(***************************************************************************)
EXTENDS CaptureStream, Integers, SequencesExt

CONSTANTS
  StartChunks,   \* loud chunks before the detector reports a start
  EndChunks,     \* quiet chunks before it reports an end
  PreRoll,       \* chunks kept before the start
  MinUtterance,  \* shorter utterances are dropped
  MaxUtterance,  \* longer ones are ended by force
  ReplayBound    \* bound: the chunks a spotter returns for replay

ASSUME DetectorBounds ==
  /\ StartChunks \in Nat \ {0} /\ EndChunks \in Nat \ {0}
  /\ PreRoll \in Nat \ {0} /\ MinUtterance \in Nat
  /\ MaxUtterance \in Nat \ {0} /\ ReplayBound \in Nat

VARIABLES
  vad,        \* EnergyVoiceActivityDetector
  seg,        \* UtteranceSegmenter
  detection,  \* state.keyphrase_detection, its kind
  started,    \* state.speech_started_at is set
  spotter,    \* state.keyphrase_spotter is set
  open,       \* history: spotters created and not closed
  credit,     \* history: keyphrases detected minus wake-mode turns finished
  run,        \* history: consecutive loud chunks of the turn up to now
  clipped     \* history: a recording began without loud chunks before it

audioVars == <<vad, seg, detection, started, spotter, open, credit, run, clipped>>

captureVars == <<streamVars, audioVars>>

Levels == {"quiet", "between", "loud"}

NewVad == [in |-> FALSE, count |-> 0]

\* EnergyVoiceActivityDetector.accept: the next state and the decision.
Detect(v, level) ==
  LET hit   == IF v.in THEN level = "quiet" ELSE level = "loud"
      count == IF hit THEN v.count + 1 ELSE 0
      limit == IF v.in THEN EndChunks ELSE StartChunks
  IN  IF count < limit
      THEN [vad |-> [v EXCEPT !.count = count],
            decision |-> IF v.in THEN "speech" ELSE "silence"]
      ELSE [vad |-> [in |-> ~v.in, count |-> 0],
            decision |-> IF v.in THEN "ended" ELSE "started"]

\* silent: _pending_end_samples in chunks, -1 for None.
NewSeg == [recording |-> FALSE, kept |-> 0, silent |-> -1]

Before(s, d) ==
  LET kept == IF s.kept < PreRoll THEN s.kept + 1 ELSE PreRoll
  IN  [seg |-> [s EXCEPT !.kept = kept, !.recording = d = "started"],
       event |-> "none"]

EndpointEvent(s, forced, reset) ==
  IF s.kept < MinUtterance THEN [seg |-> NewSeg, event |-> "none"]
  ELSE [seg |-> IF reset THEN NewSeg ELSE s,
        event |-> IF forced THEN "forced" ELSE "endpoint"]

After(s0, d) ==
  LET s == [s0 EXCEPT !.kept = @ + 1]
  IN  CASE s.kept >= MaxUtterance -> EndpointEvent(s, TRUE, TRUE)
        [] s.kept < MaxUtterance /\ d \in {"started", "speech"} ->
             [seg |-> [s EXCEPT !.silent = -1],
              event |-> IF s.silent # -1 THEN "resumed" ELSE "none"]
        [] s.kept < MaxUtterance /\ d = "ended" ->
             EndpointEvent([s EXCEPT !.silent = 0], FALSE, FinalSilence = 0)
        [] s.kept < MaxUtterance /\ d = "silence" ->
             IF s.silent = -1 THEN [seg |-> s, event |-> "none"]
             ELSE IF s.silent + 1 < FinalSilence
                  THEN [seg |-> [s EXCEPT !.silent = @ + 1], event |-> "none"]
                  ELSE [seg |-> NewSeg, event |-> "confirmed"]

AcceptChunk(a, level) ==
  LET d == Detect(a.vad, level)
      r == IF a.seg.recording THEN After(a.seg, d.decision)
           ELSE Before(a.seg, d.decision)
  IN  [vad |-> d.vad, seg |-> r.seg, event |-> r.event,
       started |-> a.started \/ r.seg.recording]

\* Wake audio is replayed chunk by chunk until it yields an utterance.
Replay(a, levels) ==
  LET heard[n \in 0..Len(levels)] ==
        IF n = 0 THEN a
        ELSE LET acc == heard[n - 1]
             IN  IF acc.event \in {"endpoint", "forced"} THEN acc
                 ELSE AcceptChunk(acc, levels[n])
  IN  heard[Len(levels)]

-----------------------------------------------------------------------------
\* One turn without speculation (turn_capture.py, capture_frame_router.py):
\* a script of frames [level, spot, replay, late], where spot is the kind of
\* phrase the spotter reports and late says that the deadline has passed.

\* accept_frame: the gate first, then the segmenter.
AcceptFrame(t, f) ==
  LET l == [t.listener EXCEPT !.event = "none"]
  IN  IF ~t.gated THEN AcceptChunk(l, f.level)
      ELSE CASE f.spot = "none" -> l
             [] f.spot = "on"   -> [l EXCEPT !.event = IF f.replay # <<>> THEN "forced" ELSE "none"]
             [] f.spot = "wake" -> Replay(l, f.replay)

\* finish_with_utterance_result and _confirmation: the times of a capture.
CaptureTimes(t, now) ==
  [listen |-> now, wait |-> t.startedAt, spoken |-> IF t.startedAt = -1 THEN -1 ELSE now - t.startedAt]

\* capture: one frame of the loop; a finished turn is left alone.
CaptureFrame(t, f) ==
  LET r       == AcceptFrame(t, f)
      kind    == IF t.gated THEN f.spot ELSE t.kind
      fresh   == (r.started /\ ~t.listener.started) \/ (r.seg.recording /\ ~t.listener.seg.recording)
      now     == t.now + 1
      u       == [t EXCEPT !.listener = r, !.kind = kind, !.gated = t.gated /\ kind = "none",
                           !.now = now, !.startedAt = IF fresh THEN now ELSE @]
  IN  IF t.out # "none" THEN t
      ELSE IF r.event \in {"endpoint", "forced"}
           THEN [u EXCEPT !.out = "utterance", !.times = CaptureTimes(u, now)]
      ELSE IF f.late /\ kind = "none" /\ u.startedAt = -1 THEN [u EXCEPT !.out = "timeout"]
      ELSE u

NewCapture(m) ==
  [listener |-> [vad |-> NewVad, seg |-> NewSeg, started |-> FALSE, event |-> "none"],
   gated |-> m = "wake", kind |-> "none", now |-> 0, startedAt |-> -1, out |-> "none",
   times |-> [listen |-> 0, wait |-> -1, spoken |-> -1]]

CaptureOnce(m, script) == FoldLeft(CaptureFrame, NewCapture(m), script)

Listener == [vad |-> vad, seg |-> seg, started |-> started, event |-> "none"]

Waiting == turnMode = "wake" /\ detection = "none"

CaptureTypeOK ==
  /\ StreamTypeOK
  /\ vad \in [in : BOOLEAN, count : Nat]
  /\ seg \in [recording : BOOLEAN, kept : Nat, silent : -1..FinalSilence]
  /\ detection \in Kinds /\ started \in BOOLEAN /\ spotter \in BOOLEAN
  /\ open \in Nat /\ credit \in Int /\ run \in Nat /\ clipped \in BOOLEAN

CaptureInit ==
  /\ StreamInit
  /\ vad = NewVad /\ seg = NewSeg /\ detection = "none" /\ started = FALSE
  /\ spotter = (turnMode = "wake") /\ open = (IF turnMode = "wake" THEN 1 ELSE 0)
  /\ credit = 0 /\ run = 0 /\ clipped = FALSE

CloseSpotters == spotter' = FALSE /\ open' = IF spotter THEN open - 1 ELSE open

\* Mutant: the next turn begins with the phrase of the last one.
FreshTurnStillAwake ==
  /\ vad' = NewVad /\ seg' = NewSeg /\ started' = FALSE /\ run' = 0 /\ UNCHANGED detection
  /\ spotter' = (turnMode' = "wake")
  /\ open' = open - (IF spotter THEN 1 ELSE 0) + (IF spotter' THEN 1 ELSE 0)

\* close_spotters and _start_turn: new segmenter, new state, new gate.
FreshTurn ==
  /\ vad' = NewVad /\ seg' = NewSeg /\ detection' = "none" /\ started' = FALSE /\ run' = 0
  /\ spotter' = (turnMode' = "wake")
  /\ open' = open - (IF spotter THEN 1 ELSE 0) + (IF spotter' THEN 1 ELSE 0)

Poll ==
  /\ PollMode
  /\ IF session' = "frame"
     THEN UNCHANGED <<vad, seg, detection, started, spotter, open, run>>
     ELSE FreshTurn
  /\ UNCHANGED <<credit, clipped>>

\* What the frame loop does with the segmenter's event.
Emit(event) ==
  \/ /\ event \in {"endpoint", "forced"}
     /\ EmitEndpoint([mode |-> turnMode, kind |-> detection',
                      forced |-> event = "forced"])
  \/ event = "resumed" /\ pending # 0 /\ EmitResumed
  \/ event = "confirmed" /\ pending # 0 /\ EmitConfirmed
  \/ event \in {"resumed", "confirmed"} /\ pending = 0 /\ QuietFrame
  \/ event = "none" /\ QuietFrame

Hear(level) ==
  /\ run' = IF level = "loud" THEN (IF run < PreRoll THEN run + 1 ELSE run) ELSE 0
  /\ clipped' = (clipped \/ /\ ~seg.recording /\ seg'.recording
                            /\ seg'.kept < run')

SpeechFrame(level) ==
  LET r == AcceptChunk(Listener, level)
  IN  /\ session = "frame" /\ ~Waiting
      /\ vad' = r.vad /\ seg' = r.seg /\ started' = r.started
      /\ UNCHANGED detection
      /\ Emit(r.event)
      /\ Hear(level)
      /\ UNCHANGED <<spotter, open, credit>>

KeyphraseFrame ==
  /\ Waiting /\ QuietFrame /\ run' = 0
  /\ UNCHANGED <<vad, seg, detection, started, spotter, open, credit, clipped>>

WakeDetected(levels) ==
  LET r == Replay(Listener, levels)
  IN  /\ session = "frame" /\ Waiting
      /\ detection' = "wake" /\ credit' = credit + 1
      /\ vad' = r.vad /\ seg' = r.seg /\ started' = r.started
      /\ Emit(r.event)
      /\ CloseSpotters /\ run' = 0 /\ UNCHANGED clipped

\* The phrase is confirmed by transcribing the spotter's own audio, if any.
ConversationOnDetected(heard) ==
  /\ session = "frame" /\ Waiting
  /\ detection' = "on" /\ credit' = credit + 1
  /\ Emit(IF heard THEN "forced" ELSE "none")
  /\ CloseSpotters /\ run' = 0 /\ UNCHANGED <<vad, seg, started, clipped>>

FinishTurn ==
  /\ TurnFinished
  /\ credit' = IF capture.mode = "wake" THEN credit - 1 ELSE credit
  /\ IF session' = "returned"
     THEN CloseSpotters /\ UNCHANGED <<vad, seg, detection, started, run>>
     ELSE FreshTurn
  /\ UNCHANGED clipped

\* Not reached while the gate waits: those frames skip the deadline.
ListenTimeout ==
  /\ ~Waiting /\ detection = "none" /\ ~started /\ session = "frame" /\ Failed
  /\ CloseSpotters
  /\ UNCHANGED <<vad, seg, detection, started, credit, run, clipped>>

CaptureEnds ==
  /\ Interrupted \/ (session = "listening" /\ Failed)
  /\ CloseSpotters
  /\ UNCHANGED <<vad, seg, detection, started, credit, run, clipped>>

Consumer == ConsumerStep /\ UNCHANGED audioVars

CaptureNext ==
  \/ Poll \/ KeyphraseFrame \/ FinishTurn \/ ListenTimeout \/ CaptureEnds
  \/ Consumer
  \/ \E level \in Levels : SpeechFrame(level)
  \/ \E levels \in SeqOf(Levels, ReplayBound) : WakeDetected(levels)
  \/ \E heard \in BOOLEAN : ConversationOnDetected(heard)

CaptureSpec == CaptureInit /\ [][CaptureNext]_captureVars

(* Between frames the session holds a provisional turn exactly while the  *)
(* segmenter holds a provisional endpoint, it is still recording then and *)
(* the detector hears no speech: the two machines never drift apart.      *)
ProvisionalAgree ==
  session \in {"listening", "frame"} =>
    /\ (pending # 0) <=> (seg.silent # -1)
    /\ pending # 0 => seg.recording /\ ~vad.in /\ Final(capture) = FALSE

(* In wake mode no turn is finished without a keyphrase of its own.       *)
WakeGated == credit >= 0

(* At most one phrase spotter is open, the one of the turn listened to,   *)
(* and none is left when the session ends, however it ends.               *)
SpottersClosed ==
  /\ open = (IF spotter THEN 1 ELSE 0)
  /\ session \in Over => ~spotter

(* "--pre-speech-ms keeps audio just before VAD start so first syllables  *)
(* are not cut off": outside the keyphrase gate a recording holds the     *)
(* loud chunks of its turn that led to it, as far as the pre-roll         *)
(* reaches.  Each turn has a segmenter of its own, so what was said just  *)
(* before a mode change or a finished turn is not in the next recording.  *)
FirstSyllablesKept == ~clipped

(* A single captured turn is the first endpoint of its script, after a     *)
(* phrase in wake mode; it times out only while nothing was detected or    *)
(* said, and the times it reports add up (turn_capture.py).                *)
OneTurnSound(modes, scripts) ==
  \A m \in modes, script \in scripts :
    LET t == CaptureOnce(m, script)
        spotted == {i \in DOMAIN script : i <= t.now /\ script[i].spot # "none"}
    IN  /\ m = "wake" => (t.gated <=> spotted = {}) /\ (t.out = "utterance" => ~t.gated)
        /\ t.out = "timeout" => script[t.now].late /\ t.startedAt = -1
        /\ t.out = "utterance" /\ t.startedAt # -1 =>
              t.times.wait + t.times.spoken = t.times.listen /\ t.times.listen = t.now
        /\ t.out = "utterance" /\ t.startedAt = -1 => t.kind = "on"
        /\ t.out = "none" => t.now = Len(script)

(* The segmenter, the gate, the spotters and the session agree, whatever is  *)
(* heard, whoever changes the mode and however the session ends.             *)
CaptureSound ==
  CaptureTypeOK /\ ProvisionalAgree /\ WakeGated /\ SpottersClosed /\ FirstSyllablesKept
=============================================================================
