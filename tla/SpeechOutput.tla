---------------------------- MODULE SpeechOutput ----------------------------
(***************************************************************************)
(* Spoken replies and barge-in: the reply queue of speech/tts.py, the      *)
(* chunked playback of speech/kokoro_onnx.py, the output buffer of         *)
(* speech/playback.py and the detector of voice/barge_in.py.  Four actors  *)
(* interleave: the threads that speak a reply, the queue's worker, the     *)
(* audio callback, and the capture thread whose frames feed the detector   *)
(* and which runs the interruption.  Synthesis and the classification of   *)
(* a microphone frame are free; a chunk of audio is played as a whole.     *)
(* The first use of the device decides how chunks are played, for good: by *)
(* the callback of an output stream, or, when the stream cannot start or   *)
(* the voice has another sample rate, by sounddevice.play and wait.        *)
(***************************************************************************)
EXTENDS Naturals, Sequences, FiniteSets

CONSTANTS
  Replies,        \* the replies the agent speaks
  Chunks,         \* chunks of speech per reply
  RequiredVoice,  \* voice frames that make a barge-in
  None            \* no reply

ASSUME SpeechBounds ==
  None \notin Replies /\ Chunks \in Nat \ {0} /\ RequiredVoice \in Nat \ {0}

VARIABLES
  device,       \* "stream"; "play": no stream; "mixed": a stream of another rate
  jobs,         \* Queue[_SpeechJob]
  worker,       \* where QueuedTextSpeaker._run is
  cur,          \* the job the worker holds
  active,       \* _active of the queue
  playback,     \* _playback of the speaker, None or the reply
  interrupted,  \* replies with state.interrupted
  queued,       \* chunks of the current reply handed to the output
  out,          \* chunks in the output buffer, by reply
  played,       \* played_samples of the output, in chunks
  interrupter,  \* where the capture thread is in interrupt()
  voice,        \* _voice_samples of the detector, in frames
  triggered,    \* _triggered of the detector
  status,       \* history: what became of each reply
  heard,        \* history: chunks of each reply that were played
  late,         \* history: chunks played after the reply's interruption cleared
  silenced,     \* history: replies whose interruption has cleared the output
  hit,          \* history: replies during whose playback the output was cleared
  reported      \* history: chunks an interruption reported as spoken

vars == <<device, jobs, worker, cur, active, playback, interrupted, queued, out, played,
          interrupter, voice, triggered, status, heard, late, silenced, hit,
          reported>>

TypeOK ==
  /\ jobs \in Seq(Replies) /\ cur \in Replies \cup {None}
  /\ worker \in {"idle", "taken", "active", "begun", "next", "synthesised",
                 "checked", "playing", "draining", "ending"}
  /\ device \in {"stream", "play", "mixed"}
  /\ active \in BOOLEAN /\ playback \in Replies \cup {None}
  /\ interrupted \subseteq Replies /\ queued \in 0..Chunks
  /\ out \in Seq(Replies) /\ played \in Nat
  /\ interrupter \in {"idle", "flag", "clear", "drain"}
  /\ voice \in 0..RequiredVoice /\ triggered \in BOOLEAN
  /\ status \in [Replies -> {"new", "queued", "speaking", "finished", "cut",
                             "error", "dropped"}]
  /\ heard \in [Replies -> Nat] /\ late \in [Replies -> Nat]
  /\ silenced \subseteq Replies /\ hit \subseteq Replies
  /\ reported \in [Replies -> Nat]

Init ==
  /\ device \in {"stream", "play", "mixed"}
  /\ jobs = <<>> /\ worker = "idle" /\ cur = None /\ active = FALSE
  /\ playback = None /\ interrupted = {} /\ queued = 0 /\ out = <<>> /\ played = 0
  /\ interrupter = "idle" /\ voice = 0 /\ triggered = FALSE
  /\ status = [r \in Replies |-> "new"] /\ heard = [r \in Replies |-> 0]
  /\ late = [r \in Replies |-> 0] /\ silenced = {} /\ hit = {}
  /\ reported = [r \in Replies |-> 0]

SameDetector == UNCHANGED <<interrupter, voice, triggered>>

SameSound == UNCHANGED <<device, out, played, heard, late, hit>>

SameHistory == UNCHANGED <<silenced, reported>>

\* Each reply is spoken from a thread of its own.
Speak(r) ==
  /\ status[r] = "new" /\ status' = [status EXCEPT ![r] = "queued"]
  /\ jobs' = Append(jobs, r)
  /\ SameDetector /\ SameSound /\ SameHistory
  /\ UNCHANGED <<worker, cur, active, playback, interrupted, queued>>

------------------------------------------------------------------------------
(* The worker.                                                              *)
At(from, to) == worker = from /\ worker' = to /\ SameDetector /\ SameHistory

\* Mutant: the worker looks at the flag before the first chunk only.
InterruptedBefore(r) == r \in interrupted /\ queued = 0

Interrupted(r) == r \in interrupted

TakeJob ==
  /\ jobs # <<>> /\ At("idle", "taken")
  /\ cur' = Head(jobs) /\ jobs' = Tail(jobs)
  /\ status' = [status EXCEPT ![Head(jobs)] = "speaking"]
  /\ SameSound /\ UNCHANGED <<active, playback, interrupted, queued>>

MarkActive ==
  /\ At("taken", "active") /\ active' = TRUE
  /\ SameSound /\ UNCHANGED <<jobs, cur, playback, interrupted, queued, status>>

BeginPlayback ==
  /\ At("active", "begun") /\ playback' = cur
  /\ SameSound /\ UNCHANGED <<jobs, cur, active, interrupted, queued, status>>

\* Mutant: the count of what was played goes on from the reply before.
ResetOutputKeepsCount ==
  /\ At("begun", "next") /\ out' = <<>> /\ queued' = 0
  /\ UNCHANGED <<device, played, heard, late, hit, jobs, cur, active, playback, interrupted,
                 status>>

ResetOutput ==
  /\ At("begun", "next") /\ out' = <<>> /\ played' = 0 /\ queued' = 0
  /\ UNCHANGED <<device, heard, late, hit, jobs, cur, active, playback, interrupted,
                 status>>

NextChunk ==
  /\ queued < Chunks
  /\ At("next", IF Interrupted(cur) THEN "ending" ELSE "synthesised")
  /\ SameSound
  /\ UNCHANGED <<jobs, cur, active, playback, interrupted, queued, status>>

Synthesised ==
  /\ At("synthesised", IF Interrupted(cur) THEN "ending" ELSE "checked")
  /\ SameSound
  /\ UNCHANGED <<jobs, cur, active, playback, interrupted, queued, status>>

\* Into the stream's buffer, or to sounddevice.play, which stops what it plays.
Enqueue ==
  /\ At("checked", IF device = "stream" THEN "next" ELSE "playing")
  /\ out' = IF device = "stream" THEN Append(out, cur) ELSE <<cur>>
  /\ queued' = queued + 1
  /\ UNCHANGED <<device, played, heard, late, hit, jobs, cur, active, playback,
                 interrupted, status>>

\* sounddevice.wait() returns.
WaitPlayed ==
  /\ out = <<>> /\ At("playing", "next") /\ SameSound
  /\ UNCHANGED <<jobs, cur, active, playback, interrupted, queued, status>>

AllQueued ==
  /\ queued = Chunks /\ At("next", "draining") /\ SameSound
  /\ UNCHANGED <<jobs, cur, active, playback, interrupted, queued, status>>

\* Mutant: the wait is for the samples that were queued to be played.
DrainedWhenPlayed ==
  /\ played = queued /\ At("draining", "ending")
  /\ status' = [status EXCEPT ![cur] = IF Interrupted(cur) THEN @ ELSE "finished"]
  /\ SameSound /\ UNCHANGED <<jobs, cur, active, playback, interrupted, queued>>

Drained ==
  /\ out = <<>> /\ At("draining", "ending")
  /\ status' = [status EXCEPT ![cur] = IF Interrupted(cur) THEN @ ELSE "finished"]
  /\ SameSound /\ UNCHANGED <<jobs, cur, active, playback, interrupted, queued>>

\* An exception of the model or of the device: tts-error.
SynthesisFails ==
  /\ At("synthesised", "ending")
  /\ status' = [status EXCEPT ![cur] = "error"]
  /\ SameSound /\ UNCHANGED <<jobs, cur, active, playback, interrupted, queued>>

EndJob ==
  /\ At("ending", "idle")
  /\ status' = [status EXCEPT ![cur] = IF @ = "speaking" THEN "cut" ELSE @]
  /\ playback' = None /\ active' = FALSE /\ cur' = None
  /\ SameSound /\ UNCHANGED <<jobs, interrupted, queued>>

WorkerStep ==
  \/ TakeJob \/ MarkActive \/ BeginPlayback \/ ResetOutput \/ NextChunk
  \/ Synthesised \/ Enqueue \/ WaitPlayed \/ AllQueued \/ Drained
  \/ SynthesisFails \/ EndJob

------------------------------------------------------------------------------
(* The audio callback: of the stream, which counts, or of sounddevice.play.  *)
Callback ==
  /\ out # <<>> /\ out' = Tail(out)
  /\ played' = IF device = "stream" THEN played + 1 ELSE played
  /\ heard' = [heard EXCEPT ![Head(out)] = @ + 1]
  /\ late' = [late EXCEPT ![Head(out)] = IF Head(out) \in silenced THEN @ + 1 ELSE @]
  /\ SameDetector /\ SameHistory
  /\ UNCHANGED <<jobs, worker, cur, active, playback, interrupted, queued,
                 status, hit, device>>

------------------------------------------------------------------------------
(* The capture thread: the detector, then the interruption it asks for.      *)
IsSpeaking ==
  \/ active \/ jobs # <<>>
  \/ playback # None /\ playback \notin interrupted

SameWorker == UNCHANGED <<worker, cur, active, playback, queued>>

\* One frame; echo is voice that matches what the speaker plays.
Frame(kind, human) ==
  LET count == IF voice < RequiredVoice THEN voice + 1 ELSE voice
      fires == /\ IsSpeaking /\ kind = "voice" /\ human /\ ~triggered
               /\ count = RequiredVoice
  IN  /\ interrupter = "idle"
      /\ IF IsSpeaking /\ kind = "voice"
         THEN voice' = count /\ triggered' = (triggered \/ fires)
         ELSE voice' = 0 /\ triggered' = FALSE
      /\ interrupter' = IF fires THEN "flag" ELSE "idle"
      /\ SameWorker /\ SameSound /\ SameHistory
      /\ UNCHANGED <<jobs, interrupted, status>>

CanInterrupt == playback # None /\ playback \notin interrupted

\* Chunks in state.chunks: one more than were handed over, between the two.
Added ==
  CASE worker \in {"active", "begun"} -> 0
    [] worker = "checked" -> queued + 1
    [] OTHER -> queued

\* What the interruption may report: the clock since the first chunk, capped by
\* the stream's count when there is a stream and by the chunks that were added.
Reportable ==
  CASE device = "play"   -> 0..Added
    [] device = "mixed"  -> {0}
    [] device = "stream" -> IF Added = 0 \/ queued = 0 THEN {0} ELSE 0..played

FlagPlayback ==
  /\ interrupter = "flag"
  /\ IF CanInterrupt
     THEN /\ interrupted' = interrupted \cup {playback}
          /\ \E n \in Reportable :
               reported' = [reported EXCEPT ![playback] = n]
          /\ interrupter' = "clear"
     ELSE interrupter' = "drain" /\ UNCHANGED <<interrupted, reported>>
  /\ SameWorker /\ SameSound
  /\ UNCHANGED <<jobs, voice, triggered, status, silenced>>

\* output.clear() and sounddevice.stop().
ClearOutput ==
  /\ interrupter = "clear" /\ interrupter' = "drain"
  /\ out' = <<>> /\ silenced' = interrupted
  /\ hit' = hit \cup ({playback} \ {None})
  /\ SameWorker
  /\ UNCHANGED <<device, jobs, interrupted, played, voice, triggered, status,
                 heard, late, reported>>

ClearPending ==
  /\ interrupter = "drain" /\ interrupter' = "idle"
  /\ jobs' = <<>>
  /\ status' = [r \in Replies |-> IF status[r] = "queued" THEN "dropped" ELSE status[r]]
  /\ SameWorker /\ SameSound /\ SameHistory
  /\ UNCHANGED <<interrupted, voice, triggered>>

InterruptStep == FlagPlayback \/ ClearOutput \/ ClearPending

Next ==
  \/ WorkerStep \/ Callback \/ InterruptStep
  \/ \E r \in Replies : Speak(r)
  \/ \E kind \in {"voice", "echo", "silence"}, human \in BOOLEAN : Frame(kind, human)

Spec == Init /\ [][Next]_vars

(* The worker and the audio device run, and an interruption once begun ends.  *)
FairSpec == Spec /\ WF_vars(WorkerStep) /\ WF_vars(Callback) /\ WF_vars(InterruptStep)

------------------------------------------------------------------------------
(* After an interruption has cleared the output at most one more chunk of the *)
(* reply is heard: the one the worker had checked and not yet queued.         *)
OneLateChunk == \A r \in Replies : late[r] <= 1

(* A reply reported finished was heard to the end, unless an interruption of  *)
(* an earlier reply cleared the output while it played.                       *)
FinishedWasHeard ==
  \A r \in Replies : status[r] = "finished" => heard[r] = Chunks \/ r \in hit

(* An interruption counts as spoken no more chunks than were heard when the   *)
(* output stream counts them.  By the clock alone, without a stream, it may   *)
(* count one more, the chunk that plays or is about to; only a reply whose    *)
(* sound an interruption of an earlier reply cleared is counted further.      *)
ReportedWasHeard ==
  \A r \in Replies :
    /\ device # "play" => reported[r] <= heard[r]
    /\ r \notin hit => reported[r] <= heard[r] + 1

(* When no interruption runs and the speaker says it is not speaking, so that *)
(* no frame can interrupt it, the output holds sound in two cases only: one   *)
(* late chunk of an interrupted reply, or chunks of a reply whose synthesis   *)
(* failed after they were queued.                                             *)
SilentWhenNotSpeaking ==
  (~IsSpeaking /\ interrupter = "idle") =>
    /\ \A i \in 1..Len(out) : out[i] \in interrupted \/ status[out[i]] = "error"
    /\ Cardinality({i \in 1..Len(out) : out[i] \in interrupted}) <= 1

(* What the host says about a reply, finished, interrupted or silent, agrees  *)
(* with what came out of the speaker, with and without an output stream.      *)
WhatIsHeard == TypeOK /\ FinishedWasHeard /\ ReportedWasHeard /\ SilentWhenNotSpeaking

(* Every queued reply is spoken, cut, dropped or reported as failed: no       *)
(* interruption leaves the worker waiting for sound that never plays.         *)
RepliesEnd ==
  \A r \in Replies : status[r] \in {"queued", "speaking"}
    ~> status[r] \in {"finished", "cut", "error", "dropped"}
=============================================================================
