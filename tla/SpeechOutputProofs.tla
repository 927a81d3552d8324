------------------------- MODULE SpeechOutputProofs -------------------------
(***************************************************************************)
(* After an interruption at most one more chunk of the reply is heard, for *)
(* any number of replies and chunks and any interleaving of the worker,    *)
(* the audio callback and the capture thread.  The allowance of a silenced *)
(* reply is one chunk, and it is in one place at a time: checked by the    *)
(* worker and not yet queued, in the output, or heard.                     *)
(*                                                                         *)
(* The second theorem, SpokenIsHeard, is that what is reported of a reply  *)
(* is what was heard of it.  Its invariant HeardInv follows each chunk from *)
(* the job queue through the worker and the output to the ear.             *)
(***************************************************************************)
EXTENDS SpeechOutput, FiniteSetTheorems, TLAPS

(* The parts of TypeOK that the argument needs. *)
Types ==
  /\ jobs \in Seq(Replies) /\ out \in Seq(Replies)
  /\ worker # "idle" => cur \in Replies
  /\ late \in [Replies -> Nat]

InOutput(r) == \E i \in 1..Len(out) : out[i] = r

AboutToQueue(r) == worker = "checked" /\ cur = r

(* The one chunk of a silenced reply. *)
Allowance ==
  \A r \in Replies :
    /\ r \notin silenced => late[r] = 0
    /\ r \in silenced =>
         /\ r \in interrupted /\ late[r] <= 1
         /\ \A i, j \in 1..Len(out) : out[i] = r /\ out[j] = r => i = j
         /\ InOutput(r) => late[r] = 0
         /\ AboutToQueue(r) => late[r] = 0 /\ ~InOutput(r)

SpeechInv == Types /\ Allowance

LEMMA InitSpeechInv == Init => SpeechInv
BY DEF Init, SpeechInv, Types, Allowance

(* The output is a sequence of replies. *)
LEMMA AppendReply ==
  ASSUME NEW q \in Seq(Replies), NEW r \in Replies
  PROVE  /\ Append(q, r) \in Seq(Replies) /\ Len(Append(q, r)) = Len(q) + 1
         /\ \A i \in 1..Len(q) : Append(q, r)[i] = q[i]
         /\ Append(q, r)[Len(q) + 1] = r
OBVIOUS

LEMMA TailReplies ==
  ASSUME NEW q \in Seq(Replies), q # <<>>
  PROVE  /\ Tail(q) \in Seq(Replies) /\ Len(Tail(q)) = Len(q) - 1
         /\ \A i \in 1..Len(Tail(q)) : Tail(q)[i] = q[i + 1] /\ i + 1 \in 1..Len(q)
         /\ 1 \in 1..Len(q) /\ Head(q) = q[1] /\ Head(q) \in Replies
OBVIOUS

(* A step that leaves the output alone and lets no silenced reply pass the   *)
(* worker's checks.                                                          *)
LEMMA OutputUntouched ==
  ASSUME SpeechInv, out' = out, late' = late, silenced' = silenced, interrupted \subseteq interrupted',
         jobs' \in Seq(Replies), worker' # "idle" => cur' \in Replies,
         \A r \in Replies : AboutToQueue(r)' => AboutToQueue(r) \/ r \notin interrupted
  PROVE  SpeechInv'
BY DEF SpeechInv, Types, Allowance, InOutput

(* A step that empties the output. *)
LEMMA OutputCleared ==
  ASSUME SpeechInv, out' = <<>>, late' = late, silenced' \in {silenced, interrupted},
         interrupted' = interrupted, jobs' = jobs, cur' = cur, worker # "idle",
         worker' \notin {"idle", "checked"} \/ worker' = worker
  PROVE  SpeechInv'
<1>1. Types'
  BY DEF SpeechInv, Types
<1>2. Len(out') = 0 /\ \A r : ~InOutput(r)'
  BY DEF InOutput
<1>3. \A r \in Replies : AboutToQueue(r)' => AboutToQueue(r)
  BY DEF AboutToQueue
<1>4. Allowance'
  BY <1>2, <1>3 DEF SpeechInv, Allowance, Types
<1> QED
  BY <1>1, <1>4 DEF SpeechInv

LEMMA WorkerPreserves == SpeechInv /\ WorkerStep => SpeechInv'
<1> SUFFICES ASSUME SpeechInv, WorkerStep PROVE SpeechInv'
  OBVIOUS
<1> USE DEF At, SameDetector, SameHistory, SameSound
<1>1. CASE TakeJob
  BY <1>1, TailReplies, OutputUntouched DEF TakeJob, SpeechInv, Types, AboutToQueue
<1>2. CASE MarkActive \/ BeginPlayback \/ NextChunk \/ WaitPlayed \/ AllQueued \/ Drained
          \/ SynthesisFails \/ EndJob
  BY <1>2, OutputUntouched
  DEF MarkActive, BeginPlayback, NextChunk, WaitPlayed, AllQueued, Drained, SynthesisFails, EndJob,
      SpeechInv, Types, AboutToQueue
<1>3. CASE Synthesised
  BY <1>3, OutputUntouched DEF Synthesised, Interrupted, SpeechInv, Types, AboutToQueue
<1>4. CASE ResetOutput
  BY <1>4, OutputCleared DEF ResetOutput
<1>5. CASE Enqueue
  <2>1. /\ cur \in Replies /\ out' \in {Append(out, cur), <<cur>>} /\ out \in Seq(Replies)
        /\ worker = "checked" /\ worker' \in {"next", "playing"} /\ cur' = cur
        /\ late' = late /\ silenced' = silenced /\ interrupted' = interrupted /\ jobs' = jobs
    BY <1>5 DEF Enqueue, SpeechInv, Types
  <2>5. /\ out' \in Seq(Replies)
        /\ \A i \in 1..Len(out') :
             \/ i = Len(out') /\ out'[i] = cur
             \/ i \in 1..Len(out) /\ out'[i] = out[i]
    <3>1. CASE out' = Append(out, cur)
      <4>1. /\ out' \in Seq(Replies) /\ Len(out') = Len(out) + 1 /\ Len(out) \in Nat
            /\ out'[Len(out) + 1] = cur /\ \A i \in 1..Len(out) : out'[i] = out[i]
        BY <2>1, <3>1, AppendReply
      <4>2. \A i \in 1..Len(out') : i \in 1..Len(out) \/ i = Len(out) + 1
        BY <4>1
      <4> QED
        BY <4>1, <4>2
    <3>2. CASE out' = <<cur>>
      <4>1. out' \in Seq(Replies) /\ Len(out') = 1 /\ out'[1] = cur
        BY <2>1, <3>2
      <4>2. \A i \in 1..Len(out') : i = Len(out')
        BY <4>1
      <4> QED
        BY <4>1, <4>2
    <3> QED
      BY <2>1, <3>1, <3>2
  <2>2. Types'
    BY <2>1, <2>5 DEF SpeechInv, Types
  <2>3. ASSUME NEW r \in Replies, r \in silenced
        PROVE  /\ \A i, j \in 1..Len(out') : out'[i] = r /\ out'[j] = r => i = j
               /\ InOutput(r)' => late[r] = 0
    <3>1. CASE r = cur
      <4>1. late[r] = 0 /\ \A i \in 1..Len(out) : out[i] # r
        BY <2>1, <2>3, <3>1 DEF SpeechInv, Allowance, AboutToQueue, InOutput
      <4> QED
        BY <2>5, <4>1
    <3>2. CASE r # cur
      <4>1. /\ \A i, j \in 1..Len(out) : out[i] = r /\ out[j] = r => i = j
            /\ InOutput(r) => late[r] = 0
        BY <2>3 DEF SpeechInv, Allowance
      <4>2. \A i \in 1..Len(out') : out'[i] = r => i \in 1..Len(out) /\ out[i] = r
        BY <2>5, <3>2
      <4> QED
        BY <4>1, <4>2 DEF InOutput
    <3> QED
      BY <3>1, <3>2
  <2>4. Allowance'
    BY <2>1, <2>3 DEF SpeechInv, Allowance, AboutToQueue
  <2> QED
    BY <2>2, <2>4 DEF SpeechInv
<1> QED
  BY <1>1, <1>2, <1>3, <1>4, <1>5 DEF WorkerStep

LEMMA CallbackPreserves == SpeechInv /\ Callback => SpeechInv'
<1> SUFFICES ASSUME SpeechInv, Callback PROVE SpeechInv'
  OBVIOUS
<1>0. PICK h \in Replies : h = Head(out)
  BY TailReplies DEF Callback, SpeechInv, Types
<1>1. /\ out # <<>> /\ out' = Tail(out) /\ out \in Seq(Replies) /\ h = Head(out)
      /\ silenced' = silenced /\ interrupted' = interrupted /\ jobs' = jobs
      /\ worker' = worker /\ cur' = cur
      /\ late' = [late EXCEPT ![h] = IF h \in silenced THEN @ + 1 ELSE @]
  BY <1>0 DEF Callback, SameHistory, SpeechInv, Types
<1>2. Types'
  BY <1>1, TailReplies DEF SpeechInv, Types
<1>3. ASSUME NEW r \in Replies PROVE InOutput(r)' => InOutput(r)
  BY <1>1, TailReplies DEF InOutput
<1>4. InOutput(h) /\ \A r \in Replies : r # h => late'[r] = late[r]
  BY <1>1, TailReplies DEF InOutput, SpeechInv, Types
<1>5. ASSUME NEW r \in Replies, r \in silenced
      PROVE  \A i, j \in 1..Len(out') : out'[i] = r /\ out'[j] = r => i = j
  BY <1>1, <1>5, TailReplies DEF SpeechInv, Allowance
<1>6. h \in silenced => late[h] = 0 /\ late'[h] = 1 /\ ~InOutput(h)' /\ ~AboutToQueue(h)
  <2> SUFFICES ASSUME h \in silenced
               PROVE  late[h] = 0 /\ late'[h] = 1 /\ ~InOutput(h)' /\ ~AboutToQueue(h)
    OBVIOUS
  <2>1. late[h] = 0 /\ ~AboutToQueue(h)
    BY <1>1, <1>4 DEF SpeechInv, Allowance
  <2>2. late'[h] = 1
    BY <1>1, <2>1 DEF SpeechInv, Types
  <2>3. \A i \in 1..Len(out) : out[i] = h => i = 1
    BY <1>1, TailReplies DEF SpeechInv, Allowance
  <2>4. ~InOutput(h)'
    BY <1>1, <2>3, TailReplies DEF InOutput
  <2> QED
    BY <2>1, <2>2, <2>4
<1>7. h \notin silenced => late' = late
  BY <1>1 DEF SpeechInv, Types
<1>8. \A r \in Replies : AboutToQueue(r)' <=> AboutToQueue(r)
  BY <1>1 DEF AboutToQueue
<1>9. Allowance'
  BY <1>1, <1>3, <1>4, <1>5, <1>6, <1>7, <1>8 DEF SpeechInv, Allowance
<1> QED
  BY <1>2, <1>9 DEF SpeechInv

LEMMA InterruptPreserves ==
  ASSUME SpeechInv, InterruptStep PROVE SpeechInv'
<1> USE DEF SameWorker, SameSound, SameHistory
<1>1. CASE FlagPlayback
  BY <1>1, OutputUntouched DEF FlagPlayback, SpeechInv, Types, AboutToQueue
<1>2. CASE ClearPending
  BY <1>2, OutputUntouched DEF ClearPending, SpeechInv, Types, AboutToQueue
<1>3. CASE ClearOutput
  BY <1>3 DEF ClearOutput, SpeechInv, Types, Allowance, InOutput, AboutToQueue
<1> QED
  BY <1>1, <1>2, <1>3 DEF InterruptStep

LEMMA SpeechStepPreserves == SpeechInv /\ [Next]_vars => SpeechInv'
<1> SUFFICES ASSUME SpeechInv, [Next]_vars PROVE SpeechInv'
  OBVIOUS
<1>1. CASE UNCHANGED vars
  BY <1>1, OutputUntouched DEF vars, SpeechInv, Types, AboutToQueue
<1>2. ASSUME NEW r \in Replies, Speak(r) PROVE SpeechInv'
  BY <1>2, AppendReply, OutputUntouched
  DEF Speak, SameSound, SameHistory, SpeechInv, Types, AboutToQueue
<1>3. ASSUME NEW kind, NEW human, Frame(kind, human) PROVE SpeechInv'
  BY <1>3, OutputUntouched
  DEF Frame, SameWorker, SameSound, SameHistory, SpeechInv, Types, AboutToQueue
<1> QED
  BY <1>1, <1>2, <1>3, WorkerPreserves, CallbackPreserves, InterruptPreserves DEF Next

(* However many replies and chunks there are: once an interruption has       *)
(* cleared the output, the person hears at most one more chunk of the reply  *)
(* it cut, the one Kokoro's playback loop had checked before (kokoro_onnx.py,*)
(* playback.py, tts.py).                                                     *)
THEOREM InterruptionsTakeEffect == Spec => []OneLateChunk
<1>1. SpeechInv => OneLateChunk
  BY DEF SpeechInv, Types, Allowance, OneLateChunk
<1> QED
  BY InitSpeechInv, SpeechStepPreserves, <1>1, PTL DEF Spec

-----------------------------------------------------------------------------
(* What was said about a reply is what was heard of it.  From the reset of   *)
(* the output to the end of its job a reply has the output to itself, so the *)
(* count of samples played is the count of its own; what the output holds    *)
(* after a job is of that one reply, cut or failed.                          *)

Speaking == {"next", "synthesised", "checked", "playing", "draining"}

(* Where the worker is decides what it holds. *)
Phases ==
  /\ IF worker = "idle" THEN cur = None ELSE cur \in Replies
  /\ active = (worker \notin {"idle", "taken"})
  /\ playback = IF worker \in {"idle", "taken", "active"} THEN None ELSE cur
  /\ worker \notin {"idle", "ending"} => status[cur] = "speaking"
  /\ worker = "ending" =>
       \/ status[cur] = "speaking" /\ cur \in interrupted
       \/ status[cur] = "finished" /\ out = <<>>
       \/ status[cur] = "error"
  /\ worker \in {"synthesised", "checked"} => queued < Chunks
  /\ worker = "draining" => queued = Chunks

(* What waits is queued, and waits once. *)
JobsQueued ==
  /\ \A i \in 1..Len(jobs) : status[jobs[i]] = "queued"
  /\ \A i, j \in 1..Len(jobs) : jobs[i] = jobs[j] => i = j

(* Nothing is heard of a reply before its output is reset. *)
Unplayed(r) == status[r] \in {"new", "queued"} \/ (cur = r /\ worker \in {"taken", "active", "begun"})

UnplayedUnheard == \A r \in Replies : Unplayed(r) => heard[r] = 0 /\ ~InOutput(r)

(* The reply that plays has the output to itself. *)
OwnOutput ==
  worker \in Speaking \cup {"ending"} =>
    /\ \A i \in 1..Len(out) : out[i] = cur
    /\ device = "stream" => played = heard[cur]
    /\ cur \notin hit => heard[cur] + Len(out) = queued

(* Without the stream's buffer one chunk plays at a time, and the worker      *)
(* waits for it.                                                              *)
OneAtATime ==
  device # "stream" => Len(out) <= 1 /\ (worker # "playing" => Len(out) = 0)

(* After a job the output holds what was cut or failed. *)
Leftover ==
  worker \notin Speaking \cup {"ending"} =>
    \A i \in 1..Len(out) : out[i] \in interrupted \/ status[out[i]] = "error"

OneReply == \A i, j \in 1..Len(out) : out[i] = out[j]

FinishedGone == \A r \in Replies : status[r] = "finished" => ~InOutput(r)

(* Between interruptions every interrupted reply has had its output cleared. *)
AllSilenced == interrupter # "clear" => silenced = interrupted

HeardParts ==
  /\ Phases /\ JobsQueued /\ UnplayedUnheard /\ OwnOutput /\ OneAtATime /\ Leftover
  /\ OneReply /\ FinishedGone /\ AllSilenced /\ FinishedWasHeard /\ ReportedWasHeard

HeardInv == TypeOK /\ Allowance /\ HeardParts


LEMMA CountStays ==
  ASSUME NEW f \in [Replies -> Nat], NEW r \in Replies, NEW n \in Nat
  PROVE  [f EXCEPT ![r] = n] \in [Replies -> Nat]
OBVIOUS

LEMMA InitHeard == Init => HeardInv
<1> SUFFICES ASSUME Init PROVE HeardInv
  OBVIOUS
<1>1. TypeOK
  <2>1. queued \in 0..Chunks /\ voice \in 0..RequiredVoice
    BY SpeechBounds DEF Init
  <2>2. active \in BOOLEAN /\ triggered \in BOOLEAN
    BY DEF Init
  <2>3. jobs \in Seq(Replies) /\ out \in Seq(Replies)
    BY DEF Init
  <2>4. status \in [Replies -> {"new", "queued", "speaking", "finished", "cut", "error", "dropped"}]
    BY DEF Init
  <2> QED
    BY <2>1, <2>2, <2>3, <2>4 DEF Init, TypeOK
<1>2. Allowance
  BY InitSpeechInv DEF SpeechInv
<1>3. Phases
  BY DEF Init, Phases
<1>4. JobsQueued /\ OwnOutput /\ OneAtATime /\ Leftover /\ OneReply /\ AllSilenced
  BY DEF Init, JobsQueued, OwnOutput, OneAtATime, Leftover, OneReply, AllSilenced, Speaking
<1>5. UnplayedUnheard /\ FinishedGone /\ FinishedWasHeard /\ ReportedWasHeard
  BY DEF Init, UnplayedUnheard, FinishedGone, FinishedWasHeard, ReportedWasHeard, InOutput
<1> QED
  BY <1>1, <1>2, <1>3, <1>4, <1>5 DEF HeardInv, HeardParts

LEMMA TypesOfHeard == TypeOK /\ Phases => Types
BY DEF TypeOK, Phases, Types

LEMMA AllowanceStays == HeardInv /\ [Next]_vars => Allowance'
<1> SUFFICES ASSUME HeardInv, [Next]_vars PROVE Allowance'
  OBVIOUS
<1>1. SpeechInv
  BY TypesOfHeard DEF HeardInv, HeardParts, SpeechInv
<1> QED
  BY <1>1, SpeechStepPreserves DEF SpeechInv

LEMMA HeardTypes == HeardInv /\ [Next]_vars => TypeOK'
<1> SUFFICES ASSUME HeardInv, [Next]_vars PROVE TypeOK'
  OBVIOUS
<1>1. TypeOK /\ Phases
  BY DEF HeardInv, HeardParts
<1> USE SpeechBounds DEF At, SameDetector, SameHistory, SameSound, SameWorker
<1>2. CASE UNCHANGED vars
  BY <1>1, <1>2 DEF vars, TypeOK
<1>3. CASE TakeJob
  BY <1>1, <1>3, TailReplies DEF TakeJob, TypeOK
<1>4. CASE MarkActive \/ BeginPlayback \/ ResetOutput \/ NextChunk \/ Synthesised \/ WaitPlayed
          \/ AllQueued
  <2>1. CASE MarkActive \/ BeginPlayback
    BY <1>1, <2>1 DEF MarkActive, BeginPlayback, TypeOK
  <2>2. CASE ResetOutput
    BY <1>1, <2>2 DEF ResetOutput, TypeOK
  <2>3. CASE NextChunk \/ Synthesised \/ WaitPlayed \/ AllQueued
    <3>1. worker' \in {"ending", "next", "synthesised", "checked", "draining"}
      BY <2>3 DEF NextChunk, Synthesised, WaitPlayed, AllQueued
    <3>2. UNCHANGED <<device, jobs, cur, active, playback, interrupted, queued, out, played, interrupter,
                      voice, triggered, status, heard, late, silenced, hit, reported>>
      BY <2>3 DEF NextChunk, Synthesised, WaitPlayed, AllQueued
    <3> QED
      BY <1>1, <3>1, <3>2 DEF TypeOK
  <2> QED
    BY <1>4, <2>1, <2>2, <2>3
<1>5. CASE Enqueue
  <2>1. cur \in Replies /\ queued < Chunks /\ out \in Seq(Replies) /\ queued \in 0..Chunks
    BY <1>1, <1>5 DEF Enqueue, Phases, TypeOK
  <2>2. out' \in Seq(Replies) /\ queued' \in 0..Chunks
    BY <1>5, <2>1, AppendReply DEF Enqueue
  <2>3. worker' \in {"next", "playing"}
    BY <1>5 DEF Enqueue
  <2> QED
    BY <1>1, <1>5, <2>2, <2>3 DEF Enqueue, TypeOK
<1>6. CASE Drained \/ SynthesisFails \/ EndJob
  BY <1>1, <1>6 DEF Drained, SynthesisFails, EndJob, TypeOK
<1>7. CASE Callback
  <2>1. Head(out) \in Replies /\ Tail(out) \in Seq(Replies)
    BY <1>1, <1>7, TailReplies DEF Callback, TypeOK
  <2> DEFINE h == Head(out)
             n == IF h \in silenced THEN late[h] + 1 ELSE late[h]
  <2>8. heard' = [heard EXCEPT ![h] = heard[h] + 1] /\ heard[h] + 1 \in Nat /\ heard \in [Replies -> Nat]
    <3>1. heard' = [heard EXCEPT ![h] = heard[h] + 1]
      BY <1>7 DEF Callback
    <3>2. heard \in [Replies -> Nat]
      BY <1>1 DEF TypeOK
    <3> QED
      BY <2>1, <3>1, <3>2
  <2>5. late' = [late EXCEPT ![h] = n] /\ h \in Replies
    BY <1>7, <2>1 DEF Callback
  <2>6. late \in [Replies -> Nat] /\ late[h] \in Nat
    BY <1>1, <2>1 DEF TypeOK
  <2>7. n \in Nat
    BY <2>6
  <2> HIDE DEF h, n
  <2>2. heard' \in [Replies -> Nat]
    BY <2>5, <2>8, CountStays
  <2>3. late' \in [Replies -> Nat]
    BY <2>5, <2>6, <2>7, CountStays
  <2>4. played' \in Nat
    BY <1>1, <1>7 DEF Callback, TypeOK
  <2> QED
    BY <1>1, <1>7, <2>1, <2>2, <2>3, <2>4 DEF Callback, TypeOK
<1>8. ASSUME NEW r \in Replies, Speak(r) PROVE TypeOK'
  BY <1>1, <1>8, AppendReply DEF Speak, TypeOK
<1>9. ASSUME NEW kind, NEW human \in BOOLEAN, Frame(kind, human) PROVE TypeOK'
  <2>1. voice' \in 0..RequiredVoice /\ interrupter' \in {"idle", "flag", "clear", "drain"}
    BY <1>1, <1>9 DEF Frame, TypeOK
  <2>2. triggered' \in BOOLEAN
    BY <1>1, <1>9, Zenon DEF Frame, TypeOK
  <2> QED
    BY <1>1, <1>9, <2>1, <2>2 DEF Frame, TypeOK
<1>10. CASE FlagPlayback
  <2>1. interrupted' \subseteq Replies
    BY <1>1, <1>10 DEF FlagPlayback, CanInterrupt, TypeOK
  <2>4. Reportable \subseteq Nat /\ reported \in [Replies -> Nat]
    BY <1>1 DEF TypeOK, Reportable, Added
  <2>5. \/ reported' = reported
        \/ playback \in Replies /\ \E n \in Reportable : reported' = [reported EXCEPT ![playback] = n]
    BY <1>1, <1>10 DEF FlagPlayback, CanInterrupt, TypeOK
  <2>2. reported' \in [Replies -> Nat]
    BY <2>4, <2>5, CountStays
  <2>3. interrupter' \in {"idle", "flag", "clear", "drain"}
    BY <1>10 DEF FlagPlayback
  <2> QED
    BY <1>1, <1>10, <2>1, <2>2, <2>3 DEF FlagPlayback, TypeOK
<1>11. CASE ClearOutput
  BY <1>1, <1>11 DEF ClearOutput, TypeOK
<1>12. CASE ClearPending
  <2>1. \A r \in Replies : status'[r] \in {status[r], "dropped"}
    BY <1>12 DEF ClearPending
  <2>2. status' \in [Replies -> {"new", "queued", "speaking", "finished", "cut", "error", "dropped"}]
    BY <1>1, <1>12 DEF ClearPending, TypeOK
  <2> QED
    BY <1>1, <1>12, <2>2 DEF ClearPending, TypeOK
<1> QED
  BY <1>2, <1>3, <1>4, <1>5, <1>6, <1>7, <1>8, <1>9, <1>10, <1>11, <1>12
  DEF Next, WorkerStep, InterruptStep

(* What a step that changes no sound, no status and no interruption leaves. *)
LEMMA SilentStep ==
  ASSUME HeardInv,
         UNCHANGED <<device, jobs, status, out, heard, hit, silenced, interrupted, interrupter, reported>>
  PROVE  /\ JobsQueued' /\ OneReply' /\ FinishedGone' /\ AllSilenced' /\ FinishedWasHeard'
         /\ ReportedWasHeard'
BY DEF HeardInv, HeardParts, JobsQueued, OneReply, FinishedGone, AllSilenced, FinishedWasHeard,
       ReportedWasHeard, InOutput

LEMMA HeardMoves ==
  ASSUME HeardInv, MarkActive \/ BeginPlayback \/ NextChunk \/ Synthesised \/ WaitPlayed \/ AllQueued
  PROVE  HeardParts'
<1> USE DEF At, SameDetector, SameHistory, SameSound
<1>1. UNCHANGED <<device, jobs, cur, queued, status, out, played, heard, hit, silenced, interrupted, interrupter,
                  reported>>
  BY DEF MarkActive, BeginPlayback, NextChunk, Synthesised, WaitPlayed, AllQueued
<1>2. TypeOK /\ Phases /\ UnplayedUnheard /\ OwnOutput /\ OneAtATime /\ Leftover
  BY DEF HeardInv, HeardParts
<1>3. \/ worker = "taken" /\ worker' = "active"
      \/ worker = "active" /\ worker' = "begun"
      \/ worker \in Speaking /\ worker' \in Speaking \cup {"ending"}
  BY DEF MarkActive, BeginPlayback, NextChunk, Synthesised, WaitPlayed, AllQueued, Speaking
<1>4. Phases'
  <2>1. CASE MarkActive \/ BeginPlayback
    BY <1>1, <1>2, <2>1 DEF MarkActive, BeginPlayback, Phases
  <2>2. CASE NextChunk
    BY <1>1, <1>2, <2>2 DEF NextChunk, Interrupted, Phases
  <2>3. CASE Synthesised
    BY <1>1, <1>2, <2>3 DEF Synthesised, Interrupted, Phases
  <2>4. CASE WaitPlayed \/ AllQueued
    BY <1>1, <1>2, <2>4 DEF WaitPlayed, AllQueued, Phases
  <2> QED
    BY <2>1, <2>2, <2>3, <2>4
<1>5. UnplayedUnheard'
  BY <1>1, <1>2, <1>3 DEF UnplayedUnheard, Unplayed, InOutput, Speaking
<1>6. OwnOutput'
  BY <1>1, <1>2, <1>3 DEF OwnOutput, Speaking
<1>7. Leftover'
  BY <1>1, <1>2, <1>3 DEF Leftover, Speaking
<1>8. OneAtATime'
  <2>1. worker = "playing" => out = <<>>
    BY DEF MarkActive, BeginPlayback, NextChunk, Synthesised, WaitPlayed, AllQueued
  <2> QED
    BY <1>1, <1>2, <2>1 DEF OneAtATime
<1> QED
  BY <1>1, <1>4, <1>5, <1>6, <1>7, <1>8, SilentStep DEF HeardParts

LEMMA HeardTakes == ASSUME HeardInv, TakeJob PROVE HeardParts'
<1> USE DEF At, SameDetector, SameHistory, SameSound
<1> DEFINE h == Head(jobs)
<1>1. /\ TypeOK /\ Phases /\ JobsQueued /\ UnplayedUnheard /\ OneReply /\ FinishedGone /\ Leftover /\ OneAtATime
      /\ AllSilenced /\ FinishedWasHeard /\ ReportedWasHeard
  BY DEF HeardInv, HeardParts
<1>2. /\ UNCHANGED <<device, active, playback, interrupted, queued, out, played, heard, hit, interrupter, silenced,
                     reported>>
      /\ worker = "idle" /\ worker' = "taken" /\ cur' = h /\ jobs' = Tail(jobs)
      /\ status' = [status EXCEPT ![h] = "speaking"]
  BY DEF TakeJob
<1>3. /\ h \in Replies /\ h = jobs[1] /\ Len(jobs') = Len(jobs) - 1 /\ Len(jobs) \in Nat /\ 1 \in 1..Len(jobs)
      /\ \A i \in 1..Len(jobs') : jobs'[i] = jobs[i + 1] /\ i + 1 \in 1..Len(jobs) /\ jobs'[i] \in Replies
  BY <1>1, TailReplies DEF TakeJob, TypeOK
<1>4. status[h] = "queued" /\ status'[h] = "speaking" /\ \A r \in Replies : r # h => status'[r] = status[r]
  BY <1>1, <1>2, <1>3 DEF JobsQueued, TypeOK
<1> HIDE DEF h
<1>5. Phases'
  BY <1>1, <1>2, <1>3, <1>4 DEF Phases
<1>6. JobsQueued'
  <2>1. \A i \in 1..Len(jobs') : jobs'[i] # h
    BY <1>1, <1>3 DEF JobsQueued
  <2>2. ASSUME NEW i \in 1..Len(jobs') PROVE status'[jobs'[i]] = "queued"
    <3>1. jobs'[i] \in Replies /\ jobs'[i] # h /\ status[jobs'[i]] = "queued"
      BY <1>1, <1>3, <2>1 DEF JobsQueued
    <3> QED
      BY <1>4, <3>1
  <2>3. ASSUME NEW i \in 1..Len(jobs'), NEW j \in 1..Len(jobs'), jobs'[i] = jobs'[j] PROVE i = j
    <3>1. jobs[i + 1] = jobs[j + 1] /\ i + 1 \in 1..Len(jobs) /\ j + 1 \in 1..Len(jobs)
      BY <1>3, <2>3
    <3>2. i + 1 = j + 1
      BY <1>1, <3>1 DEF JobsQueued
    <3> QED
      BY <1>3, <3>2
  <2> QED
    BY <2>2, <2>3 DEF JobsQueued
<1>7. UnplayedUnheard'
  BY <1>1, <1>2, <1>3, <1>4, SpeechBounds DEF UnplayedUnheard, Unplayed, InOutput, Phases
<1>8. \A i \in 1..Len(out) : out[i] \in Replies /\ out[i] # h
  <2>1. ~InOutput(h)
    BY <1>1, <1>3, <1>4 DEF UnplayedUnheard, Unplayed
  <2>2. \A i \in 1..Len(out) : out[i] \in Replies
    BY <1>1 DEF TypeOK
  <2> QED
    BY <2>1, <2>2 DEF InOutput
<1>9. OwnOutput' /\ Leftover'
  BY <1>1, <1>2, <1>4, <1>8 DEF OwnOutput, Leftover, Speaking
<1>10. OneReply' /\ AllSilenced' /\ ReportedWasHeard'
  BY <1>1, <1>2 DEF OneReply, AllSilenced, ReportedWasHeard
<1>11. FinishedGone' /\ FinishedWasHeard'
  BY <1>1, <1>2, <1>3, <1>4 DEF FinishedGone, FinishedWasHeard, InOutput
<1>30. OneAtATime'
  BY <1>1, <1>2 DEF OneAtATime
<1> QED
  BY <1>30, <1>5, <1>6, <1>7, <1>9, <1>10, <1>11 DEF HeardParts

LEMMA HeardResets == ASSUME HeardInv, ResetOutput PROVE HeardParts'
<1> USE DEF At, SameDetector, SameHistory, SameSound
<1>1. /\ TypeOK /\ Phases /\ JobsQueued /\ UnplayedUnheard /\ AllSilenced /\ FinishedWasHeard /\ ReportedWasHeard
  BY DEF HeardInv, HeardParts
<1>2. /\ UNCHANGED <<device, jobs, cur, active, playback, interrupted, status, heard, hit, interrupter, silenced, reported>>
      /\ worker = "begun" /\ worker' = "next" /\ out' = <<>> /\ played' = 0 /\ queued' = 0
  BY DEF ResetOutput
<1>3. cur \in Replies /\ heard[cur] = 0
  BY <1>1, <1>2 DEF Phases, UnplayedUnheard, Unplayed
<1>4. Len(out') = 0 /\ \A r : ~InOutput(r)'
  BY <1>2 DEF InOutput
<1>5. Phases'
  BY <1>1, <1>2 DEF Phases
<1>6. JobsQueued' /\ AllSilenced' /\ ReportedWasHeard' /\ FinishedWasHeard'
  BY <1>1, <1>2 DEF JobsQueued, AllSilenced, ReportedWasHeard, FinishedWasHeard
<1>7. UnplayedUnheard' /\ FinishedGone'
  BY <1>1, <1>2, <1>4 DEF UnplayedUnheard, Unplayed, FinishedGone
<1>8. OwnOutput' /\ Leftover' /\ OneReply'
  BY <1>2, <1>3, <1>4 DEF OwnOutput, Leftover, OneReply, Speaking
<1>30. OneAtATime'
  BY <1>2, <1>4 DEF OneAtATime
<1> QED
  BY <1>30, <1>5, <1>6, <1>7, <1>8 DEF HeardParts

LEMMA HeardEnqueues == ASSUME HeardInv, Enqueue PROVE HeardParts'
<1> USE DEF At, SameDetector, SameHistory, SameSound
<1>1. /\ TypeOK /\ Phases /\ JobsQueued /\ UnplayedUnheard /\ AllSilenced /\ FinishedWasHeard /\ ReportedWasHeard
      /\ OwnOutput /\ OneAtATime /\ FinishedGone
  BY DEF HeardInv, HeardParts
<1>2. /\ UNCHANGED <<device, jobs, cur, active, playback, interrupted, status, played, heard, hit, interrupter, silenced,
                     reported>>
      /\ worker = "checked" /\ worker' = (IF device = "stream" THEN "next" ELSE "playing")
      /\ out' = (IF device = "stream" THEN Append(out, cur) ELSE <<cur>>) /\ queued' = queued + 1
  BY DEF Enqueue
<1>3. cur \in Replies /\ status[cur] = "speaking" /\ queued < Chunks /\ out \in Seq(Replies)
  BY <1>1, <1>2 DEF Phases, TypeOK
<1>4. /\ Len(out') = Len(out) + 1 /\ Len(out) \in Nat
      /\ \A i \in 1..Len(out) : out[i] = cur
      /\ \A i \in 1..Len(out') : out'[i] = cur
  <2>1. \A i \in 1..Len(out) : out[i] = cur
    BY <1>1, <1>2 DEF OwnOutput, Speaking
  <2>2. CASE device = "stream"
    BY <1>2, <1>3, <2>1, <2>2, AppendReply
  <2>3. CASE device # "stream"
    <3>1. Len(out) = 0 /\ out' = <<cur>>
      BY <1>1, <1>2, <2>3 DEF OneAtATime
    <3> QED
      BY <2>1, <3>1
  <2> QED
    BY <2>2, <2>3
<1>5. Phases'
  BY <1>1, <1>2, <1>3, SpeechBounds DEF Phases, TypeOK
<1>6. JobsQueued' /\ AllSilenced' /\ ReportedWasHeard' /\ FinishedWasHeard'
  BY <1>1, <1>2 DEF JobsQueued, AllSilenced, ReportedWasHeard, FinishedWasHeard
<1>7. \A r \in Replies : InOutput(r)' => r = cur
  BY <1>4 DEF InOutput
<1>8. UnplayedUnheard' /\ FinishedGone'
  BY <1>1, <1>2, <1>3, <1>7 DEF UnplayedUnheard, Unplayed, FinishedGone
<1>9. OwnOutput'
  <2>1. (device = "stream" => played = heard[cur]) /\ (cur \notin hit => heard[cur] + Len(out) = queued)
    BY <1>1, <1>2 DEF OwnOutput, Speaking
  <2>2. heard[cur] \in Nat /\ queued \in Nat
    BY <1>1, <1>3 DEF TypeOK
  <2>3. cur \notin hit => heard[cur] + Len(out') = queued'
    BY <1>2, <1>4, <2>1, <2>2
  <2> QED
    BY <1>2, <1>4, <2>1, <2>3 DEF OwnOutput
<1>10. Leftover' /\ OneReply'
  BY <1>2, <1>4 DEF Leftover, OneReply, Speaking
<1>30. OneAtATime'
  BY <1>1, <1>2, <1>4 DEF OneAtATime
<1> QED
  BY <1>30, <1>5, <1>6, <1>8, <1>9, <1>10 DEF HeardParts

LEMMA HeardStatus == ASSUME HeardInv, Drained \/ SynthesisFails \/ EndJob PROVE HeardParts'
<1> USE DEF At, SameDetector, SameHistory, SameSound
<1>1. /\ TypeOK /\ Phases /\ JobsQueued /\ UnplayedUnheard /\ OwnOutput /\ OneAtATime /\ OneReply /\ FinishedGone
      /\ AllSilenced /\ FinishedWasHeard /\ ReportedWasHeard
  BY DEF HeardInv, HeardParts
<1>2. UNCHANGED <<device, jobs, interrupted, queued, out, played, heard, hit, interrupter, silenced, reported>>
  BY DEF Drained, SynthesisFails, EndJob
<1>3. worker \in {"draining", "synthesised", "ending"} /\ cur \in Replies /\ status[cur] \notin {"new", "queued"}
  BY <1>1 DEF Drained, SynthesisFails, EndJob, Phases
<1>4. PICK s : status' = [status EXCEPT ![cur] = s]
  BY DEF Drained, SynthesisFails, EndJob
<1>5. status'[cur] = s /\ \A r \in Replies : r # cur => status'[r] = status[r]
  BY <1>1, <1>3, <1>4 DEF TypeOK
<1>6. s \in {"speaking", "finished", "error", "cut"}
  <2>1. CASE Drained \/ SynthesisFails
    BY <1>1, <1>3, <1>5, <2>1 DEF Drained, SynthesisFails, Phases, TypeOK
  <2>2. CASE EndJob
    BY <1>1, <1>3, <1>5, <2>2 DEF EndJob, Phases, TypeOK
  <2> QED
    BY <2>1, <2>2
<1>7. s = "finished" => out = <<>> /\ (heard[cur] = Chunks \/ cur \in hit)
  <2>1. CASE Drained
    <3>1. out = <<>> /\ Len(out) = 0 /\ worker = "draining" /\ queued = Chunks /\ heard[cur] \in Nat
      BY <1>1, <1>3, <2>1 DEF Drained, Phases, TypeOK
    <3>2. cur \notin hit => heard[cur] + Len(out) = queued
      BY <1>1, <3>1 DEF OwnOutput, Speaking
    <3> QED
      BY <3>1, <3>2
  <2>2. CASE SynthesisFails
    BY <1>1, <1>3, <1>5, <2>2 DEF SynthesisFails, TypeOK
  <2>3. CASE EndJob
    <3>1. s = "finished" => status[cur] = "finished" /\ worker = "ending"
      BY <1>1, <1>3, <1>5, <2>3 DEF EndJob, TypeOK
    <3> QED
      BY <1>1, <1>3, <3>1 DEF Phases, FinishedWasHeard
  <2> QED
    BY <2>1, <2>2, <2>3
<1>8. \A i \in 1..Len(out) : out[i] = cur
  BY <1>1, <1>3 DEF OwnOutput, Speaking
<1>9. Phases'
  <2>1. CASE Drained
    <3>1. status' = [status EXCEPT ![cur] = IF cur \in interrupted THEN @ ELSE "finished"]
      BY <2>1 DEF Drained, Interrupted
    <3>2. worker = "draining" /\ worker' = "ending" /\ out' = <<>> /\ UNCHANGED <<cur, active, playback, interrupted>>
      BY <1>2, <2>1 DEF Drained
    <3>3. Phases
      BY <1>1
    <3>4. cur \in Replies /\ status[cur] = "speaking"
      BY <3>2, <3>3 DEF Phases
    <3>5. status'[cur] = IF cur \in interrupted THEN "speaking" ELSE "finished"
      BY <1>1, <3>1, <3>4 DEF TypeOK
    <3> QED
      BY <3>2, <3>3, <3>4, <3>5 DEF Phases
  <2>2. CASE SynthesisFails
    BY <1>1, <1>3, <2>2 DEF SynthesisFails, Phases, TypeOK
  <2>3. CASE EndJob
    BY <2>3 DEF EndJob, Phases
  <2> QED
    BY <2>1, <2>2, <2>3
<1>10. JobsQueued'
  <2>1. jobs \in Seq(Replies)
    BY <1>1 DEF TypeOK
  <2>2. \A i \in 1..Len(jobs) : jobs[i] \in Replies
    BY <2>1
  <2>3. \A i \in 1..Len(jobs) : status[jobs[i]] = "queued"
    BY <1>1 DEF JobsQueued
  <2>4. \A i \in 1..Len(jobs) : jobs[i] # cur
    BY <1>3, <2>3
  <2>5. \A i \in 1..Len(jobs) : status'[jobs[i]] = "queued"
    BY <1>5, <2>2, <2>3, <2>4
  <2> QED
    BY <1>1, <1>2, <2>5 DEF JobsQueued
<1>11. UnplayedUnheard'
  <2>1. \A r \in Replies : Unplayed(r)' => Unplayed(r)
    <3>1. worker' \notin {"taken", "active", "begun"}
      BY DEF Drained, SynthesisFails, EndJob
    <3> QED
      BY <1>5, <1>6, <3>1 DEF Unplayed
  <2> QED
    BY <1>1, <1>2, <2>1 DEF UnplayedUnheard, InOutput
<1>12. OwnOutput'
  <2>1. CASE Drained \/ SynthesisFails
    <3>1. cur' = cur /\ worker' = "ending"
      BY <2>1 DEF Drained, SynthesisFails
    <3>2. /\ device = "stream" => played = heard[cur]
          /\ cur \notin hit => heard[cur] + Len(out) = queued
      BY <1>1, <1>3 DEF OwnOutput, Speaking
    <3> QED
      BY <1>2, <1>8, <3>1, <3>2 DEF OwnOutput
  <2>2. CASE EndJob
    BY <2>2 DEF EndJob, OwnOutput, Speaking
  <2> QED
    BY <2>1, <2>2
<1>13. Leftover'
  <2>1. CASE Drained \/ SynthesisFails
    BY <2>1 DEF Drained, SynthesisFails, Leftover
  <2>2. CASE EndJob
    <3>1. \/ status[cur] = "speaking" /\ cur \in interrupted
          \/ status[cur] = "finished" /\ out = <<>>
          \/ status[cur] = "error" /\ status'[cur] = "error"
      BY <1>1, <1>3, <2>2 DEF EndJob, Phases, TypeOK
    <3> QED
      BY <1>2, <1>8, <3>1 DEF Leftover
  <2> QED
    BY <2>1, <2>2
<1>14. OneReply' /\ AllSilenced' /\ ReportedWasHeard'
  BY <1>1, <1>2 DEF OneReply, AllSilenced, ReportedWasHeard
<1>15. FinishedWasHeard' /\ FinishedGone'
  BY <1>1, <1>2, <1>3, <1>5, <1>7 DEF FinishedWasHeard, FinishedGone, InOutput
<1>30. OneAtATime'
  BY <1>1, <1>2, <1>3 DEF OneAtATime
<1> QED
  BY <1>30, <1>9, <1>10, <1>11, <1>12, <1>13, <1>14, <1>15 DEF HeardParts

LEMMA HeardCallback == ASSUME HeardInv, Callback PROVE HeardParts'
<1> USE DEF At, SameDetector, SameHistory, SameSound
<1>1. /\ TypeOK /\ Phases /\ JobsQueued /\ UnplayedUnheard /\ OwnOutput /\ OneAtATime /\ OneReply /\ FinishedGone /\ Leftover
      /\ AllSilenced /\ FinishedWasHeard /\ ReportedWasHeard
  BY DEF HeardInv, HeardParts
<1>2. PICK h \in Replies : h = Head(out)
  BY <1>1, TailReplies DEF Callback, TypeOK
<1>3. /\ UNCHANGED <<device, jobs, worker, cur, active, playback, interrupted, queued, status, hit, interrupter, silenced,
                     reported>>
      /\ out # <<>> /\ out' = Tail(out) /\ played' = (IF device = "stream" THEN played + 1 ELSE played)
      /\ heard' = [heard EXCEPT ![h] = @ + 1] /\ out \in Seq(Replies) /\ heard \in [Replies -> Nat]
  BY <1>1, <1>2 DEF Callback, TypeOK
<1>4. /\ heard'[h] = heard[h] + 1 /\ heard[h] \in Nat /\ \A r \in Replies : r # h => heard'[r] = heard[r]
  BY <1>3
<1>5. /\ Len(out') = Len(out) - 1 /\ Len(out) \in Nat /\ 1 \in 1..Len(out) /\ out[1] = h
      /\ \A i \in 1..Len(out') : out'[i] = out[i + 1] /\ i + 1 \in 1..Len(out)
  BY <1>2, <1>3, TailReplies
<1>6. InOutput(h) /\ \A r \in Replies : InOutput(r)' => InOutput(r)
  BY <1>5 DEF InOutput
<1>7. ~Unplayed(h) /\ status[h] # "finished"
  BY <1>1, <1>6 DEF UnplayedUnheard, FinishedGone
<1>8. Phases' /\ JobsQueued' /\ AllSilenced'
  <2>1. Phases'
    <3>1. out = <<>> => FALSE
      BY <1>3
    <3>2. worker = "ending" => status[cur] # "finished" \/ out = <<>>
      BY <1>1 DEF Phases
    <3> QED
      BY <1>1, <1>3, <3>1, <3>2 DEF Phases
  <2> QED
    BY <1>1, <1>3, <2>1 DEF JobsQueued, AllSilenced
<1>9. UnplayedUnheard' /\ FinishedGone'
  BY <1>1, <1>3, <1>4, <1>6, <1>7 DEF UnplayedUnheard, Unplayed, FinishedGone
<1>10. OwnOutput'
  <2> SUFFICES ASSUME worker \in Speaking \cup {"ending"} PROVE OwnOutput'
    BY <1>3 DEF OwnOutput
  <2>1. /\ \A i \in 1..Len(out) : out[i] = cur
        /\ device = "stream" => played = heard[cur]
        /\ cur \notin hit => heard[cur] + Len(out) = queued
    BY <1>1 DEF OwnOutput
  <2>2. cur = h /\ \A i \in 1..Len(out') : out'[i] = cur
    BY <1>5, <2>1
  <2>3. device = "stream" => played' = heard'[cur]
    BY <1>3, <1>4, <2>1, <2>2
  <2>4. cur \notin hit => heard'[cur] + Len(out') = queued
    BY <1>4, <1>5, <2>1, <2>2
  <2> QED
    BY <1>3, <2>2, <2>3, <2>4 DEF OwnOutput
<1>11. Leftover' /\ OneReply'
  BY <1>1, <1>3, <1>5 DEF Leftover, OneReply
<1>12. FinishedWasHeard'
  BY <1>1, <1>3, <1>4, <1>7 DEF FinishedWasHeard
<1>13. ReportedWasHeard'
  <2>1. \A r \in Replies : reported[r] \in Nat /\ heard[r] \in Nat
    BY <1>1 DEF TypeOK
  <2> QED
    BY <1>1, <1>3, <1>4, <2>1 DEF ReportedWasHeard
<1>30. OneAtATime'
  BY <1>1, <1>3, <1>5 DEF OneAtATime
<1> QED
  BY <1>30, <1>8, <1>9, <1>10, <1>11, <1>12, <1>13 DEF HeardParts

LEMMA HeardSpeak == ASSUME HeardInv, NEW r \in Replies, Speak(r) PROVE HeardParts'
<1> USE DEF SameDetector, SameHistory, SameSound
<1>1. /\ TypeOK /\ Phases /\ JobsQueued /\ UnplayedUnheard /\ OwnOutput /\ OneAtATime /\ OneReply /\ FinishedGone /\ Leftover
      /\ AllSilenced /\ FinishedWasHeard /\ ReportedWasHeard
  BY DEF HeardInv, HeardParts
<1>2. /\ UNCHANGED <<device, worker, cur, active, playback, interrupted, queued, out, played, heard, hit, interrupter,
                     silenced, reported>>
      /\ status[r] = "new" /\ status' = [status EXCEPT ![r] = "queued"] /\ jobs' = Append(jobs, r)
  BY DEF Speak
<1>3. status'[r] = "queued" /\ \A x \in Replies : x # r => status'[x] = status[x]
  BY <1>1, <1>2 DEF TypeOK
<1>4. /\ jobs \in Seq(Replies) /\ Len(jobs') = Len(jobs) + 1 /\ Len(jobs) \in Nat /\ jobs'[Len(jobs) + 1] = r
      /\ \A i \in 1..Len(jobs) : jobs'[i] = jobs[i] /\ jobs[i] \in Replies
  BY <1>1, <1>2, AppendReply DEF TypeOK
<1>5. Phases'
  <2>1. worker # "idle" => cur # r \/ worker = "ending"
    BY <1>1, <1>2 DEF Phases
  <2>2. worker = "ending" => cur # r
    BY <1>1, <1>2 DEF Phases
  <2>3. worker # "idle" => cur \in Replies /\ status'[cur] = status[cur]
    BY <1>1, <1>3, <2>1, <2>2 DEF Phases
  <2> QED
    BY <1>1, <1>2, <2>3 DEF Phases
<1>6. JobsQueued'
  <2>1. \A i \in 1..Len(jobs) : jobs[i] # r /\ status[jobs[i]] = "queued"
    BY <1>1, <1>2 DEF JobsQueued
  <2>2. \A i \in 1..Len(jobs') : i \in 1..Len(jobs) \/ i = Len(jobs) + 1
    BY <1>4
  <2>3. ASSUME NEW i \in 1..Len(jobs') PROVE status'[jobs'[i]] = "queued"
    BY <1>3, <1>4, <2>1, <2>2
  <2>4. ASSUME NEW i \in 1..Len(jobs'), NEW j \in 1..Len(jobs'), jobs'[i] = jobs'[j] PROVE i = j
    BY <1>1, <1>4, <2>1, <2>2, <2>4 DEF JobsQueued
  <2> QED
    BY <2>3, <2>4 DEF JobsQueued
<1>7. UnplayedUnheard'
  <2>1. \A x \in Replies : Unplayed(x)' => Unplayed(x)
    BY <1>2, <1>3 DEF Unplayed
  <2> QED
    BY <1>1, <1>2, <2>1 DEF UnplayedUnheard, InOutput
<1>8. OwnOutput' /\ OneReply' /\ AllSilenced' /\ ReportedWasHeard'
  BY <1>1, <1>2 DEF OwnOutput, OneReply, AllSilenced, ReportedWasHeard
<1>9. Leftover'
  <2>1. \A i \in 1..Len(out) : out[i] \in Replies
    BY <1>1 DEF TypeOK
  <2>2. \A i \in 1..Len(out) : status[out[i]] = "error" => status'[out[i]] = "error"
    BY <1>2, <1>3, <2>1
  <2> QED
    BY <1>1, <1>2, <2>2 DEF Leftover
<1>10. FinishedGone' /\ FinishedWasHeard'
  BY <1>1, <1>2, <1>3 DEF FinishedGone, FinishedWasHeard, InOutput
<1>30. OneAtATime'
  BY <1>1, <1>2 DEF OneAtATime
<1> QED
  BY <1>30, <1>5, <1>6, <1>7, <1>8, <1>9, <1>10 DEF HeardParts

LEMMA HeardFrame ==
  ASSUME HeardInv, NEW kind, NEW human, Frame(kind, human) \/ UNCHANGED vars
  PROVE  HeardParts'
<1> USE DEF SameDetector, SameHistory, SameSound, SameWorker
<1>1. /\ TypeOK /\ Phases /\ JobsQueued /\ UnplayedUnheard /\ OwnOutput /\ OneAtATime /\ OneReply /\ FinishedGone /\ Leftover
      /\ AllSilenced /\ FinishedWasHeard /\ ReportedWasHeard
  BY DEF HeardInv, HeardParts
<1>2. UNCHANGED <<device, jobs, worker, cur, active, playback, interrupted, queued, out, played, heard, hit, status,
                  silenced, reported>>
  BY DEF Frame, vars
<1>3. interrupter' # "clear" \/ interrupter' = interrupter
  BY DEF Frame, vars
<1>4. interrupter = "clear" => interrupter' = interrupter
  BY DEF Frame, vars
<1>5. Phases' /\ JobsQueued'
  BY <1>1, <1>2 DEF Phases, JobsQueued
<1>6. UnplayedUnheard' /\ FinishedGone' /\ FinishedWasHeard' /\ ReportedWasHeard'
  BY <1>1, <1>2 DEF UnplayedUnheard, Unplayed, FinishedGone, FinishedWasHeard, ReportedWasHeard, InOutput
<1>7. OwnOutput' /\ OneReply' /\ Leftover'
  BY <1>1, <1>2 DEF OwnOutput, OneReply, Leftover
<1>8. AllSilenced'
  BY <1>1, <1>2, <1>3, <1>4 DEF AllSilenced
<1>30. OneAtATime'
  BY <1>1, <1>2 DEF OneAtATime
<1> QED
  BY <1>30, <1>5, <1>6, <1>7, <1>8 DEF HeardParts

LEMMA HeardFlag == ASSUME HeardInv, FlagPlayback PROVE HeardParts'
<1> USE DEF SameDetector, SameHistory, SameSound, SameWorker
<1>1. /\ TypeOK /\ Phases /\ JobsQueued /\ UnplayedUnheard /\ OwnOutput /\ OneAtATime /\ OneReply /\ FinishedGone /\ Leftover
      /\ AllSilenced /\ FinishedWasHeard /\ ReportedWasHeard
  BY DEF HeardInv, HeardParts
<1>2. /\ UNCHANGED <<device, jobs, worker, cur, active, playback, queued, out, played, heard, hit, status, silenced>>
      /\ interrupter = "flag" /\ interrupted \subseteq interrupted'
      /\ interrupter' = "clear" \/ (interrupter' = "drain" /\ interrupted' = interrupted)
  BY DEF FlagPlayback
<1>3. Phases' /\ JobsQueued'
  BY <1>1, <1>2 DEF Phases, JobsQueued
<1>4. UnplayedUnheard' /\ FinishedGone' /\ FinishedWasHeard'
  BY <1>1, <1>2 DEF UnplayedUnheard, Unplayed, FinishedGone, FinishedWasHeard, InOutput
<1>5. OwnOutput' /\ OneReply' /\ Leftover'
  BY <1>1, <1>2 DEF OwnOutput, OneReply, Leftover
<1>6. AllSilenced'
  BY <1>1, <1>2 DEF AllSilenced
<1>7. ReportedWasHeard'
  <2>1. CASE ~CanInterrupt
    BY <1>1, <1>2, <2>1 DEF FlagPlayback, ReportedWasHeard
  <2>2. CASE CanInterrupt
    <3>1. PICK n \in Reportable : reported' = [reported EXCEPT ![playback] = n]
      BY <2>2 DEF FlagPlayback
    <3>2. playback = cur /\ cur \in Replies /\ worker \in Speaking \cup {"begun", "ending"}
      BY <1>1, <2>2 DEF CanInterrupt, Phases, TypeOK, Speaking
    <3>3. worker # "begun" =>
            /\ device = "stream" => played = heard[cur]
            /\ cur \notin hit => heard[cur] + Len(out) = queued
      BY <1>1, <3>2 DEF OwnOutput
    <3>4. /\ heard[cur] \in Nat /\ played \in Nat /\ queued \in Nat /\ Len(out) \in Nat
          /\ reported \in [Replies -> Nat] /\ device \in {"stream", "play", "mixed"}
      BY <1>1, <3>2 DEF TypeOK
    <3>5. device # "play" => n <= heard[cur]
      BY <3>1, <3>3, <3>4 DEF Reportable, Added
    <3>6. device = "play" /\ cur \notin hit => n <= heard[cur] + 1
      <4> SUFFICES ASSUME device = "play", cur \notin hit PROVE n <= heard[cur] + 1
        OBVIOUS
      <4>1. n \in 0..Added
        BY <3>1 DEF Reportable
      <4>2. Len(out) <= 1 /\ (worker # "playing" => Len(out) = 0)
        BY <1>1 DEF OneAtATime
      <4>3. CASE worker = "begun"
        BY <3>4, <4>1, <4>3 DEF Added
      <4>4. CASE worker # "begun"
        <5>1. heard[cur] + Len(out) = queued
          BY <3>3, <4>4
        <5>2. Added <= heard[cur] + 1 /\ Added \in Nat
          BY <3>2, <3>4, <4>2, <5>1 DEF Added, Speaking
        <5> QED
          BY <3>4, <4>1, <5>2
      <4> QED
        BY <4>3, <4>4
    <3>7. \A r \in Replies : IF r = cur THEN reported'[r] = n ELSE reported'[r] = reported[r]
      BY <3>1, <3>2, <3>4
    <3>8. n \in Nat
      BY <3>1, <3>4 DEF Reportable, Added
    <3> QED
      BY <1>1, <1>2, <3>2, <3>4, <3>5, <3>6, <3>7, <3>8 DEF ReportedWasHeard
  <2> QED
    BY <2>1, <2>2
<1>30. OneAtATime'
  BY <1>1, <1>2 DEF OneAtATime
<1> QED
  BY <1>30, <1>3, <1>4, <1>5, <1>6, <1>7 DEF HeardParts

LEMMA HeardCleared == ASSUME HeardInv, ClearOutput PROVE HeardParts'
<1> USE DEF SameDetector, SameHistory, SameSound, SameWorker
<1>1. /\ TypeOK /\ Phases /\ JobsQueued /\ UnplayedUnheard /\ OwnOutput /\ OneAtATime /\ FinishedWasHeard /\ ReportedWasHeard
  BY DEF HeardInv, HeardParts
<1>2. /\ UNCHANGED <<device, jobs, worker, cur, active, playback, queued, played, heard, status, interrupted, reported>>
      /\ out' = <<>> /\ silenced' = interrupted /\ hit' = hit \cup ({playback} \ {None})
  BY DEF ClearOutput
<1>3. Len(out') = 0 /\ \A r : ~InOutput(r)'
  BY <1>2 DEF InOutput
<1>4. Phases' /\ JobsQueued'
  BY <1>1, <1>2 DEF Phases, JobsQueued
<1>5. UnplayedUnheard' /\ FinishedGone' /\ FinishedWasHeard' /\ ReportedWasHeard'
  BY <1>1, <1>2, <1>3 DEF UnplayedUnheard, Unplayed, FinishedGone, FinishedWasHeard, ReportedWasHeard
<1>6. Leftover' /\ OneReply' /\ AllSilenced'
  BY <1>2, <1>3 DEF Leftover, OneReply, AllSilenced
<1>7. OwnOutput'
  <2>1. worker \in Speaking \cup {"ending"} => cur \in hit' /\ (device = "stream" => played = heard[cur])
    BY <1>1, <1>2, SpeechBounds DEF OwnOutput, Phases, Speaking
  <2> QED
    BY <1>2, <1>3, <2>1 DEF OwnOutput
<1>30. OneAtATime'
  BY <1>2, <1>3 DEF OneAtATime
<1> QED
  BY <1>30, <1>4, <1>5, <1>6, <1>7 DEF HeardParts

LEMMA HeardDropped == ASSUME HeardInv, ClearPending PROVE HeardParts'
<1> USE DEF SameDetector, SameHistory, SameSound, SameWorker
<1>1. /\ TypeOK /\ Phases /\ UnplayedUnheard /\ OwnOutput /\ OneAtATime /\ OneReply /\ FinishedGone /\ Leftover
      /\ AllSilenced /\ FinishedWasHeard /\ ReportedWasHeard
  BY DEF HeardInv, HeardParts
<1>2. /\ UNCHANGED <<device, worker, cur, active, playback, queued, out, played, heard, hit, silenced, reported, interrupted>>
      /\ jobs' = <<>> /\ interrupter = "drain" /\ interrupter' = "idle"
      /\ status' = [r \in Replies |-> IF status[r] = "queued" THEN "dropped" ELSE status[r]]
  BY DEF ClearPending
<1>3. \A r \in Replies : IF status[r] = "queued" THEN status'[r] = "dropped" ELSE status'[r] = status[r]
  BY <1>2
<1>4. Phases'
  <2>1. worker # "idle" => cur \in Replies /\ status'[cur] = status[cur]
    BY <1>1, <1>3 DEF Phases
  <2> QED
    BY <1>1, <1>2, <2>1 DEF Phases
<1>5. JobsQueued'
  BY <1>2 DEF JobsQueued
<1>6. UnplayedUnheard'
  <2>1. \A r \in Replies : Unplayed(r)' => Unplayed(r)
    BY <1>2, <1>3 DEF Unplayed
  <2> QED
    BY <1>1, <1>2, <2>1 DEF UnplayedUnheard, InOutput
<1>7. OwnOutput' /\ OneReply' /\ AllSilenced' /\ ReportedWasHeard'
  BY <1>1, <1>2 DEF OwnOutput, OneReply, AllSilenced, ReportedWasHeard
<1>8. Leftover'
  <2>1. \A i \in 1..Len(out) : out[i] \in Replies
    BY <1>1 DEF TypeOK
  <2>2. \A i \in 1..Len(out) : status[out[i]] = "error" => status'[out[i]] = "error"
    BY <1>3, <2>1
  <2> QED
    BY <1>1, <1>2, <2>2 DEF Leftover
<1>9. FinishedGone' /\ FinishedWasHeard'
  BY <1>1, <1>2, <1>3 DEF FinishedGone, FinishedWasHeard, InOutput
<1>30. OneAtATime'
  BY <1>1, <1>2 DEF OneAtATime
<1> QED
  BY <1>30, <1>4, <1>5, <1>6, <1>7, <1>8, <1>9 DEF HeardParts

LEMMA HeardStepPreserves == HeardInv /\ [Next]_vars => HeardInv'
<1> SUFFICES ASSUME HeardInv, [Next]_vars PROVE HeardParts'
  BY HeardTypes, AllowanceStays DEF HeardInv
<1>1. CASE WorkerStep
  BY <1>1, HeardMoves, HeardTakes, HeardResets, HeardEnqueues, HeardStatus DEF WorkerStep
<1>2. CASE InterruptStep
  BY <1>2, HeardFlag, HeardCleared, HeardDropped DEF InterruptStep
<1> QED
  BY <1>1, <1>2, HeardCallback, HeardSpeak, HeardFrame DEF Next

(* A reply silenced by an interruption is in the output at most once, so     *)
(* what is left to hear of interrupted replies is one chunk.                 *)
LEMMA LeftToHear == ASSUME HeardInv PROVE SilentWhenNotSpeaking
<1> SUFFICES ASSUME ~IsSpeaking, interrupter = "idle"
             PROVE  /\ \A i \in 1..Len(out) : out[i] \in interrupted \/ status[out[i]] = "error"
                    /\ Cardinality({i \in 1..Len(out) : out[i] \in interrupted}) <= 1
  BY DEF SilentWhenNotSpeaking
<1>1. TypeOK /\ Allowance /\ Phases /\ Leftover /\ OneReply /\ AllSilenced
  BY DEF HeardInv, HeardParts
<1>2. active = FALSE
  BY <1>1, Zenon DEF IsSpeaking, TypeOK
<1>3. worker \in {"idle", "taken"}
  BY <1>1, <1>2 DEF Phases
<1>4. \A i \in 1..Len(out) : out[i] \in interrupted \/ status[out[i]] = "error"
  BY <1>1, <1>3 DEF Leftover, Speaking
<1> DEFINE S == {i \in 1..Len(out) : out[i] \in interrupted}
<1>5. \A i, j \in S : i = j
  <2> SUFFICES ASSUME NEW i \in S, NEW j \in S PROVE i = j
    OBVIOUS
  <2>1. out[i] \in Replies /\ out[i] \in silenced /\ out[i] = out[j]
    BY <1>1 DEF TypeOK, AllSilenced, OneReply
  <2> QED
    BY <1>1, <2>1 DEF Allowance
<1> HIDE DEF S
<1>6. S = {} \/ \E i : S = {i}
  BY <1>5
<1>7. Cardinality(S) \in {0, 1}
  BY <1>6, FS_EmptySet, FS_Singleton
<1>8. Cardinality(S) <= 1
  BY <1>7
<1> QED
  BY <1>4, <1>8 DEF S

(* For any number of replies and chunks and any interleaving of the worker,  *)
(* the audio callback and the capture thread: a reply reported finished was  *)
(* heard to the end, an interruption counts no more chunks than were heard,  *)
(* or one more when there is no output stream to count them, and when nobody *)
(* can interrupt, the output holds no sound but one late chunk or what a     *)
(* failed synthesis left (tts.py, kokoro_onnx.py, playback.py).              *)
THEOREM SpokenIsHeard == Spec => []WhatIsHeard
<1>1. HeardInv => WhatIsHeard
  BY LeftToHear DEF HeardInv, HeardParts, WhatIsHeard
<1> QED
  BY InitHeard, HeardStepPreserves, <1>1, PTL DEF Spec
=============================================================================
