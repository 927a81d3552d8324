------------------------------ MODULE AudioInput ------------------------------
(***************************************************************************)
(* From the sound card to the capture session: the device that is opened   *)
(* (voice/audio_devices.py, microphone.py), the frames cut from its blocks *)
(* (resampling.py, input_level.py), the queue between the callback and the *)
(* reader (microphone.py), the ring of debug audio (debug_audio.py) and    *)
(* the measures that gate an utterance (utterance_quality.py,              *)
(* audio_quality.py, audio_calibration.py).                                *)
(*                                                                         *)
(* A sample is an integer amplitude; a root mean square is compared by its *)
(* square times the number of samples, so no root is taken.                *)
(***************************************************************************)
EXTENDS Integers, Sequences, FiniteSets, SequencesExt

CONSTANTS ChunkSamples,   \* chunk_samples: samples of a frame
          QueueChunks,    \* queue_chunks: frames the queue holds
          StartRetries,   \* start_retries
          RingSamples,    \* debug_audio: samples kept
          GateFrame,      \* samples of a frame of the noise gate
          MinPeak,        \* min_peak
          MinRms,         \* min_active_rms
          MinActive,      \* min_active_ms, in samples
          ActiveRms       \* active_frame_rms

ASSUME AudioAssumption ==
  /\ {ChunkSamples, QueueChunks, RingSamples, GateFrame} \subseteq Nat \ {0}
  /\ {StartRetries, MinPeak, MinRms, MinActive, ActiveRms} \subseteq Nat
  /\ MinActive > GateFrame

-------------------------------------------------------------------------------
(* Devices.  A device is [index, name, rank, default, channels]; rank is the  *)
(* place of its host interface among the preferred ones.                      *)

ListInputDevices(devices) == SelectSeq(devices, LAMBDA d : d.channels > 0)

Better(a, b) == a.rank < b.rank \/ (a.rank = b.rank /\ a.index < b.index)

(* sorted by rank, then by index.                                             *)
PreferredDevices(devices) == SortSeq(devices, Better)

(* The named or default device may be listed once per host interface.         *)
ResolveInputDevices(wanted, devices) ==
  LET inputs  == ListInputDevices(devices)
      chosen  == SelectSeq(inputs, LAMBDA d : IF wanted = 0 THEN d.default ELSE d.index = wanted)
      same    == SelectSeq(inputs, LAMBDA d : d.name = Head(chosen).name)
      order   == PreferredDevices(same)
  IN IF chosen = <<>> THEN <<wanted>> ELSE [i \in DOMAIN order |-> order[i].index]

(* _open_started_stream: starts[i] says whether start i would succeed; a       *)
(* stream that does not start is closed.  Opened counts the streams left open. *)
OpenStartedStream(starts) ==
  LET n    == StartRetries + 1
      good == {i \in 1..n : i \in DOMAIN starts /\ starts[i]}
  IN [ok |-> good # {}, tries |-> IF good = {} THEN n ELSE CHOOSE i \in good : \A j \in good : i <= j]

(* __enter__: the candidates in order, each with its retries.                  *)
EnterMicrophone(candidates, starts) ==
  LET good == {i \in DOMAIN candidates : OpenStartedStream(starts[candidates[i]]).ok}
  IN IF good = {} THEN 0 ELSE candidates[CHOOSE i \in good : \A j \in good : i <= j]

-------------------------------------------------------------------------------
(* Frames.  A microphone is [pending, queue, dropped, made, read].            *)

NewMicrophone == [pending |-> <<>>, queue |-> <<>>, dropped |-> 0, made |-> <<>>, read |-> <<>>]

Largest(seq) == IF seq = <<>> THEN 0 ELSE CHOOSE m \in Range(seq) : \A n \in Range(seq) : n <= m

Magnitudes(audio) == [i \in DOMAIN audio |-> IF audio[i] < 0 THEN -audio[i] ELSE audio[i]]

Peak(audio) == Largest(Magnitudes(audio))

(* limit_peaks: the whole block is scaled when one sample is above.           *)
LimitPeaks(audio, ceiling) ==
  CASE ceiling = 0                           -> [i \in DOMAIN audio |-> 0]
    [] ceiling > 0 /\ Peak(audio) <= ceiling -> audio
    [] OTHER -> [i \in DOMAIN audio |-> (audio[i] * ceiling) \div Peak(audio)]

ApplyInputLevel(audio, gain, ceiling) == LimitPeaks([i \in DOMAIN audio |-> audio[i] * gain], ceiling)

PopChunks(pending) ==
  LET n == Len(pending) \div ChunkSamples
  IN [chunks |-> [i \in 1..n |-> SubSeq(pending, (i - 1) * ChunkSamples + 1, i * ChunkSamples)],
      pending |-> SubSeq(pending, n * ChunkSamples + 1, Len(pending))]

(* put_nowait: a frame that does not fit is counted and lost.                  *)
PutFrame(m, frame) ==
  IF Len(m.queue) < QueueChunks
  THEN [m EXCEPT !.queue = Append(@, frame), !.made = Append(@, frame)]
  ELSE [m EXCEPT !.dropped = @ + 1, !.made = Append(@, frame)]

(* The callback of the sound card: a block becomes frames.                     *)
Callback(m, block) ==
  LET popped == PopChunks(m.pending \o block)
  IN FoldLeft(PutFrame, [m EXCEPT !.pending = popped.pending], popped.chunks)

(* frames: the reader takes the oldest, or waits.                              *)
TakeFrame(m) ==
  IF m.queue = <<>> THEN m ELSE [m EXCEPT !.queue = Tail(@), !.read = Append(@, Head(m.queue))]

(* The next block of n samples, each named by its place in the stream.         *)
NextBlock(m, n) ==
  LET before == Len(FlattenSeq(m.made)) + Len(m.pending)
  IN [i \in 1..n |-> before + i]

(* A script of the sizes of blocks and of takes, which have no samples.        *)
MicrophoneRun(script) ==
  FoldLeft(LAMBDA m, n : IF n = 0 THEN TakeFrame(m) ELSE Callback(m, NextBlock(m, n)),
           NewMicrophone, script)

(* DebugAudioRecorder: the last samples, saved when there are any.             *)
AppendDebug(ring, frame) ==
  LET all == ring \o frame
  IN IF Len(all) <= RingSamples THEN all ELSE SubSeq(all, Len(all) - RingSamples + 1, Len(all))

-------------------------------------------------------------------------------
(* The noise gate of continuous conversation.                                  *)

Energy(audio) == FoldLeft(LAMBDA a, s : a + s * s, 0, audio)

RmsAtLeast(audio, level) == audio # <<>> /\ Energy(audio) >= level * level * Len(audio)

GateFrames(audio) ==
  [i \in 1..Len(audio) \div GateFrame |-> SubSeq(audio, (i - 1) * GateFrame + 1, i * GateFrame)]

(* The frames at speech level; what does not fill a frame is left out.          *)
ActiveFrames(audio) == FlattenSeq(SelectSeq(GateFrames(audio), LAMBDA f : RmsAtLeast(f, ActiveRms)))

ActiveAudio(audio) == IF Len(audio) < GateFrame THEN audio ELSE ActiveFrames(audio)

ShouldIgnore(audio) ==
  LET active == ActiveAudio(audio)
  IN Peak(audio) < MinPeak \/ ~RmsAtLeast(active, MinRms) \/ Len(active) < MinActive

(* analyze_audio_quality: the problems of a recording, from the same measures.  *)
QualityProblems(audio, t) ==
  LET frames  == [i \in 1..(Len(audio) + GateFrame - 1) \div GateFrame |->
                    SubSeq(audio, (i - 1) * GateFrame + 1,
                           IF i * GateFrame < Len(audio) THEN i * GateFrame ELSE Len(audio))]
      active  == SelectSeq(frames, LAMBDA f : RmsAtLeast(f, t.activeRms))
      clipped == Cardinality({i \in DOMAIN audio : Magnitudes(audio)[i] >= t.maxPeak})
  IN (IF Peak(audio) < t.minPeak THEN {"quiet"} ELSE {})
       \cup (IF ~RmsAtLeast(FlattenSeq(active), t.minRms) THEN {"low"} ELSE {})
       \cup (IF Len(active) * 100 < t.minActivePercent * Len(frames) THEN {"little"} ELSE {})
       \cup (IF clipped * 1000 > Len(audio) THEN {"clipping"} ELSE {})

(* recommend_input_gain, in hundredths: the larger of the two gains, within     *)
(* one and the most; the most where nothing was heard.                          *)
RecommendInputGain(peak, rms, targetPeak, targetRms, most) ==
  LET gains == (IF peak > 0 THEN {(100 * targetPeak) \div peak} ELSE {})
                 \cup (IF rms > 0 THEN {(100 * targetRms) \div rms} ELSE {})
      gain  == CHOOSE g \in gains : \A h \in gains : h <= g
  IN CASE gains = {}    -> most
       [] gains # {} /\ gain < 100  -> 100
       [] gains # {} /\ gain > most -> most
       [] OTHER         -> gain

-------------------------------------------------------------------------------

Smallest(m, n) == IF m <= n THEN m ELSE n

Kept(m) == m.read \o m.queue

(* Every sample the sound card delivers is in a frame or still pending, in  *)
(* order, and every frame is read, queued or counted as dropped.  A full    *)
(* queue loses the newest frames of a block and nothing that was queued     *)
(* before, and the reader gets the others in the order they were made.  The *)
(* debug ring ends with the last frame that was read (callback, frames,     *)
(* DebugAudioRecorder.append).                                              *)
FramesAccounted(scripts) ==
  \A script \in scripts :
    LET m == MicrophoneRun(script)
    IN /\ FlattenSeq(m.made) \o m.pending = [i \in 1..FoldLeft(+, 0, script) |-> i]
       /\ Len(m.made) = Len(m.read) + Len(m.queue) + m.dropped
       /\ Len(m.queue) <= QueueChunks /\ Len(m.pending) < ChunkSamples
       /\ \A i \in DOMAIN m.made : Len(m.made[i]) = ChunkSamples
       /\ script # <<>> =>
            LET b     == MicrophoneRun(Front(script))
                fresh == SubSeq(m.made, Len(b.made) + 1, Len(m.made))
            IN Kept(m) = Kept(b) \o SubSeq(fresh, 1, Smallest(Len(fresh), QueueChunks - Len(b.queue)))
       /\ LET ring == FoldLeft(AppendDebug, <<>>, m.read)
          IN /\ IsSuffix(ring, FlattenSeq(m.read))
             /\ Len(ring) = Smallest(RingSamples, Len(FlattenSeq(m.read)))

Silence == [i \in 1..GateFrame |-> 0]

(* A pause before an utterance does not decide whether it is noise          *)
(* (should_ignore_continuous_utterance counts active frames only).          *)
SilenceIsNeutral(utterances) ==
  ActiveRms > 0 =>
    \A a \in utterances : Len(a) >= GateFrame => (ShouldIgnore(Silence \o a) <=> ShouldIgnore(a))

(* The microphone opens exactly when some listing of the wanted device      *)
(* starts within its retries, and it is the wanted one (__enter__,          *)
(* resolve_input_devices).                                                  *)
MicrophoneOpens(lists, wanted, starts) ==
  \A ds \in lists, w \in wanted, st \in starts :
    LET cs == ResolveInputDevices(w, ds)
        d  == EnterMicrophone(cs, st)
    IN /\ (d # 0 <=> \E i \in DOMAIN cs : \E k \in 1..StartRetries + 1 : st[cs[i]][k]) \/ cs = <<0>>
       /\ \A i, j \in DOMAIN ds : d = ds[i].index /\ w = ds[j].index /\ ds[j].channels > 0 =>
            ds[i].name = ds[j].name

(* Given the same thresholds (their defaults differ), the analysis of a     *)
(* recording and the gate of a live utterance judge whole frames alike:     *)
(* what one calls quiet or low the other ignores, and the gate ignores      *)
(* nothing else that is long enough (analyze_audio_quality,                 *)
(* should_ignore_continuous_utterance).                                     *)
MeasuresAgree(utterances) ==
  \A a \in utterances : a # <<>> /\ Len(a) % GateFrame = 0 =>
    LET problems == QualityProblems(a, [minPeak |-> MinPeak, minRms |-> MinRms, activeRms |-> ActiveRms,
                                        minActivePercent |-> 0, maxPeak |-> Peak(a) + 1])
    IN (problems # {} \/ Len(ActiveAudio(a)) < MinActive) <=> ShouldIgnore(a)

(* No peak is above the ceiling, and the gain that is recommended is within *)
(* its bounds and, once speech was heard, never rises with its level        *)
(* (limit_peaks, recommend_input_gain).                                     *)
LevelsBounded(blocks, gains, ceiling) ==
  /\ \A a \in blocks, g \in gains : Peak(ApplyInputLevel(a, g, ceiling)) <= ceiling
  /\ \A p, q, r, s \in 0..4 :
       LET gain == RecommendInputGain(p, r, 3, 2, 250)
       IN gain \in 100..250 /\ (p \in 1..q /\ r \in 1..s => RecommendInputGain(q, s, 3, 2, 250) <= gain)
===============================================================================
