--------------------------- MODULE KeyphraseSpotting ---------------------------
(***************************************************************************)
(* The phrase spotter of keyphrases/pocketsphinx_phrase.py: the ring of    *)
(* frames it keeps, the phrase it looks for in the decoder's hypothesis,   *)
(* and the audio it hands on once the phrase is found.                     *)
(*                                                                         *)
(* A sample is named by its place in the stream, from zero, so a frame is  *)
(* a sequence of numbers.  The decoders are external: `audio` says which   *)
(* phrase is spoken, of which kind and at which samples, and a decoder     *)
(* reports it once it has processed its last sample.                       *)
(***************************************************************************)
EXTENDS Integers, Sequences, FiniteSets, SequencesExt

CONSTANTS SpotBuffer,     \* max_buffer_ms, in samples
          SpotInterval,   \* check_interval_frames
          DecoderFrame    \* 160: the samples of a frame of the decoder

ASSUME SpottingAssumption == {SpotBuffer, SpotInterval, DecoderFrame} \subseteq Nat \ {0}

Above(m, n) == IF m > n THEN m ELSE n

-------------------------------------------------------------------------------
(* Phrases are sequences of words; a word of the decoder is [word, variant]    *)
(* where the variant is the pronunciation "(2)" that normalisation strips.     *)

NormalizePhrase(words) == [i \in DOMAIN words |-> words[i].word]

OccursAt(hyp, phrase, i) == SubSeq(hyp, i, i + Len(phrase) - 1) = phrase

ContainsPhrase(hyp, phrase) ==
  /\ phrase # <<>> /\ Len(phrase) <= Len(hyp)
  /\ \E i \in 1..Len(hyp) - Len(phrase) + 1 : OccursAt(hyp, phrase, i)

(* An alias stands for the phrase it is listed under; a later phrase of the    *)
(* same words takes the entry over.  configured is a sequence of               *)
(* [phrase, kind, aliases].                                                    *)
PhraseAliasMap(configured) ==
  LET entries == FlattenSeq([i \in DOMAIN configured |->
                   [j \in 1..Len(configured[i].aliases) + 1 |->
                      [matched |-> IF j = 1 THEN configured[i].phrase ELSE configured[i].aliases[j - 1],
                       phrase  |-> configured[i].phrase, kind |-> configured[i].kind]]])
  IN {entries[i] : i \in {k \in DOMAIN entries :
        \A l \in DOMAIN entries : entries[l].matched = entries[k].matched => l <= k}}

(* The entry of most words that occurs; ties are broken by spelling.           *)
MatchedPhrase(hyp, entries) ==
  LET found == {e \in entries : ContainsPhrase(hyp, e.matched)}
      most  == {e \in found : \A f \in found : Len(f.matched) <= Len(e.matched)}
  IN IF found = {} THEN {} ELSE {CHOOSE e \in most : TRUE}

Silences == {"s", "/s", "sil"}

(* Where the phrase is among the decoder's segments [word, from, to], which    *)
(* are in its frames: the samples from the start to the end, or nothing.       *)
PhraseSampleSpan(segments, phrase) ==
  LET words  == SelectSeq(segments, LAMBDA s : s.word \notin Silences)
      values == NormalizePhrase(words)
      places == {i \in 1..Len(words) - Len(phrase) + 1 : OccursAt(values, phrase, i)}
      first  == CHOOSE i \in places : \A j \in places : i <= j
  IN IF phrase = <<>> \/ places = {} THEN <<>>
     ELSE <<words[first].from * DecoderFrame,
            (words[first + Len(phrase) - 1].to + 1) * DecoderFrame>>

-------------------------------------------------------------------------------
(* Frames. *)

(* trim_frames_from_sample: whole frames are skipped, one is cut.              *)
TrimFramesFromSample(frames, start) ==
  LET Step(acc, frame) ==
        IF acc.skip >= Len(frame) THEN [acc EXCEPT !.skip = @ - Len(frame)]
        ELSE [skip |-> 0, out |-> Append(acc.out, SubSeq(frame, acc.skip + 1, Len(frame)))]
  IN FoldLeft(Step, [skip |-> Above(0, start), out |-> <<>>], frames).out

TrimFramesBetweenSamples(frames, start, end) ==
  LET Step(acc, frame) ==
        IF acc.take <= 0 THEN acc
        ELSE IF acc.skip >= Len(frame) THEN [acc EXCEPT !.skip = @ - Len(frame)]
        ELSE LET rest == SubSeq(frame, acc.skip + 1, Len(frame))
                 part == IF Len(rest) > acc.take THEN SubSeq(rest, 1, acc.take) ELSE rest
             IN [skip |-> 0, take |-> acc.take - Len(part), out |-> Append(acc.out, part)]
  IN IF end <= start THEN <<>>
     ELSE FoldLeft(Step, [skip |-> Above(0, start), take |-> end - Above(0, start), out |-> <<>>],
                   frames).out

-------------------------------------------------------------------------------
(* The spotter. *)

NewSpotter == [frames |-> <<>>, start |-> 0, processed |-> 0, since |-> 0, emitted |-> FALSE]

SamplesOf(frames) == Len(FlattenSeq(frames))

(* _trim_buffer: the oldest samples beyond the buffer go.                       *)
TrimBuffer(s) ==
  LET extra == SamplesOf(s.frames) - SpotBuffer
  IN IF extra <= 0 THEN s
     ELSE [s EXCEPT !.frames = TrimFramesFromSample(@, extra), !.start = @ + extra]

AppendFrame(s, size) ==
  TrimBuffer([s EXCEPT !.frames = Append(@, [i \in 1..size |-> s.processed + i - 1]),
                       !.processed = @ + size, !.since = @ + 1])

(* The decoder's own segments, after a silence: audio.from..audio.to, relative  *)
(* to the sample its utterance began at.                                        *)
DecoderSegments(audio, origin) ==
  LET n    == Len(audio.spoken)
      from == (audio.from - origin) \div DecoderFrame
      to   == (audio.to - origin) \div DecoderFrame
  IN <<[word |-> "sil", from |-> 0, to |-> 0]>> \o
     [i \in 1..n |-> [word |-> audio.spoken[i].word,
                     from |-> IF i = 1 THEN from ELSE to, to |-> IF i = n THEN to ELSE from]]

(* _phrase_sample_span: the running decoder counts from the start of the        *)
(* stream, the buffer does not.                                                 *)
RelativeSpan(s, span) ==
  IF span = <<>> THEN <<>> ELSE <<Above(0, span[1] - s.start), Above(0, span[2] - s.start)>>

(* _keyword_spotted: a new decoder hears the buffer, and only the buffer.       *)
KeywordSpotted(s, audio, phrase) ==
  IF phrase = NormalizePhrase(audio.spoken) /\ audio.from >= s.start /\ audio.to < s.processed
  THEN {PhraseSampleSpan(DecoderSegments(audio, s.start), phrase)}
  ELSE {}

(* Mutant: the span of the running decoder is taken as it is. *)
ConfirmedPhraseSpanAbsolute(s, audio, match) ==
  IF match.kind = "conversation_on"
  THEN {PhraseSampleSpan(DecoderSegments(audio, 0), match.matched)}
  ELSE IF KeywordSpotted(s, audio, match.matched) # {}
       THEN KeywordSpotted(s, audio, match.matched)
       ELSE KeywordSpotted(s, audio, match.phrase)

(* A span, a detection without one (<<>>), or no detection ({}).                *)
ConfirmedPhraseSpan(s, audio, match) ==
  IF match.kind = "conversation_on"
  THEN {RelativeSpan(s, PhraseSampleSpan(DecoderSegments(audio, 0), match.matched))}
  ELSE IF KeywordSpotted(s, audio, match.matched) # {}
       THEN KeywordSpotted(s, audio, match.matched)
       ELSE KeywordSpotted(s, audio, match.phrase)

(* detect: at most once, at its interval, and only when the span is confirmed.  *)
SpotterDetect(s, audio, entries) ==
  LET due    == ~s.emitted /\ s.frames # <<>> /\ s.since >= SpotInterval
      match  == IF due /\ audio.to < s.processed
                THEN MatchedPhrase(NormalizePhrase(audio.spoken), entries) ELSE {}
      spans  == UNION {ConfirmedPhraseSpan(s, audio, m) : m \in match}
  IN [spotter   |-> [s EXCEPT !.since = IF due THEN 0 ELSE @, !.emitted = @ \/ spans # {}],
      detection |-> {[kind |-> m.kind, phrase |-> m.phrase, span |-> sp] : m \in match, sp \in spans}]

ReplayFrames(s, d, preRoll) ==
  IF d.span = <<>> THEN s.frames
  ELSE TrimFramesFromSample(s.frames, Above(0, d.span[2] - Above(0, preRoll)))

ConfirmationFrames(s, d, window) ==
  IF d.span = <<>> THEN s.frames
  ELSE LET from == Above(0, d.span[1])
           to   == Above(from, d.span[2])
       IN TrimFramesBetweenSamples(s.frames, Above(Above(0, to - Above(1, window)), from), to)

(* The gate of a wake turn: frame after frame until a phrase is detected.       *)
GateRun(sizes, audio, entries) ==
  LET Step(acc, size) ==
        IF acc.detection # {} THEN acc
        ELSE SpotterDetect(AppendFrame(acc.spotter, size), audio, entries)
  IN FoldLeft(Step, [spotter |-> NewSpotter, detection |-> {}], sizes)

-------------------------------------------------------------------------------

(* The ring holds exactly the last samples that arrived, in order, and       *)
(* knows where in the stream it starts (append, _trim_buffer).               *)
RingHoldsTail(scripts) ==
  \A sizes \in scripts :
    LET s == FoldLeft(AppendFrame, NewSpotter, sizes)
    IN /\ FlattenSeq(s.frames) = [i \in 1..s.processed - s.start |-> s.start + i - 1]
       /\ s.start = Above(0, s.processed - SpotBuffer)

(* What is replayed to the recognizer after a wake phrase is the end of the  *)
(* ring, from preRoll samples before the end of the phrase: with no pre-roll *)
(* no sample of the phrase, with the default of 500 ms the end of the phrase *)
(* too.  Rounding to decoder frames costs less than one of them.  What is    *)
(* transcribed to confirm a mode phrase lies within it.                      *)
HandsOnTheRightAudio(scripts, audios, entries, preRolls) ==
  \A sizes \in scripts, audio \in audios :
    LET r == GateRun(sizes, audio, entries)
        s == r.spotter
    IN \A d \in r.detection :
         LET confirm == FlattenSeq(ConfirmationFrames(s, d, SpotBuffer))
         IN d.span # <<>> =>
              /\ \A preRoll \in preRolls :
                   LET replay == FlattenSeq(ReplayFrames(s, d, preRoll))
                       wanted == audio.to + 1 - preRoll
                   IN /\ \A i \in DOMAIN replay : replay[i] >= Above(wanted, s.start)
                      /\ Above(wanted + DecoderFrame - 1, s.start)..s.processed - 1 \subseteq Range(replay)
              /\ \A i \in DOMAIN confirm : /\ confirm[i] > audio.from - DecoderFrame
                                           /\ confirm[i] < audio.to + DecoderFrame
              /\ audio.from >= s.start => audio.from..audio.to \subseteq Range(confirm)
===============================================================================
