--------------------------- MODULE MCVoiceCapture ---------------------------
(* A capture session, and the audio path in front of it on short inputs.    *)
EXTENDS VoiceCapture, AudioInput, KeyphraseSpotting

\* A script of blocks of the sound card, by their sizes; zero is a read.
Scripts == BoundedSeq({0, 1, 2, 5}, 5)
Sounds  == BoundedSeq({-3, 0, 1, 2}, 6)

\* Two listings of one device, another device, and one without inputs.
Device(i, name, rank, default, channels) ==
  [index |-> i, name |-> name, rank |-> rank, default |-> default, channels |-> channels]
Listings ==
  {<<Device(1, "a", r, TRUE, 1), Device(2, "a", 1, FALSE, 1), Device(3, "b", 0, FALSE, c)>> :
     r \in 0..2, c \in 0..1}
Starts == [0..3 -> [1..StartRetries + 1 -> BOOLEAN]]

\* Frames of one to five samples; a phrase of each kind, an alias and a word
\* that only looks like one, at every place of the stream.
Word(w, v) == [word |-> w, variant |-> v]
Phrases == PhraseAliasMap(<<[phrase |-> <<"jarvis">>, kind |-> "wake", aliases |-> <<<<"java">>>>],
                            [phrase |-> <<"go", "on">>, kind |-> "conversation_on", aliases |-> <<>>]>>)
Spoken == {<<Word("java", 1)>>, <<Word("jarvis", 2)>>, <<Word("go", 1), Word("on", 1)>>, <<Word("on", 1)>>}
Spots == {[spoken |-> w, from |-> f, to |-> f + n] : w \in Spoken, f \in 0..9, n \in 0..3}
Sizes == BoundedSeq({1, 2, 5}, 4)

\* Nothing, less than a phrase, and more than the ring holds.
PreRolls == {0, 2, SpotBuffer + 1}

\* Scripts of a single turn.
TurnFrame(l, s, r, x) == [level |-> l, spot |-> s, replay |-> r, late |-> x]
TurnScripts ==
  BoundedSeq({TurnFrame("loud", "none", <<>>, FALSE), TurnFrame("quiet", "none", <<>>, TRUE),
              TurnFrame("quiet", "none", <<>>, FALSE), TurnFrame("quiet", "on", <<"loud">>, TRUE),
              TurnFrame("loud", "wake", <<"loud", "loud", "loud", "quiet">>, FALSE),
              TurnFrame("loud", "wake", <<>>, TRUE)}, 6)

AudioRight ==
  /\ RingHoldsTail(Sizes) /\ HandsOnTheRightAudio(Sizes, Spots, Phrases, PreRolls)
  /\ OneTurnSound({"wake", "continuous"}, TurnScripts)
  /\ FramesAccounted(Scripts) /\ SilenceIsNeutral(Sounds) /\ MeasuresAgree(Sounds)
  /\ MicrophoneOpens(Listings, 0..3, Starts) /\ LevelsBounded(Sounds, {1, 2}, 2)

(* No sample is lost before the queue, a full queue loses the newest, and   *)
(* the audio replayed after a wake phrase begins its pre-roll before the    *)
(* phrase ends; leading silence decides nothing; the wanted device is the   *)
(* one opened (microphone.py, pocketsphinx_phrase.py, audio_devices.py,     *)
(* utterance_quality.py, input_level.py).                                   *)
AudioSound == CaptureInit => AudioRight
=============================================================================
