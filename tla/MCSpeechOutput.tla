--------------------------- MODULE MCSpeechOutput ---------------------------
(* Two replies, and beside them every short text, transcript and machine.   *)
EXTENDS SpeechOutput, SpeechText, SpeechRuntimes

CONSTANTS r1, r2

Texts == BoundedSeq(Classes, 7)

\* "jarvis", "hey jarvis", "conversation on" and what is heard for them.
MCTriggerWords == <<<<"jarvis">>, <<"hey", "jarvis">>>>
MCOnPhrases    == <<<<"conversation", "on">>>>
MCAliases      == <<"jarvis">> :> <<<<"java">>, <<"jarvis", "'s">>>>
MCResidues     == <<"jarvis">> :> <<<<"us">>>>
Transcripts    == BoundedSeq({"hey", "jarvis", "'s", "java", "us", "conversation", "on", "stop"}, 4)

Configs ==
  [backend : Backends, device : {"auto", "cpu", "cuda", "vulkan"}, fallback : BOOLEAN,
   compute : {"auto", "int8", "float16", "float64"}, cpuCompute : {"int8", "float32"}]
Machines ==
  [cuda : BOOLEAN, cudaTypes : SUBSET {"float16", "int8_float16"}, dlls : BOOLEAN,
   cpuTypes : {{}, {"int8"}, {"int8", "float32"}}, cli : BOOLEAN, ggml : BOOLEAN]

Items == [dict : BOOLEAN, offsets : {NoTime, 2}, stamps : {NoTime, 1}, text : {<<"a">>, <<"b", "c">>}]
Lines == [kind : {"log", "speech"}, text : {<<"a">>, <<"b">>}]
Runs ==
  [exit : 0..1, json : {TRUE}, items : BoundedSeq(Items, 2), lines : {<<>>}]
    \cup [exit : 0..1, json : {FALSE}, items : {<<>>}, lines : BoundedSeq(Lines, 3)]

AlgorithmsRight ==
  /\ ChunksSayTheText(Texts) /\ TriggersRoute(Transcripts) /\ ConfirmedAgrees(Transcripts)
  /\ RuntimesHonest(Configs, Machines) /\ WordsKept(Runs)

(* A reply is spoken word for word, a transcript is routed by the phrase it *)
(* begins with, and the transcriber that is loaded is the one validated at  *)
(* startup (chunking.py, triggers.py, whisper_runtime.py, whisper_cpp.py).  *)
WordsSurvive == Init => AlgorithmsRight
=============================================================================
