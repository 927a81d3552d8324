---------------------------- MODULE SpeechRuntimes ----------------------------
(***************************************************************************)
(* Which speech runtime the host ends up with: the fallback chain of       *)
(* speech/whisper_runtime.py and the transcribers it creates.              *)
(*                                                                         *)
(* A configuration c is WhisperTranscriberConfig; a machine m is what the  *)
(* probes of the code find: CUDA devices, the compute types CTranslate2    *)
(* supports, missing DLLs, a whisper-cli binary and a ggml model.          *)
(***************************************************************************)
EXTENDS Integers, Sequences, FiniteSets, SequencesExt, TLC

Backends == {"auto", "faster-whisper", "whisper-cpp"}
CppOnly  == {"metal", "coreml", "vulkan", "openvino", "rocm"}

CudaComputeTypes == {"float16", "int8_float16"}

Raise == [ok |-> FALSE]
Status(backend, device, compute) ==
  [ok |-> TRUE, backend |-> backend, device |-> device, compute |-> compute]

With(c, backend, device) == [c EXCEPT !.backend = backend, !.device = device]

ResolvedFasterWhisperDevice(c, m) ==
  CASE c.device \in CppOnly        -> "raise"
    [] c.device \in {"cpu", "cuda"} -> c.device
    [] OTHER -> IF m.cuda THEN "cuda" ELSE IF c.fallback THEN "cpu" ELSE "raise"

ResolvedComputeType(c, device) ==
  IF device = "cuda"
  THEN IF c.compute \in {"auto", "default", "int8", "int8_float32", "float32"} THEN "float16" ELSE c.compute
  ELSE IF c.compute \in {"auto", "default", "float16", "int8_float16"} THEN c.cpuCompute ELSE c.compute

(* The type is one of CUDA's, a device answers, supports it and has its DLLs. *)
ValidateWhisperGpuRuntime(compute, m) ==
  IF compute \in CudaComputeTypes /\ m.cuda /\ compute \in m.cudaTypes /\ m.dlls
  THEN Status("faster-whisper", "cuda", compute) ELSE Raise

ValidateFasterWhisperRuntime(c, m) ==
  LET device  == ResolvedFasterWhisperDevice(c, m)
      compute == ResolvedComputeType(c, device)
  IN CASE device = "raise" -> Raise
       [] device = "cuda"  -> ValidateWhisperGpuRuntime(compute, m)
       [] OTHER -> IF compute \notin {"auto", "default"} /\ m.cpuTypes # {} /\ compute \notin m.cpuTypes
                   THEN Raise ELSE Status("faster-whisper", "cpu", compute)

(* A configured binary or one on the PATH; a .bin model by either setting.  *)
ResolveWhisperCppBinary(m) == m.cli
ResolveWhisperCppModel(m)  == m.ggml

ValidateWhisperCppRuntime(c, m) ==
  IF ResolveWhisperCppBinary(m) /\ ResolveWhisperCppModel(m)
  THEN Status("whisper-cpp", c.device, "none") ELSE Raise

OnCpu(c, m) == ValidateFasterWhisperRuntime(With(c, "faster-whisper", "cpu"), m)

LastResort(c, m) ==
  LET cpp == ValidateWhisperCppRuntime(c, m)
  IN IF cpp.ok \/ ~c.fallback THEN cpp ELSE OnCpu(c, m)

ValidateTranscriptionRuntime(c, m) ==
  LET cpp  == ValidateWhisperCppRuntime(c, m)
      cuda == ValidateFasterWhisperRuntime(With(c, "faster-whisper", "cuda"), m)
  IN CASE c.backend = "whisper-cpp"    -> cpp
       [] c.backend = "faster-whisper" -> ValidateFasterWhisperRuntime(c, m)
       [] c.backend = "auto" /\ c.device \in CppOnly ->
            IF cpp.ok \/ ~c.fallback THEN cpp ELSE LastResort(c, m)
       [] c.backend = "auto" /\ c.device = "cpu" -> OnCpu(c, m)
       [] OTHER -> IF cuda.ok THEN cuda ELSE LastResort(c, m)

(* create_transcriber, then prepare: the transcriber of faster-whisper is   *)
(* validated again when it loads its model, from the configuration that was *)
(* pinned to the device found first; whisper.cpp resolves its files again.  *)
CreateTranscriber(c, m) ==
  LET s == ValidateTranscriptionRuntime(c, m)
  IN IF ~s.ok THEN [kind |-> "raise"]
     ELSE [kind |-> s.backend,
           config |-> IF s.backend = "whisper-cpp" THEN c ELSE With(c, "faster-whisper", s.device)]

LoadModel(t, m) == ValidateFasterWhisperRuntime(t.config, m)

PrepareWhisperCpp(t, m) ==
  IF ResolveWhisperCppBinary(m) /\ ResolveWhisperCppModel(m)
  THEN Status("whisper-cpp", t.config.device, "none")
  ELSE ValidateTranscriptionRuntime(With(t.config, "whisper-cpp", t.config.device), m)

Prepared(c, m) ==
  LET t == CreateTranscriber(c, m)
  IN CASE t.kind = "raise"       -> Raise
       [] t.kind = "whisper-cpp" -> PrepareWhisperCpp(t, m)
       [] OTHER                  -> LoadModel(t, m)

-------------------------------------------------------------------------------
(* WhisperCppTranscriber._run_cli.  A run of the binary is an exit code, a  *)
(* JSON file or none, and lines of standard output; an item of the JSON is  *)
(* a segment or not, with offsets, timestamps or neither.                   *)

NoTime == -1

SegmentTimes(item) ==
  CASE item.offsets # NoTime -> item.offsets
    [] item.offsets = NoTime /\ item.stamps # NoTime -> item.stamps
    [] OTHER -> 0

IsSegment(item) == item.dict

TranscriptFromJson(items) ==
  LET segments == SelectSeq(items, IsSegment)
  IN [segments |-> [i \in 1..Len(segments) |->
                      [at |-> SegmentTimes(segments[i]), text |-> segments[i].text]],
      text |-> FlattenSeq([i \in 1..Len(segments) |-> segments[i].text])]

(* Log lines of the binary are dropped from its output.                     *)
IsSpeech(line) == line.kind = "speech"

CleanStdout(lines) ==
  LET spoken == SelectSeq(lines, IsSpeech) IN FlattenSeq([i \in 1..Len(spoken) |-> spoken[i].text])

TranscriptFromText(text) ==
  [segments |-> IF text = <<>> THEN <<>> ELSE <<[at |-> 0, text |-> text]>>, text |-> text]

RunCli(run) ==
  CASE run.exit # 0 -> Raise
    [] run.exit = 0 /\ run.json -> TranscriptFromJson(run.items)
    [] OTHER -> TranscriptFromText(CleanStdout(run.lines))

-------------------------------------------------------------------------------

(* Every configuration on every machine of a bounded set ends honestly: the *)
(* CPU is used only where it was asked for or allowed; what is validated at *)
(* startup is what the transcriber loads; and "auto" with a fallback finds  *)
(* the CPU whenever it can be used (validate_transcription_runtime,         *)
(* create_transcriber, prepare).                                            *)
RuntimesHonest(configs, machines) ==
  \A c \in configs, m \in machines :
    LET s == ValidateTranscriptionRuntime(c, m)
    IN /\ s.ok /\ s.device = "cpu" => c.device = "cpu" \/ c.fallback
       /\ Prepared(c, m) = s
       /\ c.backend = "auto" /\ c.fallback /\ OnCpu(c, m).ok => s.ok

(* A transcript keeps every word the binary printed, in order, whichever of *)
(* its outputs is read (_run_cli).                                          *)
WordsKept(runs) ==
  \A run \in runs :
    run.exit = 0 =>
      LET t == RunCli(run)
      IN /\ FlattenSeq([i \in DOMAIN t.segments |-> t.segments[i].text]) = t.text
         /\ \A i \in DOMAIN t.segments : t.segments[i].at >= 0
===============================================================================
