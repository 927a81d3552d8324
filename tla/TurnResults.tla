----------------------------- MODULE TurnResults -----------------------------
(***************************************************************************)
(* What a turn reports: which of the results of voice/turn_results.py      *)
(* VoiceTurnProcessor.process and process_agent_turn end with, and its     *)
(* timings (voice/pipeline_timings.py).                                    *)
(*                                                                         *)
(* A capture c is [mode, phrase, utterance, switched], a turn is what its  *)
(* transcription and its agent did, a result holds what is filled in.      *)
(***************************************************************************)
EXTENDS Integers, Sequences, FiniteSets

None == -1

Stages == <<"task_choice", "memory_search", "search_depth", "memory_retrieval",
            "memory_relevance", "task_prompt", "task_execution", "primitive_dispatch",
            "action_history_summary", "task_completion">>

StageSet == {Stages[i] : i \in DOMAIN Stages}

NoTimes == [s \in StageSet |-> None]

(* turn_timings: an estimate is the silence before the endpoint and the time   *)
(* since; none where the stage did not run.                                    *)
Estimate(vad, seconds) == IF seconds = None THEN None ELSE vad + seconds

TurnTimings(vad, transcript, post) ==
  [transcript |-> transcript, post |-> post,
   heard |-> Estimate(vad, transcript), estimates |-> [s \in StageSet |-> Estimate(vad, post[s])]]

ModeSwitchTimings == [transcript |-> None, post |-> NoTimes, heard |-> None, estimates |-> NoTimes]

Result(kind, mode, c, t, filled, timings) ==
  [kind |-> kind, mode |-> mode, switched |-> c.switched, ignored |-> FALSE,
   utterance |-> c.utterance, routed |-> t.routed, filled |-> filled, timings |-> timings]

ModeSwitchTurnResult(c, mode) ==
  [kind |-> "switched", mode |-> mode, switched |-> TRUE, ignored |-> FALSE, utterance |-> FALSE,
   routed |-> "", filled |-> {}, timings |-> ModeSwitchTimings]

IgnoredTurnResult(c, vad) ==
  [kind |-> "ignored", mode |-> c.mode, switched |-> c.switched, ignored |-> TRUE,
   utterance |-> c.utterance, routed |-> "", filled |-> {}, timings |-> TurnTimings(vad, 0, NoTimes)]

TranscribedOnlyTurnResult(c, t, vad) ==
  Result("transcribed", c.mode, c, t, {"transcript"}, TurnTimings(vad, t.end, NoTimes))

(* The choice of the task that does nothing counts as the completion.          *)
NoActionTurnResult(c, t, vad) ==
  Result("no action", c.mode, c, t, {"transcript", "task_choice", "task_completion"},
         TurnTimings(vad, t.end, [NoTimes EXCEPT !["task_choice"] = t.end, !["task_completion"] = t.end]))

(* The times of the cycle and the attempt the flow ended with: understanding   *)
(* and continuation are each one call for several stages.                      *)
StageTimes(t) ==
  [s \in StageSet |->
     CASE s \in {"task_choice", "memory_search", "search_depth"} -> t.understood
       [] s = "memory_retrieval"                  -> t.retrieved
       [] s \in {"memory_relevance", "task_prompt"} -> t.continued
       [] s = "task_execution"                    -> t.executed
       [] s = "primitive_dispatch"                -> t.dispatched
       [] s = "action_history_summary"            -> t.summarised
       [] s = "task_completion"                   -> t.end]

(* The time of the transcript is read when the result is built.                *)
TranscribedTurnResult(c, t, vad) ==
  Result("agent", c.mode, c, t, {"transcript"} \cup {s \in StageSet : StageTimes(t)[s] # None},
         TurnTimings(vad, t.end, StageTimes(t)))

-------------------------------------------------------------------------------
(* Which result a turn ends with.                                              *)

IsContinuousUnprompted(c) == c.mode = "continuous" /\ c.phrase = "none"

IsConversationOnConfirmation(c) == c.phrase = "conversation_on" /\ ~c.switched

IsConversationOnTriggerOnly(t) == t.trigger = "conversation_on" /\ t.routed = ""

(* Mutant: a phrase that only sounded like the mode switch goes to the agent. *)
ProcessConfirmationLoose(c, t, vad) ==
  IF IsConversationOnTriggerOnly(t) THEN ModeSwitchTurnResult(c, "continuous")
  ELSE TranscribedOnlyTurnResult(c, t, vad)

(* A spotted mode switch takes effect only if the transcript says so too.       *)
ProcessConversationOnConfirmation(c, t, vad) ==
  IF IsConversationOnTriggerOnly(t) THEN ModeSwitchTurnResult(c, "continuous")
  ELSE IgnoredTurnResult(c, vad)

ProcessAgentTurn(c, t, vad) ==
  CASE ~t.choiceEnabled \/ t.routed = "" -> TranscribedOnlyTurnResult(c, t, vad)
    [] t.choiceEnabled /\ t.routed # "" /\ t.noAction -> NoActionTurnResult(c, t, vad)
    [] OTHER -> TranscribedTurnResult(c, t, vad)

Process(c, t, vad) ==
  CASE c.switched /\ ~c.utterance -> ModeSwitchTurnResult(c, c.mode)
    [] ~c.switched /\ ~c.utterance -> [kind |-> "raise"]
    [] c.utterance /\ IsContinuousUnprompted(c) /\ t.noise -> IgnoredTurnResult(c, vad)
    [] c.utterance /\ ~(IsContinuousUnprompted(c) /\ t.noise) /\ IsConversationOnConfirmation(c) ->
         ProcessConversationOnConfirmation(c, t, vad)
    [] OTHER -> IF IsConversationOnTriggerOnly(t) THEN ModeSwitchTurnResult(c, "continuous")
                ELSE ProcessAgentTurn(c, t, vad)

-------------------------------------------------------------------------------

(* The stages of a result are in the order they ran, an estimate is there   *)
(* exactly where the stage ran and is never before the endpoint's silence   *)
(* (turn_timings, transcribed_turn_result).                                 *)
StagesInOrder(captures, turns, vads) ==
  \A c \in captures, t \in turns, vad \in vads :
    LET r == Process(c, t, vad)
    IN r.kind # "raise" =>
         /\ \A i, j \in DOMAIN Stages :
              LET a == r.timings.post[Stages[i]]
                  b == r.timings.post[Stages[j]]
              IN i < j /\ a # None /\ b # None => a <= b
         /\ \A s \in StageSet : (r.timings.post[s] = None) <=> (r.timings.estimates[s] = None)
         /\ \A s \in StageSet : r.timings.estimates[s] # None => r.timings.estimates[s] >= vad

(* A spotted mode switch never reaches the agent, a switch without words    *)
(* says which mode, and noise is ignored only where nobody was addressed    *)
(* (process, _process_conversation_on_confirmation).                        *)
SwitchesNeverAct(captures, turns) ==
  \A c \in captures, t \in turns :
    LET r == Process(c, t, 0)
    IN /\ IsConversationOnConfirmation(c) => r.kind \in {"switched", "ignored", "raise"}
       /\ r.kind = "switched" /\ c.utterance => r.mode = "continuous" /\ IsConversationOnTriggerOnly(t)
       /\ r.kind = "ignored" => IsContinuousUnprompted(c) \/ IsConversationOnConfirmation(c)
       /\ r.kind = "agent" => t.choiceEnabled /\ t.routed # "" /\ c.utterance
===============================================================================
