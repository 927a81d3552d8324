--------------------------- MODULE CaptureStream ---------------------------
(***************************************************************************)
(* What a speculative capture session promises to its consumer: the stream *)
(* of endpoint, resumed and confirmed events of voice/                     *)
(* speculative_capture_session.py, and its reading and writing of the      *)
(* conversation mode it shares with the voice turns.  Audio is abstracted  *)
(* away: VoiceCapture refines each of these actions with it, VoiceLoop     *)
(* composes this module with the loop that consumes the events.            *)
(*                                                                         *)
(* The capture thread handles one frame in two steps, because the mode may *)
(* change between them: PollMode compares the controller's version with    *)
(* the one it has seen, and the frame is then given to the detectors.      *)
(***************************************************************************)
EXTENDS Naturals, Sequences

CONSTANTS
  MaxTurns,      \* turns after which the session returns, 0 for no limit
  FinalSilence,  \* chunks of silence between an endpoint and its confirmation
  TurnBound,     \* bound: the turn ids explored
  ModeBound      \* bound: the mode changes from outside explored

ASSUME CaptureBounds ==
  /\ MaxTurns \in Nat /\ FinalSilence \in Nat
  /\ TurnBound \in Nat /\ ModeBound \in Nat

VARIABLES
  mode, version,  \* ConversationModeController
  seen,           \* _mode_version of the session
  turnMode,       \* CaptureState.conversation_mode of the turn listened to
  turnId,         \* the last id given
  pending,        \* pending_turn_id, 0 for None
  capture,        \* pending_capture, also the result being finished
  completed,      \* completed_turns
  session,        \* where the capture thread is
  stop,           \* stop_event
  queue           \* events handed over and not yet taken

streamVars == <<mode, version, seen, turnMode, turnId, pending, capture,
                completed, session, stop, queue>>

Modes == {"wake", "continuous"}

Kinds == {"none", "wake", "on"}

Captures == [mode : Modes, kind : Kinds, forced : BOOLEAN]

NoCapture == [mode |-> "wake", kind |-> "none", forced |-> FALSE]

EventKinds == {"endpoint", "resumed", "confirmed"}

Events == [kind : EventKinds, id : Nat, capture : Captures]

Over == {"returned", "interrupted", "failed"}

Event(k, id, c) == [kind |-> k, id |-> id, capture |-> c]

Set(m) == mode' = m /\ version' = IF mode = m THEN version ELSE version + 1

Final(c) == c.forced \/ FinalSilence = 0

StreamTypeOK ==
  /\ mode \in Modes /\ turnMode \in Modes
  /\ version \in Nat /\ seen \in 0..version
  /\ turnId \in Nat /\ pending \in 0..turnId
  /\ capture \in Captures /\ completed \in 0..turnId
  /\ session \in {"listening", "frame", "finishing"} \cup Over
  /\ stop \in BOOLEAN /\ queue \in Seq(Events)

StreamInit ==
  /\ mode \in Modes /\ turnMode = mode
  /\ version = 0 /\ seen = 0
  /\ turnId = 0 /\ pending = 0 /\ capture = NoCapture /\ completed = 0
  /\ session = "listening" /\ stop = FALSE /\ queue = <<>>

StartTurn == turnMode' = mode' /\ seen' = version'

SameMode == UNCHANGED <<mode, version>>

SameTurn == UNCHANGED <<turnId, pending, capture, completed>>

PollMode ==
  /\ session = "listening" /\ ~stop
  /\ seen' = version
  /\ IF version # seen /\ mode # turnMode
     THEN turnMode' = mode /\ pending' = 0 /\ capture' = NoCapture
          /\ UNCHANGED session
     ELSE session' = "frame" /\ UNCHANGED <<turnMode, pending, capture>>
  /\ UNCHANGED <<mode, version, turnId, completed, stop, queue>>

QuietFrame ==
  /\ session = "frame" /\ session' = "listening"
  /\ SameMode /\ SameTurn /\ UNCHANGED <<seen, turnMode, stop, queue>>

EmitEndpoint(c) ==
  /\ session = "frame" /\ turnId < TurnBound
  /\ c.mode = turnMode
  /\ turnId' = turnId + 1
  /\ capture' = c
  /\ IF Final(c)
     THEN /\ queue' = queue \o <<Event("endpoint", turnId + 1, c),
                                 Event("confirmed", turnId + 1, c)>>
          /\ pending' = 0 /\ session' = "finishing"
     ELSE /\ queue' = Append(queue, Event("endpoint", turnId + 1, c))
          /\ pending' = turnId + 1 /\ session' = "listening"
  /\ SameMode /\ UNCHANGED <<seen, turnMode, completed, stop>>

EmitResumed ==
  /\ session = "frame" /\ pending # 0
  /\ queue' = Append(queue, Event("resumed", pending, NoCapture))
  /\ pending' = 0 /\ capture' = NoCapture /\ session' = "listening"
  /\ SameMode /\ UNCHANGED <<seen, turnMode, turnId, completed, stop>>

EmitConfirmed ==
  /\ session = "frame" /\ pending # 0
  /\ queue' = Append(queue, Event("confirmed", pending, capture))
  /\ pending' = 0 /\ session' = "finishing"
  /\ SameMode /\ UNCHANGED <<seen, turnMode, turnId, capture, completed, stop>>

\* turn_finished, then either the return or the start of the next turn.
TurnFinished ==
  /\ session = "finishing"
  /\ Set(capture.mode)
  /\ completed' = completed + 1
  /\ capture' = NoCapture
  /\ IF MaxTurns > 0 /\ completed + 1 >= MaxTurns
     THEN session' = "returned" /\ seen' = version' /\ UNCHANGED turnMode
     ELSE session' = "listening" /\ StartTurn
  /\ UNCHANGED <<turnId, pending, stop, queue>>

Interrupted ==
  /\ session = "listening" /\ stop /\ session' = "interrupted"
  /\ SameMode /\ SameTurn /\ UNCHANGED <<seen, turnMode, stop, queue>>

\* A listen timeout, a closed microphone or an error of the detectors.
Failed ==
  /\ session \in {"listening", "frame"} /\ session' = "failed"
  /\ SameMode /\ SameTurn /\ UNCHANGED <<seen, turnMode, stop, queue>>

CaptureStep ==
  \/ PollMode \/ QuietFrame \/ EmitResumed \/ EmitConfirmed \/ TurnFinished
  \/ Interrupted \/ Failed
  \/ \E c \in Captures : EmitEndpoint(c)

\* The consumer: it takes events, sets the mode and asks the session to stop.
TakeEvent ==
  /\ queue # <<>> /\ queue' = Tail(queue)
  /\ SameMode /\ SameTurn /\ UNCHANGED <<seen, turnMode, session, stop>>

SetMode(m) ==
  /\ version < ModeBound /\ Set(m)
  /\ SameTurn /\ UNCHANGED <<seen, turnMode, session, stop, queue>>

RequestStop ==
  /\ stop' = TRUE
  /\ SameMode /\ SameTurn /\ UNCHANGED <<seen, turnMode, session, queue>>

ConsumerStep == TakeEvent \/ RequestStop \/ \E m \in Modes : SetMode(m)

StreamNext == CaptureStep \/ ConsumerStep

StreamSpec == StreamInit /\ [][StreamNext]_streamVars
=============================================================================
