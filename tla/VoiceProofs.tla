---------------------------- MODULE VoiceProofs ----------------------------
(***************************************************************************)
(* The theorems of the voice input: first the loop that consumes the       *)
(* capture session's events (VoiceLoop), then the session with its audio   *)
(* (VoiceCapture), which implements the stream the loop is composed with.  *)
(***************************************************************************)
EXTENDS VoiceLoop, VoiceCapture, FiniteSetTheorems, WellFoundedInduction,
        SequenceTheorems, TLAPS

-----------------------------------------------------------------------------
(***************************************************************************)
(* Speech that went on is never acted upon, for any number of turns, any   *)
(* limits and any interleaving of the capture thread, the loop and the     *)
(* turn tasks.  A turn acts once it is committed, and it is committed by a *)
(* confirmed event; so it is enough that no turn gets both a resumed and a *)
(* confirmed event.  The invariant follows the one id the session holds as *)
(* provisional: it has no event of either kind yet.                        *)
(*                                                                         *)
(* The second theorem, SpeculationIsSound, is about which turn is open: at *)
(* most one is undecided, the loop holds the one the session holds once it *)
(* has caught up, and what was committed is not cancelled.  Its invariant  *)
(* TurnsInv reads the queue of events as a history still to be played.     *)
(***************************************************************************)
(* A confirmed event of the turn is on its way to the loop. *)
Confirming(id) == \E i \in 1..Len(queue) : queue[i].kind = "confirmed" /\ queue[i].id = id

(* Ids are given out once, in order. *)
IdsGiven ==
  /\ turnId \in Nat /\ pending \in 0..turnId
  /\ queue \in Seq(Events)
  /\ \A i \in 1..Len(queue) : queue[i].id \in 1..turnId
  /\ committed \subseteq 1..turnId /\ resumed \subseteq 1..turnId

(* The provisional turn is undecided: nothing confirms or resumed it. *)
PendingUndecided ==
  pending # 0 => pending \notin committed \cup resumed /\ ~Confirming(pending)

(* A resumed turn is not committed, and nothing is under way that would. *)
ResumedUncommitted ==
  \A id \in resumed : id # pending /\ id \notin committed /\ ~Confirming(id)

(* What acts was committed. *)
ActsCommitted == acted \subseteq committed

(* What is captured can be sent. *)
CaptureTyped == capture \in Captures /\ turnMode \in Modes /\ mode \in Modes

LoopInv ==
  IdsGiven /\ PendingUndecided /\ ResumedUncommitted /\ ActsCommitted /\ CaptureTyped

-----------------------------------------------------------------------------
(* Sequences of events. *)

LEMMA AppendEvent ==
  ASSUME NEW q \in Seq(Events), NEW e \in Events
  PROVE  /\ Append(q, e) \in Seq(Events) /\ Len(Append(q, e)) = Len(q) + 1
         /\ \A i \in 1..Len(q) : Append(q, e)[i] = q[i]
         /\ Append(q, e)[Len(q) + 1] = e
OBVIOUS

LEMMA AppendTwo ==
  ASSUME NEW q \in Seq(Events), NEW e \in Events, NEW f \in Events
  PROVE  /\ q \o <<e, f>> \in Seq(Events) /\ Len(q \o <<e, f>>) = Len(q) + 2
         /\ \A i \in 1..Len(q) : (q \o <<e, f>>)[i] = q[i]
         /\ (q \o <<e, f>>)[Len(q) + 1] = e /\ (q \o <<e, f>>)[Len(q) + 2] = f
OBVIOUS

LEMMA TailEvents ==
  ASSUME NEW q \in Seq(Events), q # <<>>
  PROVE  /\ Tail(q) \in Seq(Events) /\ Len(Tail(q)) = Len(q) - 1 /\ Len(q) \in Nat \ {0}
         /\ \A i \in 1..Len(Tail(q)) : Tail(q)[i] = q[i + 1] /\ i + 1 \in 1..Len(q)
         /\ Head(q) = q[1] /\ 1 \in 1..Len(q) /\ Head(q) \in Events
OBVIOUS

LEMMA EventTyped ==
  ASSUME NEW k \in EventKinds, NEW id \in Nat, NEW c \in Captures
  PROVE  /\ Event(k, id, c) \in Events
         /\ Event(k, id, c).kind = k /\ Event(k, id, c).id = id
BY DEF Event, Events

LEMMA NoCaptureTyped == NoCapture \in Captures
BY DEF NoCapture, Captures, Modes, Kinds

-----------------------------------------------------------------------------

LEMMA InitLoopInv == Init => LoopInv
BY NoCaptureTyped
DEF Init, StreamInit, LoopInv, IdsGiven, PendingUndecided, ResumedUncommitted,
    ActsCommitted, CaptureTyped, Confirming

(* The capture thread. *)
LEMMA CapturePreserves == LoopInv /\ Capture => LoopInv'
<1> SUFFICES ASSUME LoopInv, Capture PROVE LoopInv'
  OBVIOUS
<1> USE DEF LoopInv
<1>0. committed' = committed /\ acted' = acted
  BY DEF Capture
<1>1. CASE EmitResumed
  <2>1. resumed' = resumed \cup {pending}
    BY <1>1 DEF Capture
  <2> DEFINE e == Event("resumed", pending, NoCapture)
  <2>2. pending \in 1..turnId /\ queue' = Append(queue, e) /\ pending' = 0 /\ turnId' = turnId
    BY <1>1 DEF EmitResumed, IdsGiven
  <2>3. e \in Events /\ e.kind = "resumed" /\ e.id = pending
    BY <2>2, EventTyped, NoCaptureTyped DEF IdsGiven, EventKinds
  <2> HIDE DEF e
  <2>4. \A id : Confirming(id)' => Confirming(id)
    BY <2>2, <2>3, AppendEvent DEF Confirming, IdsGiven
  <2>5. IdsGiven'
    BY <1>0, <2>1, <2>2, <2>3, AppendEvent DEF IdsGiven
  <2>6. PendingUndecided' /\ ActsCommitted'
    BY <1>0, <2>2 DEF PendingUndecided, ActsCommitted
  <2>7. ResumedUncommitted'
    BY <1>0, <2>1, <2>2, <2>4 DEF ResumedUncommitted, PendingUndecided, IdsGiven
  <2>8. CaptureTyped'
    BY <1>1, NoCaptureTyped DEF EmitResumed, SameMode, CaptureTyped
  <2> QED
    BY <2>5, <2>6, <2>7, <2>8
<1>2. CASE ~EmitResumed
  <2>1. resumed' = resumed
    BY <1>2 DEF Capture
  <2>2. CASE \E c \in Captures : EmitEndpoint(c)
    <3> PICK c \in Captures : EmitEndpoint(c)
      BY <2>2
    <3> DEFINE n == turnId + 1
               e == Event("endpoint", n, c)
               f == Event("confirmed", n, c)
    <3>1. n \in Nat /\ n = turnId + 1 /\ turnId' = n
      BY DEF EmitEndpoint, IdsGiven
    <3>2. /\ e \in Events /\ e.kind = "endpoint" /\ e.id = n
          /\ f \in Events /\ f.kind = "confirmed" /\ f.id = n
      BY <3>1, EventTyped DEF EventKinds
    <3>3. CaptureTyped'
      BY DEF EmitEndpoint, SameMode, CaptureTyped
    <3>4. CASE Final(c)
      <4>1. queue' = queue \o <<e, f>> /\ pending' = 0
        BY <3>4 DEF EmitEndpoint
      <4> HIDE DEF e, f, n
      <4>2. \A id : Confirming(id)' => Confirming(id) \/ id = n
        BY <4>1, <3>2, AppendTwo DEF Confirming, IdsGiven
      <4>3. IdsGiven'
        <5>1. /\ queue' \in Seq(Events) /\ Len(queue') = Len(queue) + 2 /\ Len(queue) \in Nat
              /\ \A i \in 1..Len(queue) : queue'[i] = queue[i]
              /\ queue'[Len(queue) + 1] = e /\ queue'[Len(queue) + 2] = f
          BY <3>2, <4>1, AppendTwo DEF IdsGiven
        <5>2. \A i \in 1..Len(queue) : queue[i].id \in 1..turnId'
          BY <3>1 DEF IdsGiven
        <5>3. \A i \in 1..Len(queue') : i \in 1..Len(queue) \/ i = Len(queue) + 1 \/ i = Len(queue) + 2
          BY <5>1
        <5>4. turnId \in Nat /\ n \in 1..turnId'
          BY <3>1 DEF IdsGiven
        <5>5. \A i \in 1..Len(queue') : queue'[i].id \in 1..turnId'
          BY <3>2, <5>1, <5>2, <5>3, <5>4
        <5>6. committed' \subseteq 1..turnId' /\ resumed' \subseteq 1..turnId'
          BY <1>0, <2>1, <3>1, <5>4 DEF IdsGiven
        <5> QED
          BY <3>1, <4>1, <5>1, <5>5, <5>6 DEF IdsGiven
      <4>4. PendingUndecided' /\ ActsCommitted'
        BY <1>0, <4>1 DEF PendingUndecided, ActsCommitted
      <4>5. n \notin resumed /\ 0 \notin resumed
        BY <3>1 DEF IdsGiven
      <4>6. ResumedUncommitted'
        BY <1>0, <2>1, <4>1, <4>2, <4>5 DEF ResumedUncommitted
      <4> QED
        BY <3>3, <4>3, <4>4, <4>6
    <3>5. CASE ~Final(c)
      <4>1. queue' = Append(queue, e) /\ pending' = n
        BY <3>5 DEF EmitEndpoint
      <4> HIDE DEF e, f, n
      <4>2. \A id : Confirming(id)' => Confirming(id)
        BY <4>1, <3>2, AppendEvent DEF Confirming, IdsGiven
      <4>3. IdsGiven'
        BY <1>0, <2>1, <3>1, <3>2, <4>1, AppendEvent DEF IdsGiven
      <4>4. ~Confirming(n) /\ n \notin committed \cup resumed
        BY <3>1 DEF Confirming, IdsGiven
      <4> QED
        BY <1>0, <2>1, <3>1, <3>3, <4>1, <4>2, <4>3, <4>4
        DEF PendingUndecided, ResumedUncommitted, ActsCommitted, IdsGiven
    <3> QED
      BY <3>4, <3>5
  <2>3. CASE EmitConfirmed
    <3> DEFINE e == Event("confirmed", pending, capture)
    <3>1. pending \in 1..turnId /\ queue' = Append(queue, e) /\ pending' = 0 /\ turnId' = turnId
      BY <2>3 DEF EmitConfirmed, IdsGiven
    <3>2. e \in Events /\ e.kind = "confirmed" /\ e.id = pending
      BY <3>1, EventTyped DEF CaptureTyped, EventKinds, IdsGiven
    <3> HIDE DEF e
    <3>3. \A id : Confirming(id)' => Confirming(id) \/ id = pending
      BY <3>1, <3>2, AppendEvent DEF Confirming, IdsGiven
    <3>4. IdsGiven'
      BY <1>0, <2>1, <3>1, <3>2, AppendEvent DEF IdsGiven
    <3>5. CaptureTyped'
      BY <2>3 DEF EmitConfirmed, SameMode, CaptureTyped
    <3> QED
      BY <1>0, <2>1, <3>1, <3>3, <3>4, <3>5
      DEF PendingUndecided, ResumedUncommitted, ActsCommitted, IdsGiven
  <2>4. CASE PollMode
    <3>1. /\ queue' = queue /\ turnId' = turnId /\ pending' \in {pending, 0}
          /\ CaptureTyped'
      BY <2>4, NoCaptureTyped DEF PollMode, CaptureTyped
    <3> QED
      BY <1>0, <2>1, <3>1
      DEF IdsGiven, PendingUndecided, ResumedUncommitted, ActsCommitted, Confirming
  <2>5. CASE QuietFrame \/ Interrupted \/ Failed \/ TurnFinished
    <3>1. queue' = queue /\ turnId' = turnId /\ pending' = pending
      BY <2>5 DEF QuietFrame, Interrupted, Failed, TurnFinished, SameTurn
    <3>2. CaptureTyped'
      BY <2>5, NoCaptureTyped
      DEF QuietFrame, Interrupted, Failed, TurnFinished, SameTurn, SameMode, CaptureTyped, StartTurn, Set, Captures
    <3> QED
      BY <1>0, <2>1, <3>1, <3>2
      DEF IdsGiven, PendingUndecided, ResumedUncommitted, ActsCommitted, Confirming
  <2> QED
    BY <1>2, <2>2, <2>3, <2>4, <2>5 DEF Capture, CaptureStep
<1> QED
  BY <1>1, <1>2

(* What the loop and the tasks leave alone. *)
LEMMA StreamUntouched ==
  ASSUME LoopInv, queue' = queue, turnId' = turnId, pending' = pending, resumed' = resumed,
         committed' = committed, acted' \subseteq committed,
         capture' = capture, turnMode' = turnMode, mode' \in Modes
  PROVE  LoopInv'
BY DEF LoopInv, IdsGiven, PendingUndecided, ResumedUncommitted, ActsCommitted, CaptureTyped, Confirming

(* The loop takes an event, and may commit the turn of a confirmed one. *)
LEMMA EventPreserves ==
  ASSUME LoopInv, NEW k \in EventKinds, NextEvent(k), mode' \in Modes, committed \subseteq committed',
         committed' = committed \/ (k = "confirmed" /\ committed' \subseteq committed \cup {Head(queue).id})
  PROVE  LoopInv'
<1> USE DEF LoopInv
<1>1. /\ queue' = Tail(queue) /\ queue # <<>> /\ Head(queue).kind = k
      /\ turnId' = turnId /\ pending' = pending /\ resumed' = resumed /\ acted' = acted
      /\ capture' = capture /\ turnMode' = turnMode
  BY DEF NextEvent, SameStream, SameTurn
<1>2. \A id : Confirming(id)' => Confirming(id)
  BY <1>1, TailEvents DEF Confirming, IdsGiven
<1>3. k = "confirmed" => Confirming(Head(queue).id) /\ Head(queue).id \in 1..turnId
  BY <1>1, TailEvents DEF Confirming, IdsGiven
<1>4. IdsGiven'
  BY <1>1, <1>3, TailEvents DEF IdsGiven
<1>5. PendingUndecided'
  BY <1>1, <1>2, <1>3 DEF PendingUndecided
<1>6. ResumedUncommitted'
  BY <1>1, <1>2, <1>3 DEF ResumedUncommitted
<1>7. ActsCommitted' /\ CaptureTyped'
  BY <1>1 DEF ActsCommitted, CaptureTyped
<1> QED
  BY <1>4, <1>5, <1>6, <1>7

LEMMA LoopPreserves == LoopInv /\ (LoopStep \/ Abort) => LoopInv'
<1> SUFFICES ASSUME LoopInv, LoopStep \/ Abort PROVE LoopInv'
  OBVIOUS
<1>1. CASE OnEndpoint \/ OnResumed
  <2> PICK k \in EventKinds : NextEvent(k) /\ mode' = mode /\ committed' = committed
    BY <1>1 DEF OnEndpoint, OnResumed, SameMode, EventKinds
  <2>1. mode' \in Modes
    BY DEF LoopInv, CaptureTyped
  <2> QED
    BY <2>1, EventPreserves
<1>2. CASE OnConfirmed
  <2>1. /\ NextEvent("confirmed") /\ mode' = Head(queue).capture.mode
        /\ committed \subseteq committed' /\ committed' \subseteq committed \cup {Head(queue).id}
    BY <1>2 DEF OnConfirmed, Set
  <2>2. mode' \in Modes
    BY <2>1, TailEvents DEF NextEvent, LoopInv, IdsGiven, Events, Captures
  <2> QED
    BY <2>1, <2>2, EventPreserves DEF EventKinds
<1>3. CASE Abort \/ SessionFailed
  BY <1>3, StreamUntouched
  DEF SessionFailed, Abort, SameMode, SameTurn, LoopInv, CaptureTyped, ActsCommitted
<1>4. CASE SessionReturned \/ CancelBackground \/ Drained \/ Gather
  BY <1>4, StreamUntouched
  DEF SessionReturned, CancelBackground, Drained, Gather, streamVars, LoopInv, CaptureTyped, ActsCommitted
<1> QED
  BY <1>1, <1>2, <1>3, <1>4 DEF LoopStep

LEMMA TaskPreserves ==
  ASSUME LoopInv, NEW id \in Turns, TaskStep(id) \/ AgentTurnsOff(id)
  PROVE  LoopInv'
<1>0. ActsCommitted /\ mode \in Modes /\ {"wake", "continuous"} \subseteq Modes
  BY DEF LoopInv, CaptureTyped, Modes
<1>1. CASE Unwind(id)
  BY <1>0, <1>1, StreamUntouched DEF Unwind, streamVars, ActsCommitted
<1>2. ASSUME NEW from, NEW to, Step(id, from, to), mode' \in Modes, acted' \subseteq committed
      PROVE  LoopInv'
  BY <1>2, StreamUntouched DEF Step, SameStream, SameTurn
<1>3. CASE StartAgent(id) \/ SwitchOn(id)
  BY <1>0, <1>2, <1>3 DEF StartAgent, SwitchOn, Go, Set, SameMode, ActsCommitted
<1>4. CASE AgentTurnsOff(id)
  BY <1>0, <1>2, <1>4 DEF AgentTurnsOff, Set, ActsCommitted
<1>5. CASE NoiseGate(id) \/ Transcribed(id)
  BY <1>0, <1>2, <1>5 DEF NoiseGate, Transcribed, SameMode, ActsCommitted
<1>6. CASE \/ BeginTurn(id) \/ GraceOver(id) \/ TurnError(id)
           \/ IgnoreTurn(id) \/ AgentDone(id)
  BY <1>0, <1>2, <1>6
  DEF BeginTurn, GraceOver, TurnError, IgnoreTurn, AgentDone,
      Quietly, SameMode, ActsCommitted
<1> QED
  BY <1>1, <1>3, <1>4, <1>5, <1>6 DEF TaskStep

LEMMA StepPreserves == LoopInv /\ [Next]_vars => LoopInv'
<1> SUFFICES ASSUME LoopInv, [Next]_vars PROVE LoopInv'
  OBVIOUS
<1>1. CASE UNCHANGED vars
  BY <1>1, StreamUntouched DEF vars, streamVars, loopVars, LoopInv, CaptureTyped, ActsCommitted
<1>2. CASE Next
  BY <1>2, CapturePreserves, LoopPreserves, TaskPreserves DEF Next
<1> QED
  BY <1>1, <1>2

(* A turn whose speech went on neither runs the agent nor switches the mode, *)
(* whatever awaits its task, the loop and the capture thread are at: the     *)
(* cancellation of voice_loop.py and VoiceTurnControl, for every number of   *)
(* turns and every limit.                                                    *)
THEOREM SpeculationIsHarmless == Spec => []ResumedNeverActs
<1>1. LoopInv => ResumedNeverActs
  BY DEF LoopInv, ResumedUncommitted, ActsCommitted, ResumedNeverActs
<1> QED
  BY InitLoopInv, StepPreserves, <1>1, PTL DEF Spec
-----------------------------------------------------------------------------
(* The turns of a session.  A confirmed or resumed event follows the         *)
(* endpoint of its own turn at once, in the queue or across the loop's       *)
(* active turn: that is what keeps the active turn the speculative one.      *)

(* The turn whose endpoint comes right before place i of the queue, 0 for    *)
(* none; what the loop has taken last is its active turn.                    *)
Tip(i) ==
  IF i = 1 THEN active
  ELSE IF queue[i - 1].kind = "endpoint" THEN queue[i - 1].id ELSE 0

(* Turns are counted within the ids given out. *)
CountInv ==
  /\ turnId <= TurnBound
  /\ completed + (IF session = "finishing" THEN 1 ELSE 0) + (IF pending # 0 THEN 1 ELSE 0)
       <= turnId

(* What is not an endpoint belongs to the endpoint before it. *)
Follows == \A i \in 1..Len(queue) : queue[i].kind # "endpoint" => Tip(i) = queue[i].id

(* The last endpoint without an event after it is the provisional turn's, or *)
(* that of a turn dropped by a mode change.                                  *)
TipPending ==
  IF pending # 0 THEN Tip(Len(queue) + 1) = pending
  ELSE Tip(Len(queue) + 1) \in {0} \cup dropped

(* An endpoint under way starts a turn that nothing has touched. *)
EndpointsFresh ==
  /\ \A i \in 1..Len(queue) : queue[i].kind = "endpoint" =>
       /\ task[queue[i].id] = "none"
       /\ \A j \in 1..Len(queue) : queue[j].kind = "endpoint" /\ queue[j].id = queue[i].id => j = i
  /\ \A id \in Turns : id > turnId => task[id] = "none"

(* Only a started turn is active, committed, cancelled or unwinding. *)
Started ==
  \A id \in Turns : id \in committed \cup cancelled \cup unwinding \/ id = active
                      => task[id] # "none"

(* While the loop runs its active turn is open. *)
ActiveOpen ==
  (loop = "loop" /\ active # 0)
    => active \notin committed \cup cancelled \cup unwinding /\ task[active] # "cancelled"

(* Only the end of the loop cancels a committed turn, now or soon. *)
CommittedKept ==
  /\ committed \cap cancelled = {}
  /\ \A id \in committed : id \in unwinding \/ task[id] = "cancelled" => loop \in {"draining", "raised"}

(* Whatever is speculative is active. *)
OnlyActive ==
  \A id \in Turns : Live(id) /\ id \notin committed \cup unwinding \cup cancelled => id = active

TurnsInv ==
  /\ LoopInv /\ TypeOK /\ CountInv /\ Follows /\ TipPending /\ EndpointsFresh /\ Started
  /\ ActiveOpen /\ CommittedKept /\ CancelIsDelivered /\ OnlyActive

(* The part of the invariant that is about the stream, and the part that is  *)
(* about the tasks.                                                          *)
StreamPart == StreamTypeOK /\ CountInv /\ Follows /\ TipPending /\ EndpointsFresh

TurnTypes ==
  /\ loop \in {"loop", "gather", "aborting", "draining", "returned", "raised"}
  /\ active \in 0..TurnBound /\ tasks \subseteq Turns
  /\ task \in [Turns -> TaskStates] /\ plan \in [Turns -> Plans]
  /\ cap \in [Turns -> Captures]
  /\ cancelled \subseteq Turns /\ committed \subseteq Turns /\ unwinding \subseteq Turns
  /\ dropped \subseteq Turns /\ resumed \subseteq Turns /\ acted \subseteq Turns

TurnPart ==
  TurnTypes /\ Started /\ ActiveOpen /\ CommittedKept /\ CancelIsDelivered /\ OnlyActive

LEMMA TurnsParts == TurnsInv <=> LoopInv /\ StreamPart /\ TurnPart
BY DEF TurnsInv, StreamPart, TurnPart, TurnTypes, TypeOK

LEMMA TurnsPartsNext == LoopInv' /\ StreamPart' /\ TurnPart' => TurnsInv'
BY DEF TurnsInv, StreamPart, TurnPart, TurnTypes, TypeOK

LEMMA InitTurnsInv == Init => TurnsInv
<1> SUFFICES ASSUME Init PROVE TurnsInv
  OBVIOUS
<1>1. LoopInv
  BY InitLoopInv
<1>2. StreamPart
  <2>0. stop \in BOOLEAN /\ session \in {"listening", "frame", "finishing"} \cup Over
    BY DEF Init, StreamInit
  <2>1. StreamTypeOK
    BY <2>0, NoCaptureTyped DEF Init, StreamInit, StreamTypeOK
  <2>2. CountInv /\ Follows /\ TipPending /\ EndpointsFresh
    BY CaptureBounds
    DEF Init, StreamInit, CountInv, Follows, TipPending, EndpointsFresh, Tip, Turns
  <2> QED
    BY <2>1, <2>2 DEF StreamPart
<1>3. TurnPart
  BY NoCaptureTyped, CaptureBounds
  DEF Init, StreamInit, TurnPart, TurnTypes, Started, ActiveOpen, CommittedKept, CancelIsDelivered,
      OnlyActive, Turns, Live, Ended, TaskStates, Plans
<1> QED
  BY <1>1, <1>2, <1>3, TurnsParts

LEMMA TipAppend ==
  ASSUME queue \in Seq(Events), NEW e \in Events, queue' = Append(queue, e), active' = active
  PROVE  /\ Len(queue') = Len(queue) + 1 /\ Len(queue) \in Nat
         /\ \A i \in 1..Len(queue) : queue'[i] = queue[i]
         /\ queue'[Len(queue) + 1] = e
         /\ \A i \in 1..Len(queue) + 1 : Tip(i)' = Tip(i)
         /\ \A n \in Nat : n = Len(queue) + 2 => Tip(n)' = IF e.kind = "endpoint" THEN e.id ELSE 0
<1>1. /\ Len(queue') = Len(queue) + 1 /\ Len(queue) \in Nat
      /\ \A i \in 1..Len(queue) : queue'[i] = queue[i]
      /\ queue'[Len(queue) + 1] = e
  BY AppendEvent
<1>2. \A i \in 1..Len(queue) + 1 : Tip(i)' = Tip(i)
  BY <1>1 DEF Tip
<1>3. \A n \in Nat : n = Len(queue) + 2 => Tip(n)' = IF e.kind = "endpoint" THEN e.id ELSE 0
  BY <1>1 DEF Tip
<1> QED
  BY <1>1, <1>2, <1>3

LEMMA TipAppendTwo ==
  ASSUME queue \in Seq(Events), NEW e \in Events, NEW f \in Events,
         queue' = queue \o <<e, f>>, active' = active
  PROVE  /\ Len(queue') = Len(queue) + 2 /\ Len(queue) \in Nat
         /\ \A i \in 1..Len(queue) : queue'[i] = queue[i]
         /\ queue'[Len(queue) + 1] = e /\ queue'[Len(queue) + 2] = f
         /\ \A i \in 1..Len(queue) + 1 : Tip(i)' = Tip(i)
         /\ \A n \in Nat : n = Len(queue) + 2 => Tip(n)' = IF e.kind = "endpoint" THEN e.id ELSE 0
         /\ \A n \in Nat : n = Len(queue) + 3 => Tip(n)' = IF f.kind = "endpoint" THEN f.id ELSE 0
<1>1. /\ Len(queue') = Len(queue) + 2 /\ Len(queue) \in Nat
      /\ \A i \in 1..Len(queue) : queue'[i] = queue[i]
      /\ queue'[Len(queue) + 1] = e /\ queue'[Len(queue) + 2] = f
  BY AppendTwo
<1>2. \A i \in 1..Len(queue) + 1 : Tip(i)' = Tip(i)
  BY <1>1 DEF Tip
<1>3. \A n \in Nat : n = Len(queue) + 2 => Tip(n)' = IF e.kind = "endpoint" THEN e.id ELSE 0
  BY <1>1 DEF Tip
<1>4. \A n \in Nat : n = Len(queue) + 3 => Tip(n)' = IF f.kind = "endpoint" THEN f.id ELSE 0
  BY <1>1 DEF Tip
<1> QED
  BY <1>1, <1>2, <1>3, <1>4

(* A step that leaves the queue, the active turn and the provisional one. *)
LEMMA QueueUntouched ==
  ASSUME StreamPart, queue' = queue, active' = active, task' = task, turnId' = turnId,
         pending' = pending, dropped \subseteq dropped'
  PROVE  Follows' /\ TipPending' /\ EndpointsFresh'
<1>1. Follows'
  BY DEF StreamPart, Follows, Tip
<1>2. TipPending'
  BY DEF StreamPart, TipPending, Tip
<1>3. EndpointsFresh'
  BY DEF StreamPart, EndpointsFresh
<1> QED
  BY <1>1, <1>2, <1>3

(* The thread's step on the stream. *)
LEMMA EndpointStream ==
  ASSUME LoopInv, StreamPart, NEW c \in Captures, EmitEndpoint(c),
         active' = active, task' = task, task \in [Turns -> TaskStates], dropped' = dropped
  PROVE  StreamPart'
<1> DEFINE n == turnId + 1
           e == Event("endpoint", n, c)
           f == Event("confirmed", n, c)
<1>1. /\ n \in Nat /\ n = turnId + 1 /\ turnId' = n /\ n \in Turns /\ completed' = completed
      /\ turnId \in Nat /\ completed \in Nat
  BY CaptureBounds DEF EmitEndpoint, StreamPart, StreamTypeOK, CountInv, Turns
<1>2. /\ e \in Events /\ e.kind = "endpoint" /\ e.id = n
      /\ f \in Events /\ f.kind = "confirmed" /\ f.id = n
  BY <1>1, EventTyped DEF EventKinds
<1>3. /\ queue \in Seq(Events) /\ task[n] = "none"
      /\ \A i \in 1..Len(queue) : queue[i].id # n
  BY <1>1 DEF StreamPart, StreamTypeOK, EndpointsFresh, LoopInv, IdsGiven
<1>4. \A id \in Turns : id > n => task[id] = "none"
  BY <1>1 DEF StreamPart, EndpointsFresh, Turns
<1>5. /\ session = "frame" /\ stop' \in BOOLEAN /\ mode' \in Modes /\ turnMode' \in Modes
      /\ version' \in Nat /\ seen' \in 0..version' /\ capture' \in Captures
  BY DEF EmitEndpoint, StreamPart, StreamTypeOK, SameMode
<1>6. CASE Final(c)
  <2>1. queue' = queue \o <<e, f>> /\ pending' = 0 /\ session' = "finishing"
    BY <1>6 DEF EmitEndpoint
  <2> HIDE DEF e, f, n
  <2>2. /\ Len(queue') = Len(queue) + 2 /\ Len(queue) \in Nat
        /\ \A i \in 1..Len(queue) : queue'[i] = queue[i]
        /\ queue'[Len(queue) + 1] = e /\ queue'[Len(queue) + 2] = f
        /\ \A i \in 1..Len(queue) + 1 : Tip(i)' = Tip(i)
        /\ \A k \in Nat : k = Len(queue) + 2 => Tip(k)' = n
        /\ \A k \in Nat : k = Len(queue) + 3 => Tip(k)' = 0
    BY <1>2, <1>3, <2>1, TipAppendTwo
  <2>3. StreamTypeOK' /\ CountInv'
    BY <1>1, <1>2, <1>3, <1>5, <2>1, AppendTwo, CaptureBounds
    DEF StreamTypeOK, CountInv, StreamPart, Turns, Over
  <2>4. Follows'
    BY <1>2, <2>2 DEF StreamPart, Follows
  <2>5. TipPending'
    BY <2>1, <2>2 DEF TipPending
  <2>7. \A i \in 1..Len(queue') : queue'[i].kind = "endpoint" =>
          \/ i = Len(queue) + 1 /\ queue'[i].id = n
          \/ i \in 1..Len(queue) /\ queue'[i] = queue[i] /\ queue[i].id # n
    BY <1>2, <1>3, <2>2
  <2>6. EndpointsFresh'
    <3>1. \A i \in 1..Len(queue') : queue'[i].kind = "endpoint" => task[queue'[i].id] = "none"
      BY <1>3, <2>7 DEF StreamPart, EndpointsFresh
    <3>2. \A i \in 1..Len(queue) : \A j \in 1..Len(queue) :
            queue[i].kind = "endpoint" /\ queue[j].kind = "endpoint" /\ queue[j].id = queue[i].id => j = i
      BY DEF StreamPart, EndpointsFresh
    <3>3. ASSUME NEW i \in 1..Len(queue'), NEW j \in 1..Len(queue'),
                 queue'[i].kind = "endpoint", queue'[j].kind = "endpoint",
                 queue'[j].id = queue'[i].id
          PROVE  j = i
      <4>1. \/ i = Len(queue) + 1 /\ queue'[i].id = n
            \/ i \in 1..Len(queue) /\ queue'[i] = queue[i] /\ queue[i].id # n
        BY <2>7, <3>3
      <4>2. \/ j = Len(queue) + 1 /\ queue'[j].id = n
            \/ j \in 1..Len(queue) /\ queue'[j] = queue[j] /\ queue[j].id # n
        BY <2>7, <3>3
      <4> QED
        BY <3>2, <3>3, <4>1, <4>2
    <3>4. \A id \in Turns : id > turnId' => task[id] = "none"
      BY <1>1, <1>4
    <3> QED
      BY <3>1, <3>3, <3>4 DEF EndpointsFresh
  <2> QED
    BY <2>3, <2>4, <2>5, <2>6 DEF StreamPart
<1>7. CASE ~Final(c)
  <2>1. queue' = Append(queue, e) /\ pending' = n /\ session' = "listening"
    BY <1>7 DEF EmitEndpoint
  <2> HIDE DEF e, f, n
  <2>2. /\ Len(queue') = Len(queue) + 1 /\ Len(queue) \in Nat
        /\ \A i \in 1..Len(queue) : queue'[i] = queue[i]
        /\ queue'[Len(queue) + 1] = e
        /\ \A i \in 1..Len(queue) + 1 : Tip(i)' = Tip(i)
        /\ \A k \in Nat : k = Len(queue) + 2 => Tip(k)' = n
    BY <1>2, <1>3, <2>1, TipAppend
  <2>3. StreamTypeOK' /\ CountInv'
    <3>1. queue' \in Seq(Events) /\ pending' \in 0..turnId' /\ completed' \in 0..turnId'
      BY <1>1, <1>2, <1>3, <2>1, AppendEvent DEF StreamPart, StreamTypeOK
    <3>2. CountInv'
      BY <1>1, <1>5, <2>1 DEF CountInv, StreamPart, Turns
    <3> QED
      BY <1>1, <1>5, <2>1, <3>1, <3>2 DEF StreamTypeOK
  <2>4. Follows'
    BY <1>2, <2>2 DEF StreamPart, Follows
  <2>5. TipPending'
    BY <1>1, <2>1, <2>2 DEF TipPending
  <2>7. \A i \in 1..Len(queue') : queue'[i].kind = "endpoint" =>
          \/ i = Len(queue) + 1 /\ queue'[i].id = n
          \/ i \in 1..Len(queue) /\ queue'[i] = queue[i] /\ queue[i].id # n
    BY <1>2, <1>3, <2>2
  <2>6. EndpointsFresh'
    <3>1. \A i \in 1..Len(queue') : queue'[i].kind = "endpoint" => task[queue'[i].id] = "none"
      BY <1>3, <2>7 DEF StreamPart, EndpointsFresh
    <3>2. \A i \in 1..Len(queue) : \A j \in 1..Len(queue) :
            queue[i].kind = "endpoint" /\ queue[j].kind = "endpoint" /\ queue[j].id = queue[i].id => j = i
      BY DEF StreamPart, EndpointsFresh
    <3>3. ASSUME NEW i \in 1..Len(queue'), NEW j \in 1..Len(queue'),
                 queue'[i].kind = "endpoint", queue'[j].kind = "endpoint",
                 queue'[j].id = queue'[i].id
          PROVE  j = i
      <4>1. \/ i = Len(queue) + 1 /\ queue'[i].id = n
            \/ i \in 1..Len(queue) /\ queue'[i] = queue[i] /\ queue[i].id # n
        BY <2>7, <3>3
      <4>2. \/ j = Len(queue) + 1 /\ queue'[j].id = n
            \/ j \in 1..Len(queue) /\ queue'[j] = queue[j] /\ queue[j].id # n
        BY <2>7, <3>3
      <4> QED
        BY <3>2, <3>3, <4>1, <4>2
    <3>4. \A id \in Turns : id > turnId' => task[id] = "none"
      BY <1>1, <1>4
    <3> QED
      BY <3>1, <3>3, <3>4 DEF EndpointsFresh
  <2> QED
    BY <2>3, <2>4, <2>5, <2>6 DEF StreamPart
<1> QED
  BY <1>6, <1>7

(* An event of the provisional turn. *)
LEMMA DecisionStream ==
  ASSUME LoopInv, StreamPart, EmitResumed \/ EmitConfirmed,
         active' = active, task' = task, dropped' = dropped
  PROVE  StreamPart'
<1>1. PICK e \in Events : /\ queue' = Append(queue, e) /\ e.kind # "endpoint" /\ e.id = pending
  BY EventTyped, NoCaptureTyped
  DEF EmitResumed, EmitConfirmed, EventKinds, StreamPart, StreamTypeOK
<1>2. /\ pending # 0 /\ pending' = 0 /\ turnId' = turnId /\ completed' = completed
      /\ session = "frame" /\ session' \in {"listening", "finishing"}
      /\ turnId \in Nat /\ completed \in Nat /\ queue \in Seq(Events)
  BY DEF EmitResumed, EmitConfirmed, StreamPart, StreamTypeOK
<1>3. /\ stop' \in BOOLEAN /\ mode' \in Modes /\ turnMode' \in Modes
      /\ version' \in Nat /\ seen' \in 0..version' /\ capture' \in Captures
  BY NoCaptureTyped DEF EmitResumed, EmitConfirmed, StreamPart, StreamTypeOK, SameMode
<1>4. /\ Len(queue') = Len(queue) + 1 /\ Len(queue) \in Nat
      /\ \A i \in 1..Len(queue) : queue'[i] = queue[i]
      /\ queue'[Len(queue) + 1] = e
      /\ \A i \in 1..Len(queue) + 1 : Tip(i)' = Tip(i)
      /\ \A k \in Nat : k = Len(queue) + 2 => Tip(k)' = 0
  BY <1>1, <1>2, TipAppend
<1>5. StreamTypeOK' /\ CountInv'
  BY <1>1, <1>2, <1>3, AppendEvent, CaptureBounds DEF StreamTypeOK, CountInv, StreamPart, Over
<1>6. Follows'
  BY <1>1, <1>2, <1>4 DEF StreamPart, Follows, TipPending
<1>7. TipPending'
  BY <1>2, <1>4 DEF TipPending
<1>8. EndpointsFresh'
  BY <1>1, <1>2, <1>4 DEF StreamPart, EndpointsFresh
<1> QED
  BY <1>5, <1>6, <1>7, <1>8 DEF StreamPart

(* The steps that emit nothing. *)
LEMMA SilentStream ==
  ASSUME LoopInv, StreamPart,
         QuietFrame \/ Interrupted \/ Failed \/ TurnFinished \/ PollMode,
         active' = active, task' = task, dropped \subseteq dropped',
         (pending # 0 /\ pending' = 0) => pending \in dropped'
  PROVE  StreamPart'
<1>1. /\ queue' = queue /\ turnId' = turnId /\ pending' \in {pending, 0}
  BY DEF QuietFrame, Interrupted, Failed, TurnFinished, PollMode, SameTurn
<1>2. /\ turnId \in Nat /\ completed \in Nat /\ version \in Nat /\ seen \in 0..version
      /\ capture \in Captures /\ mode \in Modes /\ turnMode \in Modes /\ stop \in BOOLEAN
      /\ capture.mode \in Modes /\ pending \in 0..turnId
  BY DEF StreamPart, StreamTypeOK, Captures
<1>3. stop' \in BOOLEAN
  BY <1>2 DEF QuietFrame, Interrupted, Failed, TurnFinished, PollMode
<1>4. /\ session' \in {"listening", "frame"} \cup Over
      /\ completed' = completed + (IF session = "finishing" THEN 1 ELSE 0)
  BY <1>2 DEF QuietFrame, Interrupted, Failed, TurnFinished, PollMode, Over, SameTurn
<1>5. CountInv'
  BY <1>1, <1>2, <1>4 DEF CountInv, StreamPart, Over
<1>6. /\ mode' \in Modes /\ turnMode' \in Modes /\ version' \in Nat /\ seen' \in 0..version'
      /\ capture' \in Captures
  BY <1>2, NoCaptureTyped
  DEF QuietFrame, Interrupted, Failed, TurnFinished, PollMode, SameTurn, SameMode, Set, StartTurn
<1>7. StreamTypeOK'
  BY <1>1, <1>2, <1>3, <1>4, <1>5, <1>6 DEF StreamTypeOK, CountInv, StreamPart
<1>8. Follows' /\ EndpointsFresh'
  BY <1>1 DEF StreamPart, Follows, Tip, EndpointsFresh
<1>9. TipPending'
  BY <1>1, <1>2 DEF StreamPart, TipPending, Tip
<1> QED
  BY <1>5, <1>7, <1>8, <1>9 DEF StreamPart

LEMMA CaptureTurns == TurnsInv /\ Capture => TurnsInv'
<1> SUFFICES ASSUME TurnsInv, Capture PROVE TurnsInv'
  OBVIOUS
<1>1. LoopInv /\ StreamPart /\ TurnPart /\ LoopInv'
  BY TurnsParts, CapturePreserves
<1>2. /\ loop' = loop /\ active' = active /\ tasks' = tasks /\ task' = task /\ plan' = plan
      /\ cap' = cap /\ cancelled' = cancelled /\ committed' = committed
      /\ unwinding' = unwinding /\ acted' = acted
  BY DEF Capture
<1>3. /\ pending \in 0..turnId /\ turnId \in Nat /\ turnId <= TurnBound /\ queue \in Seq(Events)
      /\ task \in [Turns -> TaskStates]
  BY <1>1 DEF StreamPart, StreamTypeOK, CountInv, TurnPart, TurnTypes
<1>4. pending # 0 => pending \in Turns
  BY <1>3, CaptureBounds DEF Turns
<1>5. TurnPart'
  <2>1. dropped' \subseteq Turns /\ resumed' \subseteq Turns
    BY <1>1, <1>4 DEF Capture, EmitResumed, TurnPart, TurnTypes
  <2> QED
    BY <1>1, <1>2, <2>1
    DEF TurnPart, TurnTypes, Started, ActiveOpen, CommittedKept, CancelIsDelivered, OnlyActive, Live
<1>6. StreamPart'
  <2>1. CASE \E c \in Captures : EmitEndpoint(c)
    <3> PICK c \in Captures : EmitEndpoint(c)
      BY <2>1
    <3>1. /\ Event("endpoint", turnId + 1, c) \in Events
          /\ Event("confirmed", turnId + 1, c) \in Events
      BY <1>3, EventTyped DEF EventKinds
    <3>2. Len(queue') # Len(queue)
      BY <1>3, <3>1, AppendEvent, AppendTwo DEF EmitEndpoint
    <3>3. dropped' = dropped
      BY <3>2 DEF Capture
    <3> QED
      BY <1>1, <1>2, <1>3, <3>3, EndpointStream
  <2>2. CASE EmitResumed \/ EmitConfirmed
    <3>1. \E e \in Events : queue' = Append(queue, e)
      BY <1>1, <2>2, EventTyped, NoCaptureTyped
      DEF EmitResumed, EmitConfirmed, EventKinds, StreamPart, StreamTypeOK
    <3>2. Len(queue') # Len(queue)
      BY <1>3, <3>1, AppendEvent
    <3>3. dropped' = dropped
      BY <3>2 DEF Capture
    <3> QED
      BY <1>1, <1>2, <2>2, <3>3, DecisionStream
  <2>3. CASE QuietFrame \/ Interrupted \/ Failed \/ TurnFinished \/ PollMode
    <3>1. queue' = queue
      BY <2>3 DEF QuietFrame, Interrupted, Failed, TurnFinished, PollMode
    <3>2. dropped \subseteq dropped' /\ ((pending # 0 /\ pending' = 0) => pending \in dropped')
      BY <3>1 DEF Capture
    <3> QED
      BY <1>1, <1>2, <2>3, <3>2, SilentStream
  <2> QED
    BY <2>1, <2>2, <2>3 DEF Capture, CaptureStep
<1> QED
  BY <1>1, <1>5, <1>6, TurnsPartsNext

(* The loop takes an event: the turn before the next place is its new active *)
(* one.                                                                      *)
LEMMA TakenStream ==
  ASSUME LoopInv, StreamPart, NEW k \in EventKinds, NextEvent(k),
         active' = (IF k = "endpoint" THEN Head(queue).id ELSE 0),
         task \in [Turns -> TaskStates],
         task' = (IF k = "endpoint" THEN [task EXCEPT ![Head(queue).id] = "created"] ELSE task),
         mode' \in Modes, version' \in Nat, version <= version'
  PROVE  /\ StreamPart'
         /\ Head(queue).id \in Turns /\ Head(queue).capture \in Captures
         /\ k = "endpoint" => task[Head(queue).id] = "none"
         /\ k # "endpoint" => active = Head(queue).id
<1>1. /\ queue' = Tail(queue) /\ queue # <<>> /\ Head(queue).kind = k
      /\ turnId' = turnId /\ pending' = pending /\ completed' = completed /\ session' = session
      /\ capture' = capture /\ turnMode' = turnMode /\ seen' = seen /\ dropped' = dropped
      /\ stop' = stop
  BY DEF NextEvent, SameStream, SameTurn
<1>2. /\ queue \in Seq(Events) /\ turnId \in Nat /\ turnId <= TurnBound
      /\ \A i \in 1..Len(queue) : queue[i].id \in 1..turnId
  BY DEF StreamPart, StreamTypeOK, CountInv, LoopInv, IdsGiven
<1>3. /\ Tail(queue) \in Seq(Events) /\ Len(Tail(queue)) = Len(queue) - 1 /\ Len(queue) \in Nat \ {0}
      /\ \A i \in 1..Len(Tail(queue)) : Tail(queue)[i] = queue[i + 1] /\ i + 1 \in 1..Len(queue)
      /\ Head(queue) = queue[1] /\ 1 \in 1..Len(queue) /\ Head(queue) \in Events
  BY <1>1, <1>2, TailEvents
<1>4. Head(queue).id \in Turns /\ Head(queue).capture \in Captures
  BY <1>2, <1>3, CaptureBounds DEF Turns, Events
<1>5. \A i \in 1..Len(queue) : Tip(i)' = Tip(i + 1)
  <2>1. Tip(1)' = Tip(2)
    BY <1>1, <1>3 DEF Tip
  <2>2. ASSUME NEW i \in 1..Len(queue), i # 1 PROVE Tip(i)' = Tip(i + 1)
    <3>1. i - 1 \in 1..Len(Tail(queue)) /\ (i + 1) - 1 = i /\ (i - 1) + 1 = i /\ i + 1 # 1
      BY <1>3, <2>2
    <3>2. queue'[i - 1] = queue[i]
      BY <1>1, <1>3, <3>1
    <3> QED
      BY <2>2, <3>1, <3>2 DEF Tip
  <2> QED
    BY <2>1, <2>2
<1>6. k = "endpoint" => task[Head(queue).id] = "none"
  BY <1>1, <1>3 DEF StreamPart, EndpointsFresh
<1>7. k # "endpoint" => active = Head(queue).id
  BY <1>1, <1>3 DEF StreamPart, Follows, Tip
<1>8. StreamTypeOK' /\ CountInv'
  <2>1. stop' \in BOOLEAN
    BY <1>1 DEF StreamPart, StreamTypeOK
  <2> QED
    BY <1>1, <1>3, <2>1 DEF StreamPart, StreamTypeOK, CountInv
<1>9. Follows'
  BY <1>1, <1>3, <1>5 DEF StreamPart, Follows
<1>10. TipPending'
  <2>1. Len(queue') + 1 = Len(queue) /\ Len(queue) \in 1..Len(queue)
    BY <1>1, <1>3
  <2> QED
    BY <1>1, <1>5, <2>1 DEF StreamPart, TipPending
<1>11. EndpointsFresh'
  <2>1. \A i \in 1..Len(queue') : queue'[i].kind = "endpoint" /\ k = "endpoint" =>
          queue'[i].id # Head(queue).id
    BY <1>1, <1>3 DEF StreamPart, EndpointsFresh
  <2>2. \A i \in 1..Len(queue') : queue'[i].id \in Turns
    BY <1>1, <1>2, <1>3, CaptureBounds DEF Turns
  <2>3. \A id \in Turns : (k = "endpoint" => id # Head(queue).id) => task'[id] = task[id]
    OBVIOUS
  <2>4. \A i \in 1..Len(queue') : queue'[i].kind = "endpoint" => task'[queue'[i].id] = "none"
    BY <1>1, <1>3, <2>1, <2>2, <2>3 DEF StreamPart, EndpointsFresh
  <2>5. \A i, j \in 1..Len(queue') :
          queue'[i].kind = "endpoint" /\ queue'[j].kind = "endpoint" /\ queue'[j].id = queue'[i].id
            => j = i
    BY <1>1, <1>3 DEF StreamPart, EndpointsFresh
  <2>6. \A id \in Turns : id > turnId => task'[id] = "none"
    BY <1>2, <1>3, <2>3 DEF StreamPart, EndpointsFresh
  <2> QED
    BY <1>1, <2>4, <2>5, <2>6 DEF EndpointsFresh
<1> QED
  BY <1>4, <1>6, <1>7, <1>8, <1>9, <1>10, <1>11 DEF StreamPart

LEMMA EventTurns == TurnsInv /\ (OnEndpoint \/ OnResumed \/ OnConfirmed) => TurnsInv'
<1> SUFFICES ASSUME TurnsInv, OnEndpoint \/ OnResumed \/ OnConfirmed PROVE TurnsInv'
  OBVIOUS
<1>1. LoopInv /\ StreamPart /\ TurnPart
  BY TurnsParts
<1>2. LoopInv'
  BY <1>1, LoopPreserves DEF LoopStep
<1>3. /\ task \in [Turns -> TaskStates] /\ active \in 0..TurnBound /\ mode \in Modes /\ version \in Nat
      /\ plan \in [Turns -> Plans] /\ cap \in [Turns -> Captures]
  BY <1>1 DEF StreamPart, StreamTypeOK, TurnPart, TurnTypes
<1>b. 0 \notin Turns
  BY CaptureBounds DEF Turns
<1>c. Unfinished \subseteq Turns
  BY <1>1 DEF Unfinished, TurnPart, TurnTypes
<1>a. Turns \subseteq 0..TurnBound /\ 0 \in 0..TurnBound
  BY CaptureBounds DEF Turns
<1> DEFINE h == Head(queue).id
<1>4. CASE OnEndpoint
  <2>1. /\ StreamPart' /\ h \in Turns /\ Head(queue).capture \in Captures /\ task[h] = "none"
        /\ loop = "loop" /\ loop' = loop /\ active' = h /\ plan' = plan
    BY <1>1, <1>3, <1>b, <1>4, TakenStream DEF OnEndpoint, NextEvent, SameMode, EventKinds
  <2>2. /\ task' = [task EXCEPT ![h] = "created"] /\ cap' = [cap EXCEPT ![h] = Head(queue).capture]
        /\ committed' = committed /\ tasks' = Unfinished \cup {h}
        /\ cancelled' = cancelled \cup {id \in Turns : id = active}
        /\ unwinding' = unwinding \cup {id \in Turns : id = active /\ Live(id)}
        /\ dropped' = dropped /\ resumed' = resumed /\ acted' = acted
    BY <1>4 DEF OnEndpoint, CancelActive, NextEvent
  <2> HIDE DEF h
  <2>3. h \notin committed \cup cancelled \cup unwinding /\ h # active
    BY <1>1, <2>1 DEF TurnPart, Started
  <2>4. /\ \A id \in Turns : id # h => task'[id] = task[id]
        /\ task'[h] = "created" /\ task' \in [Turns -> TaskStates]
    BY <1>3, <2>1, <2>2 DEF TaskStates
  <2>5. TurnTypes'
    <3>1. cap' \in [Turns -> Captures] /\ active' \in 0..TurnBound /\ tasks' \subseteq Turns
      BY <1>a, <1>c, <1>3, <1>b, <2>1, <2>2
    <3>2. cancelled' \subseteq Turns /\ unwinding' \subseteq Turns
      BY <1>1, <2>2 DEF TurnPart, TurnTypes
    <3> QED
      BY <1>1, <2>1, <2>2, <2>4, <3>1, <3>2 DEF TurnPart, TurnTypes
  <2>6. Started'
    BY <1>1, <1>3, <1>b, <2>1, <2>2, <2>4 DEF TurnPart, Started
  <2>7. ActiveOpen'
    BY <2>1, <2>2, <2>3, <2>4 DEF ActiveOpen
  <2>8. CommittedKept'
    <3>1. \A id \in committed : id \in Turns /\ id # h /\ id # active /\ task'[id] = task[id]
      BY <1>1, <1>3, <1>b, <2>1, <2>3, <2>4 DEF TurnPart, TurnTypes, ActiveOpen
    <3> QED
      BY <1>1, <2>1, <2>2, <3>1 DEF TurnPart, CommittedKept
  <2>9. CancelIsDelivered'
    BY <1>1, <1>3, <1>b, <2>2, <2>3, <2>4 DEF TurnPart, TurnTypes, CancelIsDelivered, Live
  <2>10. OnlyActive'
    BY <1>1, <1>3, <1>b, <2>1, <2>2, <2>3, <2>4 DEF TurnPart, OnlyActive, Live
  <2> QED
    BY <1>2, <2>1, <2>5, <2>6, <2>7, <2>8, <2>9, <2>10, TurnsPartsNext DEF TurnPart
<1>5. CASE OnResumed
  <2>1. h = active
    BY <1>1, <1>5, TailEvents
    DEF OnResumed, NextEvent, StreamPart, StreamTypeOK, Follows, Tip
  <2>2. /\ StreamPart' /\ loop = "loop" /\ loop' = loop /\ active' = 0 /\ plan' = plan
    BY <1>1, <1>3, <1>b, <1>5, <2>1, TakenStream DEF OnResumed, NextEvent, SameMode, EventKinds
  <2>3. /\ task' = task /\ cap' = cap /\ committed' = committed /\ tasks' = Unfinished
        /\ cancelled' = cancelled \cup {id \in Turns : id = active}
        /\ unwinding' = unwinding \cup {id \in Turns : id = active /\ Live(id)}
        /\ dropped' = dropped /\ resumed' = resumed /\ acted' = acted
    BY <1>5, <2>1 DEF OnResumed, CancelActive, NextEvent
  <2>4. TurnTypes'
    <3>1. /\ tasks' \subseteq Turns /\ cancelled' \subseteq Turns /\ unwinding' \subseteq Turns
          /\ committed' \subseteq Turns /\ active' \in 0..TurnBound
      BY <1>a, <1>c, <1>1, <2>2, <2>3 DEF TurnPart, TurnTypes
    <3> QED
      BY <1>1, <2>2, <2>3, <3>1 DEF TurnPart, TurnTypes
  <2>5. Started' /\ ActiveOpen' /\ CancelIsDelivered' /\ OnlyActive'
    BY <1>1, <1>3, <1>b, <2>2, <2>3
    DEF TurnPart, TurnTypes, Started, ActiveOpen, CancelIsDelivered, OnlyActive, Live
  <2>6. CommittedKept'
    BY <1>1, <1>3, <1>b, <2>2, <2>3 DEF TurnPart, TurnTypes, CommittedKept, ActiveOpen
  <2> QED
    BY <1>2, <2>2, <2>4, <2>5, <2>6, TurnsPartsNext DEF TurnPart
<1>6. CASE OnConfirmed
  <2>1. mode' \in Modes /\ version' \in Nat /\ version <= version'
    BY <1>1, <1>2, <1>3, <1>6 DEF OnConfirmed, Set, LoopInv, CaptureTyped
  <2>2. /\ StreamPart' /\ h = active /\ h \in Turns
        /\ loop = "loop" /\ loop' = loop /\ active' = 0 /\ plan' = plan
    BY <1>1, <1>3, <1>b, <1>6, <2>1, TakenStream DEF OnConfirmed, NextEvent, EventKinds
  <2>3. /\ task' = task /\ cap' = cap /\ committed' = committed \cup {h} /\ tasks' = Unfinished
        /\ cancelled' = cancelled /\ unwinding' = unwinding
        /\ dropped' = dropped /\ resumed' = resumed /\ acted' = acted
    BY <1>6, <2>2 DEF OnConfirmed, NextEvent
  <2> HIDE DEF h
  <2>4. TurnTypes'
    <3>1. /\ tasks' \subseteq Turns /\ cancelled' \subseteq Turns /\ unwinding' \subseteq Turns
          /\ committed' \subseteq Turns /\ active' \in 0..TurnBound
      BY <1>a, <1>c, <1>1, <2>2, <2>3 DEF TurnPart, TurnTypes
    <3> QED
      BY <1>1, <2>2, <2>3, <3>1 DEF TurnPart, TurnTypes
  <2>5. Started' /\ ActiveOpen' /\ CancelIsDelivered' /\ OnlyActive'
    BY <1>1, <1>3, <1>b, <2>2, <2>3
    DEF TurnPart, TurnTypes, Started, ActiveOpen, CancelIsDelivered, OnlyActive, Live
  <2>6. CommittedKept'
    BY <1>1, <1>3, <1>b, <2>2, <2>3 DEF TurnPart, TurnTypes, CommittedKept, ActiveOpen
  <2> QED
    BY <1>2, <2>2, <2>4, <2>5, <2>6, TurnsPartsNext DEF TurnPart
<1> QED
  BY <1>4, <1>5, <1>6

(* The end of the loop. *)
LEMMA EndTurns ==
  ASSUME TurnsInv,
         \/ Abort \/ SessionFailed \/ SessionReturned \/ CancelBackground \/ Drained \/ Gather
  PROVE  TurnsInv'
<1>1. LoopInv /\ StreamPart /\ TurnPart
  BY TurnsParts
<1>2. LoopInv'
  BY <1>1, LoopPreserves DEF LoopStep
<1>3. /\ active' = active /\ task' = task /\ plan' = plan /\ cap' = cap /\ committed' = committed
      /\ dropped' = dropped /\ resumed' = resumed /\ acted' = acted
      /\ tasks' \subseteq tasks
  BY DEF Abort, SessionFailed, SessionReturned, CancelBackground, Drained, Gather, Unfinished
<1>4. StreamPart'
  <2>1. /\ queue' = queue /\ turnId' = turnId /\ pending' = pending /\ completed' = completed
        /\ session' = session /\ capture' = capture /\ turnMode' = turnMode /\ seen' = seen
        /\ mode' = mode /\ version' = version
    BY DEF Abort, SessionFailed, SessionReturned, CancelBackground, Drained, Gather, streamVars,
           SameMode, SameTurn
  <2>2. stop' \in BOOLEAN
    BY <1>1 DEF Abort, SessionFailed, SessionReturned, CancelBackground, Drained, Gather, streamVars,
           StreamPart, StreamTypeOK
  <2>3. StreamTypeOK' /\ CountInv'
    BY <1>1, <2>1, <2>2 DEF StreamPart, StreamTypeOK, CountInv
  <2> QED
    BY <1>1, <1>3, <2>1, <2>3, QueueUntouched DEF StreamPart
<1>5. CASE Abort \/ SessionFailed
  <2>1. /\ loop = "loop" /\ loop' = "aborting" /\ tasks' = tasks
        /\ cancelled' = cancelled \cup {id \in Turns : id = active}
        /\ unwinding' = unwinding \cup {id \in Turns : id = active /\ Live(id)}
    BY <1>5 DEF Abort, SessionFailed, CancelActive
  <2>2. active \in 0..TurnBound /\ 0 \notin Turns
    BY <1>1 DEF TurnPart, TurnTypes, Turns
  <2>3. TurnTypes'
    BY <1>1, <1>3, <2>1 DEF TurnPart, TurnTypes
  <2>4. Started' /\ ActiveOpen' /\ CancelIsDelivered' /\ OnlyActive'
    BY <1>1, <1>3, <2>1, <2>2
    DEF TurnPart, TurnTypes, Started, ActiveOpen, CancelIsDelivered, OnlyActive, Live
  <2>5. CommittedKept'
    BY <1>1, <1>3, <2>1, <2>2 DEF TurnPart, TurnTypes, CommittedKept, ActiveOpen
  <2> QED
    BY <2>3, <2>4, <2>5, <1>2, <1>4, TurnsPartsNext DEF TurnPart
<1>6. CASE SessionReturned \/ CancelBackground \/ Drained \/ Gather
  <2>1. /\ cancelled' = cancelled /\ unwinding \subseteq unwinding'
        /\ unwinding' \subseteq unwinding \cup Unfinished
        /\ loop' \in {"gather", "draining", "raised", "returned"}
        /\ loop \in {"draining", "raised"} => loop' = "raised"
        /\ unwinding' = unwinding \/ loop' \in {"draining", "raised"}
    BY <1>6 DEF SessionReturned, CancelBackground, Drained, Gather
  <2>2. Unfinished \subseteq Turns /\ \A id \in Unfinished : task[id] # "none"
    BY <1>1 DEF Unfinished, TurnPart, TurnTypes, Live
  <2>3. TurnTypes'
    BY <1>1, <1>3, <2>1, <2>2 DEF TurnPart, TurnTypes
  <2>4. Started' /\ ActiveOpen' /\ CancelIsDelivered' /\ OnlyActive'
    BY <1>1, <1>3, <2>1, <2>2
    DEF TurnPart, TurnTypes, Started, ActiveOpen, CancelIsDelivered, OnlyActive, Live
  <2>5. CommittedKept'
    BY <1>1, <1>3, <2>1 DEF TurnPart, TurnTypes, CommittedKept
  <2> QED
    BY <2>3, <2>4, <2>5, <1>2, <1>4, TurnsPartsNext DEF TurnPart
<1> QED
  BY <1>5, <1>6

(* A step of a task moves one live turn that nothing is unwinding. *)
LEMMA MovedTurns ==
  ASSUME TurnsInv, NEW id \in Turns, LoopInv',
         NEW from \in TaskStates \ (Ended \cup {"none"}), NEW to \in TaskStates \ {"none", "cancelled"},
         Step(id, from, to), mode' \in Modes, version' \in Nat, version <= version',
         plan' \in [Turns -> Plans], acted' \subseteq Turns
  PROVE  TurnsInv'
<1>1. StreamPart /\ TurnPart
  BY TurnsParts
<1>2. /\ task[id] = from /\ id \notin unwinding /\ task' = [task EXCEPT ![id] = to]
      /\ queue' = queue /\ loop' = loop /\ active' = active /\ tasks' = tasks /\ cap' = cap
      /\ cancelled' = cancelled /\ committed' = committed /\ unwinding' = unwinding
      /\ dropped' = dropped /\ resumed' = resumed
      /\ turnId' = turnId /\ pending' = pending /\ capture' = capture /\ completed' = completed
      /\ seen' = seen /\ turnMode' = turnMode /\ session' = session /\ stop' = stop
  BY DEF Step, SameStream, SameTurn
<1>3. task \in [Turns -> TaskStates]
  BY <1>1 DEF TurnPart, TurnTypes
<1>4. /\ \A t \in Turns : t # id => task'[t] = task[t]
      /\ task'[id] = to /\ task' \in [Turns -> TaskStates]
  BY <1>2, <1>3
<1>5. Live(id) /\ task[id] # "none" /\ task[id] # "cancelled"
  BY <1>2 DEF Live, Ended
<1>6. StreamPart'
  <2>1. stop' \in BOOLEAN
    BY <1>1, <1>2 DEF StreamPart, StreamTypeOK
  <2>2. StreamTypeOK' /\ CountInv'
    BY <1>1, <1>2, <2>1 DEF StreamPart, StreamTypeOK, CountInv
  <2>3. Follows' /\ TipPending'
    BY <1>1, <1>2 DEF StreamPart, Follows, TipPending, Tip
  <2>4. \A i \in 1..Len(queue) : queue[i].id \in Turns
    BY <1>1, TurnsParts, CaptureBounds DEF LoopInv, IdsGiven, StreamPart, CountInv, Turns
  <2>5. EndpointsFresh'
    BY <1>1, <1>2, <1>4, <1>5, <2>4 DEF StreamPart, EndpointsFresh
  <2> QED
    BY <2>2, <2>3, <2>5 DEF StreamPart
<1>7. TurnPart'
  <2>1. TurnTypes'
    BY <1>1, <1>2, <1>4 DEF TurnPart, TurnTypes
  <2>2. Started' /\ ActiveOpen'
    BY <1>1, <1>2, <1>4, <1>5 DEF TurnPart, TurnTypes, Started, ActiveOpen, Turns
  <2>3. CommittedKept'
    BY <1>1, <1>2, <1>4 DEF TurnPart, TurnTypes, CommittedKept
  <2>4. CancelIsDelivered' /\ OnlyActive'
    BY <1>1, <1>2, <1>4, <1>5 DEF TurnPart, TurnTypes, CancelIsDelivered, OnlyActive, Live
  <2> QED
    BY <2>1, <2>2, <2>3, <2>4 DEF TurnPart
<1> QED
  BY <1>6, <1>7, TurnsPartsNext

LEMMA UnwindTurns ==
  ASSUME TurnsInv, NEW id \in Turns, LoopInv', Unwind(id)
  PROVE  TurnsInv'
<1>1. LoopInv /\ StreamPart /\ TurnPart
  BY TurnsParts
<1>2. /\ id \in unwinding /\ unwinding' = unwinding \ {id}
      /\ loop' = loop /\ active' = active /\ tasks' = tasks /\ cap' = cap /\ plan' = plan
      /\ cancelled' = cancelled /\ committed' = committed /\ acted' = acted
      /\ dropped' = dropped /\ resumed' = resumed
      /\ UNCHANGED streamVars
  BY DEF Unwind
<1>3. /\ task \in [Turns -> TaskStates] /\ task' \in [Turns -> TaskStates]
      /\ \A t \in Turns : t # id => task'[t] = task[t]
      /\ task'[id] = (IF Live(id) THEN "cancelled" ELSE task[id])
  BY <1>1 DEF Unwind, TurnPart, TurnTypes, TaskStates, Ended
<1>4. ~Live(id)' /\ task[id] # "none" /\ task'[id] # "none"
  BY <1>1, <1>2, <1>3 DEF Live, Ended, TurnPart, Started
<1>5. StreamPart'
  <2>1. StreamTypeOK' /\ CountInv' /\ Follows' /\ TipPending'
    BY <1>1, <1>2 DEF StreamPart, StreamTypeOK, CountInv, Follows, TipPending, Tip, streamVars
  <2>2. \A i \in 1..Len(queue) : queue[i].id \in Turns
    BY <1>1, CaptureBounds DEF LoopInv, IdsGiven, StreamPart, CountInv, Turns
  <2>3. EndpointsFresh'
    BY <1>1, <1>2, <1>3, <1>4, <2>2 DEF StreamPart, EndpointsFresh, streamVars
  <2> QED
    BY <2>1, <2>3 DEF StreamPart
<1>6. TurnPart'
  <2>1. TurnTypes'
    BY <1>1, <1>2, <1>3 DEF TurnPart, TurnTypes
  <2>2. Started' /\ ActiveOpen'
    BY <1>1, <1>2, <1>3, <1>4 DEF TurnPart, TurnTypes, Started, ActiveOpen, Turns
  <2>3. CommittedKept'
    BY <1>1, <1>2, <1>3 DEF TurnPart, TurnTypes, CommittedKept
  <2>4. CancelIsDelivered' /\ OnlyActive'
    BY <1>1, <1>2, <1>3, <1>4 DEF TurnPart, TurnTypes, CancelIsDelivered, OnlyActive, Live
  <2> QED
    BY <2>1, <2>2, <2>3, <2>4 DEF TurnPart
<1> QED
  BY <1>5, <1>6, TurnsPartsNext

LEMMA TaskTurns ==
  ASSUME TurnsInv, NEW id \in Turns, TaskStep(id) \/ AgentTurnsOff(id)
  PROVE  TurnsInv'
<1>1. LoopInv /\ StreamPart /\ TurnPart
  BY TurnsParts
<1>2. LoopInv'
  BY <1>1, TaskPreserves
<1>3. /\ mode \in Modes /\ version \in Nat /\ plan \in [Turns -> Plans] /\ acted \subseteq Turns
      /\ {"wake", "continuous"} \subseteq Modes
  BY <1>1 DEF StreamPart, StreamTypeOK, TurnPart, TurnTypes, Modes
<1>4. \A p \in Plans : [plan EXCEPT ![id] = p] \in [Turns -> Plans]
  BY <1>3
<1>5. /\ {"created", "grace", "transcribing", "waiting", "agent"} \subseteq TaskStates \ (Ended \cup {"none"})
      /\ {"grace", "transcribing", "waiting", "agent", "done", "error"}
           \subseteq TaskStates \ {"none", "cancelled"}
  BY DEF TaskStates, Ended
<1>6. CASE SwitchOn(id) \/ AgentTurnsOff(id)
  <2>1. mode' \in Modes /\ version' \in Nat /\ version <= version' /\ acted' \subseteq Turns /\ plan' = plan
    BY <1>3, <1>6 DEF SwitchOn, AgentTurnsOff, Set
  <2> QED
    BY <1>2, <1>3, <1>5, <1>6, <2>1, MovedTurns DEF SwitchOn, AgentTurnsOff
<1>7. CASE NoiseGate(id) \/ Transcribed(id) \/ StartAgent(id)
  <2>1. mode' = mode /\ version' = version /\ acted' \subseteq Turns
    BY <1>3, <1>7 DEF NoiseGate, Transcribed, StartAgent, SameMode
  <2>2. plan' \in [Turns -> Plans]
    BY <1>3, <1>4, <1>7 DEF NoiseGate, Transcribed, StartAgent, Plans
  <2> QED
    BY <1>2, <1>3, <1>5, <1>7, <2>1, <2>2, MovedTurns DEF NoiseGate, Transcribed, StartAgent
<1>8. CASE BeginTurn(id) \/ GraceOver(id) \/ TurnError(id) \/ IgnoreTurn(id) \/ AgentDone(id)
  <2>1. mode' = mode /\ version' = version /\ acted' = acted /\ plan' = plan
    BY <1>8 DEF BeginTurn, GraceOver, TurnError, IgnoreTurn, AgentDone, Quietly, SameMode
  <2> QED
    BY <1>2, <1>3, <1>5, <1>8, <2>1, MovedTurns
    DEF BeginTurn, GraceOver, TurnError, IgnoreTurn, AgentDone
<1>9. CASE Unwind(id)
  BY <1>2, <1>9, UnwindTurns
<1> QED
  BY <1>6, <1>7, <1>8, <1>9 DEF TaskStep

LEMMA StepTurns == TurnsInv /\ [Next]_vars => TurnsInv'
<1> SUFFICES ASSUME TurnsInv, [Next]_vars PROVE TurnsInv'
  OBVIOUS
<1>1. CASE UNCHANGED vars
  <2>1. LoopInv'
    BY <1>1, StepPreserves, TurnsParts
  <2>2. StreamPart'
    BY <1>1, TurnsParts
    DEF StreamPart, StreamTypeOK, CountInv, Follows, TipPending, Tip, EndpointsFresh, vars,
        streamVars, loopVars
  <2>3. TurnPart'
    BY <1>1, TurnsParts
    DEF TurnPart, TurnTypes, Started, ActiveOpen, CommittedKept, CancelIsDelivered, OnlyActive, Live,
        vars, streamVars, loopVars
  <2> QED
    BY <2>1, <2>2, <2>3, TurnsPartsNext
<1>2. CASE Next
  BY <1>2, CaptureTurns, EventTurns, EndTurns, TaskTurns DEF Next, LoopStep
<1> QED
  BY <1>1, <1>2

(* Of the turns of a capture session at most the active one is speculative,  *)
(* with no event in flight it is the session's provisional turn, no event    *)
(* cancels a committed turn, and a cancelled control always finds its task   *)
(* being unwound: run_voice_turn_loop and its turn tasks, for every number   *)
(* of turns, every limit and any length of the queue.                        *)
THEOREM SpeculationIsSound == Spec => []SpeculationSound
<1>1. TurnsInv => SpeculationSound
  <2> SUFFICES ASSUME TurnsInv PROVE SpeculationSound
    OBVIOUS
  <2> DEFINE spec == {id \in Turns : Live(id) /\ id \notin committed \cup unwinding
                                     /\ id \notin cancelled}
  <2>1. spec \in SUBSET {active}
    BY DEF TurnsInv, OnlyActive
  <2>2. Cardinality(spec) <= Cardinality({active})
    BY <2>1, FS_Singleton, FS_Subset
  <2>3. OneSpeculative
    BY <2>2, FS_Singleton DEF OneSpeculative
  <2>4. ActiveIsPending
    <3>1. queue = <<>> => Tip(Len(queue) + 1) = active
      BY DEF Tip
    <3> QED
      BY <3>1 DEF TurnsInv, TipPending, ActiveIsPending
  <2>5. CommittedSafe
    BY DEF TurnsInv, CommittedKept, CommittedSafe
  <2> QED
    BY <2>3, <2>4, <2>5 DEF SpeculationSound, TurnsInv
<1> QED
  BY InitTurnsInv, StepTurns, <1>1, PTL DEF Spec

-----------------------------------------------------------------------------
(***************************************************************************)
(* The capture session with its audio implements the event stream that     *)
(* VoiceLoop composes with the loop: whatever the detectors, the segmenter *)
(* and the keyphrase gate decide, what the consumer sees is a behaviour of *)
(* CaptureStream, so what is shown of the loop there holds for it here.    *)
(*                                                                         *)
(* The second theorem, CaptureIsSound, is about the session's own parts:   *)
(* detector, segmenter, gate and provisional turn agree with each other    *)
(* (SessionInv).  What the replay of buffered audio does is a recursive    *)
(* function of the number of chunks; facts about it are shown by the       *)
(* least number for which they could fail.                                 *)
(***************************************************************************)
(* A capture the session emits is one the stream may emit only because the *)
(* modes and the kind of phrase it carries are legal.                      *)
CaptureInv ==
  /\ mode \in Modes /\ turnMode \in Modes
  /\ detection \in Kinds /\ capture \in Captures

LEMMA NoCaptureLegal == NoCapture \in Captures
BY DEF NoCapture, Captures, Modes, Kinds

(* What the frame loop does with an event is a step of the stream.         *)
LEMMA EmitIsCaptureStep ==
  ASSUME CaptureInv, NEW event, detection' \in Kinds, Emit(event)
  PROVE  CaptureStep /\ CaptureInv'
<1>1. CASE QuietFrame
  BY <1>1 DEF QuietFrame, SameMode, SameTurn, CaptureStep, CaptureInv
<1>2. CASE EmitResumed
  BY <1>2, NoCaptureLegal DEF EmitResumed, SameMode, CaptureStep, CaptureInv
<1>3. CASE EmitConfirmed
  BY <1>3 DEF EmitConfirmed, SameMode, CaptureStep, CaptureInv
<1>4. ASSUME NEW c, c = [mode |-> turnMode, kind |-> detection', forced |-> event = "forced"],
             EmitEndpoint(c)
      PROVE  CaptureStep /\ CaptureInv'
  <2>1. c \in Captures
    BY <1>4 DEF Captures, CaptureInv
  <2>2. mode' = mode /\ turnMode' = turnMode /\ capture' = c
    BY <1>4 DEF EmitEndpoint, SameMode
  <2> QED
    BY <1>4, <2>1, <2>2 DEF CaptureStep, CaptureInv
<1> QED
  BY <1>1, <1>2, <1>3, <1>4 DEF Emit

(* Every step of the capture session is a step of the stream.              *)
LEMMA CaptureStepRefines ==
  ASSUME CaptureInv, [CaptureNext]_captureVars
  PROVE  [StreamNext]_streamVars /\ CaptureInv'
<1>1. CASE UNCHANGED captureVars
  BY <1>1 DEF captureVars, streamVars, audioVars, CaptureInv
<1>2. CASE Poll
  <2>1. PollMode /\ detection' \in Kinds
    BY <1>2 DEF Poll, FreshTurn, CaptureInv, Kinds
  <2>2. mode' \in Modes /\ turnMode' \in Modes /\ capture' \in Captures
    BY <2>1, NoCaptureLegal DEF PollMode, CaptureInv
  <2> QED
    BY <2>1, <2>2 DEF CaptureInv, CaptureStep, StreamNext
<1>3. CASE KeyphraseFrame
  BY <1>3 DEF KeyphraseFrame, QuietFrame, SameMode, SameTurn, CaptureStep, StreamNext, CaptureInv
<1>4. CASE FinishTurn
  <2>1. TurnFinished /\ detection' \in Kinds
    BY <1>4 DEF FinishTurn, FreshTurn, CaptureInv, Kinds
  <2>2. mode' \in Modes
    BY <2>1 DEF TurnFinished, Set, CaptureInv, Captures
  <2>3. turnMode' \in Modes /\ capture' \in Captures
    BY <2>1, <2>2, NoCaptureLegal DEF TurnFinished, StartTurn, CaptureInv
  <2> QED
    BY <2>1, <2>2, <2>3 DEF CaptureInv, CaptureStep, StreamNext
<1>5. CASE ListenTimeout \/ CaptureEnds
  BY <1>5 DEF ListenTimeout, CaptureEnds, Failed, Interrupted, SameMode, SameTurn,
              CaptureStep, StreamNext, CaptureInv
<1>6. CASE Consumer
  <2>1. ConsumerStep /\ detection' = detection
    BY <1>6 DEF Consumer, audioVars
  <2>2. mode' \in Modes /\ turnMode' = turnMode /\ capture' = capture
    BY <2>1 DEF ConsumerStep, TakeEvent, RequestStop, SetMode, Set, SameMode, SameTurn, CaptureInv
  <2> QED
    BY <2>1, <2>2 DEF CaptureInv, StreamNext
<1>7. ASSUME NEW level, SpeechFrame(level) PROVE CaptureStep /\ CaptureInv'
  BY <1>7, EmitIsCaptureStep DEF SpeechFrame, CaptureInv
<1>8. ASSUME NEW levels, WakeDetected(levels) PROVE CaptureStep /\ CaptureInv'
  BY <1>8, EmitIsCaptureStep DEF WakeDetected, Kinds
<1>9. ASSUME NEW heard, ConversationOnDetected(heard) PROVE CaptureStep /\ CaptureInv'
  BY <1>9, EmitIsCaptureStep DEF ConversationOnDetected, Kinds
<1> QED
  BY <1>1, <1>2, <1>3, <1>4, <1>5, <1>6, <1>7, <1>8, <1>9 DEF CaptureNext, StreamNext

(* The capture session of speculative_capture_session.py, with its detector, *)
(* segmenter, gate and spotters, implements the stream of endpoint, resumed  *)
(* and confirmed events the voice loop is written against.                   *)
THEOREM CaptureImplementsStream == CaptureSpec => StreamSpec
<1>1. CaptureInit => StreamInit /\ CaptureInv
  BY NoCaptureLegal DEF CaptureInit, StreamInit, CaptureInv, Kinds
<1>2. CaptureInv /\ [CaptureNext]_captureVars => [StreamNext]_streamVars /\ CaptureInv'
  BY CaptureStepRefines
<1> QED
  BY <1>1, <1>2, PTL DEF CaptureSpec, StreamSpec

-----------------------------------------------------------------------------
(* The detector, the segmenter and the session agree.  What the audio says   *)
(* of the segmenter's state is stated of a listener, so that it holds of the *)
(* chunks of a frame and of each chunk of a replay.                          *)

Vads == [in : BOOLEAN, count : Nat]

Segs == [recording : BOOLEAN, kept : Nat, silent : -1..FinalSilence]

(* A provisional endpoint is one of a recording that is long enough, and the *)
(* detector hears speech in every other recording.                           *)
Agree(v, s) ==
  /\ v \in Vads /\ s \in Segs
  /\ s.silent # -1 => s.recording /\ v.in = FALSE /\ s.kept >= MinUtterance /\ FinalSilence # 0
  /\ s.recording /\ s.silent = -1 => v.in

Hearing == session \in {"listening", "frame"}

Provisional ==
  /\ (pending # 0) <=> (seg.silent # -1)
  /\ pending # 0 => capture.forced = FALSE /\ FinalSilence # 0 /\ capture.mode = turnMode

(* Behind the gate nothing is recorded. *)
GateQuiet == Waiting => seg = NewSeg /\ pending = 0

(* A turn of wake mode that may finish has its keyphrase. *)
Credited ==
  /\ credit \in Int /\ credit >= 0
  /\ session \notin Over /\ turnMode = "wake" /\ detection # "none" => credit >= 1
  /\ session = "finishing" => capture.mode = turnMode /\ ~Waiting

(* The loud chunks that lead to a start are in the pre-roll. *)
LoudKept == ~seg.recording /\ ~vad.in => run <= seg.kept

(* Each finished turn had an endpoint. *)
TurnsCounted ==
  /\ session = "finishing" => pending = 0
  /\ completed + (IF session = "finishing" \/ pending # 0 THEN 1 ELSE 0) <= turnId

SessionInv ==
  /\ CaptureTypeOK /\ TurnsCounted /\ Credited /\ SpottersClosed
  /\ Hearing => Agree(vad, seg) /\ Provisional /\ GateQuiet /\ LoudKept
  /\ run <= PreRoll /\ clipped = FALSE

LEMMA DetectFacts ==
  ASSUME NEW v \in Vads, NEW level
  PROVE  LET d == Detect(v, level)
         IN  /\ d.vad \in Vads
             /\ \/ d.decision = "speech" /\ v.in /\ d.vad.in
                \/ d.decision = "silence" /\ ~v.in /\ ~d.vad.in
                \/ d.decision = "started" /\ ~v.in /\ d.vad.in
                \/ d.decision = "ended" /\ v.in /\ ~d.vad.in /\ level = "quiet"
<1>1. CASE v.in
  <2> DEFINE count == IF level = "quiet" THEN v.count + 1 ELSE 0
  <2>1. count \in Nat
    BY DEF Vads
  <2>2. CASE count < EndChunks
    <3>1. Detect(v, level) = [vad |-> [v EXCEPT !.count = count], decision |-> "speech"]
      BY <1>1, <2>2 DEF Detect
    <3> HIDE DEF count
    <3> QED
      BY <1>1, <2>1, <3>1 DEF Vads
  <2>3. CASE ~(count < EndChunks)
    <3>1. Detect(v, level) = [vad |-> [in |-> FALSE, count |-> 0], decision |-> "ended"]
      BY <1>1, <2>3 DEF Detect
    <3>2. level = "quiet"
      BY <2>3, DetectorBounds
    <3> QED
      BY <1>1, <3>1, <3>2 DEF Vads
  <2> QED
    BY <2>2, <2>3
<1>2. CASE ~v.in
  <2> DEFINE count == IF level = "loud" THEN v.count + 1 ELSE 0
  <2>1. count \in Nat
    BY DEF Vads
  <2>2. CASE count < StartChunks
    <3>1. Detect(v, level) = [vad |-> [v EXCEPT !.count = count], decision |-> "silence"]
      BY <1>2, <2>2 DEF Detect
    <3> HIDE DEF count
    <3> QED
      BY <1>2, <2>1, <3>1 DEF Vads
  <2>3. CASE ~(count < StartChunks)
    <3>1. Detect(v, level) = [vad |-> [in |-> TRUE, count |-> 0], decision |-> "started"]
      BY <1>2, <2>3 DEF Detect
    <3> QED
      BY <1>2, <3>1 DEF Vads
  <2> QED
    BY <2>2, <2>3
<1> QED
  BY <1>1, <1>2

Events0 == {"none", "endpoint", "forced", "resumed", "confirmed"}

(* What one chunk does to a segmenter that agrees with its detector.         *)
ChunkFacts(v, s, w, r, event, level) ==
  /\ Agree(w, r) /\ event \in Events0
  /\ event = "endpoint" => s.silent = -1 /\ (IF FinalSilence = 0 THEN r.silent = -1 ELSE r.silent # -1)
  /\ event = "forced" => r.silent = -1
  /\ event = "resumed" => s.silent # -1 /\ r.silent = -1
  /\ event = "confirmed" => s.silent # -1
  /\ event = "none" => (r.silent = -1 <=> s.silent = -1)
  /\ ~s.recording /\ r.recording => ~v.in /\ r.kept = IF s.kept < PreRoll THEN s.kept + 1 ELSE PreRoll
  /\ ~r.recording /\ ~w.in =>
       \/ level = "quiet" \/ event \in {"endpoint", "forced", "confirmed"}
       \/ ~s.recording /\ ~v.in /\ r.kept = IF s.kept < PreRoll THEN s.kept + 1 ELSE PreRoll

LEMMA NewSegFacts ==
  NewSeg \in Segs /\ NewSeg.silent = -1 /\ NewSeg.recording = FALSE /\ NewSeg.kept = 0
BY CaptureBounds DEF NewSeg, Segs

LEMMA BeforeFacts ==
  ASSUME NEW v, NEW s, Agree(v, s), ~s.recording, NEW level
  PROVE  LET d == Detect(v, level)
             r == Before(s, d.decision)
         IN  ChunkFacts(v, s, d.vad, r.seg, r.event, level)
<1> DEFINE d == Detect(v, level)
           kept == IF s.kept < PreRoll THEN s.kept + 1 ELSE PreRoll
           r == Before(s, d.decision)
<1>1. v \in Vads /\ s \in Segs /\ s.silent = -1
  BY DEF Agree
<1>2. /\ d.vad \in Vads
      /\ \/ d.decision = "speech" /\ v.in /\ d.vad.in
         \/ d.decision = "silence" /\ ~v.in /\ ~d.vad.in
         \/ d.decision = "started" /\ ~v.in /\ d.vad.in
         \/ d.decision = "ended" /\ v.in /\ ~d.vad.in /\ level = "quiet"
  BY <1>1, DetectFacts
<1>3. kept \in Nat
  BY <1>1, DetectorBounds DEF Segs
<1>4. r = [seg |-> [s EXCEPT !.kept = kept, !.recording = d.decision = "started"], event |-> "none"]
  BY DEF Before
<1> HIDE DEF d, kept
<1>5. r.event = "none" /\ r.seg = [s EXCEPT !.kept = kept, !.recording = d.decision = "started"]
  BY <1>4
<1> HIDE DEF r
<1>6. r.seg \in Segs /\ r.seg.kept = kept /\ r.seg.silent = -1 /\ r.seg.recording = (d.decision = "started")
  BY <1>1, <1>3, <1>5 DEF Segs
<1>7. Agree(d.vad, r.seg)
  BY <1>2, <1>6 DEF Agree
<1>8. ChunkFacts(v, s, d.vad, r.seg, r.event, level)
  BY <1>1, <1>2, <1>5, <1>6, <1>7 DEF ChunkFacts, Events0, kept
<1> QED
  BY <1>8 DEF d, r

LEMMA AfterFacts ==
  ASSUME NEW v, NEW s, Agree(v, s), s.recording, NEW level
  PROVE  LET d == Detect(v, level)
             r == After(s, d.decision)
         IN  ChunkFacts(v, s, d.vad, r.seg, r.event, level)
<1> DEFINE d == Detect(v, level)
           w == d.vad
           q == d.decision
           t == [s EXCEPT !.kept = @ + 1]
           r == After(s, q)
<1>1. v \in Vads /\ s \in Segs /\ s.recording = TRUE /\ s.kept \in Nat /\ s.silent \in -1..FinalSilence
  BY DEF Agree, Segs
<1>2. w \in Vads
  BY <1>1, DetectFacts
<1>3. \/ q = "speech" /\ v.in /\ w.in
      \/ q = "silence" /\ ~v.in /\ ~w.in
      \/ q = "started" /\ ~v.in /\ w.in
      \/ q = "ended" /\ v.in /\ ~w.in /\ level = "quiet"
  BY <1>1, DetectFacts
<1>4. t \in Segs /\ t.kept = s.kept + 1 /\ t.kept \in Nat /\ t.silent = s.silent /\ t.recording = TRUE
  BY <1>1 DEF Segs
<1>5. s.silent # -1 => v.in = FALSE /\ s.kept >= MinUtterance /\ FinalSilence # 0
  BY DEF Agree
<1>6. s.silent = -1 => v.in
  BY <1>1 DEF Agree
<1> DEFINE u == IF t.kept < MinUtterance THEN [seg |-> NewSeg, event |-> "none"]
                ELSE [seg |-> NewSeg, event |-> "forced"]
           t0 == [t EXCEPT !.silent = 0]
           forced == EndpointEvent(t, TRUE, TRUE)
           goesOn == [seg |-> [t EXCEPT !.silent = -1], event |-> IF t.silent # -1 THEN "resumed" ELSE "none"]
           ends == EndpointEvent(t0, FALSE, FinalSilence = 0)
           quiet == IF t.silent = -1 THEN [seg |-> t, event |-> "none"]
                    ELSE IF t.silent + 1 < FinalSilence
                         THEN [seg |-> [t EXCEPT !.silent = @ + 1], event |-> "none"]
                         ELSE [seg |-> NewSeg, event |-> "confirmed"]
<1>7. r = CASE t.kept >= MaxUtterance -> forced
            [] t.kept < MaxUtterance /\ q \in {"started", "speech"} -> goesOn
            [] t.kept < MaxUtterance /\ q = "ended" -> ends
            [] t.kept < MaxUtterance /\ q = "silence" -> quiet
  BY DEF After
<1> HIDE DEF d, w, q, t, r, t0, forced, goesOn, ends, quiet
<1> USE NewSegFacts, CaptureBounds, DetectorBounds
<1>8. CASE t.kept >= MaxUtterance
  <2>5. r = forced
    BY <1>4, <1>7, <1>8
  <2>1. r = u
    BY <2>5 DEF forced, EndpointEvent
  <2>2. r.seg = NewSeg /\ r.event = IF t.kept < MinUtterance THEN "none" ELSE "forced"
    BY <2>1
  <2>3. Agree(w, r.seg)
    BY <1>2, <2>2 DEF Agree
  <2>4. r.event = "none" => s.silent = -1
    BY <1>1, <1>4, <1>5, <2>2
  <2> QED
    BY <1>1, <1>3, <1>6, <2>2, <2>3, <2>4 DEF ChunkFacts, Events0, d, w, q, r
<1>9. CASE t.kept < MaxUtterance /\ q \in {"started", "speech"}
  <2>4. r = goesOn
    BY <1>4, <1>7, <1>9
  <2>1. r.seg = [t EXCEPT !.silent = -1] /\ r.event = IF t.silent # -1 THEN "resumed" ELSE "none"
    BY <2>4 DEF goesOn
  <2>2. r.seg \in Segs /\ r.seg.silent = -1 /\ r.seg.recording = TRUE
    BY <1>4, <2>1 DEF Segs
  <2>3. Agree(w, r.seg)
    BY <1>2, <1>3, <1>9, <2>2 DEF Agree
  <2> QED
    BY <1>1, <1>4, <2>1, <2>2, <2>3 DEF ChunkFacts, Events0, d, w, q, r
<1>10. CASE t.kept < MaxUtterance /\ q = "ended"
  <2>1. s.silent = -1 /\ level = "quiet" /\ ~w.in
    BY <1>3, <1>5, <1>10
  <2>2. t0 \in Segs /\ t0.silent = 0 /\ t0.recording = TRUE /\ t0.kept = t.kept
    BY <1>4 DEF Segs, t0
  <2>3. r = EndpointEvent(t0, FALSE, FinalSilence = 0)
    BY <1>4, <1>7, <1>10 DEF ends
  <2>4. CASE t.kept < MinUtterance
    <3>1. r.seg = NewSeg /\ r.event = "none"
      BY <2>2, <2>3, <2>4 DEF EndpointEvent
    <3>2. Agree(w, r.seg)
      BY <1>2, <3>1 DEF Agree
    <3> QED
      BY <1>1, <2>1, <3>1, <3>2 DEF ChunkFacts, Events0, d, w, q, r
  <2>5. CASE ~(t.kept < MinUtterance)
    <3>1. r.seg = (IF FinalSilence = 0 THEN NewSeg ELSE t0) /\ r.event = "endpoint"
      BY <2>2, <2>3, <2>5 DEF EndpointEvent
    <3>2. Agree(w, r.seg)
      <4>1. CASE FinalSilence = 0
        BY <1>2, <3>1, <4>1 DEF Agree
      <4>2. CASE FinalSilence # 0
        <5>1. r.seg = t0 /\ w.in = FALSE /\ t0.kept >= MinUtterance
          BY <1>2, <1>4, <2>1, <2>2, <2>5, <3>1, <4>2 DEF Vads
        <5> QED
          BY <1>2, <2>2, <4>2, <5>1 DEF Agree
      <4> QED
        BY <4>1, <4>2
    <3> QED
      BY <1>1, <2>1, <2>2, <3>1, <3>2 DEF ChunkFacts, Events0, d, w, q, r
  <2> QED
    BY <2>4, <2>5
<1>11. CASE t.kept < MaxUtterance /\ q = "silence"
  <2>1. s.silent # -1 /\ ~w.in /\ t.silent # -1
    BY <1>3, <1>4, <1>6, <1>11
  <2>2. r = IF t.silent + 1 < FinalSilence
            THEN [seg |-> [t EXCEPT !.silent = @ + 1], event |-> "none"]
            ELSE [seg |-> NewSeg, event |-> "confirmed"]
    <3>1. r = quiet
      BY <1>4, <1>7, <1>11
    <3> QED
      BY <2>1, <3>1 DEF quiet
  <2>3. CASE t.silent + 1 < FinalSilence
    <3>1. r.seg = [t EXCEPT !.silent = t.silent + 1] /\ r.event = "none"
      BY <2>2, <2>3
    <3>2. t.silent + 1 \in -1..FinalSilence /\ t.silent + 1 # -1
      BY <1>1, <1>4, <2>1, <2>3
    <3>3. r.seg \in Segs /\ r.seg.silent # -1 /\ r.seg.recording = TRUE /\ r.seg.kept = s.kept + 1
      BY <1>4, <3>1, <3>2 DEF Segs
    <3>4. Agree(w, r.seg)
      BY <1>1, <1>2, <1>5, <2>1, <3>3 DEF Agree, Vads
    <3> QED
      BY <1>1, <2>1, <3>1, <3>3, <3>4 DEF ChunkFacts, Events0, d, w, q, r
  <2>4. CASE ~(t.silent + 1 < FinalSilence)
    <3>1. r.seg = NewSeg /\ r.event = "confirmed"
      BY <2>2, <2>4
    <3>2. Agree(w, r.seg)
      BY <1>2, <3>1 DEF Agree
    <3> QED
      BY <1>1, <2>1, <3>1, <3>2 DEF ChunkFacts, Events0, d, w, q, r
  <2> QED
    BY <2>3, <2>4
<1>12. t.kept >= MaxUtterance \/ t.kept < MaxUtterance
  BY <1>1, <1>4
<1> QED
  BY <1>3, <1>8, <1>9, <1>10, <1>11, <1>12

LEMMA AcceptFacts ==
  ASSUME NEW a, Agree(a.vad, a.seg), a.started \in BOOLEAN, NEW level
  PROVE  LET b == AcceptChunk(a, level)
         IN  ChunkFacts(a.vad, a.seg, b.vad, b.seg, b.event, level) /\ b.started \in BOOLEAN
<1> DEFINE d == Detect(a.vad, level)
           r == IF a.seg.recording THEN After(a.seg, d.decision) ELSE Before(a.seg, d.decision)
           b == AcceptChunk(a, level)
<1>1. b = [vad |-> d.vad, seg |-> r.seg, event |-> r.event, started |-> a.started \/ r.seg.recording]
  BY DEF AcceptChunk
<1>2. b.vad = d.vad /\ b.seg = r.seg /\ b.event = r.event /\ b.started = (a.started \/ r.seg.recording)
  BY <1>1
<1>3. ChunkFacts(a.vad, a.seg, d.vad, r.seg, r.event, level)
  BY BeforeFacts, AfterFacts
<1> HIDE DEF d, r, b
<1> QED
  BY <1>2, <1>3 DEF b

-----------------------------------------------------------------------------
(* Induction over the chunks of a replay.  The least element of a set of     *)
(* numbers, a fact about the relation < and not about an operator, gives     *)
(* induction over a set, and with it the function a recursion defines.       *)

LEMMA LeastNumber ==
  ASSUME NEW T, T \subseteq Nat, T # {}
  PROVE  \E n \in T : \A m \in T : n <= m
<1> DEFINE R == {ss \in Nat \X Nat : ss[1] < ss[2]}
<1>1. IsWellFoundedOn(R, Nat)
  BY NatLessThanWellFounded DEF OpToRel
<1>2. PICK x \in T : \A y \in T : <<y, x>> \notin R
  <2> HIDE DEF R
  <2> QED
    BY <1>1, WFMin
<1>3. \A y \in T : ~(y < x)
  BY <1>2
<1> QED
  BY <1>3

LEMMA Induction ==
  ASSUME NEW S, 0 \in S, \A n \in Nat : n \in S => n + 1 \in S
  PROVE  \A n \in Nat : n \in S
<1> SUFFICES ASSUME Nat \ S # {} PROVE FALSE
  OBVIOUS
<1>1. PICK n \in Nat \ S : \A m \in Nat \ S : n <= m
  BY LeastNumber
<1>2. n # 0 /\ n - 1 \in Nat /\ n - 1 \in S
  BY <1>1
<1> QED
  BY <1>2

Iterates(g, a, L, F) == g[0] = a /\ \A m \in 1..L : g[m] = F[<<m, g[m - 1]>>]

LEMMA Iteration ==
  ASSUME NEW D, NEW a, a \in D, NEW L, L \in Nat, NEW F, F \in [(1..L) \X D -> D]
  PROVE  \E g \in [0..L -> D] : Iterates(g, a, L, F)
<1> DEFINE P(n) == \E g \in [0..n -> D] : g[0] = a /\ \A m \in 1..n : g[m] = F[<<m, g[m - 1]>>]
           S == {n \in Nat : n <= L => P(n)}
<1>1. 0 \in S
  <2> DEFINE z == [i \in 0..0 |-> a]
  <2>1. z \in [0..0 -> D] /\ z[0] = a /\ 1..0 = {}
    OBVIOUS
  <2> HIDE DEF z
  <2>2. P(0)
    BY <2>1
  <2> QED
    BY <2>2
<1>2. ASSUME NEW n \in Nat, n \in S PROVE n + 1 \in S
  <2> SUFFICES ASSUME n + 1 <= L PROVE P(n + 1)
    OBVIOUS
  <2>1. PICK g \in [0..n -> D] : g[0] = a /\ \A m \in 1..n : g[m] = F[<<m, g[m - 1]>>]
    BY <1>2
  <2> DEFINE h == [i \in 0..(n + 1) |-> IF i <= n THEN g[i] ELSE F[<<n + 1, g[n]>>]]
  <2>2. F[<<n + 1, g[n]>>] \in D
    OBVIOUS
  <2>3. h \in [0..(n + 1) -> D]
    BY <2>2
  <2>4. h[0] = a /\ h[n + 1] = F[<<n + 1, g[n]>>] /\ \A i \in 0..n : h[i] = g[i]
    BY <2>1
  <2> HIDE DEF h
  <2>5. ASSUME NEW m \in 1..(n + 1) PROVE h[m] = F[<<m, h[m - 1]>>]
    <3>1. CASE m = n + 1
      BY <2>4, <3>1
    <3>2. CASE m # n + 1
      <4>1. m \in 1..n /\ m \in 0..n /\ m - 1 \in 0..n
        BY <3>2
      <4> QED
        BY <2>1, <2>4, <4>1
    <3> QED
      BY <3>1, <3>2
  <2> QED
    BY <2>3, <2>4, <2>5
<1>3. L \in S
  <2> HIDE DEF S
  <2> QED
    BY <1>1, <1>2, Induction
<1> QED
  BY <1>3 DEF Iterates

Agreeing ==
  {a \in [vad : Vads, seg : Segs, event : Events0, started : BOOLEAN] : Agree(a.vad, a.seg)}

ReplayStep(acc, level) ==
  IF acc.event \in {"endpoint", "forced"} THEN acc ELSE AcceptChunk(acc, level)

LEMMA AcceptAgrees ==
  ASSUME NEW a \in Agreeing, NEW level
  PROVE  AcceptChunk(a, level) \in Agreeing /\ ReplayStep(a, level) \in Agreeing
<1> DEFINE b == AcceptChunk(a, level)
<1>1. ChunkFacts(a.vad, a.seg, b.vad, b.seg, b.event, level) /\ b.started \in BOOLEAN
  BY AcceptFacts DEF Agreeing
<1>2. Agree(b.vad, b.seg) /\ b.event \in Events0 /\ b.vad \in Vads /\ b.seg \in Segs
  BY <1>1 DEF ChunkFacts, Agree
<1>3. b = [vad |-> b.vad, seg |-> b.seg, event |-> b.event, started |-> b.started]
  BY DEF AcceptChunk
<1> HIDE DEF b
<1>4. b \in Agreeing
  BY <1>1, <1>2, <1>3 DEF Agreeing
<1> QED
  BY <1>4 DEF b, ReplayStep

(* What a replay computes, one chunk after the other. *)
LEMMA ReplayUnfolds ==
  ASSUME NEW a \in Agreeing, NEW levels \in Seq(Levels)
  PROVE  \E h : /\ h[0] = a /\ Replay(a, levels) = h[Len(levels)]
                /\ \A n \in 1..Len(levels) : h[n] = ReplayStep(h[n - 1], levels[n])
<1> DEFINE L == Len(levels)
           Body(g) == [n \in 0..L |-> IF n = 0 THEN a ELSE ReplayStep(g[n - 1], levels[n])]
           F == [p \in (1..L) \X Agreeing |-> ReplayStep(p[2], levels[p[1]])]
           heard == CHOOSE g : g = Body(g)
<1>1. L \in Nat
  OBVIOUS
<1>2. F \in [(1..L) \X Agreeing -> Agreeing]
  BY AcceptAgrees
<1>3. PICK g \in [0..L -> Agreeing] : g[0] = a /\ \A m \in 1..L : g[m] = F[<<m, g[m - 1]>>]
  <2> HIDE DEF F, L
  <2>1. \E g \in [0..L -> Agreeing] : Iterates(g, a, L, F)
    BY <1>1, <1>2, Iteration
  <2> QED
    BY <2>1 DEF Iterates
<1>4. ASSUME NEW m \in 1..L PROVE g[m] = ReplayStep(g[m - 1], levels[m])
  <2>1. <<m, g[m - 1]>> \in (1..L) \X Agreeing
    BY <1>1
  <2> QED
    BY <1>3, <2>1
<1>5. \A n \in 0..L : g[n] = Body(g)[n]
  BY <1>1, <1>3, <1>4
<1>6. g = Body(g)
  BY <1>5
<1>7. heard = Body(heard)
  <2> HIDE DEF Body
  <2> QED
    BY <1>6
<1>8. Replay(a, levels) = heard[L]
  BY DEF Replay, ReplayStep
<1> HIDE DEF heard
<1>9. heard[0] = a /\ \A n \in 1..L : heard[n] = ReplayStep(heard[n - 1], levels[n])
  BY <1>1, <1>7
<1> QED
  BY <1>8, <1>9

(* A replay holds a provisional endpoint exactly when it ended with one.     *)
LEMMA ReplayFacts ==
  ASSUME NEW a \in Agreeing, a.seg.silent = -1, a.event = "none", NEW levels \in Seq(Levels)
  PROVE  LET r == Replay(a, levels)
         IN  /\ r \in Agreeing /\ r.event \in {"none", "endpoint", "forced"}
             /\ r.seg.silent # -1 <=> r.event = "endpoint" /\ FinalSilence # 0
<1>1. PICK h : /\ h[0] = a /\ Replay(a, levels) = h[Len(levels)]
               /\ \A n \in 1..Len(levels) : h[n] = ReplayStep(h[n - 1], levels[n])
  BY ReplayUnfolds
<1> DEFINE Good(r) ==
             /\ r \in Agreeing /\ r.event \in {"none", "endpoint", "forced"}
             /\ r.seg.silent # -1 <=> r.event = "endpoint" /\ FinalSilence # 0
           S == {n \in Nat : n <= Len(levels) => Good(h[n])}
<1>2. Good(h[0])
  BY <1>1
<1>3. ASSUME NEW acc, Good(acc), NEW level PROVE Good(ReplayStep(acc, level))
  <2>1. CASE acc.event \in {"endpoint", "forced"}
    BY <1>3, <2>1 DEF ReplayStep
  <2>2. CASE acc.event \notin {"endpoint", "forced"}
    <3> DEFINE b == AcceptChunk(acc, level)
    <3>1. ReplayStep(acc, level) = b /\ acc.seg.silent = -1
      BY <1>3, <2>2 DEF ReplayStep
    <3>2. ChunkFacts(acc.vad, acc.seg, b.vad, b.seg, b.event, level) /\ b \in Agreeing
      BY <1>3, AcceptFacts, AcceptAgrees DEF Agreeing
    <3> HIDE DEF b
    <3> QED
      BY <3>1, <3>2 DEF ChunkFacts, Events0
  <2> QED
    BY <2>1, <2>2
<1>4. ASSUME NEW n \in Nat, n \in S PROVE n + 1 \in S
  <2> SUFFICES ASSUME n + 1 <= Len(levels) PROVE Good(h[n + 1])
    OBVIOUS
  <2>1. n + 1 \in 1..Len(levels) /\ (n + 1) - 1 = n /\ Good(h[n])
    BY <1>4
  <2>2. h[n + 1] = ReplayStep(h[n], levels[n + 1])
    BY <1>1, <2>1
  <2> HIDE DEF Good
  <2> QED
    BY <1>3, <2>1, <2>2
<1>5. Len(levels) \in S
  <2>1. 0 \in S
    BY <1>2
  <2> HIDE DEF S
  <2> QED
    BY <1>4, <2>1, Induction
<1> QED
  BY <1>1, <1>5

(* What the session's own state says of the segmenter's event. *)
EventFits(event) ==
  /\ event \in Events0
  /\ event = "endpoint" => (seg'.silent # -1 <=> FinalSilence # 0)
  /\ event = "resumed" => seg'.silent = -1
  /\ event = "confirmed" => pending # 0
  /\ event = "none" => (seg'.silent # -1 <=> pending # 0)

LEMMA EventKindsLegal ==
  ASSUME NEW k \in EventKinds, NEW i \in Nat, NEW c \in Captures
  PROVE  Event(k, i, c) \in Events
BY DEF Event, Events

LEMMA QueueGrows ==
  ASSUME NEW q \in Seq(Events), NEW e \in Events, NEW f \in Events
  PROVE  Append(q, e) \in Seq(Events) /\ q \o <<e, f>> \in Seq(Events)
OBVIOUS

(* What the frame loop does with the event keeps the session and the         *)
(* segmenter together.                                                       *)
LEMMA EmitKeeps ==
  ASSUME StreamTypeOK, TurnsCounted, session = "frame", Provisional, detection' \in Kinds,
         NEW event, EventFits(event), Emit(event)
  PROVE  /\ StreamTypeOK' /\ TurnsCounted' /\ turnMode' = turnMode /\ session' \in {"listening", "finishing"}
         /\ session' = "listening" => Provisional' /\ event \notin {"forced", "confirmed"}
         /\ session' = "listening" /\ event = "endpoint" => FinalSilence # 0
         /\ session' = "finishing" => capture'.mode = turnMode'
<1> USE DEF SameMode, SameTurn
<1>1. CASE QuietFrame /\ (event = "none" \/ (event \in {"resumed", "confirmed"} /\ pending = 0))
  <2>1. session' = "listening" /\ UNCHANGED <<mode, version, turnId, pending, capture, completed, seen, turnMode,
                                              stop, queue>>
    BY <1>1 DEF QuietFrame
  <2>2. StreamTypeOK' /\ TurnsCounted'
    BY <2>1 DEF StreamTypeOK, TurnsCounted
  <2>3. event \notin {"forced", "confirmed", "endpoint"} /\ (seg'.silent # -1 <=> pending # 0)
    BY <1>1 DEF EventFits
  <2>4. Provisional'
    BY <2>1, <2>3 DEF Provisional
  <2> QED
    BY <2>1, <2>2, <2>3, <2>4
<1>2. CASE event = "resumed" /\ pending # 0 /\ EmitResumed
  <2>1. /\ session' = "listening" /\ UNCHANGED <<mode, version, turnId, completed, seen, turnMode, stop>>
        /\ pending' = 0 /\ capture' = NoCapture /\ queue' = Append(queue, Event("resumed", pending, NoCapture))
    BY <1>2 DEF EmitResumed
  <2>2. queue' \in Seq(Events)
    <3>1. pending \in Nat /\ queue \in Seq(Events)
      BY DEF StreamTypeOK
    <3>2. Event("resumed", pending, NoCapture) \in Events
      BY <3>1, EventKindsLegal, NoCaptureLegal DEF EventKinds
    <3> QED
      BY <2>1, <3>1, <3>2, QueueGrows
  <2>3. StreamTypeOK'
    BY <2>1, <2>2, NoCaptureLegal DEF StreamTypeOK
  <2>4. TurnsCounted'
    BY <2>1 DEF TurnsCounted, StreamTypeOK
  <2>5. Provisional'
    BY <1>2, <2>1 DEF EventFits, Provisional
  <2> QED
    BY <1>2, <2>1, <2>3, <2>4, <2>5
<1>3. CASE event = "confirmed" /\ pending # 0 /\ EmitConfirmed
  <2>1. /\ session' = "finishing" /\ UNCHANGED <<mode, version, turnId, completed, seen, turnMode, stop, capture>>
        /\ pending' = 0 /\ queue' = Append(queue, Event("confirmed", pending, capture))
    BY <1>3 DEF EmitConfirmed
  <2>2. queue' \in Seq(Events)
    <3>1. pending \in Nat /\ queue \in Seq(Events) /\ capture \in Captures
      BY DEF StreamTypeOK
    <3>2. Event("confirmed", pending, capture) \in Events
      BY <3>1, EventKindsLegal DEF EventKinds
    <3> QED
      BY <2>1, <3>1, <3>2, QueueGrows
  <2>3. StreamTypeOK'
    BY <2>1, <2>2 DEF StreamTypeOK
  <2>4. TurnsCounted'
    BY <1>3, <2>1 DEF TurnsCounted
  <2>5. capture'.mode = turnMode'
    BY <1>3, <2>1 DEF Provisional
  <2> QED
    BY <1>3, <2>1, <2>3, <2>4, <2>5
<1>4. ASSUME NEW c, c = [mode |-> turnMode, kind |-> detection', forced |-> event = "forced"],
             event \in {"endpoint", "forced"}, EmitEndpoint(c)
      PROVE  /\ StreamTypeOK' /\ TurnsCounted' /\ turnMode' = turnMode /\ session' \in {"listening", "finishing"}
             /\ session' = "listening" => Provisional' /\ event = "endpoint" /\ FinalSilence # 0
             /\ capture'.mode = turnMode'
  <2>1. c \in Captures /\ c.mode = turnMode /\ c.forced = (event = "forced")
    BY <1>4 DEF Captures, StreamTypeOK
  <2>2. /\ UNCHANGED <<mode, version, completed, seen, turnMode, stop>>
        /\ turnId' = turnId + 1 /\ capture' = c
        /\ \/ /\ session' = "finishing" /\ pending' = 0
              /\ queue' = queue \o <<Event("endpoint", turnId + 1, c), Event("confirmed", turnId + 1, c)>>
           \/ /\ session' = "listening" /\ pending' = turnId + 1 /\ ~Final(c)
              /\ queue' = Append(queue, Event("endpoint", turnId + 1, c))
    BY <1>4 DEF EmitEndpoint
  <2>3. queue' \in Seq(Events)
    <3>1. turnId + 1 \in Nat /\ queue \in Seq(Events)
      BY DEF StreamTypeOK
    <3>2. Event("endpoint", turnId + 1, c) \in Events /\ Event("confirmed", turnId + 1, c) \in Events
      BY <2>1, <3>1, EventKindsLegal DEF EventKinds
    <3> QED
      BY <2>2, <3>1, <3>2, QueueGrows
  <2>4. turnId \in Nat /\ completed \in 0..turnId /\ completed <= turnId
    BY DEF StreamTypeOK
  <2>5. turnId' \in Nat /\ pending' \in 0..turnId' /\ completed' \in 0..turnId'
    BY <2>2, <2>4
  <2>6. StreamTypeOK'
    BY <2>1, <2>2, <2>3, <2>5 DEF StreamTypeOK
  <2>7. TurnsCounted'
    BY <2>2, <2>4 DEF TurnsCounted
  <2>8. session' = "listening" => event = "endpoint" /\ FinalSilence # 0
    BY <1>4, <2>1, <2>2 DEF Final
  <2>9. session' = "listening" => Provisional'
    <3> SUFFICES ASSUME session' = "listening" PROVE Provisional'
      OBVIOUS
    <3>1. event = "endpoint" /\ FinalSilence # 0 /\ seg'.silent # -1 /\ c.forced = FALSE
      BY <2>1, <2>8 DEF EventFits
    <3>2. pending' # 0 /\ capture' = c
      BY <2>2, <2>4
    <3> QED
      BY <2>1, <2>2, <3>1, <3>2 DEF Provisional
  <2> QED
    BY <2>1, <2>2, <2>6, <2>7, <2>8, <2>9
<1> QED
  BY <1>1, <1>2, <1>3, <1>4 DEF Emit

(* The parts of the invariant, and the invariant from its parts. *)
LEMMA InitSession == CaptureInit => SessionInv
<1> SUFFICES ASSUME CaptureInit PROVE SessionInv
  OBVIOUS
<1> USE CaptureBounds, DetectorBounds
<1>1. NewVad \in Vads /\ NewVad.in = FALSE /\ NewSeg \in Segs /\ NewSeg.silent = -1 /\ NewSeg.recording = FALSE
      /\ NewSeg.kept = 0
  BY NewSegFacts DEF NewVad, Vads
<1>2. StreamTypeOK
  <2>1. queue \in Seq(Events)
    BY DEF CaptureInit, StreamInit
  <2>3. stop \in BOOLEAN
    BY DEF CaptureInit, StreamInit
  <2>2. seen \in 0..version /\ pending \in 0..turnId /\ completed \in 0..turnId /\ version \in Nat /\ turnId \in Nat
    BY DEF CaptureInit, StreamInit
  <2> QED
    BY <2>1, <2>2, <2>3, NoCaptureLegal DEF CaptureInit, StreamInit, StreamTypeOK
<1>3. CaptureTypeOK
  <2>1. spotter \in BOOLEAN /\ started \in BOOLEAN /\ clipped \in BOOLEAN
    BY DEF CaptureInit
  <2>2. vad \in Vads /\ seg \in Segs /\ open \in Nat /\ detection \in Kinds
    BY <1>1 DEF CaptureInit, Kinds
  <2> QED
    BY <1>2, <2>1, <2>2 DEF CaptureInit, CaptureTypeOK, Vads, Segs
<1>4. TurnsCounted /\ SpottersClosed
  <2>1. TurnsCounted
    BY DEF CaptureInit, StreamInit, TurnsCounted
  <2>2. open = IF spotter THEN 1 ELSE 0
    BY DEF CaptureInit
  <2>3. session \notin Over
    BY DEF CaptureInit, StreamInit, Over
  <2> QED
    BY <2>1, <2>2, <2>3 DEF SpottersClosed
<1>5. Credited
  BY DEF CaptureInit, StreamInit, Credited
<1>6. Agree(vad, seg) /\ Provisional /\ GateQuiet /\ LoudKept
  BY <1>1 DEF CaptureInit, StreamInit, Agree, Provisional, GateQuiet, LoudKept
<1> QED
  BY <1>3, <1>4, <1>5, <1>6 DEF CaptureInit, SessionInv

(* A frame that reaches the segmenter, from the microphone or a replay. *)
LEMMA FrameKeeps ==
  ASSUME SessionInv, session = "frame", NEW event, EventFits(event), Emit(event),
         Agree(vad', seg'), detection' \in Kinds, detection' # "none" \/ turnMode # "wake",
         started' \in BOOLEAN, spotter' \in BOOLEAN, open' = (IF spotter' THEN 1 ELSE 0),
         credit' \in Int, credit' >= 0, turnMode = "wake" => credit' >= 1,
         run' \in 0..PreRoll, clipped' = FALSE,
         session' = "listening" => LoudKept'
  PROVE  SessionInv'
<1>1. StreamTypeOK /\ TurnsCounted /\ Provisional
  BY DEF SessionInv, CaptureTypeOK, Hearing
<1>2. /\ StreamTypeOK' /\ TurnsCounted' /\ turnMode' = turnMode /\ session' \in {"listening", "finishing"}
      /\ session' = "listening" => Provisional'
      /\ session' = "finishing" => capture'.mode = turnMode'
  BY <1>1, EmitKeeps
<1>3. CaptureTypeOK'
  <2>1. vad' \in Vads /\ seg' \in Segs /\ open' \in Nat /\ run' \in Nat
    BY DetectorBounds DEF Agree
  <2> QED
    BY <1>2, <2>1 DEF CaptureTypeOK, Vads, Segs
<1>4. ~Waiting'
  BY <1>2 DEF Waiting
<1>5. Credited' /\ SpottersClosed'
  BY <1>2, <1>4 DEF Credited, SpottersClosed, Over
<1>6. GateQuiet'
  BY <1>4 DEF GateQuiet
<1>7. Hearing' => session' = "listening"
  BY <1>2 DEF Hearing
<1>8. run' <= PreRoll
  OBVIOUS
<1> QED
  BY <1>2, <1>3, <1>5, <1>6, <1>7, <1>8 DEF SessionInv

LEMMA ListenerAgrees ==
  ASSUME SessionInv, session = "frame"
  PROVE  Listener \in Agreeing /\ Listener.vad = vad /\ Listener.seg = seg /\ Listener.event = "none"
<1>1. Agree(vad, seg) /\ started \in BOOLEAN
  BY DEF SessionInv, Hearing, CaptureTypeOK
<1>2. vad \in Vads /\ seg \in Segs
  BY <1>1 DEF Agree
<1> QED
  BY <1>1, <1>2 DEF Listener, Agreeing, Events0

LEMMA SpeechKeeps == ASSUME SessionInv, NEW level, SpeechFrame(level) PROVE SessionInv'
<1> DEFINE r == AcceptChunk(Listener, level)
           e == r.event
<1>1. /\ session = "frame" /\ ~Waiting /\ vad' = r.vad /\ seg' = r.seg /\ started' = r.started
      /\ detection' = detection /\ Emit(e) /\ Hear(level) /\ UNCHANGED <<spotter, open, credit>>
  BY DEF SpeechFrame
<1>2. Listener \in Agreeing /\ Listener.vad = vad /\ Listener.seg = seg
  BY <1>1, ListenerAgrees
<1>3. ChunkFacts(vad, seg, vad', seg', e, level) /\ r \in Agreeing
  BY <1>1, <1>2, AcceptFacts, AcceptAgrees DEF Agreeing
<1>4. started' \in BOOLEAN
  BY <1>1, <1>3 DEF Agreeing
<1> HIDE DEF r, e
<1>5. Agree(vad', seg')
  BY <1>3 DEF ChunkFacts
<1>6. /\ CaptureTypeOK /\ Agree(vad, seg) /\ Provisional /\ LoudKept /\ Credited /\ SpottersClosed
      /\ run <= PreRoll /\ clipped = FALSE
  BY <1>1 DEF SessionInv, Hearing
<1>7. EventFits(e)
  BY <1>3, <1>6 DEF ChunkFacts, EventFits, Provisional
<1>8. vad \in Vads /\ seg \in Segs /\ vad' \in Vads /\ seg' \in Segs /\ run \in 0..PreRoll
  BY <1>5, <1>6, DetectorBounds DEF Agree, CaptureTypeOK
<1>9. run' = IF level = "loud" THEN (IF run < PreRoll THEN run + 1 ELSE run) ELSE 0
  BY <1>1 DEF Hear
<1>10. run' \in 0..PreRoll
  BY <1>8, <1>9, DetectorBounds
<1>11. clipped' = FALSE
  <2>1. ~seg.recording /\ seg'.recording => ~(seg'.kept < run')
    <3> SUFFICES ASSUME ~seg.recording, seg'.recording PROVE ~(seg'.kept < run')
      OBVIOUS
    <3>1. ~vad.in /\ seg'.kept = IF seg.kept < PreRoll THEN seg.kept + 1 ELSE PreRoll
      BY <1>3 DEF ChunkFacts
    <3>2. run <= seg.kept
      BY <1>6, <3>1 DEF LoudKept
    <3>3. seg.kept \in Nat /\ run \in Nat
      BY <1>8, DetectorBounds DEF Segs
    <3> QED
      BY <1>9, <1>10, <3>1, <3>2, <3>3, DetectorBounds
  <2>2. clipped' = (clipped \/ (~seg.recording /\ seg'.recording /\ seg'.kept < run'))
    BY <1>1 DEF Hear
  <2> QED
    BY <1>6, <2>1, <2>2
<1>12. ASSUME session' = "listening" PROVE LoudKept'
  <2> SUFFICES ASSUME ~seg'.recording, ~vad'.in PROVE run' <= seg'.kept
    BY DEF LoudKept
  <2>1. e \notin {"forced", "confirmed"} /\ (e = "endpoint" => FinalSilence # 0)
    BY <1>1, <1>6, <1>7, <1>12, EmitKeeps DEF SessionInv, CaptureTypeOK
  <2>2. e # "endpoint"
    BY <1>5, <2>1, <1>7 DEF EventFits, Agree
  <2>3. seg'.kept \in Nat /\ seg.kept \in Nat /\ run \in Nat
    BY <1>8, DetectorBounds DEF Segs
  <2>4. CASE level = "quiet"
    BY <1>9, <2>3, <2>4
  <2>5. CASE ~seg.recording /\ ~vad.in /\ seg'.kept = IF seg.kept < PreRoll THEN seg.kept + 1 ELSE PreRoll
    <3>1. run <= seg.kept
      BY <1>6, <2>5 DEF LoudKept
    <3> QED
      BY <1>9, <1>10, <2>3, <2>5, <3>1, DetectorBounds
  <2> QED
    BY <1>3, <2>1, <2>2, <2>4, <2>5 DEF ChunkFacts
<1>13. detection' \in Kinds /\ (detection' # "none" \/ turnMode # "wake")
  BY <1>1, <1>6 DEF CaptureTypeOK, Waiting
<1>14. credit' \in Int /\ credit' >= 0 /\ (turnMode = "wake" => credit' >= 1)
  BY <1>1, <1>6, <1>13 DEF Credited, Over
<1>15. spotter' \in BOOLEAN /\ open' = (IF spotter' THEN 1 ELSE 0)
  BY <1>1, <1>6 DEF SpottersClosed, CaptureTypeOK
<1> QED
  BY <1>1, <1>4, <1>5, <1>7, <1>10, <1>11, <1>12, <1>13, <1>14, <1>15, FrameKeeps

(* The gate: while it waits, nothing is recorded and no turn is pending. *)
LEMMA AtTheGate ==
  ASSUME SessionInv, session = "frame", Waiting
  PROVE  /\ StreamTypeOK /\ seg = NewSeg /\ pending = 0 /\ turnMode = "wake" /\ credit \in Int /\ credit >= 0
         /\ seg.silent = -1 /\ spotter \in BOOLEAN /\ open = (IF spotter THEN 1 ELSE 0) /\ clipped = FALSE
BY NewSegFacts DEF SessionInv, CaptureTypeOK, Hearing, GateQuiet, Waiting, Credited, SpottersClosed

LEMMA ClosedSpotters ==
  ASSUME spotter \in BOOLEAN, open = (IF spotter THEN 1 ELSE 0), CloseSpotters
  PROVE  spotter' = FALSE /\ open' = 0
BY DEF CloseSpotters

LEMMA WakeKeeps ==
  ASSUME SessionInv, NEW levels \in SeqOf(Levels, ReplayBound), WakeDetected(levels)
  PROVE  SessionInv'
<1> DEFINE r == Replay(Listener, levels)
           e == r.event
<1>1. /\ session = "frame" /\ Waiting /\ vad' = r.vad /\ seg' = r.seg /\ started' = r.started
      /\ detection' = "wake" /\ credit' = credit + 1 /\ Emit(e) /\ CloseSpotters /\ run' = 0 /\ clipped' = clipped
  BY DEF WakeDetected
<1>2. levels \in Seq(Levels)
  <2>1. PICK m \in 0..ReplayBound : levels \in [1..m -> Levels]
    BY DEF SeqOf
  <2>2. m \in Nat
    BY DetectorBounds
  <2> QED
    BY <2>1, <2>2
<1>3. /\ StreamTypeOK /\ seg = NewSeg /\ pending = 0 /\ turnMode = "wake" /\ credit \in Int /\ credit >= 0
      /\ seg.silent = -1 /\ spotter \in BOOLEAN /\ open = (IF spotter THEN 1 ELSE 0) /\ clipped = FALSE
  BY <1>1, AtTheGate
<1>4. Listener \in Agreeing /\ Listener.seg = seg /\ Listener.event = "none"
  BY <1>1, ListenerAgrees
<1>5. /\ r \in Agreeing /\ e \in {"none", "endpoint", "forced"}
      /\ r.seg.silent # -1 <=> e = "endpoint" /\ FinalSilence # 0
  BY <1>2, <1>3, <1>4, ReplayFacts
<1> HIDE DEF r, e
<1>6. Agree(vad', seg') /\ started' \in BOOLEAN
  BY <1>1, <1>5 DEF Agreeing
<1>7. EventFits(e)
  BY <1>1, <1>3, <1>5 DEF EventFits, Events0
<1>8. spotter' = FALSE /\ open' = 0
  BY <1>1, <1>3, ClosedSpotters
<1>9. LoudKept'
  BY <1>1, <1>6 DEF LoudKept, Agree, Segs
<1>10. credit' \in Int /\ credit' >= 1 /\ credit' >= 0 /\ run' \in 0..PreRoll
  BY <1>1, <1>3, DetectorBounds
<1>11. detection' \in Kinds /\ detection' # "none"
  BY <1>1 DEF Kinds
<1> QED
  BY <1>1, <1>3, <1>6, <1>7, <1>8, <1>9, <1>10, <1>11, FrameKeeps

LEMMA ConversationKeeps ==
  ASSUME SessionInv, NEW heard \in BOOLEAN, ConversationOnDetected(heard)
  PROVE  SessionInv'
<1> DEFINE e == IF heard THEN "forced" ELSE "none"
<1>1. /\ session = "frame" /\ Waiting /\ vad' = vad /\ seg' = seg /\ started' = started
      /\ detection' = "on" /\ credit' = credit + 1 /\ Emit(e) /\ CloseSpotters /\ run' = 0 /\ clipped' = clipped
  BY DEF ConversationOnDetected
<1>2. e \in {"none", "forced"}
  OBVIOUS
<1>3. /\ StreamTypeOK /\ seg = NewSeg /\ pending = 0 /\ turnMode = "wake" /\ credit \in Int /\ credit >= 0
      /\ seg.silent = -1 /\ spotter \in BOOLEAN /\ open = (IF spotter THEN 1 ELSE 0) /\ clipped = FALSE
  BY <1>1, AtTheGate
<1> HIDE DEF e
<1>6. Agree(vad', seg') /\ started' \in BOOLEAN
  BY <1>1 DEF SessionInv, CaptureTypeOK, Hearing
<1>7. EventFits(e)
  BY <1>1, <1>2, <1>3 DEF EventFits, Events0
<1>8. spotter' = FALSE /\ open' = 0
  BY <1>1, <1>3, ClosedSpotters
<1>9. LoudKept'
  BY <1>1, <1>6 DEF LoudKept, Agree, Segs
<1>10. credit' \in Int /\ credit' >= 1 /\ credit' >= 0 /\ run' \in 0..PreRoll
  BY <1>1, <1>3, DetectorBounds
<1>11. detection' \in Kinds /\ detection' # "none"
  BY <1>1 DEF Kinds
<1> QED
  BY <1>1, <1>3, <1>6, <1>7, <1>8, <1>9, <1>10, <1>11, FrameKeeps

(* A new turn starts with a new detector, segmenter and gate. *)
LEMMA FreshKeeps ==
  ASSUME SessionInv, FreshTurn, StreamTypeOK', TurnsCounted', session' = "listening", pending' = 0,
         credit' \in Int, credit' >= 0, clipped' = clipped
  PROVE  SessionInv'
<1>1. /\ vad' = NewVad /\ seg' = NewSeg /\ detection' = "none" /\ started' = FALSE /\ run' = 0
      /\ spotter' = (turnMode' = "wake")
      /\ open' = open - (IF spotter THEN 1 ELSE 0) + (IF spotter' THEN 1 ELSE 0)
  BY DEF FreshTurn
<1>2. open = (IF spotter THEN 1 ELSE 0) /\ spotter \in BOOLEAN /\ clipped = FALSE
  BY DEF SessionInv, SpottersClosed, CaptureTypeOK
<1>3. spotter' \in BOOLEAN
  BY <1>1
<1>4. open' = (IF spotter' THEN 1 ELSE 0)
  BY <1>1, <1>2, <1>3
<1>5. NewVad \in Vads /\ NewVad.in = FALSE
  BY DEF NewVad, Vads
<1>6. Agree(vad', seg')
  BY <1>1, <1>5, NewSegFacts DEF Agree
<1>7. CaptureTypeOK'
  <2>1. vad' \in Vads /\ seg' \in Segs /\ open' \in Nat /\ run' \in Nat /\ detection' \in Kinds
    BY <1>1, <1>4, <1>6 DEF Agree, Kinds
  <2> QED
    BY <1>1, <1>2, <1>3, <2>1 DEF CaptureTypeOK, Vads, Segs
<1>8. Provisional' /\ GateQuiet' /\ LoudKept'
  BY <1>1, NewSegFacts DEF Provisional, GateQuiet, LoudKept
<1>9. Credited' /\ SpottersClosed'
  BY <1>1, <1>4 DEF Credited, SpottersClosed, Over
<1>10. run' <= PreRoll
  BY <1>1, DetectorBounds
<1> QED
  BY <1>2, <1>6, <1>7, <1>8, <1>9, <1>10 DEF SessionInv

LEMMA PollKeeps == ASSUME SessionInv, Poll PROVE SessionInv'
<1>1. /\ CaptureTypeOK /\ TurnsCounted /\ Credited /\ SpottersClosed /\ run <= PreRoll /\ clipped = FALSE
      /\ Hearing => Agree(vad, seg) /\ Provisional /\ GateQuiet /\ LoudKept
  BY DEF SessionInv
<1>2. PollMode /\ credit' = credit /\ clipped' = clipped
  BY DEF Poll
<1>3. session = "listening" /\ seen' = version /\ UNCHANGED <<mode, version, turnId, completed, stop, queue>>
  BY <1>2 DEF PollMode
<1>4. CASE session' = "frame"
  <2>1. UNCHANGED <<vad, seg, detection, started, spotter, open, run, turnMode, pending, capture, credit, clipped>>
    BY <1>2, <1>3, <1>4 DEF Poll, PollMode
  <2>2. StreamTypeOK'
    BY <1>1, <1>3, <1>4, <2>1 DEF CaptureTypeOK, StreamTypeOK
  <2>3. CaptureTypeOK'
    BY <1>1, <2>1, <2>2 DEF CaptureTypeOK
  <2>4. TurnsCounted' /\ SpottersClosed'
    BY <1>1, <1>3, <1>4, <2>1 DEF TurnsCounted, SpottersClosed, Over
  <2>5. Credited'
    BY <1>1, <1>3, <1>4, <2>1 DEF Credited, Over
  <2>6. Agree(vad', seg') /\ Provisional' /\ GateQuiet' /\ LoudKept'
    BY <1>1, <1>3, <2>1 DEF Hearing, Provisional, GateQuiet, LoudKept, Waiting
  <2> QED
    BY <1>1, <2>1, <2>3, <2>4, <2>5, <2>6 DEF SessionInv
<1>5. CASE session' # "frame"
  <2>1. /\ FreshTurn /\ session' = "listening" /\ turnMode' = mode /\ pending' = 0 /\ capture' = NoCapture
    BY <1>2, <1>3, <1>5 DEF Poll, PollMode
  <2>2. StreamTypeOK'
    BY <1>1, <1>3, <2>1, NoCaptureLegal DEF CaptureTypeOK, StreamTypeOK
  <2>3. TurnsCounted'
    BY <1>1, <1>3, <2>1 DEF TurnsCounted, CaptureTypeOK, StreamTypeOK
  <2>4. credit' \in Int /\ credit' >= 0
    BY <1>1, <1>2 DEF Credited
  <2> QED
    BY <1>2, <2>1, <2>2, <2>3, <2>4, FreshKeeps
<1> QED
  BY <1>4, <1>5

(* A session that is over has closed its spotters. *)
LEMMA OverKeeps ==
  ASSUME SessionInv, CloseSpotters, StreamTypeOK', TurnsCounted', session' \in Over,
         UNCHANGED <<vad, seg, detection, started, run, clipped>>, credit' \in Int, credit' >= 0
  PROVE  SessionInv'
<1>1. CaptureTypeOK /\ SpottersClosed /\ run <= PreRoll /\ clipped = FALSE
  BY DEF SessionInv
<1>2. spotter' = FALSE /\ open' = 0
  BY <1>1, ClosedSpotters DEF CaptureTypeOK, SpottersClosed
<1>3. CaptureTypeOK'
  BY <1>1, <1>2 DEF CaptureTypeOK
<1>4. SpottersClosed' /\ Credited'
  BY <1>2 DEF SpottersClosed, Credited, Over
<1>5. ~Hearing'
  BY DEF Hearing, Over
<1> QED
  BY <1>1, <1>3, <1>4, <1>5 DEF SessionInv

LEMMA FinishKeeps == ASSUME SessionInv, FinishTurn PROVE SessionInv'
<1>1. CaptureTypeOK /\ StreamTypeOK /\ TurnsCounted /\ Credited
  BY DEF SessionInv, CaptureTypeOK
<1>2. /\ TurnFinished /\ credit' = (IF capture.mode = "wake" THEN credit - 1 ELSE credit) /\ clipped' = clipped
  BY DEF FinishTurn
<1>3. /\ session = "finishing" /\ mode' = capture.mode /\ completed' = completed + 1 /\ capture' = NoCapture
      /\ version' = (IF mode = capture.mode THEN version ELSE version + 1) /\ seen' = version'
      /\ turnMode' \in {turnMode, mode'} /\ session' \in {"returned", "listening"}
      /\ UNCHANGED <<turnId, pending, stop, queue>>
  BY <1>2 DEF TurnFinished, Set, StartTurn
<1>4. pending = 0 /\ completed + 1 <= turnId
  BY <1>1, <1>3 DEF TurnsCounted
<1>5. StreamTypeOK'
  <2>1. mode' \in Modes /\ turnMode' \in Modes
    BY <1>1, <1>3 DEF StreamTypeOK, Captures
  <2>2. version' \in Nat /\ seen' \in 0..version'
    BY <1>1, <1>3 DEF StreamTypeOK
  <2>3. completed' \in 0..turnId' /\ turnId' \in Nat /\ pending' \in 0..turnId'
    BY <1>1, <1>3, <1>4 DEF StreamTypeOK
  <2> QED
    BY <1>1, <1>3, <2>1, <2>2, <2>3, NoCaptureLegal DEF StreamTypeOK, Over
<1>6. TurnsCounted'
  BY <1>1, <1>3, <1>4 DEF TurnsCounted, StreamTypeOK
<1>7. credit' \in Int /\ credit' >= 0
  <2>1. capture.mode = turnMode /\ ~Waiting /\ credit \in Int /\ credit >= 0
    BY <1>1, <1>3 DEF Credited
  <2>2. capture.mode = "wake" => credit >= 1
    BY <1>1, <1>3, <2>1 DEF Credited, Waiting, Over
  <2> QED
    BY <1>2, <2>1, <2>2
<1>8. CASE session' = "returned"
  <2>1. CloseSpotters /\ UNCHANGED <<vad, seg, detection, started, run>>
    BY <1>8 DEF FinishTurn
  <2> QED
    BY <1>2, <1>5, <1>6, <1>7, <1>8, <2>1, OverKeeps DEF Over
<1>9. CASE session' = "listening"
  <2>1. FreshTurn
    BY <1>9 DEF FinishTurn
  <2> QED
    BY <1>2, <1>3, <1>4, <1>5, <1>6, <1>7, <1>9, <2>1, FreshKeeps
<1> QED
  BY <1>3, <1>8, <1>9

LEMMA EndKeeps == ASSUME SessionInv, ListenTimeout \/ CaptureEnds PROVE SessionInv'
<1>1. /\ CaptureTypeOK /\ StreamTypeOK /\ TurnsCounted /\ Credited
  BY DEF SessionInv, CaptureTypeOK
<1>2. /\ CloseSpotters /\ UNCHANGED <<vad, seg, detection, started, credit, run, clipped>>
      /\ Interrupted \/ Failed
  BY DEF ListenTimeout, CaptureEnds
<1>3. /\ session' \in Over
      /\ UNCHANGED <<mode, version, turnId, pending, capture, completed, seen, turnMode, stop, queue>>
  BY <1>2 DEF Interrupted, Failed, Over, SameMode, SameTurn
<1>4. StreamTypeOK'
  BY <1>1, <1>3 DEF StreamTypeOK
<1>5. TurnsCounted'
  BY <1>1, <1>3 DEF TurnsCounted, StreamTypeOK, Over
<1>6. credit' \in Int /\ credit' >= 0
  BY <1>1, <1>2 DEF Credited
<1> QED
  BY <1>2, <1>3, <1>4, <1>5, <1>6, OverKeeps

(* A step of the consumer, and a frame the gate keeps. *)
LEMMA OtherKeeps == ASSUME SessionInv, Consumer \/ KeyphraseFrame \/ UNCHANGED captureVars PROVE SessionInv'
<1>1. /\ CaptureTypeOK /\ StreamTypeOK /\ TurnsCounted /\ Credited /\ SpottersClosed /\ run <= PreRoll /\ clipped = FALSE
      /\ Hearing => Agree(vad, seg) /\ Provisional /\ GateQuiet /\ LoudKept
  BY DEF SessionInv, CaptureTypeOK
<1> USE DEF SameMode, SameTurn
<1>2. /\ UNCHANGED <<vad, seg, detection, started, spotter, open, credit, clipped>>
      /\ UNCHANGED <<turnId, pending, capture, completed, seen, turnMode>>
      /\ run' = run \/ run' = 0
  BY DEF Consumer, ConsumerStep, TakeEvent, SetMode, RequestStop, audioVars, KeyphraseFrame, QuietFrame, captureVars,
         streamVars
<1>3. session' = session \/ (session = "frame" /\ session' = "listening")
  BY DEF Consumer, ConsumerStep, TakeEvent, SetMode, RequestStop, KeyphraseFrame, QuietFrame, captureVars, streamVars
<1>4. StreamTypeOK'
  <2>1. mode' \in Modes /\ version' \in Nat /\ seen' \in 0..version'
    <3>1. (mode' = mode /\ version' = version) \/ \E m \in Modes : Set(m)
      BY DEF Consumer, ConsumerStep, TakeEvent, SetMode, RequestStop, KeyphraseFrame, QuietFrame, captureVars, streamVars
    <3> QED
      BY <1>1, <1>2, <3>1 DEF StreamTypeOK, Set
  <2>2. queue' \in Seq(Events)
    <3>1. queue' = queue \/ (queue # <<>> /\ queue' = Tail(queue))
      BY DEF Consumer, ConsumerStep, TakeEvent, SetMode, RequestStop, KeyphraseFrame, QuietFrame, captureVars, streamVars
    <3> QED
      BY <1>1, <3>1 DEF StreamTypeOK
  <2>3. stop' \in BOOLEAN
    <3>1. stop' = stop \/ stop' = TRUE
      BY DEF Consumer, ConsumerStep, TakeEvent, SetMode, RequestStop, KeyphraseFrame, QuietFrame, captureVars, streamVars
    <3> QED
      BY <1>1, <3>1 DEF StreamTypeOK
  <2>4. session' \in {"listening", "frame", "finishing"} \cup Over
    BY <1>1, <1>3 DEF StreamTypeOK
  <2> QED
    BY <1>1, <1>2, <2>1, <2>2, <2>3, <2>4 DEF StreamTypeOK
<1>5. run' \in Nat /\ run' <= PreRoll /\ run' <= run
  BY <1>1, <1>2, DetectorBounds DEF CaptureTypeOK
<1>6. CaptureTypeOK'
  BY <1>1, <1>2, <1>4, <1>5 DEF CaptureTypeOK
<1>7. TurnsCounted'
  BY <1>1, <1>2, <1>3 DEF TurnsCounted
<1>8. SpottersClosed' /\ Credited'
  BY <1>1, <1>2, <1>3 DEF SpottersClosed, Credited, Waiting, Over
<1>9. Hearing' => Agree(vad', seg') /\ Provisional' /\ GateQuiet' /\ LoudKept'
  <2> SUFFICES ASSUME Hearing' PROVE Agree(vad', seg') /\ Provisional' /\ GateQuiet' /\ LoudKept'
    OBVIOUS
  <2>1. Agree(vad, seg) /\ Provisional /\ GateQuiet /\ LoudKept
    BY <1>1, <1>3 DEF Hearing
  <2>2. Agree(vad', seg') /\ Provisional' /\ GateQuiet'
    BY <1>2, <2>1 DEF Provisional, GateQuiet, Waiting
  <2>3. seg.kept \in Nat /\ run \in Nat
    BY <1>1, <2>1 DEF Agree, Segs, CaptureTypeOK
  <2>4. LoudKept'
    BY <1>2, <1>5, <2>1, <2>3 DEF LoudKept
  <2> QED
    BY <2>2, <2>4
<1> QED
  BY <1>2, <1>1, <1>5, <1>6, <1>7, <1>8, <1>9 DEF SessionInv

LEMMA SessionStepKeeps == SessionInv /\ [CaptureNext]_captureVars => SessionInv'
BY OtherKeeps, PollKeeps, FinishKeeps, EndKeeps, SpeechKeeps, WakeKeeps, ConversationKeeps DEF CaptureNext

(* Whatever is heard, whoever changes the mode and however the session ends, *)
(* for every length of pre-roll, silence and utterance: the session holds a  *)
(* provisional turn exactly while the segmenter does, no turn of wake mode   *)
(* finishes without a keyphrase of its own, at most one spotter is open and  *)
(* none at the end, and a recording begins with the loud chunks that led to  *)
(* it (speculative_capture_session.py, utterance_segmenter.py).              *)
THEOREM CaptureIsSound == CaptureSpec => []CaptureSound
<1>1. SessionInv => CaptureSound
  <2> SUFFICES ASSUME SessionInv PROVE CaptureSound
    OBVIOUS
  <2>1. ProvisionalAgree
    <3> SUFFICES ASSUME session \in {"listening", "frame"}
                 PROVE  /\ (pending # 0) <=> (seg.silent # -1)
                        /\ pending # 0 => seg.recording /\ ~vad.in /\ Final(capture) = FALSE
      BY DEF ProvisionalAgree
    <3>1. Agree(vad, seg) /\ Provisional
      BY DEF SessionInv, Hearing
    <3> QED
      BY <3>1 DEF Agree, Provisional, Final
  <2>2. WakeGated /\ SpottersClosed /\ FirstSyllablesKept /\ CaptureTypeOK
    BY DEF SessionInv, Credited, WakeGated, FirstSyllablesKept
  <2> QED
    BY <2>1, <2>2 DEF CaptureSound
<1> QED
  BY InitSession, SessionStepKeeps, <1>1, PTL DEF CaptureSpec
=============================================================================
