------------------------------ MODULE VoiceLoop ------------------------------
(***************************************************************************)
(* The voice loop of commands/voice_loop.py over a capture session: every  *)
(* endpoint starts a speculative turn task, a resumed event cancels it, a  *)
(* confirmed event commits it.  A turn is transcribed ahead of time and    *)
(* may act (run the agent, switch the conversation mode) only once it is   *)
(* committed (VoiceTurnControl, voice/turn_processor.py).  The capture     *)
(* thread, the loop and the turn tasks interleave at every await.          *)
(***************************************************************************)
EXTENDS CaptureStream, FiniteSets

VARIABLES
  loop,       \* where run_voice_turn_loop is
  active,     \* active_turn_id, 0 for None
  tasks,      \* the task set of the loop
  task,       \* state of each turn's task
  plan,       \* what a transcribed turn is going to do
  cap,        \* the capture a task was given
  cancelled,  \* controls with the cancel event set
  committed,  \* controls with the commit event set
  unwinding,  \* tasks with a requested, undelivered cancellation
  dropped,    \* history: provisional turns dropped by a mode change
  resumed,    \* history: turns whose speech went on
  acted       \* history: turns that ran the agent or switched the mode

loopVars == <<loop, active, tasks, task, plan, cap, cancelled, committed,
              unwinding, dropped, resumed, acted>>

vars == <<streamVars, loopVars>>

Turns == 1..TurnBound

Ended == {"done", "error", "cancelled"}

TaskStates == {"none", "created", "grace", "transcribing", "waiting", "agent"} \cup Ended

Live(id) == task[id] \notin Ended \cup {"none"}

Plans == {"none", "ignore", "switch", "agent"}

TypeOK ==
  /\ StreamTypeOK
  /\ loop \in {"loop", "gather", "aborting", "draining", "returned", "raised"}
  /\ active \in 0..TurnBound /\ tasks \subseteq Turns
  /\ task \in [Turns -> TaskStates] /\ plan \in [Turns -> Plans]
  /\ cap \in [Turns -> Captures]
  /\ \A s \in {cancelled, committed, unwinding, dropped, resumed, acted} : s \subseteq Turns

Init ==
  /\ StreamInit
  /\ loop = "loop" /\ active = 0 /\ tasks = {}
  /\ task = [id \in Turns |-> "none"] /\ plan = [id \in Turns |-> "none"]
  /\ cap = [id \in Turns |-> NoCapture]
  /\ cancelled = {} /\ committed = {} /\ unwinding = {}
  /\ dropped = {} /\ resumed = {} /\ acted = {}

------------------------------------------------------------------------------
(* The capture thread.                                                      *)
Capture ==
  /\ CaptureStep
  /\ dropped' = dropped \cup (IF pending # 0 /\ pending' = 0 /\ queue' = queue
                              THEN {pending} ELSE {})
  /\ resumed' = resumed \cup (IF EmitResumed THEN {pending} ELSE {})
  /\ UNCHANGED <<loop, active, tasks, task, plan, cap, cancelled, committed,
                 unwinding, acted>>

------------------------------------------------------------------------------
(* The loop's coroutine.                                                    *)
SameStream == SameTurn /\ UNCHANGED <<seen, turnMode, session, stop>>

Unfinished == {id \in tasks : Live(id)}

\* control.cancel() and task.cancel() on the active turn, if there is one.
CancelActive ==
  /\ cancelled' = cancelled \cup {id \in Turns : id = active}
  /\ unwinding' = unwinding \cup {id \in Turns : id = active /\ Live(id)}

NextEvent(k) ==
  /\ loop = "loop" /\ queue # <<>> /\ Head(queue).kind = k
  /\ queue' = Tail(queue)
  /\ SameStream /\ UNCHANGED <<loop, plan, dropped, resumed, acted>>

\* Mutant: the turn before is left to itself.
OnEndpointKeepsActive ==
  /\ NextEvent("endpoint")
  /\ active' = Head(queue).id
  /\ task' = [task EXCEPT ![Head(queue).id] = "created"]
  /\ cap' = [cap EXCEPT ![Head(queue).id] = Head(queue).capture]
  /\ tasks' = Unfinished \cup {Head(queue).id}
  /\ SameMode /\ UNCHANGED <<cancelled, unwinding, committed>>

OnEndpoint ==
  /\ NextEvent("endpoint")
  /\ CancelActive
  /\ active' = Head(queue).id
  /\ task' = [task EXCEPT ![Head(queue).id] = "created"]
  /\ cap' = [cap EXCEPT ![Head(queue).id] = Head(queue).capture]
  /\ tasks' = Unfinished \cup {Head(queue).id}
  /\ SameMode /\ UNCHANGED committed

OnResumed ==
  /\ NextEvent("resumed")
  /\ IF Head(queue).id = active THEN CancelActive /\ active' = 0
     ELSE UNCHANGED <<cancelled, unwinding, active>>
  /\ tasks' = Unfinished
  /\ SameMode /\ UNCHANGED <<task, cap, committed>>

\* Mutant: the commit wakes a turn that waits for it and is not kept.
OnConfirmedIfWaiting ==
  /\ NextEvent("confirmed")
  /\ Set(Head(queue).capture.mode)
  /\ committed' = committed \cup {id \in Turns : id = active /\ id = Head(queue).id
                                                    /\ task[id] = "waiting"}
  /\ active' = 0 /\ tasks' = Unfinished
  /\ UNCHANGED <<task, cap, cancelled, unwinding>>

OnConfirmed ==
  /\ NextEvent("confirmed")
  /\ Set(Head(queue).capture.mode)
  /\ committed' = committed \cup {id \in Turns : id = active /\ id = Head(queue).id}
  /\ active' = 0 /\ tasks' = Unfinished
  /\ UNCHANGED <<task, cap, cancelled, unwinding>>

SessionReturned ==
  /\ loop = "loop" /\ queue = <<>> /\ session = "returned"
  /\ loop' = "gather" /\ tasks' = Unfinished
  /\ UNCHANGED <<streamVars, active, task, plan, cap, cancelled, committed,
                 unwinding, dropped, resumed, acted>>

\* The worker's error, or the cancellation of the loop itself.
Abort ==
  /\ loop = "loop"
  /\ loop' = "aborting" /\ stop' = TRUE
  /\ CancelActive
  /\ SameMode /\ SameTurn /\ UNCHANGED <<seen, turnMode, session, queue>>
  /\ UNCHANGED <<active, tasks, task, plan, cap, committed, dropped, resumed,
                 acted>>

SessionFailed == session \in Over /\ queue = <<>> /\ session # "returned" /\ Abort

\* The wait for the worker is bounded by a second, whatever the worker does.
CancelBackground ==
  /\ loop = "aborting" /\ loop' = "draining"
  /\ unwinding' = unwinding \cup Unfinished
  /\ UNCHANGED <<streamVars, active, tasks, task, plan, cap, cancelled, committed,
                 dropped, resumed, acted>>

Drained ==
  /\ loop = "draining" /\ Unfinished = {}
  /\ loop' = "raised"
  /\ UNCHANGED <<streamVars, active, tasks, task, plan, cap, cancelled, committed,
                 unwinding, dropped, resumed, acted>>

\* gather without return_exceptions: one cancelled task fails it at once, and
\* the end of the event loop then cancels the tasks that are left.
Gather ==
  /\ loop = "gather"
  /\ \/ /\ \E id \in tasks : task[id] = "cancelled"
        /\ loop' = "raised" /\ unwinding' = unwinding \cup Unfinished
     \/ /\ \A id \in tasks : task[id] \in {"done", "error"}
        /\ loop' = "returned" /\ UNCHANGED unwinding
  /\ UNCHANGED <<streamVars, active, tasks, task, plan, cap, cancelled, committed,
                 dropped, resumed, acted>>

------------------------------------------------------------------------------
(* A turn task: VoiceTurnProcessor.process.                                  *)
Step(id, from, to) ==
  /\ task[id] = from /\ id \notin unwinding
  /\ task' = [task EXCEPT ![id] = to]
  /\ SameStream
  /\ UNCHANGED <<queue, loop, active, tasks, cap, cancelled, committed,
                 unwinding, dropped, resumed>>

Quietly == SameMode /\ UNCHANGED <<plan, acted>>

BeginTurn(id) == Step(id, "created", "grace") /\ Quietly

\* Only an utterance nobody asked for, in continuous mode, may be noise.
NoiseGate(id) ==
  /\ cap[id].mode = "continuous" /\ cap[id].kind = "none"
  /\ Step(id, "created", "waiting") /\ plan' = [plan EXCEPT ![id] = "ignore"]
  /\ SameMode /\ UNCHANGED acted

\* The grace ends by commit or by timeout.  That a checkpoint raises in a turn
\* whose control is cancelled has no action: control.cancel() comes with
\* task.cancel(), so Unwind is first (CancelIsDelivered).
GraceOver(id) == id \notin cancelled /\ Step(id, "grace", "transcribing") /\ Quietly

Transcribed(id) ==
  /\ id \notin cancelled /\ Step(id, "transcribing", "waiting")
  /\ plan' \in {[plan EXCEPT ![id] = p] :
                  p \in IF cap[id].kind = "on" THEN {"switch", "ignore"}
                        ELSE {"switch", "agent"}}
  /\ SameMode /\ UNCHANGED acted

TurnError(id) ==
  (\E from \in {"transcribing", "agent"} : Step(id, from, "error")) /\ Quietly

\* Mutant: a transcribed turn acts unless it is cancelled.
GoAtOnce(id) == id \notin cancelled

\* wait_until_committed returned: the turn may act.
Go(id) == id \in committed \ cancelled

IgnoreTurn(id) ==
  Go(id) /\ plan[id] = "ignore" /\ Step(id, "waiting", "done") /\ Quietly

SwitchOn(id) ==
  /\ Go(id) /\ plan[id] = "switch" /\ Step(id, "waiting", "done")
  /\ Set("continuous")
  /\ acted' = acted \cup {id} /\ UNCHANGED plan

StartAgent(id) ==
  /\ Go(id) /\ plan[id] = "agent" /\ Step(id, "waiting", "agent")
  /\ acted' = acted \cup {id} /\ SameMode /\ UNCHANGED plan

\* The agent's turn_off_conversation primitive.
AgentTurnsOff(id) ==
  /\ Step(id, "agent", "agent")
  /\ Set("wake") /\ UNCHANGED <<plan, acted>>

AgentDone(id) == Step(id, "agent", "done") /\ Quietly

Unwind(id) ==
  /\ id \in unwinding /\ unwinding' = unwinding \ {id}
  /\ task' = [task EXCEPT ![id] = IF Live(id) THEN "cancelled" ELSE @]
  /\ UNCHANGED <<streamVars, loop, active, tasks, plan, cap, cancelled,
                 committed, dropped, resumed, acted>>

TaskStep(id) ==
  \/ BeginTurn(id) \/ NoiseGate(id) \/ GraceOver(id) \/ Transcribed(id)
  \/ TurnError(id) \/ IgnoreTurn(id) \/ SwitchOn(id) \/ StartAgent(id)
  \/ AgentDone(id) \/ Unwind(id)

LoopStep ==
  \/ OnEndpoint \/ OnResumed \/ OnConfirmed \/ SessionReturned \/ SessionFailed
  \/ CancelBackground \/ Drained \/ Gather

Next ==
  \/ Capture \/ LoopStep \/ Abort
  \/ \E id \in Turns : TaskStep(id) \/ AgentTurnsOff(id)

Spec == Init /\ [][Next]_vars

(* The event loop runs, the model calls of a turn return; the microphone and *)
(* the speaker owe nothing.                                                  *)
FairSpec == Spec /\ WF_vars(LoopStep) /\ \A id \in Turns : WF_vars(TaskStep(id))

------------------------------------------------------------------------------
(* Speech that went on is never acted upon: a turn whose resumed event the   *)
(* capture thread sent neither runs the agent nor switches the mode, at      *)
(* whatever await its task is when the event arrives.                        *)
ResumedNeverActs == acted \cap resumed = {}

(* At most one turn is speculative: any other unfinished, uncommitted task   *)
(* is already being cancelled.                                               *)
OneSpeculative ==
  Cardinality({id \in Turns : Live(id) /\ id \notin committed \cup unwinding
                              /\ id \notin cancelled}) <= 1

(* With no event in flight the loop's active turn is the session's           *)
(* provisional one; the one exception is a turn that a mode change made the  *)
(* session drop without an event, which stays until the next endpoint.       *)
ActiveIsPending ==
  (loop = "loop" /\ queue = <<>> /\ session \notin Over)
    => active \in {pending} \cup dropped /\ (pending # 0 => active = pending)

(* No capture event ever cancels a committed turn; only the end of the loop  *)
(* does.                                                                     *)
CommittedSafe ==
  /\ committed \cap cancelled = {}
  /\ \A id \in committed : task[id] = "cancelled" => loop \in {"draining", "raised"}

(* A turn whose control is cancelled is being unwound or is over: the checks  *)
(* of its control never find the event first.                                *)
CancelIsDelivered == \A id \in cancelled : Live(id) => id \in unwinding

(* A committed or cancelled turn ends, and so does the loop once its session *)
(* is over.                                                                  *)
SettledTurnsEnd ==
  \A id \in Turns : (Live(id) /\ id \in committed \cup cancelled) ~> ~Live(id)

LoopEnds == (session \in Over) ~> (loop \in {"returned", "raised"})

(* Of the turns of a capture session at most the active one is speculative,  *)
(* it is the session's, and committed turns are safe from its events.        *)
SpeculationSound == TypeOK /\ OneSpeculative /\ ActiveIsPending /\ CommittedSafe /\ CancelIsDelivered

(* Nothing waits for a commit that does not come: settled turns end, and the *)
(* loop ends with its session.                                               *)
LoopDrains == SettledTurnsEnd /\ LoopEnds
=============================================================================
