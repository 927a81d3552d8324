----------------------------- MODULE StoreSession -----------------------------
(***************************************************************************)
(* One Store session of the Semantic Store runtime and the invocations     *)
(* that run in it (store-runtime/src/session, invocation and               *)
(* runtime/{execution,session_routes}.rs).                                 *)
(*                                                                         *)
(* The session is touched by many tokio tasks at once, each an actor here: *)
(*   Handler(i)       dispatches the request that starts invocation i      *)
(*   Task(i)          the spawned task that drives the guest component     *)
(*   Canceller(x, i)  a detached task running ActiveInvocation::cancel and *)
(*                    then SessionState::finish_invocation                 *)
(*   Output(i)        the detached task that delivers the Cancelled event  *)
(* and the callers x are the handlers of CancelInvocation and CloseStore   *)
(* requests and the runtime's own close_owner / shutdown sweeps.           *)
(*                                                                         *)
(* A step is the code between two points where another task can see or     *)
(* change the shared state.  The async Mutex around InvocationOutput needs *)
(* no state of its own: Handover below shows that its two users, Task(i)   *)
(* and Output(i), never overlap.                                           *)
(***************************************************************************)
EXTENDS EventStream, Integers, FiniteSets

CONSTANTS
    Invocations,    \* the execution requests clients dispatch
    Ids,            \* request ids
    RequestId,      \* the id each execution request carries
    ModeOf,         \* the InvocationMode of the capability it names
    Callers,        \* cancel requests, close requests and owner sweeps
    None,           \* no entry
    MaxPerSession,  \* RuntimeConfig::max_invocations_per_session
    MaxActive,      \* RuntimeConfig::max_active_invocations
    History,        \* RuntimeConfig::completion_history
    MaxEvents,      \* bound: events a guest emits before it must end
    Faults          \* bound: connection faults explored, {"disconnect", "abort"}

ASSUME InstanceAssumption ==
    /\ IsFiniteSet(Invocations) /\ IsFiniteSet(Callers) /\ IsFiniteSet(Ids)
    /\ RequestId \in [Invocations -> Ids]
    /\ ModeOf \in [Invocations -> Modes]
    /\ None \notin Invocations
    /\ None \notin {"Cancelled", "AlreadyFinished", "NotFound", "closed", "closedBefore"}

ASSUME LimitAssumption ==
    /\ MaxPerSession \in Nat \ {0}
    /\ MaxActive \in Nat \ {0}
    /\ History \in Nat \ {0}
    /\ MaxEvents \in Nat

\* The client contract of semantic-store/README.md: every request carries a
\* fresh UUID.  The runtime itself only refuses an id that is still active, so
\* nothing below assumes it except the properties that say so.
FreshIds == \A i, j \in Invocations : RequestId[i] = RequestId[j] => i = j

VARIABLES
    \* SessionState
    closed, requests, invocations, completed, active,
    \* control state of every actor
    pc,
    \* ActiveInvocation: its JoinHandle, tokio's abort flag, cancellation_started
    handle, aborted, cancelling,
    \* InvocationOutput: closed, finished, sequence, and the events it enqueued
    outClosed, finished, sequence, sent,
    \* the guest event the driver has validated and not yet sent
    pending,
    \* the connection the session answers on
    connected,
    \* callers: control, the id a cancel request names, what was answered
    caller, target, answer, disposition,
    \* history: ids registered so far; whether a canceller asked about one
    registered, knew

sessionVars == <<closed, requests, invocations, completed, active>>
invocationVars == <<handle, aborted, cancelling>>
outputVars == <<outClosed, finished, sequence, sent>>
callerVars == <<caller, target, answer, disposition, knew>>
vars == <<sessionVars, pc, invocationVars, outputVars, pending, connected,
          callerVars, registered>>

-----------------------------------------------------------------------------
Handler(i) == <<"handler", i, i>>
Task(i) == <<"task", i, i>>
Output(i) == <<"output", i, i>>
Canceller(x, i) == <<"canceller", x, i>>

Subject(a) == a[3]      \* the invocation an actor works for

Handlers == {Handler(i) : i \in Invocations}
Tasks == {Task(i) : i \in Invocations}
Outputs == {Output(i) : i \in Invocations}
Cancellers == {Canceller(x, i) : x \in Callers, i \in Invocations}
Finishers == Handlers \cup Tasks \cup Cancellers
Actors == Finishers \cup Outputs

\* The steps of SessionState::finish_invocation.
Finishing == {"request", "history", "entry", "count"}

HandlerPC == {"idle", "begun", "acquired", "added", "silencing", "fault",
              "faulted", "started"} \cup Finishing
TaskPC == {"unborn", "ready", "next", "confirm", "send", "fail", "done", "dead"}
          \cup Finishing
CancellerPC == {"unborn", "gate", "join", "reap", "done"} \cup Finishing
OutputPC == {"unborn", "fail", "done"}

\* Where tokio can drop a task that was aborted: the points where it awaits.
Suspended == {"ready", "next", "confirm", "send", "fail", "history"}

Over(i) == pc[Task(i)] \in {"done", "dead"}

NoEvent == [seq |-> 0, kind |-> "Malformed"]

\* Somebody still holds an Arc<ActiveInvocation> of i: the session's map, the
\* handler that created it, or a canceller.  The global permit lives inside it.
Held(i) ==
    \/ invocations[RequestId[i]] = i
    \/ pc[Handler(i)] \in {"acquired", "added", "silencing"} \cup Finishing
    \/ \E x \in Callers : pc[Canceller(x, i)] \in {"gate", "join", "reap"} \cup Finishing

Permits == MaxActive - Cardinality({i \in Invocations : Held(i)})

\* Mutant: dropping the last Arc does not abort the task.
DropUnheldDetaches == UNCHANGED aborted

\* <ActiveInvocation as Drop>::drop, run by whoever drops the last Arc.
DropUnheld ==
    aborted' = [i \in Invocations |->
                  aborted[i] \/ (Held(i) /\ ~Held(i)' /\ ~finished[i] /\ handle[i])]

Goto(a, to) == pc' = [pc EXCEPT ![a] = to]

-----------------------------------------------------------------------------
Init ==
    /\ closed = FALSE
    /\ requests = {}
    /\ invocations = [d \in Ids |-> None]
    /\ completed = <<>>
    /\ active = 0
    /\ pc = [a \in Actors |-> IF a \in Handlers THEN "idle" ELSE "unborn"]
    /\ handle = [i \in Invocations |-> FALSE]
    /\ aborted = [i \in Invocations |-> FALSE]
    /\ cancelling = [i \in Invocations |-> FALSE]
    /\ outClosed = [i \in Invocations |-> FALSE]
    /\ finished = [i \in Invocations |-> FALSE]
    /\ sequence = [i \in Invocations |-> NewSequence]
    /\ sent = [i \in Invocations |-> <<>>]
    /\ pending = [i \in Invocations |-> NoEvent]
    /\ connected = TRUE
    /\ caller = [x \in Callers |-> "idle"]
    /\ target = [x \in Callers |-> None]
    /\ answer = [x \in Callers |-> None]
    /\ disposition = [c \in Cancellers |-> None]
    /\ registered = {}
    /\ knew = [x \in Callers |-> FALSE]

-----------------------------------------------------------------------------
(* SessionState::finish_invocation, run by a task that is done, by every   *)
(* canceller, and by a handler whose task died before it was started.  It  *)
(* is keyed by request id and takes no lock across its steps.              *)

FinishRequest(a) ==
    /\ pc[a] = "request"
    /\ requests' = requests \ {RequestId[Subject(a)]}
    /\ Goto(a, "history")
    /\ UNCHANGED <<closed, invocations, completed, active, invocationVars, outputVars,
                   pending, connected, callerVars, registered>>

\* CompletionHistory::insert
Insert(order, d) ==
    IF \E k \in DOMAIN order : order[k] = d THEN order
    ELSE IF Len(order) >= History THEN Append(Tail(order), d)
    ELSE Append(order, d)

RecordCompletion(a) ==
    /\ pc[a] = "history"
    /\ completed' = Insert(completed, RequestId[Subject(a)])
    /\ Goto(a, "entry")
    /\ UNCHANGED <<closed, requests, invocations, active, invocationVars, outputVars,
                   pending, connected, callerVars, registered>>

\* Where an actor goes once finish_invocation returns.
AfterFinish(a) == IF a \in Handlers THEN "fault" ELSE "done"

RemoveEntry(a) ==
    LET d == RequestId[Subject(a)] IN
    /\ pc[a] = "entry"
    /\ invocations' = [invocations EXCEPT ![d] = None]
    /\ Goto(a, IF invocations[d] = None THEN AfterFinish(a) ELSE "count")
    /\ UNCHANGED <<closed, requests, completed, active, handle, cancelling, outputVars,
                   pending, connected, callerVars, registered>>
    /\ DropUnheld

Uncount(a) ==
    /\ pc[a] = "count"
    /\ active' = active - 1
    /\ Goto(a, AfterFinish(a))
    /\ UNCHANGED <<closed, requests, invocations, completed, handle, cancelling, outputVars,
                   pending, connected, callerVars, registered>>
    /\ DropUnheld

FinishInvocation(a) ==
    FinishRequest(a) \/ RecordCompletion(a) \/ RemoveEntry(a) \/ Uncount(a)

-----------------------------------------------------------------------------
(* The handler of an execution request: route_session, start_invocation.   *)

\* begin_request, under the lifecycle mutex.
BeginRequest(i) ==
    /\ pc[Handler(i)] = "idle"
    /\ IF ~closed /\ RequestId[i] \notin requests
         THEN requests' = requests \cup {RequestId[i]} /\ Goto(Handler(i), "begun")
         ELSE UNCHANGED requests /\ Goto(Handler(i), "faulted")
    /\ UNCHANGED <<closed, invocations, completed, active, invocationVars, outputVars,
                   pending, connected, callerVars, registered>>

\* execution_contract rejects the request, or no permit is left.
Refuse(i) ==
    /\ pc[Handler(i)] = "begun"
    /\ Goto(Handler(i), "fault")
    /\ UNCHANGED <<sessionVars, invocationVars, outputVars, pending, connected,
                   callerVars, registered>>

\* A permit is taken and the task is spawned; it waits for the start signal.
SpawnTask(i) ==
    /\ pc[Handler(i)] = "begun"
    /\ Permits > 0
    /\ pc' = [pc EXCEPT ![Handler(i)] = "acquired", ![Task(i)] = "ready"]
    /\ handle' = [handle EXCEPT ![i] = TRUE]
    /\ UNCHANGED <<sessionVars, aborted, cancelling, outputVars, pending, connected,
                   callerVars, registered>>

\* Mutant: try_add_invocation does not look at closed again.
CanAddToClosed(i) ==
    /\ active < MaxPerSession
    /\ invocations[RequestId[i]] = None

\* The checks of try_add_invocation.
CanAdd(i) ==
    /\ active < MaxPerSession
    /\ ~closed
    /\ invocations[RequestId[i]] = None

\* try_add_invocation succeeds, under the lifecycle mutex.
AddInvocation(i) ==
    /\ pc[Handler(i)] = "acquired"
    /\ CanAdd(i)
    /\ active' = active + 1
    /\ invocations' = [invocations EXCEPT ![RequestId[i]] = i]
    /\ registered' = registered \cup {RequestId[i]}
    /\ Goto(Handler(i), "added")
    /\ UNCHANGED <<closed, requests, completed, invocationVars, outputVars, pending,
                   connected, callerVars>>

\* try_add_invocation fails: abort_silent takes the handle and aborts.
AbortSilent(i) ==
    /\ pc[Handler(i)] = "acquired"
    /\ ~CanAdd(i)
    /\ handle' = [handle EXCEPT ![i] = FALSE]
    /\ aborted' = [aborted EXCEPT ![i] = TRUE]
    /\ Goto(Handler(i), "silencing")
    /\ UNCHANGED <<sessionVars, cancelling, outputVars, pending, connected,
                   callerVars, registered>>

SilentDone(i) ==
    /\ pc[Handler(i)] = "silencing"
    /\ Over(i)
    /\ Goto(Handler(i), "fault")
    /\ UNCHANGED <<sessionVars, invocationVars, outputVars, pending, connected,
                   callerVars, registered>>

\* start.send(()): it fails exactly when the task was dropped before it began.
StartTask(i) ==
    /\ pc[Handler(i)] = "added"
    /\ pc' = IF pc[Task(i)] = "ready"
               THEN [pc EXCEPT ![Handler(i)] = "started", ![Task(i)] = "next"]
               ELSE [pc EXCEPT ![Handler(i)] = "request"]
    /\ UNCHANGED <<sessionVars, handle, cancelling, outputVars, pending, connected,
                   callerVars, registered>>
    /\ DropUnheld

\* The RequestGuard is dropped and the fault is sent.
Fault(i) ==
    /\ pc[Handler(i)] = "fault"
    /\ requests' = requests \ {RequestId[i]}
    /\ Goto(Handler(i), "faulted")
    /\ UNCHANGED <<closed, invocations, completed, active, invocationVars, outputVars,
                   pending, connected, callerVars, registered>>

\* The connection aborts its handlers: a handler dies where it awaits, dropping
\* its RequestGuard and its Arc.
AbortHandler(i) ==
    /\ "abort" \in Faults
    /\ pc[Handler(i)] \in {"silencing", "history"}
    /\ requests' = requests \ {RequestId[i]}
    /\ Goto(Handler(i), "faulted")
    /\ UNCHANGED <<closed, invocations, completed, active, handle, cancelling, outputVars,
                   pending, connected, callerVars, registered>>
    /\ DropUnheld

-----------------------------------------------------------------------------
(* The output of an invocation.                                            *)

\* Mutant: the candidate sequence is not committed.
SendOkUncommitted(i, e) ==
    /\ connected
    /\ ~outClosed[i]
    /\ Accepts(ModeOf[i], sequence[i], e)
    /\ sent' = [sent EXCEPT ![i] = Append(sent[i], e)]
    /\ finished' = [finished EXCEPT ![i] = finished[i] \/ e.kind \in TerminalKinds]
    /\ UNCHANGED <<sequence, outClosed>>

\* InvocationOutput::send_event, the sink took the envelope.
SendOk(i, e) ==
    /\ connected
    /\ ~outClosed[i]
    /\ Accepts(ModeOf[i], sequence[i], e)
    /\ sequence' = [sequence EXCEPT ![i] = Accept(sequence[i], e)]
    /\ sent' = [sent EXCEPT ![i] = Append(sent[i], e)]
    /\ finished' = [finished EXCEPT ![i] = finished[i] \/ IsTerminal(sequence'[i])]
    /\ UNCHANGED outClosed

\* send_event, the sink failed or send_bounded timed out.
SendErr(i) ==
    /\ ~outClosed[i]
    /\ outClosed' = [outClosed EXCEPT ![i] = TRUE]
    /\ finished' = [finished EXCEPT ![i] = TRUE]
    /\ UNCHANGED <<sequence, sent>>

NextEvent(i, kind) == [seq |-> sequence[i].next_sequence, kind |-> kind]

\* InvocationOutput::fail, one send at a time: Started first if nothing was sent.
FailEvent(i, kind) ==
    NextEvent(i, IF sequence[i].next_sequence = 0 THEN "Started" ELSE kind)

\* After "fail" returns the task goes on to finish_task, the output task ends.
AfterFail(a) == IF a \in Tasks THEN "request" ELSE "done"

Fail(a, kind) ==
    LET i == Subject(a) IN
    /\ pc[a] = "fail"
    /\ \/ /\ finished[i]
          /\ Goto(a, AfterFail(a))
          /\ UNCHANGED outputVars
       \/ /\ ~finished[i]
          /\ SendOk(i, FailEvent(i, kind))
          /\ UNCHANGED pc
       \/ /\ ~finished[i]
          /\ SendErr(i)
          /\ Goto(a, AfterFail(a))
    /\ UNCHANGED <<sessionVars, invocationVars, pending, connected, callerVars, registered>>

-----------------------------------------------------------------------------
(* The task: driver.rs inside the select of start_invocation.              *)

GuestKinds == {"Started", "Data", "Progress", "Complete", "Failure"}

\* The guest returns an event that validate_candidate and validate_output let
\* through.  A terminal event is withheld until the guest ends.
GuestEvent(i, kind) ==
    LET e == NextEvent(i, kind) IN
    /\ pc[Task(i)] = "next"
    /\ ~outClosed[i]
    /\ Accepts(ModeOf[i], sequence[i], e)
    /\ kind \in {"Data", "Progress"} => Len(sent[i]) < MaxEvents
    /\ pending' = [pending EXCEPT ![i] = e]
    /\ Goto(Task(i), IF kind \in TerminalKinds THEN "confirm" ELSE "send")
    /\ UNCHANGED <<sessionVars, invocationVars, outputVars, connected, callerVars, registered>>

\* Mutant: the driver's error is not reported to the client.
GuestViolationUnreported(i) ==
    /\ pc[Task(i)] \in {"next", "confirm"}
    /\ pending' = [pending EXCEPT ![i] = NoEvent]
    /\ Goto(Task(i), "request")
    /\ UNCHANGED <<sessionVars, invocationVars, outputVars, connected, callerVars, registered>>

\* The guest traps, ends early, or returns an event that is oversized, does not
\* decode, or breaks the sequence or the output contract; or it goes on after a
\* terminal event.
GuestViolation(i) ==
    /\ pc[Task(i)] \in {"next", "confirm"}
    /\ pending' = [pending EXCEPT ![i] = NoEvent]
    /\ Goto(Task(i), "fail")
    /\ UNCHANGED <<sessionVars, invocationVars, outputVars, connected, callerVars, registered>>

\* The guest confirms the end of its stream.
GuestEnds(i) ==
    /\ pc[Task(i)] = "confirm"
    /\ Goto(Task(i), "send")
    /\ UNCHANGED <<sessionVars, invocationVars, outputVars, pending, connected,
                   callerVars, registered>>

\* send_guest.  After a delivery error drive() returns, and since send_event has
\* set finished, fail() sends nothing.
TaskSend(i) ==
    /\ pc[Task(i)] = "send"
    /\ \/ /\ SendOk(i, pending[i])
          /\ Goto(Task(i), IF pending[i].kind \in TerminalKinds THEN "request" ELSE "next")
       \/ /\ SendErr(i)
          /\ Goto(Task(i), "request")
    /\ pending' = [pending EXCEPT ![i] = NoEvent]
    /\ UNCHANGED <<sessionVars, invocationVars, connected, callerVars, registered>>

\* Mutant: the output is abandoned, but the driver goes on.
AbandonKeepsDriving(i) ==
    /\ pc[Task(i)] \in {"next", "confirm", "send", "fail"}
    /\ ~connected
    /\ outClosed' = [outClosed EXCEPT ![i] = TRUE]
    /\ finished' = [finished EXCEPT ![i] = TRUE]
    /\ UNCHANGED <<sessionVars, pc, invocationVars, sequence, sent, pending, connected,
                   callerVars, registered>>

\* connection.closed() wins the select: the guest is dropped, abandon() runs.
Abandon(i) ==
    /\ pc[Task(i)] \in {"next", "confirm", "send", "fail"}
    /\ ~connected
    /\ outClosed' = [outClosed EXCEPT ![i] = TRUE]
    /\ finished' = [finished EXCEPT ![i] = TRUE]
    /\ pending' = [pending EXCEPT ![i] = NoEvent]
    /\ Goto(Task(i), "request")
    /\ UNCHANGED <<sessionVars, invocationVars, sequence, sent, connected, callerVars,
                   registered>>

\* tokio drops an aborted task at an await.  Until then it may keep running.
Die(i) ==
    /\ aborted[i]
    /\ pc[Task(i)] \in Suspended
    /\ pending' = [pending EXCEPT ![i] = NoEvent]
    /\ Goto(Task(i), "dead")
    /\ UNCHANGED <<sessionVars, invocationVars, outputVars, connected, callerVars, registered>>

-----------------------------------------------------------------------------
(* ActiveInvocation::cancel, one caller at a time behind cancel_gate.      *)

\* Mutant: no cancel_gate.
GateFreeAlways(i) == TRUE

GateFree(i) == \A x \in Callers : pc[Canceller(x, i)] \notin {"join", "reap"}

EnterGate(x, i) ==
    /\ pc[Canceller(x, i)] = "gate"
    /\ GateFree(i)
    /\ handle' = [handle EXCEPT ![i] = FALSE]
    /\ IF finished[i] \/ cancelling[i]
         THEN Goto(Canceller(x, i), "reap") /\ UNCHANGED aborted
         ELSE /\ Goto(Canceller(x, i), "join")
              /\ aborted' = [aborted EXCEPT ![i] = aborted[i] \/ handle[i]]
    /\ UNCHANGED <<sessionVars, cancelling, outputVars, pending, connected, callerVars,
                   registered>>

\* reap_finished_task
Reap(x, i) ==
    /\ pc[Canceller(x, i)] = "reap"
    /\ Over(i)
    /\ Goto(Canceller(x, i), "request")
    /\ disposition' = [disposition EXCEPT ![Canceller(x, i)] = "AlreadyFinished"]
    /\ UNCHANGED <<sessionVars, invocationVars, outputVars, pending, connected,
                   caller, target, answer, knew, registered>>

\* Mutant: the aborted task is not awaited.
JoinAtOnce(x, i) ==
    /\ pc[Canceller(x, i)] = "join"
    /\ IF finished[i]
         THEN /\ Goto(Canceller(x, i), "request")
              /\ disposition' = [disposition EXCEPT ![Canceller(x, i)] = "AlreadyFinished"]
              /\ UNCHANGED cancelling
         ELSE /\ pc' = [pc EXCEPT ![Canceller(x, i)] = "request", ![Output(i)] = "fail"]
              /\ disposition' = [disposition EXCEPT ![Canceller(x, i)] = "Cancelled"]
              /\ cancelling' = [cancelling EXCEPT ![i] = TRUE]
    /\ UNCHANGED <<sessionVars, handle, aborted, outputVars, pending, connected,
                   caller, target, answer, knew, registered>>

\* The aborted task is gone.  Unless it finished first, this caller cancelled it
\* and spawns the task that delivers the terminal event.
Join(x, i) ==
    /\ pc[Canceller(x, i)] = "join"
    /\ Over(i)
    /\ IF finished[i]
         THEN /\ Goto(Canceller(x, i), "request")
              /\ disposition' = [disposition EXCEPT ![Canceller(x, i)] = "AlreadyFinished"]
              /\ UNCHANGED cancelling
         ELSE /\ pc' = [pc EXCEPT ![Canceller(x, i)] = "request", ![Output(i)] = "fail"]
              /\ disposition' = [disposition EXCEPT ![Canceller(x, i)] = "Cancelled"]
              /\ cancelling' = [cancelling EXCEPT ![i] = TRUE]
    /\ UNCHANGED <<sessionVars, handle, aborted, outputVars, pending, connected,
                   caller, target, answer, knew, registered>>

-----------------------------------------------------------------------------
(* The callers.                                                            *)

\* A CancelInvocation request for id d passes begin_request.
BeginCancel(x, d) ==
    /\ caller[x] = "idle"
    /\ ~closed
    /\ requests' = requests \cup {x}
    /\ caller' = [caller EXCEPT ![x] = "looking"]
    /\ target' = [target EXCEPT ![x] = d]
    /\ knew' = [knew EXCEPT ![x] = d \in registered]
    /\ UNCHANGED <<closed, invocations, completed, active, pc, invocationVars, outputVars,
                   pending, connected, answer, disposition, registered>>

\* cancel_one: an active invocation gets a canceller, otherwise the completion
\* history is asked next.
Lookup(x) ==
    LET i == invocations[target[x]] IN
    /\ caller[x] = "looking"
    /\ IF i = None
         THEN caller' = [caller EXCEPT ![x] = "asking"] /\ UNCHANGED pc
         ELSE caller' = [caller EXCEPT ![x] = "waiting"] /\ Goto(Canceller(x, i), "gate")
    /\ UNCHANGED <<sessionVars, invocationVars, outputVars, pending, connected,
                   target, answer, disposition, knew, registered>>

Reply(x, what) ==
    /\ answer' = [answer EXCEPT ![x] = what]
    /\ caller' = [caller EXCEPT ![x] = "answered"]
    /\ requests' = requests \ {x}

\* was_completed
AskHistory(x) ==
    /\ caller[x] = "asking"
    /\ Reply(x, IF \E k \in DOMAIN completed : completed[k] = target[x]
                  THEN "AlreadyFinished" ELSE "NotFound")
    /\ UNCHANGED <<closed, invocations, completed, active, pc, invocationVars, outputVars,
                   pending, connected, target, disposition, knew, registered>>

\* cancel_supervised returns the canceller's disposition.
CancelAnswered(x, i) ==
    /\ caller[x] = "waiting"
    /\ pc[Canceller(x, i)] = "done"
    /\ Reply(x, disposition[Canceller(x, i)])
    /\ UNCHANGED <<closed, invocations, completed, active, pc, invocationVars, outputVars,
                   pending, connected, target, disposition, knew, registered>>

\* A CloseStore request passes begin_request.
BeginClose(x) ==
    /\ caller[x] = "idle"
    /\ ~closed
    /\ requests' = requests \cup {x}
    /\ caller' = [caller EXCEPT ![x] = "closing"]
    /\ UNCHANGED <<closed, invocations, completed, active, pc, invocationVars, outputVars,
                   pending, connected, target, answer, disposition, knew, registered>>

\* Session::close, for a CloseStore request or for close_owner and shutdown,
\* which are not requests of this session.
Close(x) ==
    /\ \/ /\ caller[x] = "closing"
          /\ caller' = [caller EXCEPT ![x] = "sweeping"]
       \/ /\ caller[x] = "idle"
          /\ caller' = [caller EXCEPT ![x] = "ownerSweeping"]
    /\ closed' = TRUE
    /\ answer' = [answer EXCEPT ![x] = IF closed THEN "closedBefore" ELSE "closed"]
    /\ UNCHANGED <<requests, invocations, completed, active, pc, invocationVars, outputVars,
                   pending, connected, target, disposition, knew, registered>>

\* spawn_all_cancellations.  Nothing is added to a closed session, so reading
\* the map at one instant gives every canceller the loop could spawn.
Sweep(x) ==
    /\ caller[x] \in {"sweeping", "ownerSweeping"}
    /\ caller' = [caller EXCEPT ![x] = IF caller[x] = "sweeping" THEN "draining"
                                                                 ELSE "ownerDraining"]
    /\ pc' = [a \in Actors |->
                IF /\ a \in Cancellers
                   /\ a[2] = x
                   /\ invocations[RequestId[Subject(a)]] = Subject(a)
                THEN "gate" ELSE pc[a]]
    /\ UNCHANGED <<sessionVars, invocationVars, outputVars, pending, connected,
                   target, answer, disposition, knew, registered>>

Drained(x) ==
    \A i \in Invocations : pc[Canceller(x, i)] \in {"unborn", "done"}

\* wait_for_cancellations, then the CloseStore response.
CloseAnswered(x) ==
    /\ caller[x] = "draining"
    /\ Drained(x)
    /\ Reply(x, answer[x])
    /\ UNCHANGED <<closed, invocations, completed, active, pc, invocationVars, outputVars,
                   pending, connected, target, disposition, knew, registered>>

\* close_owner and shutdown return when drained, or when shutdown_timeout passes.
OwnerReturns(x) ==
    /\ caller[x] = "ownerDraining"
    /\ caller' = [caller EXCEPT ![x] = "returned"]
    /\ UNCHANGED <<sessionVars, pc, invocationVars, outputVars, pending, connected,
                   target, answer, disposition, knew, registered>>

\* The connection aborts its handlers; the cancellers are detached and go on.
AbortCaller(x) ==
    /\ "abort" \in Faults
    /\ caller[x] \in {"asking", "waiting", "draining"}
    /\ caller' = [caller EXCEPT ![x] = "aborted"]
    /\ requests' = requests \ {x}
    /\ UNCHANGED <<closed, invocations, completed, active, pc, invocationVars, outputVars,
                   pending, connected, target, answer, disposition, knew, registered>>

\* The client goes away: ResponseSink::closed resolves and sends fail.
Disconnect ==
    /\ "disconnect" \in Faults
    /\ connected
    /\ connected' = FALSE
    /\ UNCHANGED <<sessionVars, pc, invocationVars, outputVars, pending, callerVars,
                   registered>>

-----------------------------------------------------------------------------
HandlerStep(i) ==
    \/ Refuse(i) \/ SpawnTask(i) \/ AddInvocation(i) \/ AbortSilent(i)
    \/ SilentDone(i) \/ StartTask(i) \/ Fault(i) \/ FinishInvocation(Handler(i))

TaskStep(i) == Fail(Task(i), "Internal") \/ TaskSend(i) \/ FinishInvocation(Task(i))

CancellerStep(x, i) ==
    EnterGate(x, i) \/ Reap(x, i) \/ Join(x, i) \/ FinishInvocation(Canceller(x, i))

OutputStep(i) == Fail(Output(i), "Cancelled")

CallerStep(x) ==
    \/ Lookup(x) \/ AskHistory(x) \/ Sweep(x) \/ CloseAnswered(x) \/ OwnerReturns(x)
    \/ caller[x] = "closing" /\ Close(x)
    \/ \E i \in Invocations : CancelAnswered(x, i)

GuestStep(i) ==
    \/ \E kind \in GuestKinds : GuestEvent(i, kind)
    \/ GuestViolation(i)
    \/ GuestEnds(i)

ClientStep ==
    \/ \E i \in Invocations : BeginRequest(i) \/ AbortHandler(i)
    \/ \E x \in Callers : \/ \E d \in Ids : BeginCancel(x, d)
                          \/ BeginClose(x)
                          \/ caller[x] = "idle" /\ Close(x)
                          \/ AbortCaller(x)
    \/ Disconnect

Next ==
    \/ ClientStep
    \/ \E i \in Invocations :
         \/ HandlerStep(i) \/ TaskStep(i) \/ GuestStep(i) \/ OutputStep(i)
         \/ Abandon(i) \/ Die(i)
         \/ \E x \in Callers : CancellerStep(x, i)
    \/ \E x \in Callers : CallerStep(x)

Spec == Init /\ [][Next]_vars

\* tokio runs every task that can make progress, and send_bounded bounds every
\* send.  Nothing is assumed of clients or of guests.
Fairness ==
    /\ \A i \in Invocations :
         /\ WF_vars(HandlerStep(i)) /\ WF_vars(TaskStep(i)) /\ WF_vars(OutputStep(i))
         /\ WF_vars(Abandon(i)) /\ WF_vars(Die(i))
         /\ \A x \in Callers : WF_vars(CancellerStep(x, i))
    /\ \A x \in Callers : WF_vars(CallerStep(x))

FairSpec == Spec /\ Fairness

-----------------------------------------------------------------------------
(* Properties                                                              *)

\* Every variable stays in its type.
TypeOK ==
    /\ closed \in BOOLEAN
    /\ requests \subseteq Ids \cup Callers
    /\ invocations \in [Ids -> Invocations \cup {None}]
    /\ \A d \in Ids : invocations[d] # None => RequestId[invocations[d]] = d
    /\ completed \in Seq(Ids)
    /\ active \in Int
    /\ pc \in [Actors -> HandlerPC \cup TaskPC \cup CancellerPC \cup OutputPC]
    /\ \A i \in Invocations : /\ pc[Handler(i)] \in HandlerPC
                              /\ pc[Task(i)] \in TaskPC
                              /\ pc[Output(i)] \in OutputPC
                              /\ \A x \in Callers : pc[Canceller(x, i)] \in CancellerPC
    /\ handle \in [Invocations -> BOOLEAN]
    /\ aborted \in [Invocations -> BOOLEAN]
    /\ cancelling \in [Invocations -> BOOLEAN]
    /\ outClosed \in [Invocations -> BOOLEAN]
    /\ finished \in [Invocations -> BOOLEAN]
    /\ sequence \in [Invocations -> EventSequences]
    /\ sent \in [Invocations -> Seq(Events)]
    /\ pending \in [Invocations -> Events]
    /\ connected \in BOOLEAN
    /\ caller \in [Callers -> {"idle", "looking", "asking", "waiting", "closing", "sweeping",
                               "draining", "ownerSweeping", "ownerDraining", "returned",
                               "answered", "aborted"}]
    /\ target \in [Callers -> Ids \cup {None}]
    /\ answer \in [Callers -> {None, "Cancelled", "AlreadyFinished", "NotFound",
                               "closed", "closedBefore"}]
    /\ disposition \in [Cancellers -> {None, "Cancelled", "AlreadyFinished"}]
    /\ registered \subseteq Ids
    /\ knew \in [Callers -> BOOLEAN]

\* Whatever is aborted, cancelled, closed or disconnected in the middle of a
\* send, the events a client receives for one request form a stream the README
\* allows: consecutive from Started, at most one terminal event and nothing
\* after it (InvocationOutput::send_event commits the sequence it enqueued).
StreamsLegal == \A i \in Invocations : LegalStream(ModeOf[i], sent[i])

\* "Cancellation aborts the owning execution task before serializing its
\* terminal output" (semantic-store/README.md): when the task that sends the
\* Cancelled event exists, the guest's task is gone.
Handover == \A i \in Invocations : pc[Output(i)] # "unborn" => Over(i)

\* An answer of CancelInvocation is true: at most one caller is told Cancelled,
\* and then no terminal event of the guest's or the driver's was or will be
\* delivered; AlreadyFinished means that a terminal event went out, delivery
\* failed, or another caller cancelled.
DispositionsHonest ==
    \A x \in Callers, i \in Invocations :
      /\ disposition[Canceller(x, i)] = "Cancelled" =>
           /\ \A k \in DOMAIN sent[i] : sent[i][k].kind \notin {"Complete", "Failure", "Internal"}
           /\ \A y \in Callers : disposition[Canceller(y, i)] = "Cancelled" => y = x
      /\ disposition[Canceller(x, i)] = "AlreadyFinished" => finished[i] \/ cancelling[i]

\* The event the driver validated is still acceptable when it gets to send it,
\* although it gave the output lock back in between (driver.rs validates, runs
\* the output contract, awaits the guest's end of stream, and locks again).
ValidatedStaysValid ==
    \A i \in Invocations :
      pc[Task(i)] \in {"confirm", "send"} =>
        ~outClosed[i] /\ ~finished[i] /\ Accepts(ModeOf[i], sequence[i], pending[i])

Registered == {d \in Ids : invocations[d] # None}
Uncounted == {a \in Finishers : pc[a] = "count"}

\* active_invocations counts the entries of the map plus the removals that have
\* not been subtracted yet, so the AtomicUsize never wraps below zero and never
\* exceeds the session's limit, although finish_invocation runs twice or more
\* for one invocation and takes no lock.
CounterExact ==
    /\ active = Cardinality(Registered) + Cardinality(Uncounted)
    /\ active <= MaxPerSession

\* A task that may still run guest code is reachable: somebody holds its
\* ActiveInvocation, or it was aborted already.  No interleaving of add, finish,
\* cancel and close leaves a guest running that nothing can stop.
NoOrphanTask ==
    \A i \in Invocations :
      /\ pc[Task(i)] \in {"ready", "next", "confirm", "send", "fail"}
      /\ ~aborted[i]
      /\ ~finished[i]
      => Held(i)

\* Once CloseStore is acknowledged no guest of the session runs any more, also
\* one whose request raced the close.
CloseQuiesces ==
    FreshIds =>
      \A x \in Callers :
        caller[x] = "answered" /\ answer[x] \in {"closed", "closedBefore"} =>
          \A i \in Invocations : pc[Task(i)] \notin {"next", "confirm", "send", "fail"}

\* A cancel request for an id that was registered before is answered NotFound
\* only when the completion history has overflowed: finish_invocation records
\* the completion before it removes the entry.
NotFoundHonest ==
    \A x \in Callers : answer[x] = "NotFound" /\ knew[x] => Len(completed) = History

\* After close the session gives everything back: every task ends, every
\* ActiveInvocation with its global permit is dropped and stays so.
CloseDrains ==
    closed ~> [](\A i \in Invocations : pc[Task(i)] \in {"unborn", "done", "dead"} /\ ~Held(i))

\* A cancel request is answered, unless its own handler is aborted.
CancelAnswers ==
    \A x \in Callers : caller[x] = "looking" ~> caller[x] \in {"answered", "aborted"}

\* An invocation that was started never ends in silence: once its task is over,
\* however it ended, a terminal event is delivered or delivery failed.  A second
\* request with its id excuses it: a late finish_invocation of the earlier one
\* removes the new entry and drops its ActiveInvocation.
NoSilentEnd ==
    \A i \in Invocations :
      pc[Handler(i)] = "started" /\ Over(i) ~>
        \/ finished[i]
        \/ \E j \in Invocations \ {i} : RequestId[j] = RequestId[i] /\ pc[Handler(j)] # "idle"

\* Without any close, a lost connection stops every guest and frees its permit.
DisconnectDrains ==
    \A i \in Invocations : ~connected /\ pc[Task(i)] # "unborn" ~> Over(i) /\ ~Held(i)

\* The session's table, its counter and its tasks agree.
TableSound == TypeOK /\ CloseQuiesces /\ NotFoundHonest /\ CounterExact /\ NoOrphanTask

\* What was asked to end ends, and what was asked is answered.
SessionDrains == NoSilentEnd /\ DisconnectDrains /\ CloseDrains /\ CancelAnswers

-----------------------------------------------------------------------------
(* What makes the properties above inductive: the life of one invocation,  *)
(* told by the program counters of its actors.                             *)

Running == {"ready", "next", "confirm", "send"}

\* The task is spawned once, by a handler past "begun".
SpawnedOnce ==
    \A i \in Invocations :
      pc[Handler(i)] \in {"idle", "begun"} => pc[Task(i)] = "unborn"

\* Before the task reports an outcome nothing of it has been decided.
Undecided ==
    \A i \in Invocations :
      /\ outClosed[i] => finished[i]
      /\ pc[Task(i)] \in {"unborn"} \cup Running => ~finished[i]
      /\ sequence[i].state = "Terminal" => finished[i]

\* A cancelled invocation's task is over, and only then the output task exists.
CancelledIsOver ==
    \A i \in Invocations :
      /\ cancelling[i] => Over(i)
      /\ pc[Output(i)] # "unborn" => cancelling[i]

\* cancel_gate: one canceller past the gate, and it knows why it is there.
Gate ==
    \A i \in Invocations : \A x \in Callers :
      /\ pc[Canceller(x, i)] \in {"join", "reap"} =>
           \A y \in Callers : pc[Canceller(y, i)] \in {"join", "reap"} => y = x
      /\ pc[Canceller(x, i)] = "join" => ~cancelling[i]
      /\ pc[Canceller(x, i)] = "reap" => finished[i] \/ cancelling[i]

\* What the cancellers report, tied to cancellation_started and to the stream.
Reported ==
    \A i \in Invocations :
      /\ cancelling[i] => \A k \in DOMAIN sent[i] :
                            sent[i][k].kind \notin {"Complete", "Failure", "Internal"}
      /\ \A x \in Callers : disposition[Canceller(x, i)] = "Cancelled" =>
           /\ cancelling[i]
           /\ pc[Canceller(x, i)] \in Finishing \cup {"done"}
           /\ \A y \in Callers : disposition[Canceller(y, i)] = "Cancelled" => y = x
      /\ \A x \in Callers : disposition[Canceller(x, i)] = "AlreadyFinished" =>
           finished[i] \/ cancelling[i]

\* A validated event waits only while the driver is about to send it.
PendingValid ==
    \A i \in Invocations :
      pc[Task(i)] \in {"confirm", "send"} => Accepts(ModeOf[i], sequence[i], pending[i])

\* A cancel request that looks for an invocation names an id, and no canceller
\* of a caller exists before that caller looked or swept.
CallerReady ==
    \A x \in Callers :
      /\ caller[x] = "looking" => target[x] \in Ids
      /\ caller[x] \in {"idle", "looking", "closing", "sweeping", "ownerSweeping"} =>
           \A i \in Invocations : pc[Canceller(x, i)] = "unborn"

Lifecycle ==
    /\ SpawnedOnce /\ Undecided /\ CancelledIsOver /\ Gate /\ Reported
    /\ PendingValid /\ CallerReady

=============================================================================
