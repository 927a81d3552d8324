------------------------------ MODULE StoreHost ------------------------------
(***************************************************************************)
(* The Semantic Store host: the transport's connection drivers             *)
(* (store-transport/src/connection.rs, cleanup.rs, writer_task.rs,         *)
(* server.rs), the session table of the runtime they share                 *)
(* (store-runtime/src/runtime.rs, runtime/open.rs, rollback.rs,            *)
(* runtime/session_routes.rs) and the host that shuts both down            *)
(* (store-host/src/lib.rs, transport_adapter.rs).                          *)
(*                                                                         *)
(* What happens inside one session is StoreSession's subject.  Here a      *)
(* session is its place in the table and its closed flag, and an           *)
(* invocation is a guest that runs until it ends, is cancelled, or loses   *)
(* its sink.                                                               *)
(*                                                                         *)
(* A request is an OpenStore, whose session is named after it, or an       *)
(* execution ("call") or CloseStore ("close") of some open session.  Its   *)
(* handler is a task of the connection's JoinSet.                          *)
(***************************************************************************)
EXTENDS Naturals, FiniteSets

CONSTANTS
    Connections,     \* the connections clients make
    Requests,        \* the requests clients send
    ConnOf,          \* the connection each request arrives on
    KindOf,          \* "open", "call" or "close"
    None,
    MaxSessions,     \* RuntimeConfig::max_sessions
    MaxInFlight,     \* TransportConfig::max_in_flight
    MaxConnections,  \* TransportConfig::max_connections
    Faults           \* bound: the faults a run explores

ASSUME HostAssumption ==
    /\ IsFiniteSet(Connections) /\ IsFiniteSet(Requests)
    /\ ConnOf \in [Requests -> Connections]
    /\ KindOf \in [Requests -> {"open", "call", "close"}]
    /\ None \notin Requests \cup Connections
    /\ MaxSessions \in Nat \ {0}
    /\ MaxInFlight \in Nat \ {0}
    /\ MaxConnections \in Nat \ {0}
    /\ Faults \subseteq {"cancel", "listener", "read", "writer", "timeout"}

Opens == {r \in Requests : KindOf[r] = "open"}
Calls == {r \in Requests : KindOf[r] = "call"}
Closes == {r \in Requests : KindOf[r] = "close"}

VARIABLES
    token,         \* the shutdown token given to StoreHost::serve
    listenerDown,  \* serve_local broke on an accept error
    host,          \* StoreHost::serve
    shut,          \* SemanticStoreRuntime::shutdown, when serve is inside it
    collected,     \* the sessions that shutdown or a close_owner collected
    shuttingDown, sessions, closed,     \* the runtime
    guest,         \* the guest of each execution request
    pc, aborted,   \* the handler of each request
    target,        \* the session a request names or an OpenStoreResponse tells
    driver, end, writer, cleanup        \* connections

hostVars == <<token, listenerDown, host, shut>>
runtimeVars == <<shuttingDown, sessions, closed>>
handlerVars == <<pc, aborted, target>>
connVars == <<driver, end, writer, cleanup>>
vars == <<hostVars, collected, runtimeVars, guest, handlerVars, connVars>>

-----------------------------------------------------------------------------
Over == {"ok", "err", "dead", "joined"}
Live(r) == pc[r] \notin Over \cup {"unsent"}
InFlight(c) == {r \in Requests : ConnOf[r] = c /\ pc[r] \notin {"unsent", "joined"}}
Owned(c) == {s \in Opens : ConnOf[s] = c}

\* The sessions an OpenStoreResponse told of.
Told == {s \in Opens : target[s] = s}

\* The token every connection watches is a child of the host's.
Stop == token \/ listenerDown

Running(c) == driver[c] \notin {"listening", "ended", "cancelled"}

Goto(r, to) == pc' = [pc EXCEPT ![r] = to]

Init ==
    /\ token = FALSE /\ listenerDown = FALSE
    /\ host = "serving" /\ shut = "idle"
    /\ collected = [c \in Connections \cup {None} |-> {}]
    /\ shuttingDown = FALSE
    /\ sessions = {}
    /\ closed = [s \in Opens |-> FALSE]
    /\ guest = [r \in Calls |-> "none"]
    /\ pc = [r \in Requests |-> "unsent"]
    /\ aborted = [r \in Requests |-> FALSE]
    /\ target = [r \in Requests |-> None]
    /\ driver = [c \in Connections |-> "listening"]
    /\ end = [c \in Connections |-> None]
    /\ writer = [c \in Connections |-> "none"]
    /\ cleanup = [c \in Connections |-> "none"]

-----------------------------------------------------------------------------
(* SemanticStoreRuntime::open_store                                        *)

\* Everything before the gate: a refusal sends a fault.
OpenCheck(r) ==
    /\ KindOf[r] = "open" /\ pc[r] = "new"
    /\ Goto(r, "fault") \/ (~shuttingDown /\ Goto(r, "gate"))
    /\ UNCHANGED <<hostVars, collected, runtimeVars, guest, aborted, target, connVars>>

CanOpen == ~shuttingDown /\ Cardinality(sessions) < MaxSessions

\* Under session_gate.  What runs beside it without the gate only removes.
OpenInsert(r) ==
    /\ pc[r] = "gate"
    /\ IF CanOpen THEN sessions' = sessions \cup {r} /\ Goto(r, "sending")
                  ELSE UNCHANGED sessions /\ Goto(r, "fault")
    /\ UNCHANGED <<hostVars, collected, shuttingDown, closed, guest, aborted, target, connVars>>

\* The response was enqueued; the rollback is disarmed.
OpenAnswered(r) ==
    /\ pc[r] = "sending"
    /\ writer[ConnOf[r]] = "running"
    /\ target' = [target EXCEPT ![r] = r]
    /\ Goto(r, "ok")
    /\ UNCHANGED <<hostVars, collected, runtimeVars, guest, aborted, connVars>>

\* The Rollback guard runs.
RollBack(s) ==
    /\ closed' = [closed EXCEPT ![s] = TRUE]
    /\ sessions' = sessions \ {s}

\* The sink failed or send_bounded timed out.
OpenUnanswered(r) ==
    /\ pc[r] = "sending"
    /\ writer[ConnOf[r]] = "running" => "timeout" \in Faults
    /\ RollBack(r)
    /\ Goto(r, "err")
    /\ UNCHANGED <<hostVars, collected, shuttingDown, guest, aborted, target, connVars>>

-----------------------------------------------------------------------------
(* SemanticStoreRuntime::route_session                                     *)

\* The session must be in the table and belong to this connection.
FindSession(r) ==
    LET s == target[r] IN
    /\ KindOf[r] # "open" /\ pc[r] = "new"
    /\ Goto(r, IF s \in sessions /\ ConnOf[s] = ConnOf[r] THEN "found" ELSE "fault")
    /\ UNCHANGED <<hostVars, collected, runtimeVars, guest, aborted, target, connVars>>

\* begin_request and try_add_invocation refuse a closed session; a limit or a
\* contract may refuse an open one.
StartGuest(r) ==
    /\ KindOf[r] = "call" /\ pc[r] = "found"
    /\ \/ /\ ~closed[target[r]]
          /\ guest' = [guest EXCEPT ![r] = "running"]
          /\ Goto(r, "ok")
       \/ UNCHANGED guest /\ Goto(r, "fault")
    /\ UNCHANGED <<hostVars, collected, runtimeVars, aborted, target, connVars>>

\* CloseStore: begin_request, and then, with nothing held, close and remove.
BeginClose(r) ==
    /\ KindOf[r] = "close" /\ pc[r] = "found"
    /\ Goto(r, "fault") \/ (~closed[target[r]] /\ Goto(r, "close"))
    /\ UNCHANGED <<hostVars, collected, runtimeVars, guest, aborted, target, connVars>>

CloseSession(r) ==
    /\ pc[r] = "close"
    /\ closed' = [closed EXCEPT ![target[r]] = TRUE]
    /\ Goto(r, "remove")
    /\ UNCHANGED <<hostVars, collected, shuttingDown, sessions, guest, aborted, target, connVars>>

RemoveSession(r) ==
    /\ pc[r] = "remove"
    /\ sessions' = sessions \ {target[r]}
    /\ Goto(r, "sweep")
    /\ UNCHANGED <<hostVars, collected, shuttingDown, closed, guest, aborted, target, connVars>>

\* spawn_all_cancellations for a set of sessions.
CancelGuests(S) ==
    guest' = [r \in Calls |-> IF guest[r] = "running" /\ target[r] \in S
                                THEN "cancelling" ELSE guest[r]]

Cancelled(S) == \A r \in Calls : target[r] \in S => guest[r] # "cancelling"

SweepSession(r) ==
    /\ pc[r] = "sweep"
    /\ CancelGuests({target[r]})
    /\ Goto(r, "waiting")
    /\ UNCHANGED <<hostVars, collected, runtimeVars, aborted, target, connVars>>

SessionSwept(r) ==
    /\ pc[r] = "waiting"
    /\ Cancelled({target[r]})
    /\ Goto(r, "reply")
    /\ UNCHANGED <<hostVars, collected, runtimeVars, guest, aborted, target, connVars>>

\* A response or a fault is delivered, or its delivery fails.
Answer(r) ==
    /\ pc[r] \in {"reply", "fault"}
    /\ \/ writer[ConnOf[r]] = "running" /\ Goto(r, "ok")
       \/ (writer[ConnOf[r]] = "running" => "timeout" \in Faults) /\ Goto(r, "err")
    /\ UNCHANGED <<hostVars, collected, runtimeVars, guest, aborted, target, connVars>>

\* tokio drops an aborted handler where it awaits, with its Rollback guard.  A
\* handler that is being polled goes on until it awaits.
Die(r) ==
    /\ aborted[r]
    /\ pc[r] \in {"new", "gate", "sending", "waiting", "reply", "fault"}
    /\ Goto(r, "dead")
    /\ IF pc[r] = "sending" THEN RollBack(r) ELSE UNCHANGED <<sessions, closed>>
    /\ UNCHANGED <<hostVars, collected, shuttingDown, guest, aborted, target, connVars>>

HandlerStep(r) ==
    \/ OpenCheck(r) \/ OpenInsert(r) \/ OpenAnswered(r) \/ OpenUnanswered(r)
    \/ FindSession(r) \/ StartGuest(r) \/ BeginClose(r) \/ CloseSession(r)
    \/ RemoveSession(r) \/ SweepSession(r) \/ SessionSwept(r) \/ Answer(r)

-----------------------------------------------------------------------------
(* Guests.  They hold the connection's sink.                               *)

GuestEnds(r) ==
    /\ guest[r] = "running"
    /\ guest' = [guest EXCEPT ![r] = "stopped"]
    /\ UNCHANGED <<hostVars, collected, runtimeVars, handlerVars, connVars>>

\* The canceller has joined the guest's task, or the sink reports closed.
GuestStops(r) ==
    /\ \/ guest[r] = "cancelling"
       \/ guest[r] = "running" /\ writer[ConnOf[r]] # "running"
    /\ guest' = [guest EXCEPT ![r] = "stopped"]
    /\ UNCHANGED <<hostVars, collected, runtimeVars, handlerVars, connVars>>

-----------------------------------------------------------------------------
(* run_connection                                                          *)

Accept(c) ==
    /\ driver[c] = "listening"
    /\ ~Stop /\ host = "serving"
    /\ Cardinality({d \in Connections : Running(d)}) < MaxConnections
    /\ driver' = [driver EXCEPT ![c] = "loop"]
    /\ writer' = [writer EXCEPT ![c] = "running"]
    /\ cleanup' = [cleanup EXCEPT ![c] = "armed"]
    /\ UNCHANGED <<hostVars, collected, runtimeVars, guest, handlerVars, end>>

\* An envelope is read and its handler spawned.  A client can only name a
\* session that some OpenStoreResponse told it.
Read(c, r, s) ==
    /\ driver[c] = "loop"
    /\ ConnOf[r] = c /\ pc[r] = "unsent"
    /\ Cardinality(InFlight(c)) < MaxInFlight
    /\ IF KindOf[r] = "open" THEN s = None ELSE s \in Told
    /\ target' = [target EXCEPT ![r] = s]
    /\ Goto(r, "new")
    /\ UNCHANGED <<hostVars, collected, runtimeVars, guest, aborted, connVars>>

AbortAll(c) == aborted' = [r \in Requests |-> aborted[r] \/ (r \in InFlight(c) /\ Live(r))]

\* The loop breaks cleanly, and the handlers drain.
Break(c, why) ==
    /\ driver[c] = "loop"
    /\ driver' = [driver EXCEPT ![c] = "draining"]
    /\ end' = [end EXCEPT ![c] = why]
    /\ UNCHANGED <<hostVars, collected, runtimeVars, guest, handlerVars, writer, cleanup>>

PeerCloses(c) == Break(c, "PeerClosed")

\* Mutant: serve_local does not cancel its connections when the listener fails.
SeesOnlyToken(c) == token /\ Break(c, "Shutdown")

SeesShutdown(c) == Stop /\ Break(c, "Shutdown")

\* The connection fails: the handlers that are left are aborted.
Broken(c) ==
    /\ driver' = [driver EXCEPT ![c] = "joining"]
    /\ end' = [end EXCEPT ![c] = "Error"]
    /\ AbortAll(c)

\* The client sends a frame that is too large, malformed or late.
ReadFails(c) ==
    /\ "read" \in Faults
    /\ driver[c] = "loop"
    /\ Broken(c)
    /\ UNCHANGED <<hostVars, collected, runtimeVars, guest, pc, target, writer, cleanup>>

\* The writer has stopped, or the drain takes longer than its timeout.
Fail(c) ==
    /\ \/ driver[c] = "loop" /\ writer[c] = "stopped"
       \/ /\ driver[c] = "draining" /\ InFlight(c) # {}
          /\ writer[c] = "stopped" \/ "timeout" \in Faults
    /\ Broken(c)
    /\ UNCHANGED <<hostVars, collected, runtimeVars, guest, pc, target, writer, cleanup>>

\* join_next.  In the loop and in the drain a failed handler fails the connection.
JoinNext(c, r) ==
    /\ driver[c] \in {"loop", "draining", "joining"}
    /\ ConnOf[r] = c /\ pc[r] \in Over \ {"joined"}
    /\ Goto(r, "joined")
    /\ IF driver[c] # "joining" /\ pc[r] # "ok"
         THEN Broken(c)
         ELSE UNCHANGED <<driver, end, aborted>>
    /\ UNCHANGED <<hostVars, collected, runtimeVars, guest, target, writer, cleanup>>

\* All handlers are joined: the writer is told to shut down.
StopWriter(c) ==
    /\ driver[c] \in {"draining", "joining"}
    /\ InFlight(c) = {}
    /\ driver' = [driver EXCEPT ![c] = "flushing"]
    /\ UNCHANGED <<hostVars, collected, runtimeVars, guest, handlerVars, end, writer, cleanup>>

\* The writer task is joined and the cleanup task spawned.
SpawnCleanup(c) ==
    /\ driver[c] = "flushing"
    /\ writer[c] = "stopped"
    /\ driver' = [driver EXCEPT ![c] = "cleaning"]
    /\ cleanup' = [cleanup EXCEPT ![c] = "spawned"]
    /\ UNCHANGED <<hostVars, collected, runtimeVars, guest, handlerVars, end, writer>>

EndConnection(c) ==
    /\ driver[c] = "cleaning"
    /\ cleanup[c] = "done"
    /\ driver' = [driver EXCEPT ![c] = "ended"]
    /\ UNCHANGED <<hostVars, collected, runtimeVars, guest, handlerVars, end, writer, cleanup>>

\* The future of serve is dropped, and every driver with it.  A driver's JoinSet
\* aborts its handlers and awaits none, its writer is detached, and
\* ConnectionCleanup::drop spawns the cleanup unless the driver did.
CancelServe ==
    LET gone == {c \in Connections : Running(c)} IN
    /\ "cancel" \in Faults
    /\ host \notin {"stopped", "dropped"}
    /\ host' = "dropped" /\ shut' = "idle"
    /\ driver' = [c \in Connections |-> IF c \in gone THEN "cancelled" ELSE driver[c]]
    /\ cleanup' = [c \in Connections |->
                    IF c \in gone /\ cleanup[c] = "armed" THEN "spawned" ELSE cleanup[c]]
    /\ writer' = [c \in Connections |->
                    IF driver[c] = "flushing" /\ writer[c] = "running" THEN "draining" ELSE writer[c]]
    /\ aborted' = [r \in Requests |-> aborted[r] \/ (ConnOf[r] \in gone /\ Live(r))]
    /\ UNCHANGED <<token, listenerDown, collected, runtimeVars, guest, pc, target, end>>

-----------------------------------------------------------------------------
(* writer_task::run                                                        *)

\* Who holds an EnvelopeSender, apart from the driver.
Senders(c) == {r \in Requests : /\ ConnOf[r] = c
                                /\ Live(r) \/ (r \in Calls /\ guest[r] \in {"running", "cancelling"})}

\* Told to shut down, it closes the channel and drains it.
WriterDrains(c) ==
    /\ writer[c] = "running" /\ driver[c] = "flushing"
    /\ writer' = [writer EXCEPT ![c] = "draining"]
    /\ UNCHANGED <<hostVars, collected, runtimeVars, guest, handlerVars, driver, end, cleanup>>

\* It ends when the channel is drained; a detached one, when the last sender is gone.
WriterStops(c) ==
    /\ \/ writer[c] = "draining"
       \/ writer[c] = "running" /\ driver[c] = "cancelled" /\ Senders(c) = {}
    /\ writer' = [writer EXCEPT ![c] = "stopped"]
    /\ UNCHANGED <<hostVars, collected, runtimeVars, guest, handlerVars, driver, end, cleanup>>

\* A write fails or times out.
WriterFails(c) ==
    /\ "writer" \in Faults
    /\ writer[c] = "running"
    /\ writer' = [writer EXCEPT ![c] = "stopped"]
    /\ UNCHANGED <<hostVars, collected, runtimeVars, guest, handlerVars, driver, end, cleanup>>

-----------------------------------------------------------------------------
(* ConnectionCleanup -> RuntimeHandler::connection_closed -> close_owner    *)

\* Mutant: the sessions are closed but stay in the table.
CloseOwnerKeeps(c) ==
    LET mine == sessions \cap Owned(c) IN
    /\ cleanup[c] = "spawned"
    /\ closed' = [s \in Opens |-> closed[s] \/ s \in mine]
    /\ collected' = [collected EXCEPT ![c] = mine]
    /\ cleanup' = [cleanup EXCEPT ![c] = "swept"]
    /\ UNCHANGED <<hostVars, shuttingDown, sessions, guest, handlerVars, driver, end, writer>>

\* Under session_gate: every session of the owner is closed and removed.
CloseOwner(c) ==
    LET mine == sessions \cap Owned(c) IN
    /\ cleanup[c] = "spawned"
    /\ closed' = [s \in Opens |-> closed[s] \/ s \in mine]
    /\ sessions' = sessions \ mine
    /\ collected' = [collected EXCEPT ![c] = mine]
    /\ cleanup' = [cleanup EXCEPT ![c] = "swept"]
    /\ UNCHANGED <<hostVars, shuttingDown, guest, handlerVars, driver, end, writer>>

CancelOwned(c) ==
    /\ cleanup[c] = "swept"
    /\ CancelGuests(collected[c])
    /\ cleanup' = [cleanup EXCEPT ![c] = "waiting"]
    /\ UNCHANGED <<hostVars, collected, runtimeVars, handlerVars, driver, end, writer>>

\* All cancellations answered, or shutdown_timeout passed.
OwnerClosed(c) ==
    /\ cleanup[c] = "waiting"
    /\ Cancelled(collected[c]) \/ "timeout" \in Faults
    /\ cleanup' = [cleanup EXCEPT ![c] = "done"]
    /\ UNCHANGED <<hostVars, collected, runtimeVars, guest, handlerVars, driver, end, writer>>

-----------------------------------------------------------------------------
(* StoreHost::serve and SemanticStoreRuntime::shutdown                      *)

RequestShutdown ==
    /\ ~token
    /\ token' = TRUE
    /\ UNCHANGED <<listenerDown, host, shut, collected, runtimeVars, guest, handlerVars, connVars>>

\* listener.accept() fails: serve_local cancels its connections.
ListenerFails ==
    /\ "listener" \in Faults /\ ~Stop
    /\ listenerDown' = TRUE
    /\ UNCHANGED <<token, host, shut, collected, runtimeVars, guest, handlerVars, connVars>>

ServerDone == Stop /\ \A c \in Connections : ~Running(c)

\* serve's select: the token first shuts the runtime down and then waits for the
\* server; either way a last shutdown follows.
Serve ==
    /\ \/ host = "serving" /\ token /\ host' = "first" /\ shut' = "collect"
       \/ host \in {"serving", "awaiting"} /\ ServerDone /\ host' = "final" /\ shut' = "collect"
       \/ host = "first" /\ shut = "returned" /\ host' = "awaiting" /\ shut' = "idle"
       \/ host = "final" /\ shut = "returned" /\ host' = "stopped" /\ shut' = "idle"
    /\ UNCHANGED <<token, listenerDown, collected, runtimeVars, guest, handlerVars, connVars>>

\* Under session_gate.
Collect ==
    /\ shut = "collect"
    /\ shuttingDown' = TRUE
    /\ collected' = [collected EXCEPT ![None] = sessions]
    /\ shut' = "close"
    /\ UNCHANGED <<token, listenerDown, host, sessions, closed, guest, handlerVars, connVars>>

CloseCollected ==
    /\ shut = "close"
    /\ closed' = [s \in Opens |-> closed[s] \/ s \in collected[None]]
    /\ shut' = "sweep"
    /\ UNCHANGED <<token, listenerDown, host, collected, shuttingDown, sessions, guest,
                   handlerVars, connVars>>

CancelCollected ==
    /\ shut = "sweep"
    /\ CancelGuests(collected[None])
    /\ shut' = "waiting"
    /\ UNCHANGED <<token, listenerDown, host, collected, runtimeVars, handlerVars, connVars>>

RemoveCollected ==
    /\ shut = "waiting"
    /\ Cancelled(collected[None]) \/ "timeout" \in Faults
    /\ sessions' = sessions \ collected[None]
    /\ shut' = "returned"
    /\ UNCHANGED <<token, listenerDown, host, collected, shuttingDown, closed, guest,
                   handlerVars, connVars>>

Shutdown == Collect \/ CloseCollected \/ CancelCollected \/ RemoveCollected

-----------------------------------------------------------------------------
DriverStep(c) ==
    \/ SeesShutdown(c) \/ Fail(c) \/ StopWriter(c) \/ SpawnCleanup(c) \/ EndConnection(c)
    \/ \E r \in Requests : JoinNext(c, r)

WriterStep(c) == WriterDrains(c) \/ WriterStops(c)

CleanupStep(c) == CloseOwner(c) \/ CancelOwned(c) \/ OwnerClosed(c)

ClientStep ==
    \/ \E c \in Connections : Accept(c) \/ \E r \in Requests, s \in Opens \cup {None} : Read(c, r, s)
    \/ \E c \in Connections : PeerCloses(c) \/ ReadFails(c) \/ WriterFails(c)
    \/ \E r \in Calls : GuestEnds(r)
    \/ RequestShutdown
    \/ ListenerFails
    \/ CancelServe

Next ==
    \/ ClientStep
    \/ \E r \in Requests : HandlerStep(r) \/ Die(r)
    \/ \E r \in Calls : GuestStops(r)
    \/ \E c \in Connections : DriverStep(c) \/ WriterStep(c) \/ CleanupStep(c)
    \/ Serve \/ Shutdown

Spec == Init /\ [][Next]_vars

\* tokio runs every task that can make progress, every send, write and drain is
\* bounded by a timeout, and a cancelled token is noticed.  Nothing is assumed
\* of clients or of guests.
Fairness ==
    /\ \A r \in Requests : WF_vars(HandlerStep(r)) /\ WF_vars(Die(r))
    /\ \A r \in Calls : WF_vars(GuestStops(r))
    /\ \A c \in Connections : /\ WF_vars(DriverStep(c)) /\ WF_vars(WriterStep(c))
                              /\ WF_vars(CleanupStep(c))
    /\ WF_vars(Serve) /\ WF_vars(Shutdown)

FairSpec == Spec /\ Fairness

-----------------------------------------------------------------------------
(* Properties                                                              *)

\* The states of the tasks, the table and the connections; the table keeps to
\* its limit although requests on every connection insert (open_store's gate).
TypeOK ==
    /\ token \in BOOLEAN /\ listenerDown \in BOOLEAN /\ shuttingDown \in BOOLEAN
    /\ host \in {"serving", "first", "awaiting", "final", "stopped", "dropped"}
    /\ shut \in {"idle", "collect", "close", "sweep", "waiting", "returned"}
    /\ collected \in [Connections \cup {None} -> SUBSET Opens]
    /\ sessions \subseteq Opens /\ Cardinality(sessions) <= MaxSessions
    /\ closed \in [Opens -> BOOLEAN]
    /\ guest \in [Calls -> {"none", "running", "cancelling", "stopped"}]
    /\ pc \in [Requests -> {"unsent", "new", "gate", "sending", "fault", "found", "close",
                            "remove", "sweep", "waiting", "reply"} \cup Over]
    /\ aborted \in [Requests -> BOOLEAN]
    /\ target \in [Requests -> Opens \cup {None}]
    /\ driver \in [Connections -> {"listening", "loop", "draining", "joining", "flushing",
                                   "cleaning", "ended", "cancelled"}]
    /\ end \in [Connections -> {None, "PeerClosed", "Shutdown", "Error"}]
    /\ writer \in [Connections -> {"none", "running", "draining", "stopped"}]
    /\ cleanup \in [Connections -> {"none", "armed", "spawned", "swept", "waiting", "done"}]

\* "Sessions are owned by the connection that opened them": when the cleanup of
\* a connection is over, none of its sessions is left in the table and no guest
\* runs in one of them, although opening, calling and closing all raced with
\* the connection's end (close_owner after the handlers were joined).  When the
\* future of serve is dropped, its handlers are joined by nobody.
OwnerReleased ==
    \A c \in Connections : cleanup[c] = "done" /\ driver[c] # "cancelled" =>
      /\ sessions \cap Owned(c) = {}
      /\ \A r \in Calls : ConnOf[r] = c => guest[r] # "running"

\* Handler::connection_closed: "Runs once after a connection can no longer
\* dispatch or deliver frames" (store-transport/src/connection/outbound.rs).  A
\* dropped serve future is the exception: ConnectionCleanup::drop waits for no one.
CleanupIsLast ==
    \A c \in Connections : cleanup[c] \in {"swept", "waiting", "done"} /\ driver[c] # "cancelled" =>
      /\ writer[c] = "stopped" \/ Senders(c) = {}
      /\ \A r \in Requests : ConnOf[r] = c => ~Live(r)

\* Whoever takes a session out of the table cancels its guests: a guest whose
\* session is gone will be cancelled by somebody already on the way.  The
\* rollback of open_store, which cancels nothing, never strands one.
SweepPending(s) ==
    \/ \E r \in Closes : target[r] = s /\ pc[r] \in {"remove", "sweep"}
    \/ \E c \in Connections : s \in collected[c] /\ cleanup[c] = "swept"
    \/ s \in collected[None] /\ shut \in {"close", "sweep"}

NoStrandedGuest ==
    \A r \in Calls : guest[r] = "running" => target[r] \in sessions \/ SweepPending(target[r])

\* A session its client was told of stays usable while its connection is
\* served, until this client asks to close it or the runtime shuts down: no
\* other connection's end, failed open or CloseStore takes it away.
SessionsSurvive ==
    \A s \in Told :
      \/ s \in sessions /\ ~closed[s]
      \/ shuttingDown
      \/ driver[ConnOf[s]] # "loop"
      \/ \E r \in Closes : target[r] = s /\ ConnOf[r] = ConnOf[s]

\* A requested shutdown, or the one a listener failure starts, completes
\* whatever clients and guests do.
ShutdownCompletes == Stop ~> host \in {"stopped", "dropped"}

\* A connection that stops being served is cleaned up, and its guests stop.
ConnectionsRelease ==
    \A c \in Connections : driver[c] \in {"draining", "joining", "cancelled"} ~>
      cleanup[c] = "done" /\ \A r \in Calls : ConnOf[r] = c => guest[r] \notin {"running", "cancelling"}

\* Ownership, cleanup, guests and sessions, and the types, together.
HostSound == TypeOK /\ OwnerReleased /\ CleanupIsLast /\ NoStrandedGuest /\ SessionsSurvive

\* The host stops when asked, and every connection that ends is released.
HostDrains == ShutdownCompletes /\ ConnectionsRelease
=============================================================================
