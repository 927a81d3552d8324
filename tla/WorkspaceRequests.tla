------------------------- MODULE WorkspaceRequests -------------------------
(***************************************************************************)
(* One request to the workspace daemon, end to end: the retry loop of the  *)
(* Python client (agent-host workspace/service.py), the local socket with  *)
(* one request per connection, the single-threaded daemon that reserves an *)
(* idempotency key, executes, records the response and writes it back, and *)
(* the crash, restart and pruning of that daemon.                          *)
(*                                                                         *)
(* An operation stands for an Operation with its arguments, so that two    *)
(* requests have the same hash exactly when they carry the same operation. *)
(* What an operation does to the store is abstracted to one entry of log.  *)
(***************************************************************************)
EXTENDS Naturals, Sequences, FiniteSets

CONSTANTS Clients,          \* callers of the daemon
          RawClients,       \* the callers that choose their own keys
          Keys,             \* idempotency keys
          Durable,          \* mutations of durable scope
          Local,            \* mutations of process-local scope
          Reads,            \* operations that do not mutate
          Shutdown,         \* the shutdown operation, one of Local
          RequestAttempts,  \* _REQUEST_ATTEMPTS
          Capacity,         \* PROCESS_IDEMPOTENCY_CAPACITY
          MaxRequests,      \* bound: requests a client makes
          MaxCrashes,       \* bound: crashes of the daemon
          Faults            \* subset of {"timeout", "store", "launch", "age"}

Operations == Durable \cup Local \cup Reads

NoKey == "no key"

ASSUME RequestsAssumption ==
  /\ RawClients \subseteq Clients /\ NoKey \notin Keys
  /\ Durable \cap Local = {} /\ Durable \cap Reads = {} /\ Local \cap Reads = {}
  /\ Shutdown \notin Durable \cup Reads
  /\ RequestAttempts \in Nat \ {0} /\ Capacity \in Nat \ {0}
  /\ MaxRequests \in Nat /\ MaxCrashes \in Nat

NoRow == [state |-> "none"]
Idle  == [phase |-> "idle"]
Ready == [stage |-> "accept"]

VARIABLES
  call,      \* call[c]: the _request of client c that is in progress
  told,      \* told[c][n]: how the n-th request of client c ended (history)
  up,        \* the daemon process runs and listens
  queue,     \* connections that were opened, written to and not yet accepted
  serving,   \* the request the daemon is handling
  rows,      \* table idempotency_responses
  registry,  \* process_idempotency_requests, in insertion order
  log,       \* the mutations that took effect, in order (history)
  old,       \* keys whose row is older than the retention period
  crashes    \* crashes so far

vars == <<call, told, up, queue, serving, rows, registry, log, old, crashes>>

client == <<call, told>>
daemon == <<up, queue, serving, registry>>
store  == <<rows, log, old>>

(* What a request may end with: a response of the daemon, or one of the     *)
(* client's own two transport errors.                                       *)
Answer(code, run) == [code |-> code, run |-> run]

(* The responses an execution itself produces, which claim an outcome.      *)
Definite == {"ok", "operation_failed", "response_too_large"}

Init ==
  /\ call = [c \in Clients |-> Idle]
  /\ told = [c \in Clients |-> <<>>]
  /\ up = FALSE /\ queue = <<>> /\ serving = Ready /\ registry = <<>>
  /\ rows = [k \in Keys |-> NoRow]
  /\ log = <<>> /\ old = {} /\ crashes = 0

-----------------------------------------------------------------------------
(* The client: _request of service.py. *)

(* A connection carries one attempt of one request. *)
Connection(c) ==
  [from |-> c, n |-> Len(told[c]) + 1, attempt |-> call[c].attempt,
   key |-> call[c].key, op |-> call[c].op]

InProgress(c) == call[c].phase # "idle"

KeysInUse ==
  {call[c].key : c \in {d \in Clients : InProgress(d)}}
    \cup {queue[i].key : i \in 1..Len(queue)}
    \cup (IF serving = Ready THEN {} ELSE {serving.conn.key})

(* uuid4 gives the typed client a key nobody used before; a mutating        *)
(* request of another program may repeat a key, or have none. Nobody        *)
(* repeats a key for longer than the daemon retains its record.             *)
Used == KeysInUse \cup {k \in Keys : rows[k] # NoRow}
          \cup {registry[i].key : i \in 1..Len(registry)}
          \cup {log[i].key : i \in 1..Len(log)} \cup old

KeyChoices(c, op) ==
  IF op \in Reads THEN {NoKey}
  ELSE IF c \in RawClients THEN (Keys \ old) \cup {NoKey} ELSE Keys \ Used

Issue(c, op, k) ==
  /\ ~InProgress(c) /\ Len(told[c]) < MaxRequests
  /\ k \in KeyChoices(c, op)
  /\ call' = [call EXCEPT ![c] = [phase |-> "connect", op |-> op, key |-> k, attempt |-> 1]]
  /\ UNCHANGED <<told, up, queue, serving, registry, rows, log, old, crashes>>

(* connect, write the whole frame, wait for the answer. The frame is in the *)
(* socket from here on, whether or not the client keeps waiting.            *)
Connect(c) ==
  /\ call[c].phase = "connect" /\ up
  /\ queue' = Append(queue, Connection(c))
  /\ call' = [call EXCEPT ![c].phase = "waiting"]
  /\ UNCHANGED <<told, up, serving, registry, store, crashes>>

(* Mutant: a process-local mutation is retried like any other. *)
AttemptsForAll(op) == RequestAttempts

Attempts(op) == IF op \in Local THEN 1 ELSE RequestAttempts

(* The end of the last attempt: a process-local mutation is reported as     *)
(* unknown, anything else as the transport error it met.                    *)
GiveUpCode(op) == IF op \in Local THEN "local_outcome_unknown" ELSE "transport_error"

Finish(c, answer) ==
  /\ told' = [told EXCEPT ![c] =
                Append(@, [answer |-> answer, key |-> call[c].key, op |-> call[c].op])]
  /\ call' = [call EXCEPT ![c] = Idle]

(* Mutant: the retry loop does not count its attempts. *)
AttemptEndsUncounted(c) ==
  IF call[c].attempt < Attempts(call[c].op)
  THEN /\ call' = [call EXCEPT ![c].phase = "connect"]
       /\ UNCHANGED told
  ELSE Finish(c, Answer(GiveUpCode(call[c].op), 0))

AttemptEnds(c) ==
  IF call[c].attempt < Attempts(call[c].op)
  THEN /\ call' = [call EXCEPT ![c].phase = "connect", ![c].attempt = @ + 1]
       /\ UNCHANGED told
  ELSE Finish(c, Answer(GiveUpCode(call[c].op), 0))

Served(conn) ==
  \/ \E i \in 1..Len(queue) : queue[i] = conn
  \/ serving # Ready /\ serving.conn = conn

(* The connection broke (the daemon died, or its answer was lost), or the   *)
(* answer did not come within IO_TIMEOUT_SECONDS. In the second case the    *)
(* request stays in the daemon's hands.                                     *)
AttemptFails(c) ==
  /\ call[c].phase = "waiting"
  /\ Served(Connection(c)) => "timeout" \in Faults
  /\ AttemptEnds(c)
  /\ UNCHANGED <<daemon, store, crashes>>

(* _ensure_connection: nobody listens, and launching the daemon fails. *)
LaunchFails(c) ==
  /\ call[c].phase = "connect" /\ ~up /\ "launch" \in Faults
  /\ AttemptEnds(c)
  /\ UNCHANGED <<daemon, store, crashes>>

-----------------------------------------------------------------------------
(* The daemon: serve_connection, handle, begin_idempotent, execute and      *)
(* finalize_response. A crash may come between any two of these steps.      *)

Accept ==
  /\ up /\ serving = Ready /\ queue # <<>>
  /\ serving' = [stage |-> "begin", conn |-> Head(queue)]
  /\ queue' = Tail(queue)
  /\ UNCHANGED <<client, up, registry, store, crashes>>

Respond(answer) == serving' = [stage |-> "reply", conn |-> serving.conn, answer |-> answer]
GoExecute == serving' = [stage |-> "execute", conn |-> serving.conn]

Beginning(scope) ==
  up /\ serving.stage = "begin" /\ serving.conn.op \in scope

BeginRead ==
  /\ Beginning(Reads) /\ GoExecute
  /\ UNCHANGED <<client, up, queue, registry, store, crashes>>

BeginKeyless ==
  /\ Beginning(Durable \cup Local) /\ serving.conn.key = NoKey
  /\ Respond(Answer("idempotency_required", 0))
  /\ UNCHANGED <<client, up, queue, registry, store, crashes>>

(* reserve_idempotency_request: INSERT OR IGNORE, then what the row says. *)
ReserveNew ==
  LET k == serving.conn.key IN
  /\ Beginning(Durable) /\ k # NoKey /\ rows[k] = NoRow
  /\ rows' = [rows EXCEPT ![k] = [state |-> "pending", op |-> serving.conn.op]]
  /\ GoExecute
  /\ UNCHANGED <<client, up, queue, registry, log, old, crashes>>

(* begin_durable_idempotent: the four ways to find a row.  A stored response *)
(* that cannot be parsed is an error of its own and left out.                *)
ExistingAnswer(row, op) ==
  CASE row.op # op                            -> Answer("conflict", 0)
    [] row.op = op /\ row.state = "pending"   -> Answer("outcome_unknown", 0)
    [] row.op = op /\ row.state = "completed" -> row.answer

(* Mutant: a pending row of the same request is taken for a free one. *)
ReserveExistingRetries ==
  LET k == serving.conn.key IN
  /\ Beginning(Durable) /\ k # NoKey /\ rows[k] # NoRow
  /\ IF rows[k].state = "pending" /\ rows[k].op = serving.conn.op
     THEN GoExecute
     ELSE Respond(ExistingAnswer(rows[k], serving.conn.op))
  /\ UNCHANGED <<client, up, queue, registry, store, crashes>>

ReserveExisting ==
  LET k == serving.conn.key IN
  /\ Beginning(Durable) /\ k # NoKey /\ rows[k] # NoRow
  /\ Respond(ExistingAnswer(rows[k], serving.conn.op))
  /\ UNCHANGED <<client, up, queue, registry, store, crashes>>

ReserveFails ==
  /\ Beginning(Durable) /\ serving.conn.key # NoKey /\ "store" \in Faults
  /\ Respond(Answer("idempotency_error", 0))
  /\ UNCHANGED <<client, up, queue, registry, store, crashes>>

Registered(k) == {registry[i] : i \in {j \in 1..Len(registry) : registry[j].key = k}}

(* ProcessIdempotencyRequests::insert evicts the oldest keys first. *)
Remember(entry) ==
  LET kept == IF Len(registry) >= Capacity THEN Tail(registry) ELSE registry
  IN registry' = Append(kept, entry)

BeginLocal ==
  LET k == serving.conn.key IN
  /\ Beginning(Local) /\ k # NoKey
  /\ IF Registered(k) = {}
     THEN Remember([key |-> k, op |-> serving.conn.op]) /\ GoExecute
     ELSE /\ UNCHANGED registry
          /\ IF \E e \in Registered(k) : e.op = serving.conn.op
             THEN GoExecute ELSE Respond(Answer("conflict", 0))
  /\ UNCHANGED <<client, up, queue, store, crashes>>

Entry(conn) == [from |-> conn.from, n |-> conn.n, key |-> conn.key, op |-> conn.op]

(* What execute may come to: the operation succeeds; it fails having done   *)
(* nothing, or having committed part of its work (a checkpoint whose        *)
(* resident could not be marked, a policy whose resident could not be       *)
(* reloaded); or it succeeds with a result no frame can carry.              *)
Outcomes(run) ==
  {[effect |-> TRUE,  answer |-> Answer("ok", run)],
   [effect |-> FALSE, answer |-> Answer("operation_failed", 0)],
   [effect |-> TRUE,  answer |-> Answer("operation_failed", run)],
   [effect |-> TRUE,  answer |-> Answer("response_too_large", run)]}

Execute ==
  /\ up /\ serving.stage = "execute"
  /\ \E outcome \in Outcomes(IF serving.conn.op \in Reads THEN 0 ELSE Len(log) + 1) :
       /\ log' = IF outcome.effect /\ serving.conn.op \notin Reads
                 THEN Append(log, Entry(serving.conn)) ELSE log
       /\ serving' = [stage |-> IF serving.conn.op \in Durable THEN "complete" ELSE "reply",
                      conn |-> serving.conn, answer |-> outcome.answer]
  /\ UNCHANGED <<client, up, queue, registry, rows, old, crashes>>

(* finalize_response of a durable mutation: complete_idempotency_request. *)
Complete ==
  LET k == serving.conn.key IN
  /\ up /\ serving.stage = "complete"
  /\ rows' = [rows EXCEPT ![k] = [state |-> "completed", op |-> @.op, answer |-> serving.answer]]
  /\ Respond(serving.answer)
  /\ UNCHANGED <<client, up, queue, registry, log, old, crashes>>

CompleteFails ==
  /\ up /\ serving.stage = "complete" /\ "store" \in Faults
  /\ Respond(Answer("outcome_unknown", 0))
  /\ UNCHANGED <<client, up, queue, registry, store, crashes>>

(* The process ends: connections not yet answered break, what is only in    *)
(* memory is gone.                                                          *)
Stop == /\ up' = FALSE /\ queue' = <<>> /\ serving' = Ready /\ registry' = <<>>

Listening(conn) ==
  call[conn.from].phase = "waiting" /\ Connection(conn.from) = conn

(* The response was written: a successful shutdown ends the process. *)
AfterWrite ==
  IF serving.conn.op = Shutdown /\ serving.answer.code = "ok"
  THEN Stop
  ELSE serving' = Ready /\ UNCHANGED <<up, queue, registry>>

Reply ==
  /\ up /\ serving.stage = "reply" /\ Listening(serving.conn)
  /\ Finish(serving.conn.from, serving.answer)
  /\ AfterWrite
  /\ UNCHANGED <<store, crashes>>

(* The response is written but the client's read has just timed out. *)
ReplyLost ==
  /\ up /\ serving.stage = "reply" /\ Listening(serving.conn) /\ "timeout" \in Faults
  /\ AfterWrite
  /\ UNCHANGED <<client, store, crashes>>

(* The client closed its end: write_frame fails, the daemon goes on with    *)
(* the next connection, also after a shutdown request.                      *)
ReplyFails ==
  /\ up /\ serving.stage = "reply" /\ ~Listening(serving.conn)
  /\ serving' = Ready
  /\ UNCHANGED <<client, up, queue, registry, store, crashes>>

Crash ==
  /\ up /\ crashes < MaxCrashes
  /\ Stop
  /\ crashes' = crashes + 1
  /\ UNCHANGED <<client, store>>

(* Mutant: every row past the retention period. *)
PrunableAny(k) == k \in old /\ rows[k] # NoRow

(* prune_protocol_history: completed rows past the retention period. *)
Prunable(k) == k \in old /\ rows[k].state = "completed"

(* A client that finds nobody listening launches the daemon, which opens    *)
(* its store and prunes it before it accepts anyone.                        *)
Start(c) ==
  /\ ~up /\ call[c].phase = "connect"
  /\ up' = TRUE
  /\ rows' = [k \in Keys |-> IF Prunable(k) THEN NoRow ELSE rows[k]]
  /\ UNCHANGED <<client, queue, serving, registry, log, old, crashes>>

(* Thirty days pass, longer than any request takes. *)
Age ==
  /\ "age" \in Faults
  /\ old' = old \cup {k \in Keys : rows[k] # NoRow /\ k \notin KeysInUse}
  /\ old' # old
  /\ UNCHANGED <<client, daemon, rows, log, crashes>>

ClientStep(c) ==
  \/ \E op \in Operations : \E k \in Keys \cup {NoKey} : Issue(c, op, k)
  \/ Connect(c) \/ AttemptFails(c) \/ LaunchFails(c) \/ Start(c)

Handle ==
  \/ Accept \/ BeginRead \/ BeginKeyless \/ ReserveNew \/ ReserveExisting \/ ReserveFails
  \/ BeginLocal \/ Execute \/ Complete \/ CompleteFails
  \/ Reply \/ ReplyLost \/ ReplyFails

(* Every client has made all its requests: nothing is left to happen. *)
Done ==
  /\ \A c \in Clients : ~InProgress(c) /\ Len(told[c]) = MaxRequests
  /\ UNCHANGED vars

Next == (\E c \in Clients : ClientStep(c)) \/ Handle \/ Crash \/ Age \/ Done

Spec == Init /\ [][Next]_vars

(* The client runs its loop to the end; the daemon is one loop that serves  *)
(* whatever is in front of it.                                              *)
Fairness ==
  /\ \A c \in Clients : WF_vars(Connect(c)) /\ WF_vars(Start(c)) /\ WF_vars(AttemptFails(c))
  /\ WF_vars(Handle)

FairSpec == Spec /\ Fairness

-----------------------------------------------------------------------------
(* Properties *)

DurableRuns(k) == {i \in 1..Len(log) : log[i].key = k /\ log[i].op \in Durable}

Told == UNION {{told[c][n] : n \in 1..Len(told[c])} : c \in Clients}

Claims(k) ==
  {t.answer : t \in {u \in Told : u.key = k /\ u.op \in Durable /\ u.answer.code \in Definite}}

Call == INSTANCE DurableCall
          WITH Results <- [code : Definite, run : Nat],
               applied <- [k \in Keys |-> Cardinality(DurableRuns(k))],
               claimed <- [k \in Keys |-> Claims(k)]

(* A durable mutation takes effect at most once for its key, whatever is    *)
(* retried after a lost answer, a timeout or a restart, and every answer    *)
(* that claims an outcome is that of the one execution: begin_idempotent,   *)
(* complete_idempotent and the client's loop implement DurableCall.         *)
ImplementsDurableCall == Call!Spec

(* A caller that is told "ok" is told so of an execution of its own key and *)
(* its own operation: a recorded response is never replayed to a different  *)
(* payload (the hash comparison of begin_durable_idempotent).               *)
OkHasRun ==
  \A t \in Told :
    t.answer.code = "ok" /\ t.op \notin Reads =>
      log[t.answer.run].key = t.key /\ log[t.answer.run].op = t.op

(* A process-local mutation is executed at most once per request, because   *)
(* _request does not retry it (service.py): a second mount or shutdown      *)
(* would act on a daemon that may have been restarted in between.           *)
LocalOnce ==
  \A i, j \in 1..Len(log) :
    log[i].op \in Local /\ log[i].from = log[j].from /\ log[i].n = log[j].n => i = j

(* Requests of one client take effect in the order it made them, also those *)
(* it gave up on while they were queued (serve_socket takes connections one *)
(* by one): a late unmount never undoes a newer mount.                      *)
InOrder ==
  \A i, j \in 1..Len(log) : i < j /\ log[i].from = log[j].from => log[i].n <= log[j].n

(* A durable mutation of which somebody was told the outcome never becomes  *)
(* OUTCOME_UNKNOWN for whoever repeats its key: handle records the response *)
(* before it writes it, so what is lost or late is only the answer.         *)
LostAnswerIsReplayed ==
  \A t, u \in Told :
    t.op \in Durable /\ u.op \in Durable /\ t.key = u.key /\ t.key # NoKey
      => ~(t.answer.code \in Definite /\ u.answer.code = "outcome_unknown")

(* A reservation whose outcome was never recorded is evidence of a crash:   *)
(* it is never pruned and never handed to a new execution                   *)
(* (store/retention.rs, begin_durable_idempotent).                          *)
EvidenceKept ==
  [][\A k \in Keys : rows[k].state = "pending" =>
        rows'[k].state \in {"pending", "completed"} /\ rows'[k].op = rows[k].op]_vars

(* Every request ends: with an answer, or with the client's own error after *)
(* its last attempt (_request, serve_socket).                               *)
CallsReturn == \A c \in Clients : InProgress(c) ~> ~InProgress(c)

(* What callers are told and what the daemon has run agree.                 *)
AnswersHonest == OkHasRun /\ LocalOnce /\ InOrder /\ LostAnswerIsReplayed
=============================================================================
