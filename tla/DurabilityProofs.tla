-------------------------- MODULE DurabilityProofs --------------------------
(***************************************************************************)
(* What survives a crash between the agent host and the workspace daemon:  *)
(* first the daemon's requests and their idempotency keys                  *)
(* (WorkspaceRequests), then the checkpoints that the host publishes from  *)
(* the daemon's outbox (CheckpointPublication).                            *)
(***************************************************************************)
EXTENDS WorkspaceRequests, CheckpointPublication, FiniteSetTheorems, TLAPS

-----------------------------------------------------------------------------
(***************************************************************************)
(* The at-most-once call of the workspace daemon, for any number of        *)
(* clients, keys, operations, attempts, requests and crashes: what callers *)
(* are told agrees with what was executed (AnswersAreHonest), a            *)
(* reservation without outcome is never lost (EvidenceIsKept), and clients *)
(* and daemon implement DurableCall (CallRefinement).                      *)
(*                                                                         *)
(* The inductive invariant RequestsInv says of every connection, effect    *)
(* and telling which request it belongs to (ConnsFit, Order, LocalSingle,  *)
(* OkFit), that retired keys are out of use (Retired), and ties the row of *)
(* a key to what was executed under it and to what was told (KeyState).    *)
(***************************************************************************)
AnyKey == Keys \cup {NoKey}

Conns == [from : Clients, n : Nat, attempt : Nat, key : AnyKey, op : Operations]

Codes == {"ok", "operation_failed", "response_too_large", "outcome_unknown", "conflict",
          "idempotency_required", "idempotency_error", "local_outcome_unknown", "transport_error"}

Answers == [code : Codes, run : Nat]

Calls == [phase : {"connect", "waiting"}, op : Operations, key : AnyKey, attempt : Nat \ {0}]

Tellings == [answer : Answers, key : AnyKey, op : Operations]

Entries == [from : Clients, n : Nat, key : AnyKey, op : Operations]

PendingRows == [state : {"pending"}, op : Durable]

CompletedRows == [state : {"completed"}, op : Durable, answer : Answers]

Handled == [stage : {"begin", "execute"}, conn : Conns]

Answered == [stage : {"complete", "reply"}, conn : Conns, answer : Answers]

TypeOK ==
  /\ call \in [Clients -> {Idle} \cup Calls]
  /\ told \in [Clients -> Seq(Tellings)]
  /\ up \in BOOLEAN /\ queue \in Seq(Conns)
  /\ serving \in {Ready} \cup Handled \cup Answered
  /\ rows \in [Keys -> {NoRow} \cup PendingRows \cup CompletedRows]
  /\ registry \in Seq([key : Keys, op : Local])
  /\ log \in Seq(Entries) /\ old \subseteq Keys

(* What is in the daemon's hands. *)
Serving(conn) == serving # Ready /\ serving.conn = conn

Fits(e) ==
  /\ e.n <= Len(told[e.from]) + 1
  /\ e.n = Len(told[e.from]) + 1 =>
       InProgress(e.from) /\ call[e.from].op = e.op /\ call[e.from].key = e.key

Same(e, f) == e.from = f.from /\ e.n = f.n

(* Each connection and each effect is of a request its client has made.      *)
ConnsFit ==
  /\ \A i \in 1..Len(queue) : Fits(queue[i])
  /\ serving # Ready => Fits(serving.conn)
  /\ \A i \in 1..Len(log) : Fits(log[i])

(* Requests of one client are handled in the order it made them. *)
Ordered(e, f) == e.from = f.from => e.n <= f.n

Order ==
  /\ \A i, j \in 1..Len(queue) : i < j => Ordered(queue[i], queue[j])
  /\ \A j \in 1..Len(queue) : serving # Ready => Ordered(serving.conn, queue[j])
  /\ \A i \in 1..Len(log), j \in 1..Len(queue) : Ordered(log[i], queue[j])
  /\ \A i \in 1..Len(log) : serving # Ready => Ordered(log[i], serving.conn)
  /\ InOrder

(* Of a process-local request there is one connection or one effect. *)
LocalSingle ==
  /\ LocalOnce
  /\ \A i, j \in 1..Len(queue) : queue[i].op \in Local /\ Same(queue[i], queue[j]) => i = j
  /\ \A j \in 1..Len(queue) : serving # Ready /\ queue[j].op \in Local => ~Same(serving.conn, queue[j])
  /\ \A i \in 1..Len(log), j \in 1..Len(queue) : queue[j].op \in Local => ~Same(log[i], queue[j])
  /\ \A i \in 1..Len(log) : serving.stage \in {"begin", "execute"} /\ serving.conn.op \in Local => ~Same(log[i], serving.conn)
  /\ \A c \in Clients : call[c].phase = "connect" /\ call[c].op \in Local =>
       /\ \A i \in 1..Len(queue) : ~(queue[i].from = c /\ queue[i].n = Len(told[c]) + 1)
       /\ \A i \in 1..Len(log) : ~(log[i].from = c /\ log[i].n = Len(told[c]) + 1)
       /\ serving # Ready => ~(serving.conn.from = c /\ serving.conn.n = Len(told[c]) + 1)
  /\ \A i, j \in 1..Len(log) : Same(log[i], log[j]) => log[i].op = log[j].op
  /\ \A i \in 1..Len(log), j \in 1..Len(queue) : Same(log[i], queue[j]) => log[i].op = queue[j].op
  /\ \A i \in 1..Len(log) : serving # Ready => (Same(log[i], serving.conn) => log[i].op = serving.conn.op)
  /\ \A j \in 1..Len(queue) : serving # Ready => (Same(serving.conn, queue[j]) => serving.conn.op = queue[j].op)
  /\ \A i, j \in 1..Len(queue) : Same(queue[i], queue[j]) => queue[i].op = queue[j].op

RowAnswer(k) == rows[k].answer

(* Success is told of an execution of the same key and operation. *)
OkFits(a, k, op) ==
  a.code = "ok" /\ op \notin Reads => a.run \in 1..Len(log) /\ log[a.run].key = k /\ log[a.run].op = op

OkTold ==
  \A c \in Clients : \A i \in 1..Len(told[c]) : OkFits(told[c][i].answer, told[c][i].key, told[c][i].op)

OkRows == \A k \in Keys : rows[k].state = "completed" => OkFits(rows[k].answer, k, rows[k].op)

OkServing ==
  serving.stage \in {"complete", "reply"} => OkFits(serving.answer, serving.conn.key, serving.conn.op)

OkFit == OkTold /\ OkRows /\ OkServing

(* What was told of a key: an outcome, or that the outcome is unknown. *)
ToldOf(k, codes) ==
  \E c \in Clients : \E i \in 1..Len(told[c]) :
    told[c][i].key = k /\ told[c][i].op \in Durable /\ told[c][i].answer.code \in codes

Unknown == {"outcome_unknown"}

Executing(k) == serving.stage \in {"execute", "complete"} /\ serving.conn.key = k /\ serving.conn.op \in Durable

Replying(k) == serving.stage = "reply" /\ serving.conn.key = k /\ serving.conn.op \in Durable

(* What the row of a key says, what was executed under it and what was told. *)
KeyState(k) ==
  /\ rows[k].state = "none" /\ k \notin old =>
       DurableRuns(k) = {} /\ ~ToldOf(k, Definite) /\ ~ToldOf(k, Unknown)
  /\ rows[k].state = "pending" => ~ToldOf(k, Definite)
  /\ rows[k].state = "completed" =>
       ~ToldOf(k, Unknown) /\ rows[k].answer.code \in Definite /\ Claims(k) \subseteq {rows[k].answer}
  /\ Executing(k) => rows[k].state = "pending" /\ rows[k].op = serving.conn.op /\ ~ToldOf(k, Unknown)
  /\ Executing(k) /\ serving.stage = "execute" => DurableRuns(k) = {}
  /\ Executing(k) /\ serving.stage = "complete" => serving.answer.code \in Definite
  /\ Replying(k) /\ serving.answer.code \in Definite =>
       rows[k].state = "completed" /\ rows[k].answer = serving.answer
  /\ Replying(k) /\ serving.answer.code \in Unknown => rows[k].state = "pending"
  /\ \A i, j \in DurableRuns(k) : i = j
  /\ ~(ToldOf(k, Definite) /\ ToldOf(k, Unknown))

(* Nobody repeats a key whose record is past the retention period. *)
Retired == \A k \in old : k \notin KeysInUse

(* A request without a key is refused; one with a key has one of Keys. *)
Keyed ==
  /\ serving.stage \in {"execute", "complete"} /\ serving.conn.op \notin Reads => serving.conn.key \in Keys
  /\ serving.stage = "complete" => serving.conn.op \in Durable
  /\ ~up => serving = Ready /\ queue = <<>>

RequestsInv ==
  /\ TypeOK /\ ConnsFit /\ Order /\ LocalSingle /\ OkFit /\ Keyed /\ Retired
  /\ \A k \in Keys : KeyState(k)

-----------------------------------------------------------------------------
(* Types. *)

LEMMA ServingShape ==
  ASSUME TypeOK
  PROVE  /\ serving.stage \in {"accept", "begin", "execute", "complete", "reply"}
         /\ serving.stage = "accept" <=> serving = Ready
         /\ serving # Ready => serving.conn \in Conns
         /\ serving.stage \in {"begin", "execute"} => serving \in Handled
         /\ serving.stage \in {"complete", "reply"} => serving \in Answered /\ serving.answer \in Answers
BY DEF TypeOK, Ready, Handled, Answered

LEMMA ConnShape ==
  ASSUME NEW e \in Conns
  PROVE  e.from \in Clients /\ e.n \in Nat /\ e.attempt \in Nat /\ e.key \in AnyKey /\ e.op \in Operations
BY DEF Conns

LEMMA CallShape ==
  ASSUME TypeOK, NEW c \in Clients
  PROVE  /\ call[c] \in {Idle} \cup Calls /\ told[c] \in Seq(Tellings) /\ Len(told[c]) \in Nat
         /\ call[c].phase \in {"idle", "connect", "waiting"}
         /\ InProgress(c) <=> call[c] \in Calls
         /\ InProgress(c) => /\ call[c].op \in Operations /\ call[c].key \in AnyKey
                             /\ call[c].attempt \in Nat \ {0}
BY DEF TypeOK, InProgress, Idle, Calls

LEMMA RowShape ==
  ASSUME TypeOK, NEW k \in Keys
  PROVE  /\ rows[k].state \in {"none", "pending", "completed"}
         /\ rows[k] = NoRow <=> rows[k].state = "none"
         /\ rows[k].state # "none" => rows[k].op \in Durable
         /\ rows[k].state = "completed" => rows[k].answer \in Answers
BY DEF TypeOK, NoRow, PendingRows, CompletedRows

LEMMA OneMore ==
  ASSUME NEW S, NEW q \in Seq(S), NEW e \in S
  PROVE  /\ Append(q, e) \in Seq(S) /\ Len(Append(q, e)) = Len(q) + 1 /\ Len(q) \in Nat
         /\ \A i \in 1..Len(q) : Append(q, e)[i] = q[i]
         /\ Append(q, e)[Len(q) + 1] = e
OBVIOUS

LEMMA OneLess ==
  ASSUME NEW S, NEW q \in Seq(S), q # <<>>
  PROVE  /\ Tail(q) \in Seq(S) /\ Len(Tail(q)) = Len(q) - 1 /\ Len(q) \in Nat
         /\ 1 \in 1..Len(q) /\ Head(q) = q[1] /\ Head(q) \in S
         /\ \A i \in 1..Len(Tail(q)) : Tail(q)[i] = q[i + 1] /\ i + 1 \in 1..Len(q)
OBVIOUS

LEMMA AnswerLegal ==
  ASSUME NEW code \in Codes, NEW r \in Nat
  PROVE  Answer(code, r) \in Answers
BY DEF Answer, Answers

(* The end of an attempt: another one, or the end of the request. *)
LEMMA FinishTypes ==
  ASSUME TypeOK, NEW c \in Clients, InProgress(c), NEW a \in Answers, Finish(c, a)
  PROVE  /\ call' \in [Clients -> {Idle} \cup Calls] /\ told' \in [Clients -> Seq(Tellings)]
         /\ call'[c] = Idle /\ told'[c] = Append(told[c], [answer |-> a, key |-> call[c].key, op |-> call[c].op])
         /\ \A d \in Clients : d # c => call'[d] = call[d] /\ told'[d] = told[d]
<1>1. [answer |-> a, key |-> call[c].key, op |-> call[c].op] \in Tellings /\ told[c] \in Seq(Tellings)
  BY CallShape DEF Tellings
<1>2. Append(told[c], [answer |-> a, key |-> call[c].key, op |-> call[c].op]) \in Seq(Tellings)
  BY <1>1, OneMore
<1> QED
  BY <1>2 DEF Finish, TypeOK

LEMMA AnotherAttempt ==
  ASSUME NEW r \in Calls, NEW s, s = [r EXCEPT !.phase = "connect", !.attempt = @ + 1]
  PROVE  s \in Calls /\ s.phase = "connect" /\ s.op = r.op /\ s.key = r.key
<1>1. r.attempt \in Nat
  BY DEF Calls
<1>2. s = [phase |-> "connect", op |-> r.op, key |-> r.key, attempt |-> r.attempt + 1]
  BY DEF Calls
<1> QED
  BY <1>1, <1>2 DEF Calls

LEMMA AttemptTypes ==
  ASSUME TypeOK, NEW c \in Clients, InProgress(c), AttemptEnds(c)
  PROVE  /\ call' \in [Clients -> {Idle} \cup Calls] /\ told' \in [Clients -> Seq(Tellings)]
         /\ \/ \E a \in Answers : Finish(c, a) /\ a.code \notin Definite \cup Unknown
            \/ /\ told' = told /\ call'[c].phase = "connect" /\ call'[c].op = call[c].op /\ call'[c].key = call[c].key
               /\ call'[c] \in Calls /\ call[c].op \notin Local
               /\ \A d \in Clients : d # c => call'[d] = call[d]
<1>1. call[c] \in Calls
  BY CallShape
<1>2. CASE call[c].attempt < Attempts(call[c].op)
  <2>1. call' = [call EXCEPT ![c].phase = "connect", ![c].attempt = @ + 1] /\ told' = told
    BY <1>2 DEF AttemptEnds
  <2>2. call[c].op \notin Local
    BY <1>1, <1>2 DEF Attempts, Calls
  <2>3. call'[c] = [call[c] EXCEPT !.phase = "connect", !.attempt = @ + 1] /\ \A d \in Clients : d # c => call'[d] = call[d]
    BY <2>1 DEF TypeOK
  <2>4. call'[c] \in Calls /\ call'[c].phase = "connect" /\ call'[c].op = call[c].op /\ call'[c].key = call[c].key
    BY <1>1, <2>3, AnotherAttempt
  <2>5. call' \in [Clients -> {Idle} \cup Calls]
    <3>1. call' = [d \in Clients |-> IF d = c THEN call'[c] ELSE call[d]]
      BY <2>1, <2>3 DEF TypeOK
    <3>2. \A d \in Clients : (IF d = c THEN call'[c] ELSE call[d]) \in {Idle} \cup Calls
      BY <2>4 DEF TypeOK
    <3> QED
      BY <3>1, <3>2
  <2> QED
    BY <2>1, <2>2, <2>3, <2>4, <2>5 DEF TypeOK
<1>3. CASE ~(call[c].attempt < Attempts(call[c].op))
  <2> DEFINE a == Answer(GiveUpCode(call[c].op), 0)
  <2>1. Finish(c, a)
    BY <1>3 DEF AttemptEnds
  <2>4. GiveUpCode(call[c].op) \in {"local_outcome_unknown", "transport_error"}
    BY DEF GiveUpCode
  <2>2. a.code \in {"local_outcome_unknown", "transport_error"} /\ a \in Answers
    <3>1. a.code = GiveUpCode(call[c].op)
      BY DEF Answer
    <3>2. GiveUpCode(call[c].op) \in Codes
      BY DEF GiveUpCode, Codes
    <3>3. Answer(GiveUpCode(call[c].op), 0) \in Answers
      BY <3>2, AnswerLegal
    <3> QED
      BY <2>4, <3>1, <3>3
  <2>3. a.code \notin Definite \cup Unknown
    BY <2>2 DEF Definite, Unknown
  <2> HIDE DEF a
  <2>5. call' \in [Clients -> {Idle} \cup Calls] /\ told' \in [Clients -> Seq(Tellings)]
    BY <2>1, <2>2, FinishTypes
  <2> QED
    BY <2>1, <2>2, <2>3, <2>5
<1> QED
  BY <1>2, <1>3

LEMMA BeginShape ==
  ASSUME TypeOK, serving.stage \in {"begin", "execute", "complete", "reply"}
  PROVE  /\ serving # Ready /\ serving.conn \in Conns /\ serving.conn.from \in Clients
         /\ serving.conn.key \in AnyKey /\ serving.conn.op \in Operations /\ serving.conn.n \in Nat
<1>1. serving # Ready /\ serving.conn \in Conns
  BY ServingShape
<1> QED
  BY <1>1, ConnShape

LEMMA GoExecuteTypes ==
  ASSUME serving.conn \in Conns, GoExecute
  PROVE  /\ serving' \in {Ready} \cup Handled \cup Answered
         /\ serving'.stage = "execute" /\ serving'.conn = serving.conn /\ serving' # Ready
<1>1. serving' = [stage |-> "execute", conn |-> serving.conn]
  BY DEF GoExecute
<1>2. serving'.stage = "execute" /\ serving'.conn = serving.conn /\ serving' \in Handled
  BY <1>1 DEF Handled
<1>3. Ready.stage = "accept"
  BY DEF Ready
<1> QED
  BY <1>2, <1>3

LEMMA RespondTypes ==
  ASSUME serving.conn \in Conns, NEW a \in Answers, Respond(a)
  PROVE  /\ serving' \in {Ready} \cup Handled \cup Answered
         /\ serving'.stage = "reply" /\ serving'.conn = serving.conn /\ serving'.answer = a /\ serving' # Ready
<1>1. serving' = [stage |-> "reply", conn |-> serving.conn, answer |-> a]
  BY DEF Respond
<1>2. serving'.stage = "reply" /\ serving'.conn = serving.conn /\ serving'.answer = a /\ serving' \in Answered
  BY <1>1 DEF Answered
<1>3. Ready.stage = "accept"
  BY DEF Ready
<1> QED
  BY <1>2, <1>3

(* Once a response is written, the daemon is ready again or has stopped. *)
LEMMA WriteTypes ==
  ASSUME TypeOK, AfterWrite
  PROVE  /\ serving' = Ready /\ queue' \in {queue, <<>>} /\ up' \in BOOLEAN
         /\ (up' = up /\ queue' = queue) \/ queue' = <<>>
         /\ queue' \in Seq(Conns) /\ registry' \in Seq([key : Keys, op : Local])
<1>1. CASE serving.conn.op = Shutdown /\ serving.answer.code = "ok"
  <2>1. up' = FALSE /\ queue' = <<>> /\ serving' = Ready /\ registry' = <<>>
    BY <1>1 DEF AfterWrite, Stop
  <2>2. queue' \in Seq(Conns) /\ registry' \in Seq([key : Keys, op : Local])
    BY <2>1
  <2> QED
    BY <2>1, <2>2
<1>2. CASE ~(serving.conn.op = Shutdown /\ serving.answer.code = "ok")
  BY <1>2 DEF AfterWrite, TypeOK
<1> QED
  BY <1>1, <1>2

LEMMA ExecuteTypes ==
  ASSUME TypeOK, Execute
  PROVE  /\ serving' \in {Ready} \cup Handled \cup Answered /\ serving'.conn = serving.conn /\ serving' # Ready
         /\ serving'.stage = (IF serving.conn.op \in Durable THEN "complete" ELSE "reply")
         /\ serving'.answer.code \in Definite
         /\ \/ log' = log /\ (serving'.answer.code = "ok" => serving.conn.op \in Reads)
            \/ /\ serving.conn.op \notin Reads /\ log' = Append(log, Entry(serving.conn))
               /\ Entry(serving.conn) \in Entries /\ serving'.answer.run = Len(log) + 1
         /\ log' \in Seq(Entries)
<1> DEFINE run == IF serving.conn.op \in Reads THEN 0 ELSE Len(log) + 1
<1>1. PICK outcome \in Outcomes(run) :
       /\ log' = IF outcome.effect /\ serving.conn.op \notin Reads
                 THEN Append(log, Entry(serving.conn)) ELSE log
       /\ serving' = [stage |-> IF serving.conn.op \in Durable THEN "complete" ELSE "reply",
                      conn |-> serving.conn, answer |-> outcome.answer]
  BY DEF Execute
<1>2. serving.conn \in Conns /\ Entry(serving.conn) \in Entries
  BY BeginShape, ConnShape DEF Execute, Entry, Entries
<1>3. run \in Nat /\ (serving.conn.op \notin Reads => run = Len(log) + 1) /\ log \in Seq(Entries)
  BY DEF TypeOK
<1> HIDE DEF run
<1>4. outcome.answer \in Answers /\ outcome.answer.code \in Definite
      /\ (outcome.answer.code = "ok" => outcome.effect = TRUE /\ outcome.answer.run = run)
      /\ (outcome.effect => outcome.answer.run = run)
  BY <1>3 DEF Outcomes, Answer, Answers, Codes, Definite
<1>5. serving' \in Answered /\ serving'.conn = serving.conn /\ serving'.answer = outcome.answer
      /\ serving'.stage = (IF serving.conn.op \in Durable THEN "complete" ELSE "reply")
  <2>1. (IF serving.conn.op \in Durable THEN "complete" ELSE "reply") \in {"complete", "reply"}
    OBVIOUS
  <2> QED
    BY <1>1, <1>2, <1>4, <2>1 DEF Answered
<1>6. serving' # Ready
  BY <1>5 DEF Ready
<1>7. Append(log, Entry(serving.conn)) \in Seq(Entries)
  BY <1>2, <1>3, OneMore
<1>8. CASE outcome.effect /\ serving.conn.op \notin Reads
  BY <1>1, <1>2, <1>3, <1>4, <1>5, <1>6, <1>7, <1>8
<1>9. CASE ~(outcome.effect /\ serving.conn.op \notin Reads)
  BY <1>1, <1>2, <1>3, <1>4, <1>5, <1>6, <1>7, <1>9
<1> QED
  BY <1>8, <1>9

-----------------------------------------------------------------------------
(* Which request a connection and an effect are of, and in which order. *)

(* The daemon goes on with the request it has, or drops it, and it keeps    *)
(* the connections that wait or drops them all.                             *)
GoesOn ==
  /\ queue' \in {queue, <<>>}
  /\ serving' # Ready => serving # Ready /\ serving'.conn = serving.conn
  /\ serving'.stage \in {"begin", "execute"} =>
       serving.stage \in {"begin", "execute"} /\ serving'.conn = serving.conn

LEMMA QueueKept ==
  ASSUME TypeOK, queue' \in {queue, <<>>}
  PROVE  \A i \in 1..Len(queue') : i \in 1..Len(queue) /\ queue'[i] = queue[i]
<1>1. CASE queue' = queue
  BY <1>1
<1>2. CASE queue' = <<>>
  BY <1>2
<1> QED
  BY <1>1, <1>2

LEMMA StructGoesOn ==
  ASSUME TypeOK, ConnsFit, Order, LocalSingle, GoesOn, UNCHANGED <<call, told, log>>
  PROVE  ConnsFit' /\ Order' /\ LocalSingle'
<1>1. \A i \in 1..Len(queue') : i \in 1..Len(queue) /\ queue'[i] = queue[i]
  BY QueueKept DEF GoesOn
<1>2. ConnsFit'
  BY <1>1 DEF ConnsFit, Fits, InProgress, GoesOn
<1>3. Order'
  BY <1>1 DEF Order, Ordered, GoesOn, InOrder
<1>4. LocalSingle'
  <2> USE <1>1 DEF LocalSingle, Same, GoesOn
  <2>1. LocalOnce'
    BY DEF LocalOnce
  <2>2. \A i, j \in 1..Len(queue') : queue'[i].op \in Local /\ Same(queue'[i], queue'[j]) => i = j
    OBVIOUS
  <2>3. \A j \in 1..Len(queue') : serving' # Ready /\ queue'[j].op \in Local => ~Same(serving'.conn, queue'[j])
    OBVIOUS
  <2>4. \A i \in 1..Len(log'), j \in 1..Len(queue') : queue'[j].op \in Local => ~Same(log'[i], queue'[j])
    OBVIOUS
  <2>5. \A i \in 1..Len(log') : serving'.stage \in {"begin", "execute"} /\ serving'.conn.op \in Local
                                 => ~Same(log'[i], serving'.conn)
    OBVIOUS
  <2>6. \A c \in Clients : call'[c].phase = "connect" /\ call'[c].op \in Local =>
         /\ \A i \in 1..Len(queue') : ~(queue'[i].from = c /\ queue'[i].n = Len(told'[c]) + 1)
         /\ \A i \in 1..Len(log') : ~(log'[i].from = c /\ log'[i].n = Len(told'[c]) + 1)
         /\ serving' # Ready => ~(serving'.conn.from = c /\ serving'.conn.n = Len(told'[c]) + 1)
    OBVIOUS
  <2>7. /\ \A i, j \in 1..Len(log') : Same(log'[i], log'[j]) => log'[i].op = log'[j].op
        /\ \A i \in 1..Len(log'), j \in 1..Len(queue') : Same(log'[i], queue'[j]) => log'[i].op = queue'[j].op
    OBVIOUS
  <2>8. \A i \in 1..Len(log') : serving' # Ready =>
         (Same(log'[i], serving'.conn) => log'[i].op = serving'.conn.op)
    OBVIOUS
  <2>9. \A j \in 1..Len(queue') : serving' # Ready =>
         (Same(serving'.conn, queue'[j]) => serving'.conn.op = queue'[j].op)
    OBVIOUS
  <2>10. \A i, j \in 1..Len(queue') : Same(queue'[i], queue'[j]) => queue'[i].op = queue'[j].op
    OBVIOUS
  <2> QED
    BY <2>1, <2>2, <2>3, <2>4, <2>5, <2>6, <2>7, <2>8, <2>9, <2>10
<1> QED
  BY <1>2, <1>3, <1>4

(* An effect is that of the request being served. *)
LEMMA StructEffect ==
  ASSUME TypeOK, ConnsFit, Order, LocalSingle, serving.stage = "execute",
         log' = Append(log, Entry(serving.conn)), UNCHANGED <<call, told, queue>>,
         serving' # Ready, serving'.conn = serving.conn, serving'.stage \in {"complete", "reply"}
  PROVE  ConnsFit' /\ Order' /\ LocalSingle'
<1> DEFINE e == Entry(serving.conn)
<1>1. /\ serving # Ready /\ e \in Entries /\ e.from = serving.conn.from /\ e.n = serving.conn.n
      /\ e.key = serving.conn.key /\ e.op = serving.conn.op
  <2>1. serving # Ready /\ serving.conn \in Conns
    BY BeginShape
  <2>2. /\ serving.conn.from \in Clients /\ serving.conn.n \in Nat /\ serving.conn.key \in AnyKey
        /\ serving.conn.op \in Operations
    BY <2>1, ConnShape
  <2> QED
    BY <2>1, <2>2 DEF Entry, Entries
<1> HIDE DEF e
<1>2. log' = Append(log, e) /\ log \in Seq(Entries)
  BY DEF e, TypeOK
<1>3. /\ Len(log') = Len(log) + 1 /\ Len(log) \in Nat /\ log'[Len(log) + 1] = e
      /\ \A i \in 1..Len(log) : log'[i] = log[i]
  BY <1>1, <1>2, OneMore
<1>4. \A i \in 1..Len(log') : (i \in 1..Len(log) /\ log'[i] = log[i]) \/ (i = Len(log) + 1 /\ log'[i] = e)
  BY <1>3
<1>5. ConnsFit'
  <2>1. \A i \in 1..Len(log') : Fits(log'[i])
    BY <1>1, <1>4 DEF ConnsFit, Fits
  <2> QED
    BY <1>1, <2>1 DEF ConnsFit, Fits, InProgress
<1>6. Order'
  <2>1. InOrder'
    <3> SUFFICES ASSUME NEW i \in 1..Len(log'), NEW j \in 1..Len(log'), i < j, log'[i].from = log'[j].from
                 PROVE  log'[i].n <= log'[j].n
      BY DEF InOrder
    <3>1. i \in 1..Len(log) /\ log'[i] = log[i]
      BY <1>3, <1>4
    <3>2. CASE j \in 1..Len(log) /\ log'[j] = log[j]
      BY <3>1, <3>2 DEF Order, InOrder
    <3>3. CASE j = Len(log) + 1 /\ log'[j] = e
      BY <1>1, <3>1, <3>3 DEF Order, Ordered
    <3> QED
      BY <1>4, <3>2, <3>3
  <2>2. \A i \in 1..Len(log') : Ordered(log'[i], serving'.conn)
    <3>1. serving.conn.n \in Nat
      BY BeginShape
    <3> QED
      BY <1>1, <1>4, <3>1 DEF Order, Ordered
  <2>3. \A i \in 1..Len(log'), j \in 1..Len(queue') : Ordered(log'[i], queue'[j])
    BY <1>1, <1>4 DEF Order, Ordered
  <2>4. \A i, j \in 1..Len(queue') : i < j => Ordered(queue'[i], queue'[j])
    BY DEF Order
  <2>5. \A j \in 1..Len(queue') : Ordered(serving'.conn, queue'[j])
    BY <1>1 DEF Order
  <2> QED
    BY <2>1, <2>2, <2>3, <2>4, <2>5 DEF Order, Ordered
<1>7. LocalSingle'
  <2>1. LocalOnce'
    <3> SUFFICES ASSUME NEW i \in 1..Len(log'), NEW j \in 1..Len(log'), log'[i].op \in Local,
                        log'[i].from = log'[j].from, log'[i].n = log'[j].n
                 PROVE  i = j
      BY DEF LocalOnce
    <3>1. CASE i \in 1..Len(log) /\ j \in 1..Len(log)
      BY <1>3, <3>1 DEF LocalSingle, LocalOnce
    <3>2. CASE i \in 1..Len(log) /\ j = Len(log) + 1
      BY <1>1, <1>3, <3>2 DEF LocalSingle, Same
    <3>3. CASE i = Len(log) + 1 /\ j \in 1..Len(log)
      BY <1>1, <1>3, <3>3 DEF LocalSingle, Same
    <3> QED
      BY <1>4, <3>1, <3>2, <3>3
  <2>2. \A i \in 1..Len(log'), j \in 1..Len(queue') : queue'[j].op \in Local => ~Same(log'[i], queue'[j])
    BY <1>1, <1>4 DEF LocalSingle, Same
  <2>3. \A c \in Clients : call'[c].phase = "connect" /\ call'[c].op \in Local =>
          /\ \A i \in 1..Len(queue') : ~(queue'[i].from = c /\ queue'[i].n = Len(told'[c]) + 1)
          /\ \A i \in 1..Len(log') : ~(log'[i].from = c /\ log'[i].n = Len(told'[c]) + 1)
          /\ ~(serving'.conn.from = c /\ serving'.conn.n = Len(told'[c]) + 1)
    BY <1>1, <1>4 DEF LocalSingle
  <2>4. \A i, j \in 1..Len(log') : Same(log'[i], log'[j]) => log'[i].op = log'[j].op
    BY <1>1, <1>4 DEF LocalSingle, Same
  <2>5. \A i \in 1..Len(log'), j \in 1..Len(queue') : Same(log'[i], queue'[j]) => log'[i].op = queue'[j].op
    BY <1>1, <1>4 DEF LocalSingle, Same
  <2>6. \A i \in 1..Len(log') : Same(log'[i], serving'.conn) => log'[i].op = serving'.conn.op
    BY <1>1, <1>4 DEF LocalSingle, Same
  <2>7. /\ \A i, j \in 1..Len(queue') : queue'[i].op \in Local /\ Same(queue'[i], queue'[j]) => i = j
        /\ \A j \in 1..Len(queue') : queue'[j].op \in Local => ~Same(serving'.conn, queue'[j])
        /\ \A j \in 1..Len(queue') : Same(serving'.conn, queue'[j]) => serving'.conn.op = queue'[j].op
        /\ \A i, j \in 1..Len(queue') : Same(queue'[i], queue'[j]) => queue'[i].op = queue'[j].op
    BY <1>1 DEF LocalSingle, Same
  <2> QED
    BY <2>1, <2>2, <2>3, <2>4, <2>5, <2>6, <2>7 DEF LocalSingle, Same
<1> QED
  BY <1>5, <1>6, <1>7

(* The connection that waited longest is served. *)
LEMMA StructAccept ==
  ASSUME TypeOK, ConnsFit, Order, LocalSingle, Accept
  PROVE  ConnsFit' /\ Order' /\ LocalSingle'
<1>1. queue \in Seq(Conns) /\ queue # <<>> /\ queue' = Tail(queue) /\ serving = Ready
  BY DEF Accept, TypeOK
<1>2. /\ Len(queue') = Len(queue) - 1 /\ 1 \in 1..Len(queue) /\ Head(queue) = queue[1] /\ Len(queue) \in Nat
      /\ \A i \in 1..Len(queue') : queue'[i] = queue[i + 1] /\ i + 1 \in 1..Len(queue)
  BY <1>1, OneLess
<1>3. serving'.conn = queue[1] /\ serving'.stage = "begin" /\ serving' # Ready
  BY <1>2 DEF Accept, Ready
<1>4. UNCHANGED <<call, told, log>>
  BY DEF Accept, client, store
<1>5. ConnsFit'
  BY <1>2, <1>3, <1>4 DEF ConnsFit, Fits, InProgress
<1>6. Order'
  <2>1. \A j \in 1..Len(queue') : 1 < j + 1
    BY <1>2
  <2>2. \A i, j \in 1..Len(queue') : i < j => i + 1 < j + 1
    BY <1>2
  <2>3. \A i, j \in 1..Len(queue') : i < j => Ordered(queue'[i], queue'[j])
    BY <1>2, <2>2 DEF Order
  <2>4. \A j \in 1..Len(queue') : Ordered(serving'.conn, queue'[j])
    BY <1>2, <1>3, <2>1 DEF Order
  <2>5. /\ \A i \in 1..Len(log'), j \in 1..Len(queue') : Ordered(log'[i], queue'[j])
        /\ \A i \in 1..Len(log') : Ordered(log'[i], serving'.conn)
        /\ InOrder'
    BY <1>2, <1>3, <1>4 DEF Order, InOrder
  <2> QED
    BY <2>3, <2>4, <2>5 DEF Order, Ordered
<1>7. LocalSingle'
  <2>1. \A i, j \in 1..Len(queue') : queue'[i].op \in Local /\ Same(queue'[i], queue'[j]) => i = j
    <3> SUFFICES ASSUME NEW i \in 1..Len(queue'), NEW j \in 1..Len(queue'), queue'[i].op \in Local,
                        Same(queue'[i], queue'[j])
                 PROVE  i = j
      OBVIOUS
    <3>1. i + 1 = j + 1
      BY <1>2 DEF LocalSingle, Same
    <3> QED
      BY <3>1
  <2>2. \A j \in 1..Len(queue') : queue'[j].op \in Local => ~Same(serving'.conn, queue'[j])
    <3> SUFFICES ASSUME NEW j \in 1..Len(queue'), queue'[j].op \in Local, Same(serving'.conn, queue'[j])
                 PROVE  FALSE
      OBVIOUS
    <3>1. j + 1 \in 1..Len(queue) /\ queue[j + 1].op \in Local /\ Same(queue[j + 1], queue[1])
      BY <1>2, <1>3 DEF Same
    <3>2. j + 1 = 1
      BY <1>2, <3>1 DEF LocalSingle
    <3> QED
      BY <3>2
  <2>3. LocalOnce'
    BY <1>4 DEF LocalSingle, LocalOnce
  <2>6. /\ \A i \in 1..Len(log'), j \in 1..Len(queue') : queue'[j].op \in Local => ~Same(log'[i], queue'[j])
        /\ \A i \in 1..Len(log') : serving'.conn.op \in Local => ~Same(log'[i], serving'.conn)
        /\ \A i, j \in 1..Len(log') : Same(log'[i], log'[j]) => log'[i].op = log'[j].op
    BY <1>2, <1>3, <1>4 DEF LocalSingle
  <2>7. /\ \A i \in 1..Len(log'), j \in 1..Len(queue') : Same(log'[i], queue'[j]) => log'[i].op = queue'[j].op
        /\ \A i \in 1..Len(log') : Same(log'[i], serving'.conn) => log'[i].op = serving'.conn.op
    BY <1>2, <1>3, <1>4 DEF LocalSingle
  <2>4. \A j \in 1..Len(queue') : Same(serving'.conn, queue'[j]) => serving'.conn.op = queue'[j].op
    BY <1>2, <1>3 DEF LocalSingle
  <2>8. \A i, j \in 1..Len(queue') : Same(queue'[i], queue'[j]) => queue'[i].op = queue'[j].op
    BY <1>2 DEF LocalSingle
  <2>5. \A c \in Clients : call'[c].phase = "connect" /\ call'[c].op \in Local =>
          /\ \A i \in 1..Len(queue') : ~(queue'[i].from = c /\ queue'[i].n = Len(told'[c]) + 1)
          /\ \A i \in 1..Len(log') : ~(log'[i].from = c /\ log'[i].n = Len(told'[c]) + 1)
          /\ ~(serving'.conn.from = c /\ serving'.conn.n = Len(told'[c]) + 1)
    BY <1>2, <1>3, <1>4 DEF LocalSingle
  <2> QED
    BY <2>1, <2>2, <2>3, <2>4, <2>5, <2>6, <2>7, <2>8 DEF LocalSingle, Same
<1> QED
  BY <1>5, <1>6, <1>7

LEMMA ConnectTypes ==
  ASSUME TypeOK, NEW c \in Clients, Connect(c)
  PROVE  /\ call' \in [Clients -> {Idle} \cup Calls] /\ call[c] \in Calls /\ call'[c] \in Calls
         /\ call'[c].phase = "waiting" /\ call'[c].op = call[c].op /\ call'[c].key = call[c].key
         /\ \A d \in Clients : d # c => call'[d] = call[d]
         /\ Connection(c) \in Conns /\ Connection(c).from = c /\ Connection(c).n = Len(told[c]) + 1
         /\ Connection(c).op = call[c].op /\ Connection(c).key = call[c].key
<1>1. call[c] \in Calls /\ call[c].phase = "connect" /\ Len(told[c]) \in Nat
  BY CallShape DEF Connect, InProgress
<1>2. call' = [call EXCEPT ![c].phase = "waiting"] /\ call \in [Clients -> {Idle} \cup Calls]
  BY DEF Connect, TypeOK
<1>3. call'[c] = [call[c] EXCEPT !.phase = "waiting"] /\ \A d \in Clients : d # c => call'[d] = call[d]
  BY <1>2
<1>4. /\ call'[c] = [phase |-> "waiting", op |-> call[c].op, key |-> call[c].key, attempt |-> call[c].attempt]
      /\ call[c].op \in Operations /\ call[c].key \in AnyKey /\ call[c].attempt \in Nat \ {0}
  BY <1>1, <1>3 DEF Calls
<1>5. call'[c] \in Calls
  BY <1>4 DEF Calls
<1>6. call' \in [Clients -> {Idle} \cup Calls]
  <2>1. call' = [d \in Clients |-> IF d = c THEN call'[c] ELSE call[d]]
    BY <1>2, <1>3
  <2>2. \A d \in Clients : (IF d = c THEN call'[c] ELSE call[d]) \in {Idle} \cup Calls
    BY <1>2, <1>5
  <2> QED
    BY <2>1, <2>2
<1>7. Connection(c) \in Conns /\ Connection(c).from = c /\ Connection(c).n = Len(told[c]) + 1
      /\ Connection(c).op = call[c].op /\ Connection(c).key = call[c].key
  BY <1>1, <1>4 DEF Connection, Conns
<1> QED
  BY <1>1, <1>3, <1>4, <1>5, <1>6, <1>7

(* A client joins the end of the queue. *)
LEMMA StructConnect ==
  ASSUME TypeOK, ConnsFit, Order, LocalSingle, NEW c \in Clients, Connect(c)
  PROVE  ConnsFit' /\ Order' /\ LocalSingle'
<1> DEFINE e == Connection(c)
<1>1. /\ e \in Conns /\ e.from = c /\ e.n = Len(told[c]) + 1 /\ e.op = call[c].op /\ e.key = call[c].key
      /\ call'[c].phase = "waiting" /\ call'[c].op = call[c].op /\ call'[c].key = call[c].key
      /\ \A d \in Clients : d # c => call'[d] = call[d]
      /\ call[c].phase = "connect" /\ Len(told[c]) \in Nat
  BY ConnectTypes, CallShape DEF Connect
<1>2. queue' = Append(queue, e) /\ queue \in Seq(Conns) /\ UNCHANGED <<told, serving, log>>
  BY DEF Connect, TypeOK, store
<1> HIDE DEF e
<1>3. /\ Len(queue') = Len(queue) + 1 /\ Len(queue) \in Nat /\ queue'[Len(queue) + 1] = e
      /\ \A i \in 1..Len(queue) : queue'[i] = queue[i]
  BY <1>1, <1>2, OneMore
<1>4. \A i \in 1..Len(queue') : (i \in 1..Len(queue) /\ queue'[i] = queue[i]) \/ (i = Len(queue) + 1 /\ queue'[i] = e)
  BY <1>3
<1>5. \A d \in Clients : InProgress(d)' = InProgress(d) /\ call'[d].op = call[d].op /\ call'[d].key = call[d].key
      /\ (call'[d].phase = "connect" => d # c /\ call[d].phase = "connect")
  BY <1>1 DEF InProgress
<1>6. /\ \A i \in 1..Len(queue) : queue[i].from \in Clients
      /\ \A i \in 1..Len(log) : log[i].from \in Clients /\ log[i].n \in Nat
      /\ serving # Ready => serving.conn.from \in Clients
  <2>1. \A i \in 1..Len(queue) : queue[i] \in Conns
    BY <1>2
  <2>2. \A i \in 1..Len(log) : log[i] \in Entries
    BY DEF TypeOK
  <2>3. serving # Ready => serving.conn \in Conns
    BY ServingShape
  <2> QED
    BY <2>1, <2>2, <2>3, ConnShape DEF Entries
<1>7. ConnsFit'
  <2>2. InProgress(c)' /\ call'[c].op = e.op /\ call'[c].key = e.key
    BY <1>1 DEF InProgress
  <2>3. \A i \in 1..Len(queue') : queue'[i].n <= Len(told'[queue'[i].from]) + 1
    BY <1>1, <1>2, <1>4, <1>6 DEF ConnsFit, Fits
  <2>4. \A i \in 1..Len(queue') : queue'[i].n = Len(told'[queue'[i].from]) + 1 =>
          /\ call'[queue'[i].from].phase # "idle" /\ call'[queue'[i].from].op = queue'[i].op
          /\ call'[queue'[i].from].key = queue'[i].key
    <3> SUFFICES ASSUME NEW i \in 1..Len(queue'), queue'[i].n = Len(told'[queue'[i].from]) + 1
                 PROVE  /\ call'[queue'[i].from].phase # "idle" /\ call'[queue'[i].from].op = queue'[i].op
                        /\ call'[queue'[i].from].key = queue'[i].key
      OBVIOUS
    <3>1. CASE i \in 1..Len(queue) /\ queue'[i] = queue[i]
      <4>1. Fits(queue[i]) /\ queue[i].from \in Clients
        BY <1>6, <3>1 DEF ConnsFit
      <4>2. InProgress(queue[i].from) /\ call[queue[i].from].op = queue[i].op /\ call[queue[i].from].key = queue[i].key
        BY <1>2, <3>1, <4>1 DEF Fits
      <4> QED
        BY <1>5, <3>1, <4>1, <4>2 DEF InProgress
    <3>2. CASE queue'[i] = e
      BY <1>1, <2>2, <3>2 DEF InProgress
    <3> QED
      BY <1>4, <3>1, <3>2
  <2>5. (serving # Ready => Fits(serving.conn))' /\ (\A i \in 1..Len(log) : Fits(log[i]))'
    BY <1>2, <1>5, <1>6 DEF ConnsFit, Fits
  <2> QED
    BY <2>3, <2>4, <2>5 DEF ConnsFit, Fits, InProgress
<1>8. Order'
  <2>1. \A i, j \in 1..Len(queue') : i < j => Ordered(queue'[i], queue'[j])
    <3> SUFFICES ASSUME NEW i \in 1..Len(queue'), NEW j \in 1..Len(queue'), i < j
                 PROVE  Ordered(queue'[i], queue'[j])
      OBVIOUS
    <3>1. i \in 1..Len(queue) /\ queue'[i] = queue[i]
      BY <1>3, <1>4
    <3>2. CASE j \in 1..Len(queue) /\ queue'[j] = queue[j]
      BY <3>1, <3>2 DEF Order
    <3>3. CASE j = Len(queue) + 1 /\ queue'[j] = e
      <4>1. Fits(queue[i])
        BY <3>1 DEF ConnsFit
      <4> QED
        BY <1>1, <3>1, <3>3, <4>1 DEF Ordered, Fits
    <3> QED
      BY <1>4, <3>2, <3>3
  <2>2. \A j \in 1..Len(queue') : serving' # Ready => Ordered(serving'.conn, queue'[j])
    BY <1>1, <1>2, <1>4 DEF Order, Ordered, ConnsFit, Fits
  <2>3. \A i \in 1..Len(log'), j \in 1..Len(queue') : Ordered(log'[i], queue'[j])
    BY <1>1, <1>2, <1>4 DEF Order, Ordered, ConnsFit, Fits
  <2>4. InOrder' /\ \A i \in 1..Len(log') : serving' # Ready => Ordered(log'[i], serving'.conn)
    BY <1>2 DEF Order, InOrder
  <2> QED
    BY <2>1, <2>2, <2>3, <2>4 DEF Order, Ordered
<1>9. LocalSingle'
  <2>1. call[c].op \in Local => /\ \A i \in 1..Len(queue) : ~Same(queue[i], e) /\ ~Same(e, queue[i])
                                /\ \A i \in 1..Len(log) : ~Same(log[i], e)
                                /\ serving # Ready => ~Same(serving.conn, e)
    BY <1>1 DEF LocalSingle, Same
  <2>2. /\ \A i \in 1..Len(queue) : Same(queue[i], e) \/ Same(e, queue[i]) => queue[i].op = e.op
        /\ \A i \in 1..Len(log) : Same(log[i], e) => log[i].op = e.op
        /\ serving # Ready => (Same(serving.conn, e) => serving.conn.op = e.op)
    BY <1>1 DEF ConnsFit, Fits, Same
  <2>3. \A i, j \in 1..Len(queue') : queue'[i].op \in Local /\ Same(queue'[i], queue'[j]) => i = j
    BY <1>1, <1>4, <2>1, <2>2 DEF LocalSingle
  <2>4. \A j \in 1..Len(queue') : serving' # Ready /\ queue'[j].op \in Local => ~Same(serving'.conn, queue'[j])
    BY <1>1, <1>2, <1>4, <2>1 DEF LocalSingle
  <2>5. \A i \in 1..Len(log'), j \in 1..Len(queue') : queue'[j].op \in Local => ~Same(log'[i], queue'[j])
    BY <1>1, <1>2, <1>4, <2>1 DEF LocalSingle
  <2>6. /\ \A i \in 1..Len(log') : serving'.stage \in {"begin", "execute"} /\ serving'.conn.op \in Local => ~Same(log'[i], serving'.conn)
        /\ \A i \in 1..Len(log') : serving' # Ready => (Same(log'[i], serving'.conn) => log'[i].op = serving'.conn.op)
        /\ \A i, j \in 1..Len(log') : Same(log'[i], log'[j]) => log'[i].op = log'[j].op
    BY <1>2 DEF LocalSingle
  <2>10. LocalOnce'
    BY <1>2 DEF LocalSingle, LocalOnce
  <2>7. \A d \in Clients : call'[d].phase = "connect" /\ call'[d].op \in Local =>
          /\ \A i \in 1..Len(queue') : ~(queue'[i].from = d /\ queue'[i].n = Len(told'[d]) + 1)
          /\ \A i \in 1..Len(log') : ~(log'[i].from = d /\ log'[i].n = Len(told'[d]) + 1)
          /\ serving' # Ready => ~(serving'.conn.from = d /\ serving'.conn.n = Len(told'[d]) + 1)
    BY <1>1, <1>2, <1>4, <1>5 DEF LocalSingle
  <2>8. \A i \in 1..Len(log'), j \in 1..Len(queue') : Same(log'[i], queue'[j]) => log'[i].op = queue'[j].op
    BY <1>2, <1>4, <2>2 DEF LocalSingle
  <2>9. \A j \in 1..Len(queue') : serving' # Ready => (Same(serving'.conn, queue'[j]) => serving'.conn.op = queue'[j].op)
    BY <1>2, <1>4, <2>2 DEF LocalSingle
  <2>11. \A i, j \in 1..Len(queue') : Same(queue'[i], queue'[j]) => queue'[i].op = queue'[j].op
    BY <1>4, <2>2 DEF LocalSingle
  <2> QED
    BY <2>3, <2>4, <2>5, <2>6, <2>7, <2>8, <2>9, <2>10, <2>11 DEF LocalSingle, Same
<1> QED
  BY <1>7, <1>8, <1>9

LEMMA Owners ==
  ASSUME TypeOK
  PROVE  /\ \A i \in 1..Len(queue) : queue[i] \in Conns /\ queue[i].from \in Clients /\ queue[i].n \in Nat
         /\ \A i \in 1..Len(log) : log[i] \in Entries /\ log[i].from \in Clients /\ log[i].n \in Nat
         /\ serving # Ready => serving.conn.from \in Clients /\ serving.conn.n \in Nat
<1>1. \A i \in 1..Len(queue) : queue[i] \in Conns
  BY DEF TypeOK
<1>2. \A i \in 1..Len(log) : log[i] \in Entries
  BY DEF TypeOK
<1>3. serving # Ready => serving.conn \in Conns
  BY ServingShape
<1> QED
  BY <1>1, <1>2, <1>3, ConnShape DEF Entries

(* A new request, and another attempt of one: nothing of the daemon moves.  *)
LEMMA StructIssue ==
  ASSUME TypeOK, ConnsFit, Order, LocalSingle, NEW c \in Clients, UNCHANGED <<told, queue, serving, log>>,
         \A d \in Clients : d # c => call'[d] = call[d],
         \/ ~InProgress(c) /\ call'[c].phase = "connect"
         \/ /\ InProgress(c) /\ call[c].op \notin Local /\ call'[c].phase = "connect"
            /\ call'[c].op = call[c].op /\ call'[c].key = call[c].key
  PROVE  ConnsFit' /\ Order' /\ LocalSingle'
<1>1. /\ \A i \in 1..Len(queue) : queue[i].from \in Clients
      /\ \A i \in 1..Len(log) : log[i].from \in Clients
      /\ serving # Ready => serving.conn.from \in Clients
  BY Owners
<1>2. Len(told[c]) \in Nat
  BY CallShape
<1>3. ConnsFit'
  <2>1. \A d \in Clients : InProgress(d) =>
          call'[d].phase # "idle" /\ call'[d].op = call[d].op /\ call'[d].key = call[d].key
    BY DEF InProgress
  <2>2. ASSUME NEW f, f.from \in Clients, Fits(f)
        PROVE  /\ f.n <= Len(told[f.from]) + 1
               /\ f.n = Len(told[f.from]) + 1 =>
                    call'[f.from].phase # "idle" /\ call'[f.from].op = f.op /\ call'[f.from].key = f.key
    BY <2>1, <2>2 DEF Fits
  <2>3. (\A i \in 1..Len(queue) : Fits(queue[i]))'
    BY <1>1, <2>2 DEF ConnsFit, Fits, InProgress
  <2>4. (serving # Ready => Fits(serving.conn))'
    BY <1>1, <2>2 DEF ConnsFit, Fits, InProgress
  <2>5. (\A i \in 1..Len(log) : Fits(log[i]))'
    BY <1>1, <2>2 DEF ConnsFit, Fits, InProgress
  <2> QED
    BY <2>3, <2>4, <2>5 DEF ConnsFit
<1>4. Order'
  BY DEF Order, Ordered, InOrder
<1>5. LocalSingle'
  <2>1. ~InProgress(c) =>
          /\ \A i \in 1..Len(queue) : ~(queue[i].from = c /\ queue[i].n = Len(told[c]) + 1)
          /\ \A i \in 1..Len(log) : ~(log[i].from = c /\ log[i].n = Len(told[c]) + 1)
          /\ serving # Ready => ~(serving.conn.from = c /\ serving.conn.n = Len(told[c]) + 1)
    BY DEF ConnsFit, Fits
  <2>2. \A d \in Clients : call'[d].phase = "connect" /\ call'[d].op \in Local =>
          /\ \A i \in 1..Len(queue') : ~(queue'[i].from = d /\ queue'[i].n = Len(told'[d]) + 1)
          /\ \A i \in 1..Len(log') : ~(log'[i].from = d /\ log'[i].n = Len(told'[d]) + 1)
          /\ serving' # Ready => ~(serving'.conn.from = d /\ serving'.conn.n = Len(told'[d]) + 1)
    BY <2>1 DEF LocalSingle
  <2> QED
    BY <2>2 DEF LocalSingle, Same, LocalOnce
<1> QED
  BY <1>3, <1>4, <1>5

(* A request ends, of the client whose answer was written or that gave up.  *)
LEMMA StructFinish ==
  ASSUME TypeOK, ConnsFit, Order, LocalSingle, NEW c \in Clients, InProgress(c), NEW a \in Answers,
         Finish(c, a), GoesOn, UNCHANGED log
  PROVE  ConnsFit' /\ Order' /\ LocalSingle'
<1>1. /\ \A i \in 1..Len(queue) : queue[i].from \in Clients /\ queue[i].n \in Nat
      /\ \A i \in 1..Len(log) : log[i].from \in Clients /\ log[i].n \in Nat
      /\ serving # Ready => serving.conn.from \in Clients /\ serving.conn.n \in Nat
  BY Owners
<1>2. /\ call'[c] = Idle /\ told'[c] = Append(told[c], [answer |-> a, key |-> call[c].key, op |-> call[c].op])
      /\ \A d \in Clients : d # c => call'[d] = call[d] /\ told'[d] = told[d]
  BY FinishTypes
<1>3. Len(told'[c]) = Len(told[c]) + 1 /\ Len(told[c]) \in Nat
  <2>1. told[c] \in Seq(Tellings) /\ [answer |-> a, key |-> call[c].key, op |-> call[c].op] \in Tellings
    BY CallShape DEF Tellings
  <2> QED
    BY <1>2, <2>1, OneMore
<1>4. \A i \in 1..Len(queue') : i \in 1..Len(queue) /\ queue'[i] = queue[i]
  BY QueueKept DEF GoesOn
<1>8. \A d \in Clients : Len(told[d]) \in Nat
  BY CallShape
<1>9. \A d \in Clients, m \in Nat : m <= Len(told[d]) + 1 =>
        m <= Len(told'[d]) + 1 /\ (m = Len(told'[d]) + 1 => d # c /\ m = Len(told[d]) + 1)
  <2> SUFFICES ASSUME NEW d \in Clients, NEW m \in Nat, m <= Len(told[d]) + 1
               PROVE  m <= Len(told'[d]) + 1 /\ (m = Len(told'[d]) + 1 => d # c /\ m = Len(told[d]) + 1)
    OBVIOUS
  <2>1. CASE d = c
    BY <1>3, <2>1
  <2>2. CASE d # c
    BY <1>2, <2>2
  <2> QED
    BY <2>1, <2>2
<1>10. \A d \in Clients : d # c => call'[d] = call[d] /\ told'[d] = told[d]
  BY <1>2
<1>5. ConnsFit'
  <2>1. (\A i \in 1..Len(queue) : Fits(queue[i]))'
    <3> SUFFICES ASSUME NEW i \in 1..Len(queue')
                 PROVE  Fits(queue[i])'
      OBVIOUS
    <3> DEFINE f == queue[i]
    <3>1. f.from \in Clients /\ f.n \in Nat /\ Fits(f) /\ queue'[i] = f
      BY <1>1, <1>4 DEF ConnsFit
    <3> HIDE DEF f
    <3>2. f.n <= Len(told'[f.from]) + 1 /\ (f.n = Len(told'[f.from]) + 1 => f.from # c /\ f.n = Len(told[f.from]) + 1)
      BY <1>9, <3>1 DEF Fits
    <3> QED
      BY <1>10, <3>1, <3>2 DEF Fits, InProgress
  <2>2. (serving # Ready => Fits(serving.conn))'
    <3> SUFFICES ASSUME serving' # Ready
                 PROVE  Fits(serving.conn)'
      OBVIOUS
    <3> DEFINE f == serving.conn
    <3>1. f.from \in Clients /\ f.n \in Nat /\ Fits(f) /\ serving'.conn = f
      BY <1>1 DEF ConnsFit, GoesOn
    <3> HIDE DEF f
    <3>2. f.n <= Len(told'[f.from]) + 1 /\ (f.n = Len(told'[f.from]) + 1 => f.from # c /\ f.n = Len(told[f.from]) + 1)
      BY <1>9, <3>1 DEF Fits
    <3> QED
      BY <1>10, <3>1, <3>2 DEF Fits, InProgress
  <2>3. (\A i \in 1..Len(log) : Fits(log[i]))'
    <3> SUFFICES ASSUME NEW i \in 1..Len(log')
                 PROVE  Fits(log[i])'
      OBVIOUS
    <3> DEFINE f == log[i]
    <3>1. f.from \in Clients /\ f.n \in Nat /\ Fits(f) /\ log'[i] = f
      BY <1>1 DEF ConnsFit
    <3> HIDE DEF f
    <3>2. f.n <= Len(told'[f.from]) + 1 /\ (f.n = Len(told'[f.from]) + 1 => f.from # c /\ f.n = Len(told[f.from]) + 1)
      BY <1>9, <3>1 DEF Fits
    <3> QED
      BY <1>10, <3>1, <3>2 DEF Fits, InProgress
  <2> QED
    BY <2>1, <2>2, <2>3 DEF ConnsFit
<1>6. Order'
  BY <1>4 DEF Order, Ordered, GoesOn, InOrder
<1>7. LocalSingle'
  <2>1. call'[c].phase # "connect"
    BY <1>2 DEF Idle
  <2>2. \A d \in Clients : call'[d].phase = "connect" /\ call'[d].op \in Local =>
          /\ \A i \in 1..Len(queue') : ~(queue'[i].from = d /\ queue'[i].n = Len(told'[d]) + 1)
          /\ \A i \in 1..Len(log') : ~(log'[i].from = d /\ log'[i].n = Len(told'[d]) + 1)
          /\ serving' # Ready => ~(serving'.conn.from = d /\ serving'.conn.n = Len(told'[d]) + 1)
    <3> SUFFICES ASSUME NEW d \in Clients, call'[d].phase = "connect", call'[d].op \in Local
                 PROVE  /\ \A i \in 1..Len(queue') : ~(queue'[i].from = d /\ queue'[i].n = Len(told'[d]) + 1)
                        /\ \A i \in 1..Len(log') : ~(log'[i].from = d /\ log'[i].n = Len(told'[d]) + 1)
                        /\ serving' # Ready => ~(serving'.conn.from = d /\ serving'.conn.n = Len(told'[d]) + 1)
      OBVIOUS
    <3>1. call'[d] = call[d] /\ told'[d] = told[d]
      BY <1>10, <2>1
    <3>2. /\ \A i \in 1..Len(queue) : ~(queue[i].from = d /\ queue[i].n = Len(told[d]) + 1)
          /\ \A i \in 1..Len(log) : ~(log[i].from = d /\ log[i].n = Len(told[d]) + 1)
          /\ serving # Ready => ~(serving.conn.from = d /\ serving.conn.n = Len(told[d]) + 1)
      BY <3>1 DEF LocalSingle
    <3> QED
      BY <1>4, <3>1, <3>2 DEF GoesOn
  <2>3. LocalOnce' /\ \A i, j \in 1..Len(log') : Same(log'[i], log'[j]) => log'[i].op = log'[j].op
    BY DEF LocalSingle, LocalOnce
  <2>4. /\ \A i, j \in 1..Len(queue') : queue'[i].op \in Local /\ Same(queue'[i], queue'[j]) => i = j
        /\ \A i, j \in 1..Len(queue') : Same(queue'[i], queue'[j]) => queue'[i].op = queue'[j].op
    BY <1>4 DEF LocalSingle
  <2>5. /\ \A j \in 1..Len(queue') : serving' # Ready /\ queue'[j].op \in Local => ~Same(serving'.conn, queue'[j])
        /\ \A j \in 1..Len(queue') : serving' # Ready => (Same(serving'.conn, queue'[j]) => serving'.conn.op = queue'[j].op)
    BY <1>4 DEF LocalSingle, GoesOn
  <2>6. /\ \A i \in 1..Len(log'), j \in 1..Len(queue') : queue'[j].op \in Local => ~Same(log'[i], queue'[j])
        /\ \A i \in 1..Len(log'), j \in 1..Len(queue') : Same(log'[i], queue'[j]) => log'[i].op = queue'[j].op
    BY <1>4 DEF LocalSingle
  <2>7. /\ \A i \in 1..Len(log') : serving'.stage \in {"begin", "execute"} /\ serving'.conn.op \in Local => ~Same(log'[i], serving'.conn)
        /\ \A i \in 1..Len(log') : serving' # Ready => (Same(log'[i], serving'.conn) => log'[i].op = serving'.conn.op)
    BY DEF LocalSingle, GoesOn
  <2> QED
    BY <2>2, <2>3, <2>4, <2>5, <2>6, <2>7 DEF LocalSingle, Same
<1> QED
  BY <1>5, <1>6, <1>7

-----------------------------------------------------------------------------
(* What was told, claimed and executed under a key. *)

LEMMA ToldKept ==
  ASSUME told' = told, NEW k, NEW S
  PROVE  (ToldOf(k, S)' <=> ToldOf(k, S)) /\ Claims(k)' = Claims(k)
BY DEF ToldOf, Claims, Told

LEMMA RunsKept ==
  ASSUME log' = log, NEW k
  PROVE  DurableRuns(k)' = DurableRuns(k)
BY DEF DurableRuns

(* What the end of a request adds to what was told. *)
LEMMA ToldFinish ==
  ASSUME TypeOK, NEW c \in Clients, InProgress(c), NEW a \in Answers, Finish(c, a), NEW k, NEW S
  PROVE  ToldOf(k, S)' => ToldOf(k, S) \/ (call[c].key = k /\ call[c].op \in Durable /\ a.code \in S)
<1> DEFINE t == [answer |-> a, key |-> call[c].key, op |-> call[c].op]
<1>1. /\ told'[c] = Append(told[c], t) /\ \A d \in Clients : d # c => told'[d] = told[d]
      /\ told[c] \in Seq(Tellings) /\ t \in Tellings
  BY FinishTypes, CallShape DEF Tellings
<1>2. t.answer = a /\ t.key = call[c].key /\ t.op = call[c].op
  OBVIOUS
<1> HIDE DEF t
<1>3. Len(told'[c]) = Len(told[c]) + 1 /\ Len(told[c]) \in Nat /\ told'[c][Len(told[c]) + 1] = t
      /\ \A i \in 1..Len(told[c]) : told'[c][i] = told[c][i]
  BY <1>1, OneMore
<1> SUFFICES ASSUME NEW d \in Clients, NEW i \in 1..Len(told'[d]), told'[d][i].key = k,
                    told'[d][i].op \in Durable, told'[d][i].answer.code \in S
             PROVE  ToldOf(k, S) \/ (call[c].key = k /\ call[c].op \in Durable /\ a.code \in S)
  BY DEF ToldOf
<1>4. CASE d # c
  BY <1>1, <1>4 DEF ToldOf
<1>5. CASE d = c /\ i \in 1..Len(told[c])
  <2>1. told[c][i].key = k /\ told[c][i].op \in Durable /\ told[c][i].answer.code \in S
    BY <1>3, <1>5
  <2> QED
    BY <1>5, <2>1 DEF ToldOf
<1>6. CASE d = c /\ i = Len(told[c]) + 1
  BY <1>2, <1>3, <1>6
<1> QED
  BY <1>3, <1>4, <1>5, <1>6

LEMMA ClaimsFinish ==
  ASSUME TypeOK, NEW c \in Clients, InProgress(c), NEW a \in Answers, Finish(c, a), NEW k
  PROVE  /\ Claims(k)' \subseteq Claims(k) \cup {a} /\ Claims(k) \subseteq Claims(k)'
         /\ ~(call[c].key = k /\ call[c].op \in Durable /\ a.code \in Definite) => Claims(k)' = Claims(k)
         /\ call[c].key = k /\ call[c].op \in Durable /\ a.code \in Definite => a \in Claims(k)'
<1> DEFINE t == [answer |-> a, key |-> call[c].key, op |-> call[c].op]
<1>1. /\ told'[c] = Append(told[c], t) /\ \A d \in Clients : d # c => told'[d] = told[d]
      /\ told[c] \in Seq(Tellings) /\ t \in Tellings
  BY FinishTypes, CallShape DEF Tellings
<1>2. t.answer = a /\ t.key = call[c].key /\ t.op = call[c].op
  OBVIOUS
<1> HIDE DEF t
<1>3. Len(told'[c]) = Len(told[c]) + 1 /\ Len(told[c]) \in Nat /\ told'[c][Len(told[c]) + 1] = t
      /\ \A i \in 1..Len(told[c]) : told'[c][i] = told[c][i]
  BY <1>1, OneMore
<1>4. Told' \subseteq Told \cup {t} /\ Told \subseteq Told' /\ t \in Told'
  <2>1. ASSUME NEW u \in Told'
        PROVE  u \in Told \cup {t}
    <3>1. PICK d \in Clients : \E i \in 1..Len(told'[d]) : u = told'[d][i]
      BY <2>1 DEF Told
    <3>2. PICK i \in 1..Len(told'[d]) : u = told'[d][i]
      BY <3>1
    <3>3. CASE d # c
      <4>1. i \in 1..Len(told[d]) /\ u = told[d][i]
        BY <1>1, <3>2, <3>3
      <4> QED
        BY <4>1 DEF Told
    <3>4. CASE d = c /\ i \in 1..Len(told[c])
      <4>1. i \in 1..Len(told[c]) /\ u = told[c][i]
        BY <1>3, <3>2, <3>4
      <4> QED
        BY <4>1 DEF Told
    <3>5. CASE d = c /\ i = Len(told[c]) + 1
      BY <1>3, <3>2, <3>5
    <3> QED
      BY <1>3, <3>3, <3>4, <3>5
  <2>2. ASSUME NEW u \in Told
        PROVE  u \in Told'
    <3>1. PICK d \in Clients : \E i \in 1..Len(told[d]) : u = told[d][i]
      BY <2>2 DEF Told
    <3>2. PICK i \in 1..Len(told[d]) : u = told[d][i]
      BY <3>1
    <3>3. i \in 1..Len(told'[d]) /\ u = told'[d][i]
      BY <1>1, <1>3, <3>2
    <3> QED
      BY <3>3 DEF Told
  <2>3. Len(told[c]) + 1 \in 1..Len(told'[c]) /\ t = told'[c][Len(told[c]) + 1]
    BY <1>3
  <2>4. t \in Told'
    BY <2>3 DEF Told
  <2> QED
    BY <2>1, <2>2, <2>4
<1> QED
  BY <1>2, <1>4 DEF Claims

-----------------------------------------------------------------------------
(* The state of a key, step by step. *)

(* A step that leaves the table and the history of a key alone, and serves   *)
(* no durable mutation or the one it served.                                 *)
LEMMA KeyQuiet ==
  ASSUME UNCHANGED <<told, rows, old>>, NEW k \in Keys, KeyState(k), DurableRuns(k)' = DurableRuns(k),
         serving' = serving \/ ~(serving'.stage \in {"execute", "complete", "reply"} /\ serving'.conn.op \in Durable)
  PROVE  KeyState(k)'
<1>1. /\ ToldOf(k, Definite)' <=> ToldOf(k, Definite)
      /\ ToldOf(k, Unknown)' <=> ToldOf(k, Unknown)
      /\ Claims(k)' = Claims(k)
  BY ToldKept
<1>2. (Executing(k)' => Executing(k) /\ serving' = serving) /\ (Replying(k)' => Replying(k) /\ serving' = serving)
  BY DEF Executing, Replying
<1> QED
  BY <1>1, <1>2 DEF KeyState

(* A client gives up: it claims nothing. *)
LEMMA KeyGiveUp ==
  ASSUME TypeOK, UNCHANGED <<serving, rows, log, old>>, NEW k \in Keys, KeyState(k), NEW c \in Clients, InProgress(c),
         NEW a \in Answers, Finish(c, a), a.code \notin Definite \cup Unknown
  PROVE  KeyState(k)'
<1>1. /\ ToldOf(k, Definite)' => ToldOf(k, Definite)
      /\ ToldOf(k, Unknown)' => ToldOf(k, Unknown)
  BY ToldFinish
<1>2. Claims(k)' = Claims(k)
  BY ClaimsFinish
<1>3. DurableRuns(k)' = DurableRuns(k)
  BY RunsKept
<1>4. (Executing(k)' <=> Executing(k)) /\ (Replying(k)' <=> Replying(k))
  BY DEF Executing, Replying
<1> QED
  BY <1>1, <1>2, <1>3, <1>4 DEF KeyState

(* The response that is written is the recorded one, or that there is none. *)
LEMMA KeyReply ==
  ASSUME TypeOK, NEW k \in Keys, KeyState(k), UNCHANGED <<rows, log, old>>, serving' = Ready,
         serving.stage = "reply", NEW c \in Clients, InProgress(c), serving.answer \in Answers,
         call[c].key = serving.conn.key, call[c].op = serving.conn.op, Finish(c, serving.answer)
  PROVE  KeyState(k)'
<1> DEFINE a == serving.answer
<1>1. /\ ToldOf(k, Definite)' => ToldOf(k, Definite) \/ (Replying(k) /\ a.code \in Definite)
      /\ ToldOf(k, Unknown)' => ToldOf(k, Unknown) \/ (Replying(k) /\ a.code \in Unknown)
  BY ToldFinish DEF Replying
<1>2. /\ Claims(k)' \subseteq Claims(k) \cup {a}
      /\ ~(Replying(k) /\ a.code \in Definite) => Claims(k)' = Claims(k)
  BY ClaimsFinish DEF Replying
<1>3. DurableRuns(k)' = DurableRuns(k)
  BY RunsKept
<1>4. ~Executing(k)' /\ ~Replying(k)'
  BY DEF Executing, Replying, Ready
<1>5. ~(a.code \in Definite /\ a.code \in Unknown)
  BY DEF Definite, Unknown
<1>6. CASE Replying(k) /\ a.code \in Definite
  <2>1. rows[k].state = "completed" /\ rows[k].answer = a /\ ~ToldOf(k, Unknown) /\ Claims(k) \subseteq {a}
    BY <1>6 DEF KeyState
  <2>2. ~ToldOf(k, Unknown)' /\ Claims(k)' \subseteq {a}
    BY <1>1, <1>2, <1>5, <1>6, <2>1
  <2> QED
    BY <1>3, <1>4, <1>6, <2>1, <2>2 DEF KeyState
<1>7. CASE Replying(k) /\ a.code \in Unknown
  <2>1. rows[k].state = "pending" /\ ~ToldOf(k, Definite)
    BY <1>7 DEF KeyState
  <2>2. ~ToldOf(k, Definite)'
    BY <1>1, <1>5, <1>7, <2>1
  <2> QED
    BY <1>3, <1>4, <2>1, <2>2 DEF KeyState
<1>8. CASE ~(Replying(k) /\ a.code \in Definite) /\ ~(Replying(k) /\ a.code \in Unknown)
  BY <1>1, <1>2, <1>3, <1>4, <1>8 DEF KeyState
<1> QED
  BY <1>6, <1>7, <1>8

(* A durable mutation is answered without being executed: from its record,   *)
(* or with a code that claims nothing.                                       *)
LEMMA KeyRespond ==
  ASSUME UNCHANGED <<told, rows, log, old>>, NEW k \in Keys, KeyState(k), serving'.stage = "reply",
         serving'.conn = serving.conn,
         serving.conn.key = k /\ serving.conn.op \in Durable =>
           /\ serving'.answer.code \in Definite => rows[k].state = "completed" /\ rows[k].answer = serving'.answer
           /\ serving'.answer.code \in Unknown => rows[k].state = "pending"
  PROVE  KeyState(k)'
<1>1. /\ ToldOf(k, Definite)' <=> ToldOf(k, Definite)
      /\ ToldOf(k, Unknown)' <=> ToldOf(k, Unknown)
      /\ Claims(k)' = Claims(k) /\ DurableRuns(k)' = DurableRuns(k)
  BY ToldKept, RunsKept
<1>2. ~Executing(k)' /\ (Replying(k)' => serving.conn.key = k /\ serving.conn.op \in Durable)
  BY DEF Executing, Replying
<1> QED
  BY <1>1, <1>2 DEF KeyState

(* reserve_idempotency_request on a free key. *)
LEMMA KeyReserve ==
  ASSUME TypeOK, Retired, NEW k \in Keys, KeyState(k), ReserveNew
  PROVE  KeyState(k)'
<1>1. serving.conn \in Conns /\ serving # Ready /\ serving.conn.key \in Keys /\ serving.conn.op \in Durable
  BY BeginShape DEF ReserveNew, Beginning, AnyKey
<1>2. serving'.stage = "execute" /\ serving'.conn = serving.conn
  BY <1>1, GoExecuteTypes DEF ReserveNew
<1>3. UNCHANGED <<told, log, old>>
  BY DEF ReserveNew, client
<1>4. /\ ToldOf(k, Definite)' <=> ToldOf(k, Definite)
      /\ ToldOf(k, Unknown)' <=> ToldOf(k, Unknown)
      /\ Claims(k)' = Claims(k) /\ DurableRuns(k)' = DurableRuns(k)
  BY <1>3, ToldKept, RunsKept
<1>5. ~Replying(k)' /\ (Executing(k)' <=> k = serving.conn.key)
  BY <1>1, <1>2 DEF Executing, Replying
<1>6. CASE k = serving.conn.key
  <2>1. rows[k] = NoRow /\ rows'[k] = [state |-> "pending", op |-> serving.conn.op]
    BY <1>1, <1>6 DEF ReserveNew, TypeOK
  <2>2. k \notin old
    BY <1>1, <1>6 DEF Retired, KeysInUse
  <2>3. DurableRuns(k) = {} /\ ~ToldOf(k, Definite) /\ ~ToldOf(k, Unknown)
    BY <2>1, <2>2 DEF KeyState, NoRow
  <2>4. rows'[k].state = "pending" /\ rows'[k].op = serving.conn.op
    BY <2>1
  <2> QED
    BY <1>2, <1>4, <1>5, <2>3, <2>4 DEF KeyState
<1>7. CASE k # serving.conn.key
  <2>1. rows'[k] = rows[k]
    BY <1>1, <1>7 DEF ReserveNew, TypeOK
  <2> QED
    BY <1>3, <1>4, <1>5, <1>7, <2>1 DEF KeyState
<1> QED
  BY <1>6, <1>7

(* One more effect counts for its own key, if it is that of a durable one.  *)
LEMMA RunsGrow ==
  ASSUME TypeOK, NEW e \in Entries, log' = Append(log, e), NEW k
  PROVE  DurableRuns(k)' = DurableRuns(k) \cup (IF e.key = k /\ e.op \in Durable THEN {Len(log) + 1} ELSE {})
<1>1. /\ Len(log') = Len(log) + 1 /\ Len(log) \in Nat /\ log'[Len(log) + 1] = e
      /\ \A i \in 1..Len(log) : log'[i] = log[i]
  BY OneMore DEF TypeOK
<1>2. \A i : i \in 1..Len(log') <=> i \in 1..Len(log) \/ i = Len(log) + 1
  BY <1>1
<1>3. CASE e.key = k /\ e.op \in Durable
  BY <1>1, <1>2, <1>3 DEF DurableRuns
<1>4. CASE ~(e.key = k /\ e.op \in Durable)
  BY <1>1, <1>2, <1>4 DEF DurableRuns
<1> QED
  BY <1>3, <1>4

LEMMA KeyExecute ==
  ASSUME TypeOK, NEW k \in Keys, KeyState(k), Execute
  PROVE  KeyState(k)'
<1>1. /\ serving'.conn = serving.conn /\ serving'.answer.code \in Definite
      /\ serving'.stage = (IF serving.conn.op \in Durable THEN "complete" ELSE "reply")
      /\ log' = log \/ (log' = Append(log, Entry(serving.conn)) /\ Entry(serving.conn) \in Entries)
  BY ExecuteTypes
<1>2. UNCHANGED <<told, rows, old>> /\ serving.stage = "execute"
  BY DEF Execute, client
<1>3. /\ ToldOf(k, Definite)' <=> ToldOf(k, Definite)
      /\ ToldOf(k, Unknown)' <=> ToldOf(k, Unknown)
      /\ Claims(k)' = Claims(k)
  BY <1>2, ToldKept
<1>4. ~Replying(k)' /\ (Executing(k)' <=> Executing(k))
  BY <1>1, <1>2 DEF Executing, Replying
<1>5. CASE Executing(k)
  <2>1. DurableRuns(k) = {} /\ rows[k].state = "pending" /\ rows[k].op = serving.conn.op
    BY <1>2, <1>5 DEF KeyState
  <2>2. serving'.stage = "complete"
    BY <1>1, <1>5 DEF Executing
  <2>3. \A i, j \in DurableRuns(k)' : i = j
    BY <1>1, <2>1, RunsKept, RunsGrow
  <2> QED
    BY <1>1, <1>2, <1>3, <1>4, <2>1, <2>2, <2>3 DEF KeyState
<1>6. CASE ~Executing(k)
  <2>1. Entry(serving.conn).key = serving.conn.key /\ Entry(serving.conn).op = serving.conn.op
    BY DEF Entry
  <2>2. ~(Entry(serving.conn).key = k /\ Entry(serving.conn).op \in Durable)
    BY <1>2, <1>6, <2>1 DEF Executing
  <2>3. DurableRuns(k)' = DurableRuns(k)
    BY <1>1, <2>2, RunsKept, RunsGrow
  <2> QED
    BY <1>2, <1>3, <1>4, <1>6, <2>3 DEF KeyState
<1> QED
  BY <1>5, <1>6

(* complete_idempotency_request: the response is recorded before it is      *)
(* written.                                                                 *)
LEMMA KeyComplete ==
  ASSUME TypeOK, Keyed, NEW k \in Keys, KeyState(k), Complete
  PROVE  KeyState(k)'
<1>1. /\ serving.stage = "complete" /\ serving.conn \in Conns /\ serving.answer \in Answers
      /\ serving.conn.op \in Durable /\ serving.conn.key \in Keys
  BY ServingShape, BeginShape, RequestsAssumption DEF Complete, Keyed
<1>2. serving'.stage = "reply" /\ serving'.conn = serving.conn /\ serving'.answer = serving.answer
  BY <1>1, RespondTypes DEF Complete
<1>3. UNCHANGED <<told, log, old>>
  BY DEF Complete, client
<1>4. /\ ToldOf(k, Definite)' <=> ToldOf(k, Definite)
      /\ ToldOf(k, Unknown)' <=> ToldOf(k, Unknown)
      /\ Claims(k)' = Claims(k) /\ DurableRuns(k)' = DurableRuns(k)
  BY <1>3, ToldKept, RunsKept
<1>5. ~Executing(k)' /\ (Replying(k)' <=> k = serving.conn.key)
  BY <1>1, <1>2 DEF Executing, Replying
<1>6. CASE k = serving.conn.key
  <2>1. Executing(k)
    BY <1>1, <1>6 DEF Executing
  <2>2. /\ rows[k].state = "pending" /\ ~ToldOf(k, Unknown) /\ ~ToldOf(k, Definite)
        /\ serving.answer.code \in Definite
    BY <1>1, <2>1 DEF KeyState
  <2>3. rows'[k] = [state |-> "completed", op |-> rows[k].op, answer |-> serving.answer]
    BY <1>1, <1>6 DEF Complete, TypeOK
  <2>4. rows'[k].state = "completed" /\ rows'[k].answer = serving.answer
    BY <2>3
  <2>5. Claims(k) = {}
    BY <2>2 DEF Claims, Told, ToldOf
  <2>6. \A i, j \in DurableRuns(k) : i = j
    BY DEF KeyState
  <2>7. serving.answer.code \notin Unknown
    BY <2>2 DEF Definite, Unknown
  <2> QED
    BY <1>2, <1>4, <1>5, <2>2, <2>4, <2>5, <2>6, <2>7 DEF KeyState
<1>7. CASE k # serving.conn.key
  <2>1. rows'[k] = rows[k]
    BY <1>1, <1>7 DEF Complete, TypeOK
  <2> QED
    BY <1>3, <1>4, <1>5, <1>7, <2>1 DEF KeyState
<1> QED
  BY <1>6, <1>7

(* prune_protocol_history removes records whose key is out of use. *)
LEMMA KeyStart ==
  ASSUME TypeOK, Keyed, NEW k \in Keys, KeyState(k), NEW c \in Clients, Start(c)
  PROVE  KeyState(k)'
<1>1. serving = Ready /\ serving' = serving /\ UNCHANGED <<told, log, old>>
  BY DEF Start, Keyed, client
<1>2. rows'[k] = rows[k] \/ (k \in old /\ rows'[k] = NoRow)
  BY DEF Start, Prunable
<1>3. /\ ToldOf(k, Definite)' <=> ToldOf(k, Definite)
      /\ ToldOf(k, Unknown)' <=> ToldOf(k, Unknown)
      /\ Claims(k)' = Claims(k) /\ DurableRuns(k)' = DurableRuns(k)
  BY <1>1, ToldKept, RunsKept
<1>4. ~Executing(k)' /\ ~Replying(k)'
  BY <1>1 DEF Executing, Replying, Ready
<1>5. rows'[k] = NoRow => rows'[k].state = "none"
  BY DEF NoRow
<1> QED
  BY <1>1, <1>2, <1>3, <1>4, <1>5 DEF KeyState

LEMMA KeyAge ==
  ASSUME NEW k \in Keys, KeyState(k), Age
  PROVE  KeyState(k)'
<1>1. UNCHANGED <<serving, told, rows, log>> /\ (k \notin old' => k \notin old)
  BY DEF Age, client, daemon
<1>2. /\ ToldOf(k, Definite)' <=> ToldOf(k, Definite)
      /\ ToldOf(k, Unknown)' <=> ToldOf(k, Unknown)
      /\ Claims(k)' = Claims(k) /\ DurableRuns(k)' = DurableRuns(k)
  BY <1>1, ToldKept, RunsKept
<1>3. (Executing(k)' <=> Executing(k)) /\ (Replying(k)' <=> Replying(k))
  BY <1>1 DEF Executing, Replying
<1> QED
  BY <1>1, <1>2, <1>3 DEF KeyState

-----------------------------------------------------------------------------
(* Success is told of executions. *)

LogGrows == \A i \in 1..Len(log) : i \in 1..Len(log') /\ log'[i] = log[i]

OkNext(a, k, op) ==
  a.code = "ok" /\ op \notin Reads => a.run \in 1..Len(log') /\ log'[a.run].key = k /\ log'[a.run].op = op

LEMMA OkKept ==
  ASSUME LogGrows, NEW a, NEW k, NEW op, OkFits(a, k, op)
  PROVE  OkNext(a, k, op)
BY DEF LogGrows, OkFits, OkNext

LEMMA OkToldKept ==
  ASSUME LogGrows, OkTold, told' = told
  PROVE  OkTold'
<1> SUFFICES ASSUME NEW c \in Clients, NEW i \in 1..Len(told[c])
             PROVE  OkNext(told[c][i].answer, told[c][i].key, told[c][i].op)
  BY DEF OkTold, OkFits, OkNext
<1>1. OkFits(told[c][i].answer, told[c][i].key, told[c][i].op)
  BY DEF OkTold
<1> QED
  BY <1>1, OkKept

LEMMA OkToldFinish ==
  ASSUME TypeOK, log' = log, OkTold, NEW c \in Clients, InProgress(c), NEW a \in Answers, Finish(c, a),
         OkFits(a, call[c].key, call[c].op)
  PROVE  OkTold'
<1> DEFINE t == [answer |-> a, key |-> call[c].key, op |-> call[c].op]
<1>1. /\ told'[c] = Append(told[c], t) /\ \A d \in Clients : d # c => told'[d] = told[d]
      /\ told[c] \in Seq(Tellings) /\ t \in Tellings
  BY FinishTypes, CallShape DEF Tellings
<1>2. t.answer = a /\ t.key = call[c].key /\ t.op = call[c].op
  OBVIOUS
<1> HIDE DEF t
<1>3. Len(told'[c]) = Len(told[c]) + 1 /\ Len(told[c]) \in Nat /\ told'[c][Len(told[c]) + 1] = t
      /\ \A i \in 1..Len(told[c]) : told'[c][i] = told[c][i]
  BY <1>1, OneMore
<1> SUFFICES ASSUME NEW d \in Clients, NEW i \in 1..Len(told'[d])
             PROVE  OkFits(told'[d][i].answer, told'[d][i].key, told'[d][i].op)
  BY DEF OkTold, OkFits
<1>4. CASE d # c
  <2>1. told'[d] = told[d]
    BY <1>1, <1>4
  <2> QED
    BY <2>1 DEF OkTold
<1>5. CASE d = c /\ i \in 1..Len(told[c])
  <2>1. told'[d][i] = told[d][i]
    BY <1>3, <1>5
  <2> QED
    BY <1>5, <2>1 DEF OkTold
<1>6. CASE d = c /\ i = Len(told[c]) + 1
  BY <1>2, <1>3, <1>6
<1> QED
  BY <1>3, <1>4, <1>5, <1>6

LEMMA OkRowsKept ==
  ASSUME LogGrows, OkRows, \A k \in Keys : rows'[k].state = "completed" => rows'[k] = rows[k]
  PROVE  OkRows'
<1> SUFFICES ASSUME NEW k \in Keys, rows'[k].state = "completed"
             PROVE  OkNext(rows'[k].answer, k, rows'[k].op)
  BY DEF OkRows, OkFits, OkNext
<1>1. rows'[k] = rows[k] /\ OkFits(rows[k].answer, k, rows[k].op)
  BY DEF OkRows
<1> QED
  BY <1>1, OkKept

(* The response that is recorded is the one that was executed. *)
LEMMA OkRowsComplete ==
  ASSUME TypeOK, OkFit, Keyed, Complete, \A k \in Keys : KeyState(k)
  PROVE  OkRows'
<1>1. /\ serving.stage = "complete" /\ serving.conn.op \in Durable /\ serving.conn.key \in Keys
  BY RequestsAssumption DEF Complete, Keyed
<1>2. rows[serving.conn.key].op = serving.conn.op
  BY <1>1 DEF KeyState, Executing
<1>3. OkFits(serving.answer, serving.conn.key, serving.conn.op)
  BY <1>1 DEF OkFit, OkServing
<1> SUFFICES ASSUME NEW k \in Keys, rows'[k].state = "completed"
             PROVE  OkFits(rows'[k].answer, k, rows'[k].op)
  BY DEF OkRows, OkFits, Complete
<1>4. CASE k = serving.conn.key
  <2>1. rows'[k] = [state |-> "completed", op |-> rows[k].op, answer |-> serving.answer]
    BY <1>1, <1>4 DEF Complete, TypeOK
  <2> QED
    BY <1>2, <1>3, <1>4, <2>1
<1>5. CASE k # serving.conn.key
  <2>1. rows'[k] = rows[k]
    BY <1>1, <1>5 DEF Complete, TypeOK
  <2> QED
    BY <2>1 DEF OkFit, OkRows
<1> QED
  BY <1>4, <1>5

-----------------------------------------------------------------------------
(* Keys in use. *)

UsedBy(k) ==
  \/ \E c \in Clients : InProgress(c) /\ call[c].key = k
  \/ \E i \in 1..Len(queue) : queue[i].key = k
  \/ serving # Ready /\ serving.conn.key = k

LEMMA InUse ==
  ASSUME NEW k
  PROVE  k \in KeysInUse <=> UsedBy(k)
BY DEF KeysInUse, UsedBy

LEMMA RetiredKept ==
  ASSUME Retired, old' = old, \A k \in old : UsedBy(k)' => UsedBy(k)
  PROVE  Retired'
<1> SUFFICES ASSUME NEW k \in old, UsedBy(k)'
             PROVE  FALSE
  BY DEF Retired, KeysInUse, UsedBy
<1> QED
  BY InUse DEF Retired

(* The daemon goes on, and the clients keep their keys or end their calls.   *)
LEMMA RetiredGoesOn ==
  ASSUME TypeOK, Retired, old' = old, GoesOn,
         \A c \in Clients : call'[c].phase # "idle" => call[c].phase # "idle" /\ call'[c].key = call[c].key
  PROVE  Retired'
<1>1. \A i \in 1..Len(queue') : i \in 1..Len(queue) /\ queue'[i] = queue[i]
  BY QueueKept DEF GoesOn
<1> SUFFICES ASSUME NEW k \in old, UsedBy(k)'
             PROVE  UsedBy(k)
  BY RetiredKept
<1> QED
  BY <1>1 DEF UsedBy, GoesOn, InProgress

LEMMA RetiredAccept ==
  ASSUME TypeOK, Retired, Accept
  PROVE  Retired'
<1>1. queue \in Seq(Conns) /\ queue # <<>> /\ queue' = Tail(queue) /\ UNCHANGED <<call, old>>
  BY DEF Accept, TypeOK, client, store
<1>2. /\ 1 \in 1..Len(queue) /\ Head(queue) = queue[1]
      /\ \A i \in 1..Len(queue') : queue'[i] = queue[i + 1] /\ i + 1 \in 1..Len(queue)
  BY <1>1, OneLess
<1>3. serving'.conn = queue[1]
  BY <1>2 DEF Accept
<1> SUFFICES ASSUME NEW k \in old, UsedBy(k)'
             PROVE  UsedBy(k)
  BY <1>1, RetiredKept
<1> QED
  BY <1>1, <1>2, <1>3 DEF UsedBy, InProgress

LEMMA RetiredConnect ==
  ASSUME TypeOK, Retired, NEW c \in Clients, Connect(c)
  PROVE  Retired'
<1> DEFINE e == Connection(c)
<1>1. /\ e \in Conns /\ e.key = call[c].key /\ call'[c].key = call[c].key
      /\ \A d \in Clients : d # c => call'[d] = call[d]
  BY ConnectTypes
<1>2. queue' = Append(queue, e) /\ queue \in Seq(Conns) /\ UNCHANGED <<serving, old>> /\ InProgress(c)
  BY DEF Connect, TypeOK, store, InProgress
<1> HIDE DEF e
<1>3. \A i \in 1..Len(queue') : (i \in 1..Len(queue) /\ queue'[i] = queue[i]) \/ queue'[i] = e
  BY <1>1, <1>2, OneMore
<1> SUFFICES ASSUME NEW k \in old, UsedBy(k)'
             PROVE  UsedBy(k)
  BY <1>2, RetiredKept
<1>4. CASE \E d \in Clients : InProgress(d)' /\ call'[d].key = k
  BY <1>1, <1>2, <1>4 DEF UsedBy, InProgress
<1>5. CASE \E i \in 1..Len(queue') : queue'[i].key = k
  BY <1>1, <1>2, <1>3, <1>5 DEF UsedBy
<1>6. CASE serving' # Ready /\ serving'.conn.key = k
  BY <1>2, <1>6 DEF UsedBy
<1> QED
  BY <1>4, <1>5, <1>6 DEF UsedBy

(* A request takes a key that is not retired. *)
LEMMA RetiredIssue ==
  ASSUME TypeOK, Retired, NEW c \in Clients, NEW op, NEW k \in AnyKey, Issue(c, op, k)
  PROVE  Retired'
<1>1. k \notin old
  <2>1. NoKey \notin old /\ old \subseteq Used
    BY RequestsAssumption DEF TypeOK, Used
  <2> QED
    BY <2>1 DEF Issue, KeyChoices
<1>2. UNCHANGED <<queue, serving, old>> /\ \A d \in Clients : call'[d] = call[d] \/ call'[d].key = k
  BY DEF Issue, TypeOK
<1> SUFFICES ASSUME NEW j \in old, UsedBy(j)'
             PROVE  UsedBy(j)
  BY <1>2, RetiredKept
<1> QED
  BY <1>1, <1>2 DEF UsedBy, InProgress

LEMMA RetiredAge ==
  ASSUME Retired, Age
  PROVE  Retired'
<1>1. UNCHANGED <<call, queue, serving>> /\ old' \subseteq old \cup {k \in Keys : k \notin KeysInUse}
  BY DEF Age, client, daemon
<1>2. KeysInUse' = KeysInUse
  BY <1>1 DEF KeysInUse, InProgress
<1> QED
  BY <1>1, <1>2 DEF Retired

-----------------------------------------------------------------------------
(* The invariant, action by action. *)

(* Nothing but the client and its connections changes. *)
LEMMA StoreQuiet ==
  ASSUME OkFit, \A k \in Keys : KeyState(k), UNCHANGED <<told, serving, rows, log, old>>
  PROVE  OkFit' /\ \A k \in Keys : KeyState(k)'
<1>1. LogGrows /\ \A k \in Keys : DurableRuns(k)' = DurableRuns(k)
  BY RunsKept DEF LogGrows
<1>2. \A k \in Keys : KeyState(k)'
  BY <1>1, KeyQuiet
<1>3. OkTold' /\ OkRows'
  BY <1>1, OkToldKept, OkRowsKept DEF OkFit
<1>4. OkServing'
  BY DEF OkFit, OkServing, OkFits
<1> QED
  BY <1>2, <1>3, <1>4 DEF OkFit

LEMMA IssueKeeps ==
  ASSUME RequestsInv, NEW c \in Clients, NEW op \in Operations, NEW k \in AnyKey, Issue(c, op, k)
  PROVE  RequestsInv'
<1> DEFINE r == [phase |-> "connect", op |-> op, key |-> k, attempt |-> 1]
<1>1. r \in Calls /\ r.phase = "connect"
  BY DEF Calls
<1>2. call' = [call EXCEPT ![c] = r] /\ UNCHANGED <<told, up, queue, serving, registry, rows, log, old>>
  BY DEF Issue
<1> HIDE DEF r
<1>3. call' \in [Clients -> {Idle} \cup Calls] /\ call'[c] = r /\ \A d \in Clients : d # c => call'[d] = call[d]
  BY <1>1, <1>2 DEF RequestsInv, TypeOK
<1>4. TypeOK'
  BY <1>2, <1>3 DEF RequestsInv, TypeOK
<1>5. ConnsFit' /\ Order' /\ LocalSingle'
  BY <1>1, <1>2, <1>3, StructIssue DEF RequestsInv, Issue
<1>6. OkFit' /\ \A j \in Keys : KeyState(j)'
  BY <1>2, StoreQuiet DEF RequestsInv
<1>7. Keyed'
  BY <1>2 DEF RequestsInv, Keyed
<1>8. Retired'
  BY RetiredIssue DEF RequestsInv
<1> QED
  BY <1>4, <1>5, <1>6, <1>7, <1>8 DEF RequestsInv

LEMMA ConnectKeeps ==
  ASSUME RequestsInv, NEW c \in Clients, Connect(c)
  PROVE  RequestsInv'
<1>1. UNCHANGED <<told, up, serving, registry, rows, log, old>> /\ queue' = Append(queue, Connection(c))
  BY DEF Connect, store
<1>2. TypeOK'
  <2>1. call' \in [Clients -> {Idle} \cup Calls] /\ Connection(c) \in Conns
    BY ConnectTypes DEF RequestsInv
  <2>2. queue' \in Seq(Conns)
    BY <1>1, <2>1, OneMore DEF RequestsInv, TypeOK
  <2> QED
    BY <1>1, <2>1, <2>2 DEF RequestsInv, TypeOK
<1>3. ConnsFit' /\ Order' /\ LocalSingle'
  BY StructConnect DEF RequestsInv
<1>4. OkFit' /\ \A j \in Keys : KeyState(j)'
  BY <1>1, StoreQuiet DEF RequestsInv
<1>5. Keyed'
  BY <1>1 DEF RequestsInv, Keyed, Connect
<1>6. Retired'
  BY RetiredConnect DEF RequestsInv
<1> QED
  BY <1>2, <1>3, <1>4, <1>5, <1>6 DEF RequestsInv

LEMMA AttemptEndsKeeps ==
  ASSUME RequestsInv, NEW c \in Clients, InProgress(c), AttemptEnds(c), UNCHANGED <<daemon, store>>
  PROVE  RequestsInv'
<1>1. UNCHANGED <<up, serving, queue, registry, rows, log, old>>
  BY DEF daemon, store
<1>2. call' \in [Clients -> {Idle} \cup Calls] /\ told' \in [Clients -> Seq(Tellings)]
  BY AttemptTypes DEF RequestsInv
<1>3. TypeOK' /\ Keyed'
  BY <1>1, <1>2 DEF RequestsInv, TypeOK, Keyed
<1>4. GoesOn
  BY <1>1 DEF GoesOn
<1>5. ASSUME NEW a \in Answers, Finish(c, a), a.code \notin Definite \cup Unknown
      PROVE  RequestsInv'
  <2>1. ConnsFit' /\ Order' /\ LocalSingle'
    BY <1>1, <1>4, <1>5, StructFinish DEF RequestsInv
  <2>2. \A k \in Keys : KeyState(k)'
    BY <1>1, <1>5, KeyGiveUp DEF RequestsInv
  <2>3. OkTold'
    <3>1. OkFits(a, call[c].key, call[c].op)
      BY <1>5 DEF OkFits, Definite
    <3> QED
      BY <1>1, <1>5, <3>1, OkToldFinish DEF RequestsInv, OkFit
  <2>4. OkRows' /\ OkServing'
    BY <1>1 DEF RequestsInv, OkFit, OkRows, OkServing, OkFits
  <2>5. \A d \in Clients : call'[d].phase # "idle" => call[d].phase # "idle" /\ call'[d].key = call[d].key
    <3>1. call'[c] = Idle /\ \A d \in Clients : d # c => call'[d] = call[d]
      BY <1>5, FinishTypes DEF RequestsInv
    <3> QED
      BY <3>1 DEF Idle
  <2>6. Retired'
    BY <1>1, <1>4, <2>5, RetiredGoesOn DEF RequestsInv
  <2> QED
    BY <1>3, <2>1, <2>2, <2>3, <2>4, <2>6 DEF RequestsInv, OkFit
<1>6. ASSUME told' = told, call'[c].phase = "connect", call'[c].op = call[c].op, call'[c].key = call[c].key,
             call[c].op \notin Local, \A d \in Clients : d # c => call'[d] = call[d]
      PROVE  RequestsInv'
  <2>1. ConnsFit' /\ Order' /\ LocalSingle'
    BY <1>1, <1>6, StructIssue DEF RequestsInv
  <2>2. OkFit' /\ \A j \in Keys : KeyState(j)'
    BY <1>1, <1>6, StoreQuiet DEF RequestsInv
  <2>3. Retired'
    BY <1>1, <1>4, <1>6, RetiredGoesOn DEF RequestsInv, InProgress
  <2> QED
    BY <1>3, <2>1, <2>2, <2>3 DEF RequestsInv
<1> QED
  BY <1>5, <1>6, AttemptTypes DEF RequestsInv

LEMMA StartKeeps ==
  ASSUME RequestsInv, NEW c \in Clients, Start(c)
  PROVE  RequestsInv'
<1>1. UNCHANGED <<call, told, queue, serving, registry, log, old>> /\ up' = TRUE /\ ~up
  BY DEF Start, client
<1>2. rows' = [k \in Keys |-> IF Prunable(k) THEN NoRow ELSE rows[k]]
  BY DEF Start
<1>3. TypeOK'
  <2>1. rows' \in [Keys -> {NoRow} \cup PendingRows \cup CompletedRows]
    BY <1>2 DEF RequestsInv, TypeOK
  <2>2. up' \in BOOLEAN
    BY <1>1
  <2> QED
    BY <1>1, <2>1, <2>2 DEF RequestsInv, TypeOK
<1>4. ConnsFit' /\ Order' /\ LocalSingle'
  BY <1>1, StructGoesOn DEF RequestsInv, GoesOn
<1>5. OkFit'
  <2>1. LogGrows /\ \A k \in Keys : rows'[k].state = "completed" => rows'[k] = rows[k]
    BY <1>1, <1>2 DEF LogGrows, NoRow
  <2>2. OkServing'
    BY <1>1 DEF RequestsInv, OkFit, OkServing, OkFits
  <2> QED
    BY <1>1, <2>1, <2>2, OkToldKept, OkRowsKept DEF RequestsInv, OkFit
<1>6. Keyed'
  BY <1>1 DEF RequestsInv, Keyed
<1>7. Retired'
  BY <1>1, RetiredGoesOn DEF RequestsInv, GoesOn
<1>8. \A k \in Keys : KeyState(k)'
  BY KeyStart DEF RequestsInv
<1> QED
  BY <1>3, <1>4, <1>5, <1>6, <1>7, <1>8 DEF RequestsInv

LEMMA ServeKeeps ==
  ASSUME RequestsInv, TypeOK', Keyed', GoesOn, UNCHANGED <<call, told, rows, log, old>>, OkServing',
         \A k \in Keys : KeyState(k)'
  PROVE  RequestsInv'
<1>1. ConnsFit' /\ Order' /\ LocalSingle'
  BY StructGoesOn DEF RequestsInv
<1>2. OkTold' /\ OkRows'
  BY OkToldKept, OkRowsKept DEF RequestsInv, OkFit, LogGrows
<1>3. Retired'
  BY RetiredGoesOn DEF RequestsInv
<1> QED
  BY <1>1, <1>2, <1>3 DEF RequestsInv, OkFit

(* The daemon answers a request it does not execute. *)
LEMMA RespondKeeps ==
  ASSUME RequestsInv, up, serving.stage \in {"begin", "complete"}, NEW a \in Answers, Respond(a),
         UNCHANGED <<client, up, queue, registry, store>>,
         OkFits(a, serving.conn.key, serving.conn.op),
         serving.conn.op \in Durable =>
           \A k \in Keys : serving.conn.key = k =>
             /\ a.code \in Definite => rows[k].state = "completed" /\ rows[k].answer = a
             /\ a.code \in Unknown => rows[k].state = "pending"
  PROVE  RequestsInv'
<1>1. serving # Ready /\ serving.conn \in Conns
  BY BeginShape DEF RequestsInv
<1>2. /\ serving' \in {Ready} \cup Handled \cup Answered
      /\ serving'.stage = "reply" /\ serving'.conn = serving.conn /\ serving'.answer = a /\ serving' # Ready
  BY <1>1, RespondTypes
<1>3. UNCHANGED <<call, told, up, queue, registry, rows, log, old>>
  BY DEF client, store
<1>4. TypeOK' /\ Keyed' /\ GoesOn
  BY <1>1, <1>2, <1>3 DEF RequestsInv, TypeOK, Keyed, GoesOn
<1>5. OkServing'
  BY <1>2, <1>3 DEF OkServing, OkFits
<1>6. \A k \in Keys : KeyState(k)'
  BY <1>2, <1>3, KeyRespond DEF RequestsInv
<1> QED
  BY <1>3, <1>4, <1>5, <1>6, ServeKeeps

LEMMA RefuseKeeps ==
  ASSUME RequestsInv, up, serving.stage = "begin", UNCHANGED <<client, up, queue, registry, store>>,
         NEW code \in {"conflict", "idempotency_required", "idempotency_error"}, Respond(Answer(code, 0))
  PROVE  RequestsInv'
<1> DEFINE a == Answer(code, 0)
<1>1. code \in Codes /\ code # "ok" /\ code \notin Definite /\ code \notin Unknown
  BY DEF Codes, Definite, Unknown
<1>2. a \in Answers
  BY <1>1, AnswerLegal
<1>3. a.code = code /\ Respond(a)
  BY DEF Answer
<1> HIDE DEF a
<1>4. OkFits(a, serving.conn.key, serving.conn.op)
  BY <1>1, <1>3 DEF OkFits
<1> QED
  BY <1>1, <1>2, <1>3, <1>4, RespondKeeps

LEMMA AcceptKeeps ==
  ASSUME RequestsInv, Accept
  PROVE  RequestsInv'
<1>1. UNCHANGED <<call, told, up, registry, rows, log, old>> /\ up
      /\ serving' = [stage |-> "begin", conn |-> Head(queue)] /\ queue' = Tail(queue) /\ queue # <<>>
  BY DEF Accept, client, store
<1>2. queue \in Seq(Conns) /\ queue' \in Seq(Conns) /\ Head(queue) \in Conns
  BY <1>1, OneLess DEF RequestsInv, TypeOK
<1>3. serving'.stage = "begin" /\ serving' \in Handled
  BY <1>1, <1>2 DEF Handled
<1>4. TypeOK' /\ Keyed'
  BY <1>1, <1>2, <1>3 DEF RequestsInv, TypeOK, Keyed
<1>5. ConnsFit' /\ Order' /\ LocalSingle' /\ Retired'
  BY StructAccept, RetiredAccept DEF RequestsInv
<1>6. OkFit'
  <2>1. OkTold' /\ OkRows'
    BY <1>1, OkToldKept, OkRowsKept DEF RequestsInv, OkFit, LogGrows
  <2> QED
    BY <1>3, <2>1 DEF OkFit, OkServing
<1>7. \A k \in Keys : KeyState(k)'
  BY <1>1, <1>3, KeyQuiet, RunsKept DEF RequestsInv
<1> QED
  BY <1>4, <1>5, <1>6, <1>7 DEF RequestsInv

LEMMA ExecutesKeeps ==
  ASSUME RequestsInv, up, serving.stage = "begin", GoExecute, UNCHANGED <<client, up, queue, store>>,
         registry' \in Seq([key : Keys, op : Local]), serving.conn.op \notin Durable,
         serving.conn.op \in Reads \/ serving.conn.key \in Keys
  PROVE  RequestsInv'
<1>1. serving # Ready /\ serving.conn \in Conns
  BY BeginShape DEF RequestsInv
<1>2. /\ serving' \in {Ready} \cup Handled \cup Answered
      /\ serving'.stage = "execute" /\ serving'.conn = serving.conn /\ serving' # Ready
  BY <1>1, GoExecuteTypes
<1>3. UNCHANGED <<call, told, up, queue, rows, log, old>>
  BY DEF client, store
<1>4. TypeOK' /\ Keyed' /\ GoesOn /\ OkServing'
  BY <1>1, <1>2, <1>3 DEF RequestsInv, TypeOK, Keyed, GoesOn, OkServing
<1>5. \A k \in Keys : KeyState(k)'
  BY <1>2, <1>3, KeyQuiet, RunsKept DEF RequestsInv
<1> QED
  BY <1>3, <1>4, <1>5, ServeKeeps

LEMMA BeginKeeps ==
  ASSUME RequestsInv, BeginRead \/ BeginKeyless \/ ReserveFails
  PROVE  RequestsInv'
<1>1. CASE BeginRead
  <2>1. serving.conn.op \in Reads /\ serving.conn.op \notin Durable /\ registry' = registry
    BY <1>1, RequestsAssumption DEF BeginRead, Beginning
  <2> QED
    BY <1>1, <2>1, ExecutesKeeps DEF BeginRead, Beginning, RequestsInv, TypeOK
<1>2. CASE BeginKeyless
  BY <1>2, RefuseKeeps DEF BeginKeyless, Beginning
<1>3. CASE ReserveFails
  BY <1>3, RefuseKeeps DEF ReserveFails, Beginning
<1> QED
  BY <1>1, <1>2, <1>3

LEMMA BeginLocalKeeps ==
  ASSUME RequestsInv, BeginLocal
  PROVE  RequestsInv'
<1>1. /\ up /\ serving.stage = "begin" /\ serving.conn.op \in Local /\ serving.conn.op \notin Durable
      /\ UNCHANGED <<client, up, queue, store>>
  BY RequestsAssumption DEF BeginLocal, Beginning
<1>2. serving.conn.key \in Keys
  BY <1>1, BeginShape DEF RequestsInv, BeginLocal, AnyKey
<1>3. registry \in Seq([key : Keys, op : Local])
  BY DEF RequestsInv, TypeOK
<1>4. CASE Registered(serving.conn.key) = {}
  <2> DEFINE e == [key |-> serving.conn.key, op |-> serving.conn.op]
  <2> DEFINE kept == IF Len(registry) >= Capacity THEN Tail(registry) ELSE registry
  <2>1. e \in [key : Keys, op : Local] /\ registry' = Append(kept, e) /\ GoExecute
    BY <1>1, <1>2, <1>4 DEF BeginLocal, Remember
  <2>2. kept \in Seq([key : Keys, op : Local])
    <3>1. Capacity \in Nat \ {0} /\ Len(<<>>) = 0
      BY RequestsAssumption
    <3>2. CASE registry = <<>>
      <4>1. ~(Len(registry) >= Capacity)
        BY <3>1, <3>2
      <4> QED
        BY <1>3, <4>1
    <3>3. CASE registry # <<>>
      BY <1>3, <3>3, OneLess
    <3> QED
      BY <3>2, <3>3
  <2> HIDE DEF e, kept
  <2>3. registry' \in Seq([key : Keys, op : Local])
    BY <2>1, <2>2, OneMore
  <2> QED
    BY <1>1, <1>2, <2>1, <2>3, ExecutesKeeps
<1>5. CASE Registered(serving.conn.key) # {}
  <2>1. registry' = registry /\ (GoExecute \/ Respond(Answer("conflict", 0)))
    BY <1>5 DEF BeginLocal
  <2>2. CASE GoExecute
    BY <1>1, <1>2, <1>3, <2>1, <2>2, ExecutesKeeps
  <2>3. CASE Respond(Answer("conflict", 0))
    BY <1>1, <2>1, <2>3, RefuseKeeps
  <2> QED
    BY <2>1, <2>2, <2>3
<1> QED
  BY <1>4, <1>5

LEMMA ReserveNewKeeps ==
  ASSUME RequestsInv, ReserveNew
  PROVE  RequestsInv'
<1>1. /\ serving.stage = "begin" /\ serving.conn.op \in Durable /\ GoExecute /\ up
      /\ UNCHANGED <<call, told, up, queue, registry, log, old>>
  BY DEF ReserveNew, Beginning, client
<1>2. serving # Ready /\ serving.conn \in Conns /\ serving.conn.key \in Keys
  BY <1>1, BeginShape DEF RequestsInv, ReserveNew, AnyKey
<1>3. /\ serving' \in {Ready} \cup Handled \cup Answered
      /\ serving'.stage = "execute" /\ serving'.conn = serving.conn /\ serving' # Ready
  BY <1>1, <1>2, GoExecuteTypes
<1>4. rows' = [rows EXCEPT ![serving.conn.key] = [state |-> "pending", op |-> serving.conn.op]]
  BY DEF ReserveNew
<1>5. TypeOK'
  <2>1. [state |-> "pending", op |-> serving.conn.op] \in PendingRows
    BY <1>1 DEF PendingRows
  <2>2. rows' \in [Keys -> {NoRow} \cup PendingRows \cup CompletedRows]
    BY <1>4, <2>1 DEF RequestsInv, TypeOK
  <2> QED
    BY <1>1, <1>3, <2>2 DEF RequestsInv, TypeOK
<1>6. Keyed' /\ GoesOn /\ OkServing'
  BY <1>1, <1>2, <1>3 DEF RequestsInv, Keyed, GoesOn, OkServing
<1>7. ConnsFit' /\ Order' /\ LocalSingle' /\ Retired'
  BY <1>1, <1>6, StructGoesOn, RetiredGoesOn DEF RequestsInv
<1>8. OkTold' /\ OkRows'
  <2>1. LogGrows
    BY <1>1 DEF LogGrows
  <2>2. \A k \in Keys : rows'[k].state = "completed" => rows'[k] = rows[k]
    <3> SUFFICES ASSUME NEW k \in Keys, rows'[k].state = "completed"
                 PROVE  rows'[k] = rows[k]
      OBVIOUS
    <3>1. rows'[serving.conn.key] = [state |-> "pending", op |-> serving.conn.op]
      BY <1>2, <1>4 DEF RequestsInv, TypeOK
    <3>2. k # serving.conn.key
      BY <3>1
    <3> QED
      BY <1>4, <3>2 DEF RequestsInv, TypeOK
  <2> QED
    BY <1>1, <2>1, <2>2, OkToldKept, OkRowsKept DEF RequestsInv, OkFit
<1>9. \A k \in Keys : KeyState(k)'
  BY KeyReserve DEF RequestsInv
<1> QED
  BY <1>5, <1>6, <1>7, <1>8, <1>9 DEF RequestsInv, OkFit

LEMMA ReserveExistingKeeps ==
  ASSUME RequestsInv, ReserveExisting
  PROVE  RequestsInv'
<1> DEFINE k == serving.conn.key
<1> DEFINE a == ExistingAnswer(rows[k], serving.conn.op)
<1>1. /\ serving.stage = "begin" /\ serving.conn.op \in Durable /\ up /\ rows[k] # NoRow /\ Respond(a)
      /\ UNCHANGED <<client, up, queue, registry, store>>
  BY DEF ReserveExisting, Beginning
<1>2. k \in Keys
  BY <1>1, BeginShape DEF RequestsInv, ReserveExisting, AnyKey
<1>3. rows[k].state \in {"pending", "completed"} /\ (rows[k].state = "completed" => rows[k].answer \in Answers)
  BY <1>1, <1>2, RowShape DEF RequestsInv
<1>4. CASE rows[k].op # serving.conn.op
  <2>1. a = Answer("conflict", 0)
    BY <1>4 DEF ExistingAnswer
  <2> QED
    BY <1>1, <2>1, RefuseKeeps
<1>5. CASE rows[k].op = serving.conn.op /\ rows[k].state = "pending"
  <2>1. a = Answer("outcome_unknown", 0)
    BY <1>5 DEF ExistingAnswer
  <2>2. "outcome_unknown" \in Codes /\ "outcome_unknown" \notin Definite
    BY DEF Codes, Definite
  <2>3. a \in Answers /\ a.code = "outcome_unknown"
    BY <2>1, <2>2, AnswerLegal DEF Answer
  <2> HIDE DEF a
  <2>4. OkFits(a, serving.conn.key, serving.conn.op)
    BY <2>3 DEF OkFits
  <2> QED
    BY <1>1, <1>5, <2>2, <2>3, <2>4, RespondKeeps
<1>6. CASE rows[k].op = serving.conn.op /\ rows[k].state = "completed"
  <2>1. a = rows[k].answer
    BY <1>6 DEF ExistingAnswer
  <2>2. OkFits(a, k, serving.conn.op)
    BY <1>2, <1>6, <2>1 DEF RequestsInv, OkFit, OkRows
  <2>3. a.code \in Definite
    BY <1>2, <1>6, <2>1 DEF RequestsInv, KeyState
  <2>4. a.code \notin Unknown
    BY <2>3 DEF Definite, Unknown
  <2> HIDE DEF a
  <2> QED
    BY <1>1, <1>3, <1>6, <2>1, <2>2, <2>3, <2>4, RespondKeeps
<1> QED
  BY <1>3, <1>4, <1>5, <1>6

LEMMA ExecuteKeeps ==
  ASSUME RequestsInv, Execute
  PROVE  RequestsInv'
<1>1. /\ serving.stage = "execute" /\ up /\ UNCHANGED <<call, told, up, queue, registry, rows, old>>
  BY DEF Execute, client
<1>2. /\ serving' \in {Ready} \cup Handled \cup Answered /\ serving'.conn = serving.conn /\ serving' # Ready
      /\ serving'.stage = (IF serving.conn.op \in Durable THEN "complete" ELSE "reply")
      /\ log' \in Seq(Entries)
  BY ExecuteTypes DEF RequestsInv
<1>3. \/ log' = log /\ (serving'.answer.code = "ok" => serving.conn.op \in Reads)
      \/ /\ serving.conn.op \notin Reads /\ log' = Append(log, Entry(serving.conn))
         /\ Entry(serving.conn) \in Entries /\ serving'.answer.run = Len(log) + 1
  BY ExecuteTypes DEF RequestsInv
<1>4. serving # Ready
  BY <1>1, BeginShape DEF RequestsInv
<1>5. TypeOK'
  BY <1>1, <1>2 DEF RequestsInv, TypeOK
<1>6. Keyed' /\ GoesOn
  BY <1>1, <1>2, <1>4, RequestsAssumption DEF RequestsInv, Keyed, GoesOn
<1>7. Retired'
  BY <1>1, <1>6, RetiredGoesOn DEF RequestsInv
<1>8. \A k \in Keys : KeyState(k)'
  BY KeyExecute DEF RequestsInv
<1>9. ConnsFit' /\ Order' /\ LocalSingle'
  BY <1>1, <1>2, <1>3, <1>6, StructGoesOn, StructEffect DEF RequestsInv
<1>10. OkServing' /\ LogGrows
  <2>1. CASE log' = log /\ (serving'.answer.code = "ok" => serving.conn.op \in Reads)
    BY <1>2, <2>1 DEF OkServing, OkFits, LogGrows
  <2>2. CASE /\ serving.conn.op \notin Reads /\ log' = Append(log, Entry(serving.conn))
             /\ Entry(serving.conn) \in Entries /\ serving'.answer.run = Len(log) + 1
    <3> DEFINE e == Entry(serving.conn)
    <3>1. e.key = serving.conn.key /\ e.op = serving.conn.op
      BY DEF Entry
    <3> HIDE DEF e
    <3>2. Len(log') = Len(log) + 1 /\ Len(log) \in Nat /\ log'[Len(log) + 1] = e
          /\ \A i \in 1..Len(log) : log'[i] = log[i]
      BY <2>2, OneMore DEF RequestsInv, TypeOK, e
    <3>3. LogGrows
      BY <3>2 DEF LogGrows
    <3>4. serving'.answer.run \in 1..Len(log') /\ log'[serving'.answer.run] = e
      BY <2>2, <3>2
    <3> QED
      BY <1>2, <3>1, <3>3, <3>4 DEF OkServing, OkFits
  <2> QED
    BY <1>3, <2>1, <2>2
<1>11. OkTold' /\ OkRows'
  BY <1>1, <1>10, OkToldKept, OkRowsKept DEF RequestsInv, OkFit
<1> QED
  BY <1>5, <1>6, <1>7, <1>8, <1>9, <1>10, <1>11 DEF RequestsInv, OkFit

LEMMA CompleteKeeps ==
  ASSUME RequestsInv, Complete
  PROVE  RequestsInv'
<1>1. /\ serving.stage = "complete" /\ up /\ Respond(serving.answer)
      /\ UNCHANGED <<call, told, up, queue, registry, log, old>>
  BY DEF Complete, client
<1>2. /\ serving # Ready /\ serving.conn \in Conns /\ serving.answer \in Answers
      /\ serving.conn.op \in Durable /\ serving.conn.key \in Keys
  BY <1>1, ServingShape, BeginShape, RequestsAssumption DEF RequestsInv, Keyed
<1>3. /\ serving' \in {Ready} \cup Handled \cup Answered
      /\ serving'.stage = "reply" /\ serving'.conn = serving.conn /\ serving'.answer = serving.answer
      /\ serving' # Ready
  BY <1>1, <1>2, RespondTypes
<1>4. TypeOK'
  <2> DEFINE k == serving.conn.key
  <2> DEFINE row == [state |-> "completed", op |-> rows[k].op, answer |-> serving.answer]
  <2>1. rows[k].state = "pending"
    BY <1>1, <1>2 DEF RequestsInv, KeyState, Executing
  <2>2. rows[k].op \in Durable
    BY <1>2, <2>1, RowShape DEF RequestsInv
  <2>3. row \in CompletedRows /\ rows' = [rows EXCEPT ![k] = row]
    BY <1>2, <2>2 DEF CompletedRows, Complete
  <2> HIDE DEF row
  <2>4. rows' \in [Keys -> {NoRow} \cup PendingRows \cup CompletedRows]
    BY <2>3 DEF RequestsInv, TypeOK
  <2> QED
    BY <1>1, <1>3, <2>4 DEF RequestsInv, TypeOK
<1>5. Keyed' /\ GoesOn
  BY <1>1, <1>2, <1>3 DEF RequestsInv, Keyed, GoesOn
<1>6. ConnsFit' /\ Order' /\ LocalSingle' /\ Retired'
  BY <1>1, <1>5, StructGoesOn, RetiredGoesOn DEF RequestsInv
<1>7. OkTold' /\ OkRows'
  BY <1>1, OkToldKept, OkRowsComplete DEF RequestsInv, OkFit, LogGrows
<1>8. OkServing'
  BY <1>1, <1>3 DEF RequestsInv, OkFit, OkServing, OkFits
<1>9. \A k \in Keys : KeyState(k)'
  BY KeyComplete DEF RequestsInv
<1> QED
  BY <1>4, <1>5, <1>6, <1>7, <1>8, <1>9 DEF RequestsInv, OkFit

LEMMA CompleteFailsKeeps ==
  ASSUME RequestsInv, CompleteFails
  PROVE  RequestsInv'
<1> DEFINE a == Answer("outcome_unknown", 0)
<1>1. /\ serving.stage = "complete" /\ up /\ Respond(a) /\ UNCHANGED <<client, up, queue, registry, store>>
  BY DEF CompleteFails
<1>2. "outcome_unknown" \in Codes /\ "outcome_unknown" \notin Definite
  BY DEF Codes, Definite
<1>3. a \in Answers /\ a.code = "outcome_unknown"
  BY <1>2, AnswerLegal DEF Answer
<1> HIDE DEF a
<1>4. OkFits(a, serving.conn.key, serving.conn.op)
  BY <1>3 DEF OkFits
<1>5. \A k \in Keys : serving.conn.op \in Durable /\ serving.conn.key = k => rows[k].state = "pending"
  BY <1>1 DEF RequestsInv, KeyState, Executing
<1> QED
  BY <1>1, <1>2, <1>3, <1>4, <1>5, RespondKeeps

(* The daemon is done with a request, or stops. *)
LEMMA DropKeeps ==
  ASSUME RequestsInv, TypeOK', serving' = Ready, queue' \in {queue, <<>>}, (~up')  => queue' = <<>>,
         UNCHANGED <<call, told, rows, log, old>>
  PROVE  RequestsInv'
<1>1. GoesOn /\ OkServing' /\ Keyed'
  BY DEF GoesOn, OkServing, Keyed, Ready
<1>2. \A k \in Keys : KeyState(k)'
  BY KeyQuiet, RunsKept DEF RequestsInv, Ready
<1> QED
  BY <1>1, <1>2, ServeKeeps

LEMMA StopTypes ==
  ASSUME TypeOK, Stop
  PROVE  /\ queue' = <<>> /\ serving' = Ready /\ up' \in BOOLEAN
         /\ queue' \in Seq(Conns) /\ registry' \in Seq([key : Keys, op : Local])
<1>1. up' = FALSE /\ queue' = <<>> /\ serving' = Ready /\ registry' = <<>>
  BY DEF Stop
<1>2. queue' \in Seq(Conns) /\ registry' \in Seq([key : Keys, op : Local])
  BY <1>1
<1> QED
  BY <1>1, <1>2

LEMMA CrashKeeps ==
  ASSUME RequestsInv, Crash
  PROVE  RequestsInv'
<1>1. UNCHANGED <<call, told, rows, log, old>> /\ Stop
  BY DEF Crash, client, store
<1>2. /\ queue' = <<>> /\ serving' = Ready /\ up' \in BOOLEAN
      /\ queue' \in Seq(Conns) /\ registry' \in Seq([key : Keys, op : Local])
  BY <1>1, StopTypes DEF RequestsInv
<1>3. TypeOK'
  BY <1>1, <1>2 DEF RequestsInv, TypeOK
<1> QED
  BY <1>1, <1>2, <1>3, DropKeeps

LEMMA UnheardKeeps ==
  ASSUME RequestsInv, ReplyLost \/ ReplyFails
  PROVE  RequestsInv'
<1>1. CASE ReplyLost
  <2>1. UNCHANGED <<call, told, rows, log, old>> /\ AfterWrite /\ up
    BY <1>1 DEF ReplyLost, client, store
  <2>2. /\ serving' = Ready /\ queue' \in {queue, <<>>} /\ up' \in BOOLEAN
        /\ (up' = up /\ queue' = queue) \/ queue' = <<>>
        /\ queue' \in Seq(Conns) /\ registry' \in Seq([key : Keys, op : Local])
    BY <2>1, WriteTypes DEF RequestsInv
  <2>3. TypeOK'
    BY <2>1, <2>2 DEF RequestsInv, TypeOK
  <2>4. (~up') => queue' = <<>>
    BY <2>1, <2>2
  <2> QED
    BY <2>1, <2>2, <2>3, <2>4, DropKeeps
<1>2. CASE ReplyFails
  <2>1. UNCHANGED <<call, told, up, queue, registry, rows, log, old>> /\ up /\ serving' = Ready
    BY <1>2 DEF ReplyFails, client, store
  <2>2. TypeOK'
    BY <2>1 DEF RequestsInv, TypeOK
  <2> QED
    BY <2>1, <2>2, DropKeeps
<1> QED
  BY <1>1, <1>2

LEMMA ReplyKeeps ==
  ASSUME RequestsInv, Reply
  PROVE  RequestsInv'
<1> DEFINE c == serving.conn.from
<1>1. UNCHANGED <<rows, log, old>> /\ AfterWrite /\ up /\ serving.stage = "reply" /\ Finish(c, serving.answer)
  BY DEF Reply, store
<1>2. serving # Ready /\ c \in Clients /\ serving.answer \in Answers
  BY <1>1, BeginShape, ServingShape DEF RequestsInv
<1>3. InProgress(c) /\ call[c].key = serving.conn.key /\ call[c].op = serving.conn.op
  <2>1. call[c].phase = "waiting" /\ Connection(c) = serving.conn
    BY DEF Reply, Listening
  <2>2. Connection(c).key = call[c].key /\ Connection(c).op = call[c].op
    BY DEF Connection
  <2> QED
    BY <2>1, <2>2 DEF InProgress
<1>4. /\ serving' = Ready /\ queue' \in {queue, <<>>} /\ up' \in BOOLEAN
      /\ (up' = up /\ queue' = queue) \/ queue' = <<>>
      /\ queue' \in Seq(Conns) /\ registry' \in Seq([key : Keys, op : Local])
  BY <1>1, WriteTypes DEF RequestsInv
<1>5. /\ call' \in [Clients -> {Idle} \cup Calls] /\ told' \in [Clients -> Seq(Tellings)]
      /\ call'[c] = Idle /\ \A d \in Clients : d # c => call'[d] = call[d]
  BY <1>1, <1>2, <1>3, FinishTypes DEF RequestsInv
<1>6. TypeOK'
  BY <1>1, <1>4, <1>5 DEF RequestsInv, TypeOK
<1>7. GoesOn /\ OkServing'
  BY <1>4 DEF GoesOn, OkServing, Ready
<1>8. Keyed'
  <2>1. (~up') => queue' = <<>>
    BY <1>1, <1>4
  <2> QED
    BY <1>4, <2>1 DEF Keyed, Ready
<1>9. ConnsFit' /\ Order' /\ LocalSingle'
  BY <1>1, <1>2, <1>3, <1>7, StructFinish DEF RequestsInv
<1>10. Retired'
  BY <1>1, <1>5, <1>7, RetiredGoesOn DEF RequestsInv, Idle
<1>11. OkTold'
  <2>1. OkFits(serving.answer, call[c].key, call[c].op)
    BY <1>1, <1>3 DEF RequestsInv, OkFit, OkServing
  <2> QED
    BY <1>1, <1>2, <1>3, <2>1, OkToldFinish DEF RequestsInv, OkFit
<1>12. OkRows'
  BY <1>1, OkRowsKept DEF RequestsInv, OkFit, LogGrows
<1>13. \A k \in Keys : KeyState(k)'
  BY <1>1, <1>2, <1>3, <1>4, KeyReply DEF RequestsInv
<1> QED
  BY <1>6, <1>7, <1>8, <1>9, <1>10, <1>11, <1>12, <1>13 DEF RequestsInv, OkFit

LEMMA AgeKeeps ==
  ASSUME RequestsInv, Age
  PROVE  RequestsInv'
<1>1. UNCHANGED <<call, told, up, queue, serving, registry, rows, log>>
  BY DEF Age, client, daemon
<1>2. TypeOK'
  <2>1. old' \subseteq Keys
    BY DEF RequestsInv, TypeOK, Age
  <2> QED
    BY <1>1, <2>1 DEF RequestsInv, TypeOK
<1>3. ConnsFit' /\ Order' /\ LocalSingle'
  BY <1>1, StructGoesOn DEF RequestsInv, GoesOn
<1>4. OkFit' /\ Keyed'
  BY <1>1 DEF RequestsInv, OkFit, OkTold, OkRows, OkServing, OkFits, Keyed
<1>5. Retired' /\ \A k \in Keys : KeyState(k)'
  BY RetiredAge, KeyAge DEF RequestsInv
<1> QED
  BY <1>2, <1>3, <1>4, <1>5 DEF RequestsInv

LEMMA RequestsInvInit ==
  ASSUME Init
  PROVE  RequestsInv
<1>1. TypeOK
  <2>1. call \in [Clients -> {Idle} \cup Calls] /\ rows \in [Keys -> {NoRow} \cup PendingRows \cup CompletedRows]
    BY DEF Init
  <2>2. told \in [Clients -> Seq(Tellings)]
    <3>1. <<>> \in Seq(Tellings)
      OBVIOUS
    <3> QED
      BY <3>1 DEF Init
  <2>3. queue \in Seq(Conns) /\ registry \in Seq([key : Keys, op : Local]) /\ log \in Seq(Entries)
    BY DEF Init
  <2>4. serving = Ready /\ up \in BOOLEAN /\ old \subseteq Keys
    BY DEF Init
  <2> QED
    BY <2>1, <2>2, <2>3, <2>4 DEF TypeOK
<1>2. Len(queue) = 0 /\ Len(log) = 0 /\ serving = Ready /\ \A c \in Clients : Len(told[c]) = 0 /\ call[c] = Idle
  BY DEF Init
<1>3. \A i \in 1..0 : FALSE
  OBVIOUS
<1>4. ConnsFit /\ Order
  BY <1>2, <1>3 DEF ConnsFit, Order, InOrder
<1>5. LocalSingle
  BY <1>2, <1>3 DEF LocalSingle, LocalOnce, Idle
<1>6. OkFit
  BY <1>2, <1>3 DEF Init, OkFit, OkTold, OkRows, OkServing, Ready, NoRow
<1>7. Keyed /\ Retired
  BY DEF Init, Keyed, Retired, Ready
<1>8. \A k \in Keys : KeyState(k)
  <2> SUFFICES ASSUME NEW k \in Keys
               PROVE  KeyState(k)
    OBVIOUS
  <2>1. rows[k].state = "none" /\ ~Executing(k) /\ ~Replying(k)
    BY DEF Init, NoRow, Executing, Replying, Ready
  <2>2. DurableRuns(k) = {} /\ ~ToldOf(k, Definite) /\ ~ToldOf(k, Unknown)
    BY <1>2, <1>3 DEF DurableRuns, ToldOf
  <2> QED
    BY <2>1, <2>2 DEF KeyState
<1> QED
  BY <1>1, <1>4, <1>5, <1>6, <1>7, <1>8 DEF RequestsInv

LEMMA RequestsInvStep ==
  ASSUME RequestsInv, [Next]_vars
  PROVE  RequestsInv'
<1>1. ASSUME NEW c \in Clients, ClientStep(c)
      PROVE  RequestsInv'
  <2>1. ASSUME NEW op \in Operations, NEW k \in Keys \cup {NoKey}, Issue(c, op, k)
        PROVE  RequestsInv'
    BY <2>1, IssueKeeps DEF AnyKey
  <2>2. CASE Connect(c)
    BY <2>2, ConnectKeeps
  <2>3. CASE AttemptFails(c)
    BY <2>3, AttemptEndsKeeps DEF AttemptFails, InProgress
  <2>4. CASE LaunchFails(c)
    BY <2>4, AttemptEndsKeeps DEF LaunchFails, InProgress
  <2>5. CASE Start(c)
    BY <2>5, StartKeeps
  <2> QED
    BY <1>1, <2>1, <2>2, <2>3, <2>4, <2>5 DEF ClientStep
<1>2. CASE Handle
  BY <1>2, AcceptKeeps, BeginKeeps, ReserveNewKeeps, ReserveExistingKeeps, BeginLocalKeeps, ExecuteKeeps,
     CompleteKeeps, CompleteFailsKeeps, ReplyKeeps, UnheardKeeps DEF Handle
<1>3. CASE Crash
  BY <1>3, CrashKeeps
<1>4. CASE Age
  BY <1>4, AgeKeeps
<1>5. CASE UNCHANGED vars
  <2>1. UNCHANGED <<call, told, up, queue, serving, registry, rows, log, old>>
    BY <1>5 DEF vars
  <2>2. TypeOK' /\ Keyed' /\ Retired' /\ GoesOn
    BY <2>1, RetiredGoesOn DEF RequestsInv, TypeOK, Keyed, GoesOn
  <2>3. OkFit' /\ \A k \in Keys : KeyState(k)'
    BY <2>1, StoreQuiet DEF RequestsInv
  <2>4. ConnsFit' /\ Order' /\ LocalSingle'
    BY <2>1, <2>2, StructGoesOn DEF RequestsInv
  <2> QED
    BY <2>2, <2>3, <2>4 DEF RequestsInv
<1> QED
  BY <1>1, <1>2, <1>3, <1>4, <1>5 DEF Next, Done

(* The inductive invariant holds of every behaviour of clients and daemon.  *)
THEOREM RequestsInvariant == Spec => []RequestsInv
<1>1. Init => RequestsInv
  BY RequestsInvInit
<1>2. RequestsInv /\ [Next]_vars => RequestsInv'
  BY RequestsInvStep
<1> QED
  BY <1>1, <1>2, PTL DEF Spec

LEMMA RequestsInvHonest ==
  ASSUME RequestsInv
  PROVE  AnswersHonest
<1>1. LocalOnce /\ InOrder
  BY DEF RequestsInv, LocalSingle, Order
<1>2. OkHasRun
  <2> SUFFICES ASSUME NEW t \in Told, t.answer.code = "ok", t.op \notin Reads
               PROVE  log[t.answer.run].key = t.key /\ log[t.answer.run].op = t.op
    BY DEF OkHasRun
  <2>1. PICK c \in Clients : \E n \in 1..Len(told[c]) : t = told[c][n]
    BY DEF Told
  <2>2. PICK n \in 1..Len(told[c]) : t = told[c][n]
    BY <2>1
  <2>3. OkFits(t.answer, t.key, t.op)
    BY <2>2 DEF RequestsInv, OkFit, OkTold
  <2> QED
    BY <2>3 DEF OkFits
<1>3. LostAnswerIsReplayed
  <2> SUFFICES ASSUME NEW t \in Told, NEW u \in Told, t.op \in Durable, u.op \in Durable, t.key = u.key,
                      t.key # NoKey, t.answer.code \in Definite, u.answer.code = "outcome_unknown"
               PROVE  FALSE
    BY DEF LostAnswerIsReplayed
  <2>1. t.key \in Keys
    <3>1. PICK c \in Clients : \E n \in 1..Len(told[c]) : t = told[c][n]
      BY DEF Told
    <3>2. told[c] \in Seq(Tellings)
      BY DEF RequestsInv, TypeOK
    <3>3. t \in Tellings
      BY <3>1, <3>2
    <3> QED
      BY <3>3 DEF Tellings, AnyKey
  <2>2. ToldOf(t.key, Definite)
    BY DEF Told, ToldOf
  <2>3. ToldOf(t.key, Unknown)
    BY DEF Told, ToldOf, Unknown
  <2> QED
    BY <2>1, <2>2, <2>3 DEF RequestsInv, KeyState
<1> QED
  BY <1>1, <1>2, <1>3 DEF AnswersHonest

(* Whatever is retried, lost, delayed, pruned or cut short by a crash:      *)
(* success is told of an execution of the same key and operation, a         *)
(* process-local mutation runs at most once per request, the requests of a  *)
(* client take effect in its order, and no key of which an outcome was told *)
(* is ever reported unknown (service.py _request, begin_idempotent,         *)
(* finalize_response).                                                      *)
THEOREM AnswersAreHonest == Spec => []AnswersHonest
BY RequestsInvariant, RequestsInvHonest, PTL

(* prune_protocol_history and begin_durable_idempotent leave a reservation  *)
(* without outcome as it is: it becomes completed, of the same operation,   *)
(* or stays.                                                                *)
THEOREM EvidenceIsKept == Spec => EvidenceKept
<1>1. ASSUME RequestsInv, [Next]_vars, NEW k \in Keys, rows[k].state = "pending"
      PROVE  rows'[k].state \in {"pending", "completed"} /\ rows'[k].op = rows[k].op
  <2>1. CASE ReserveNew
    <3>1. serving.conn.key \in Keys /\ rows[serving.conn.key] = NoRow
      BY <1>1, <2>1, BeginShape DEF ReserveNew, Beginning, RequestsInv, AnyKey
    <3>2. k # serving.conn.key
      BY <1>1, <3>1 DEF NoRow
    <3> QED
      BY <1>1, <2>1, <3>1, <3>2 DEF ReserveNew, RequestsInv, TypeOK
  <2>2. CASE Complete
    BY <1>1, <2>2 DEF Complete, RequestsInv, TypeOK
  <2>3. ASSUME NEW c \in Clients, Start(c)
        PROVE  rows'[k] = rows[k]
    BY <1>1, <2>3 DEF Start, Prunable
  <2>4. ASSUME UNCHANGED rows
        PROVE  rows'[k] = rows[k]
    BY <2>4
  <2>5. ReserveNew \/ Complete \/ (\E c \in Clients : Start(c)) \/ UNCHANGED rows
    BY <1>1 DEF Next, ClientStep, Handle, vars, store, Issue, Connect, AttemptFails, LaunchFails, Accept,
       BeginRead, BeginKeyless, ReserveExisting, ReserveFails, BeginLocal, Execute, CompleteFails, Reply,
       ReplyLost, ReplyFails, Crash, Age, Done
  <2> QED
    BY <1>1, <2>1, <2>2, <2>3, <2>4, <2>5
<1>2. RequestsInv /\ [Next]_vars =>
        [\A k \in Keys : rows[k].state = "pending" =>
            rows'[k].state \in {"pending", "completed"} /\ rows'[k].op = rows[k].op]_vars
  BY <1>1
<1> QED
  BY <1>2, RequestsInvariant, PTL DEF Spec, EvidenceKept

-----------------------------------------------------------------------------
(* The refinement. *)

Applied == [k \in Keys |-> Cardinality(DurableRuns(k))]

Claimed == [k \in Keys |-> Claims(k)]

LEMMA CallSame ==
  ASSUME \A k \in Keys : DurableRuns(k)' = DurableRuns(k) /\ Claims(k)' = Claims(k)
  PROVE  Applied' = Applied /\ Claimed' = Claimed
BY DEF Applied, Claimed

LEMMA CallApplied ==
  ASSUME NEW k \in Keys, NEW i, DurableRuns(k) = {}, DurableRuns(k)' = {i},
         \A j \in Keys : j # k => DurableRuns(j)' = DurableRuns(j),
         \A j \in Keys : Claims(j)' = Claims(j)
  PROVE  Applied[k] = 0 /\ Applied' = [Applied EXCEPT ![k] = 1] /\ Claimed' = Claimed
<1>1. Cardinality({}) = 0 /\ Cardinality({i}) = 1
  BY FS_EmptySet, FS_Singleton
<1>2. Applied[k] = 0 /\ Applied'[k] = 1
  BY <1>1 DEF Applied
<1>3. \A j \in Keys : j # k => Applied'[j] = Applied[j]
  BY DEF Applied
<1>4. Applied' = [Applied EXCEPT ![k] = 1]
  BY <1>2, <1>3 DEF Applied
<1>5. Claimed' = Claimed
  BY DEF Claimed
<1> QED
  BY <1>2, <1>4, <1>5

LEMMA CallClaimed ==
  ASSUME NEW k \in Keys, NEW r, Claims(k)' = {r},
         \A j \in Keys : j # k => Claims(j)' = Claims(j), \A j \in Keys : DurableRuns(j)' = DurableRuns(j)
  PROVE  Claimed' = [Claimed EXCEPT ![k] = {r}] /\ Applied' = Applied
<1>1. Claimed'[k] = {r} /\ \A j \in Keys : j # k => Claimed'[j] = Claimed[j]
  BY DEF Claimed
<1>2. Claimed' = [Claimed EXCEPT ![k] = {r}]
  BY <1>1 DEF Claimed
<1>3. Applied' = Applied
  BY DEF Applied
<1> QED
  BY <1>2, <1>3

(* The execution of a durable mutation is its one application. *)
LEMMA ExecuteRefines ==
  ASSUME RequestsInv, Execute
  PROVE  \/ Applied' = Applied /\ Claimed' = Claimed
         \/ \E k \in Keys : Applied[k] = 0 /\ Applied' = [Applied EXCEPT ![k] = 1] /\ Claimed' = Claimed
<1>1. told' = told /\ serving.stage = "execute"
  BY DEF Execute, client
<1>2. \A k \in Keys : Claims(k)' = Claims(k)
  BY <1>1, ToldKept
<1>3. \/ log' = log
      \/ /\ serving.conn.op \notin Reads /\ log' = Append(log, Entry(serving.conn))
         /\ Entry(serving.conn) \in Entries
  BY ExecuteTypes DEF RequestsInv
<1>4. Entry(serving.conn).key = serving.conn.key /\ Entry(serving.conn).op = serving.conn.op
  BY DEF Entry
<1>5. CASE log' = log
  BY <1>2, <1>5, RunsKept, CallSame
<1>6. CASE log' = Append(log, Entry(serving.conn)) /\ Entry(serving.conn) \in Entries /\ serving.conn.op \notin Durable
  <2>1. \A k \in Keys : DurableRuns(k)' = DurableRuns(k)
    BY <1>4, <1>6, RunsGrow DEF RequestsInv
  <2> QED
    BY <1>2, <2>1, CallSame
<1>7. CASE /\ log' = Append(log, Entry(serving.conn)) /\ Entry(serving.conn) \in Entries
           /\ serving.conn.op \in Durable /\ serving.conn.op \notin Reads
  <2>1. PICK k \in Keys : k = serving.conn.key
    BY <1>1, <1>7 DEF RequestsInv, Keyed
  <2>2. DurableRuns(k) = {}
    BY <1>1, <1>7, <2>1 DEF RequestsInv, KeyState, Executing
  <2>3. PICK i : i = Len(log) + 1
    OBVIOUS
  <2>6. DurableRuns(k)' = {i}
    BY <1>4, <1>7, <2>1, <2>2, <2>3, RunsGrow DEF RequestsInv
  <2>4. ASSUME NEW j \in Keys, j # k
        PROVE  DurableRuns(j)' = DurableRuns(j)
    <3>1. DurableRuns(j)' = DurableRuns(j) \cup
            (IF Entry(serving.conn).key = j /\ Entry(serving.conn).op \in Durable THEN {Len(log) + 1} ELSE {})
      BY <1>7, RunsGrow DEF RequestsInv
    <3> QED
      BY <1>4, <2>1, <2>4, <3>1
  <2>5. Applied[k] = 0 /\ Applied' = [Applied EXCEPT ![k] = 1] /\ Claimed' = Claimed
    BY <1>2, <2>2, <2>6, <2>4, CallApplied
  <2> QED
    BY <2>5
<1> QED
  BY <1>3, <1>5, <1>6, <1>7

ClaimStep(k, r) ==
  /\ r \in [code : Definite, run : Nat] /\ Claimed[k] \subseteq {r} /\ (r.code = "ok" => Applied[k] = 1)
  /\ Claimed' = [Claimed EXCEPT ![k] = {r}] /\ Applied' = Applied

(* A response that claims an outcome is written once it is recorded. *)
LEMMA ReplyRefines ==
  ASSUME RequestsInv, Reply
  PROVE  \/ Applied' = Applied /\ Claimed' = Claimed
         \/ \E k \in Keys : \E r \in Claims(k)' : ClaimStep(k, r)
<1> DEFINE c == serving.conn.from
<1>0. PICK a, k : a = serving.answer /\ k = serving.conn.key
  OBVIOUS
<1>1. log' = log /\ serving.stage = "reply" /\ Finish(c, a)
  BY <1>0 DEF Reply, store
<1>2. c \in Clients /\ a \in Answers /\ k \in AnyKey
  BY <1>0, <1>1, BeginShape, ServingShape DEF RequestsInv
<1>3. InProgress(c) /\ call[c].key = k /\ call[c].op = serving.conn.op
  <2>1. call[c].phase = "waiting" /\ Connection(c) = serving.conn
    BY DEF Reply, Listening
  <2>2. Connection(c).key = call[c].key /\ Connection(c).op = call[c].op
    BY DEF Connection
  <2> QED
    BY <1>0, <2>1, <2>2 DEF InProgress
<1>4. \A j \in Keys : DurableRuns(j)' = DurableRuns(j)
  BY <1>1, RunsKept
<1>5. \A j \in Keys : ~(k = j /\ serving.conn.op \in Durable /\ a.code \in Definite) => Claims(j)' = Claims(j)
  BY <1>1, <1>2, <1>3, ClaimsFinish DEF RequestsInv
<1>6. CASE k \in Keys /\ serving.conn.op \in Durable /\ a.code \in Definite
  <2>1. Replying(k) /\ KeyState(k)
    BY <1>0, <1>1, <1>6 DEF Replying, RequestsInv
  <2>2. rows[k].answer = a /\ Claims(k) \subseteq {a}
    BY <1>0, <1>6, <2>1 DEF KeyState
  <2>3. Claims(k)' = {a}
    <3>1. Claims(k)' \subseteq Claims(k) \cup {a} /\ a \in Claims(k)'
      BY <1>1, <1>2, <1>3, <1>6, ClaimsFinish DEF RequestsInv
    <3> QED
      BY <2>2, <3>1
  <2>4. a \in [code : Definite, run : Nat]
    BY <1>2, <1>6 DEF Answers
  <2>5. a.code = "ok" => Applied[k] = 1
    <3> SUFFICES ASSUME a.code = "ok"
                 PROVE  Applied[k] = 1
      OBVIOUS
    <3>1. OkFits(a, k, serving.conn.op) /\ serving.conn.op \notin Reads
      BY <1>0, <1>1, <1>6, RequestsAssumption DEF RequestsInv, OkFit, OkServing
    <3>2. a.run \in DurableRuns(k)
      BY <1>6, <3>1 DEF OkFits, DurableRuns
    <3>3. DurableRuns(k) = {a.run}
      BY <2>1, <3>2 DEF KeyState
    <3>4. Cardinality(DurableRuns(k)) = 1
      BY <3>3, FS_Singleton
    <3> QED
      BY <1>6, <3>4 DEF Applied
  <2>6. Claimed' = [Claimed EXCEPT ![k] = {a}] /\ Applied' = Applied
    BY <1>4, <1>5, <1>6, <2>3, CallClaimed
  <2>7. Claimed[k] \subseteq {a}
    BY <1>6, <2>2 DEF Claimed
  <2>8. ClaimStep(k, a) /\ a \in Claims(k)'
    BY <2>3, <2>4, <2>5, <2>6, <2>7 DEF ClaimStep
  <2> QED
    BY <1>6, <2>8
<1>7. CASE ~(k \in Keys /\ serving.conn.op \in Durable /\ a.code \in Definite)
  BY <1>4, <1>5, <1>7, CallSame
<1> QED
  BY <1>6, <1>7

(* No other step applies a mutation or claims an outcome. *)
LEMMA OtherStutters ==
  ASSUME RequestsInv, [Next]_vars, ~Execute, ~Reply
  PROVE  Applied' = Applied /\ Claimed' = Claimed
<1>1. log' = log
  BY DEF Next, ClientStep, Handle, vars, store, Issue, Connect, AttemptFails, LaunchFails, Start, Accept,
     BeginRead, BeginKeyless, ReserveNew, ReserveExisting, ReserveFails, BeginLocal, Complete, CompleteFails,
     ReplyLost, ReplyFails, Crash, Age, Done
<1>2. \/ told' = told
      \/ \E c \in Clients : AttemptEnds(c) /\ InProgress(c)
  BY DEF Next, ClientStep, Handle, vars, client, Issue, Connect, AttemptFails, LaunchFails, Start, Accept,
     BeginRead, BeginKeyless, ReserveNew, ReserveExisting, ReserveFails, BeginLocal, Complete, CompleteFails,
     ReplyLost, ReplyFails, Crash, Age, Done, InProgress
<1>3. ASSUME NEW k \in Keys
      PROVE  Claims(k)' = Claims(k)
  <2>1. CASE told' = told
    BY <2>1, ToldKept
  <2>2. ASSUME NEW c \in Clients, AttemptEnds(c), InProgress(c)
        PROVE  Claims(k)' = Claims(k)
    <3>1. \/ \E a \in Answers : Finish(c, a) /\ a.code \notin Definite \cup Unknown
          \/ told' = told
      BY <2>2, AttemptTypes DEF RequestsInv
    <3>2. ASSUME NEW a \in Answers, Finish(c, a), a.code \notin Definite \cup Unknown
          PROVE  Claims(k)' = Claims(k)
      BY <2>2, <3>2, ClaimsFinish DEF RequestsInv
    <3> QED
      BY <2>1, <3>1, <3>2
  <2> QED
    BY <1>2, <2>1, <2>2
<1> QED
  BY <1>1, <1>3, RunsKept, CallSame

LEMMA CallInit ==
  ASSUME Init
  PROVE  Applied = [k \in Keys |-> 0] /\ Claimed = [k \in Keys |-> {}]
<1>1. \A k \in Keys : DurableRuns(k) = {} /\ Claims(k) = {}
  <2>1. Len(log) = 0 /\ \A c \in Clients : Len(told[c]) = 0
    BY DEF Init
  <2>2. Told = {}
    BY <2>1 DEF Told
  <2> QED
    BY <2>1, <2>2 DEF DurableRuns, Claims
<1>2. Cardinality({}) = 0
  BY FS_EmptySet
<1> QED
  BY <1>1, <1>2 DEF Applied, Claimed

(* The client's retries and the daemon's idempotency records implement the  *)
(* call that is applied at most once and answered consistently: whatever    *)
(* crashes, is lost, repeated or pruned, a durable mutation takes effect at *)
(* most once for its key, success is claimed only of one that did, and      *)
(* every answer that claims an outcome claims the same (service.py          *)
(* _request, begin_durable_idempotent, finalize_response).                  *)
THEOREM CallRefinement == Spec => ImplementsDurableCall
<1>1. Init => Call!Init
  BY CallInit DEF Call!Init, Applied, Claimed
<1>2. ASSUME RequestsInv, [Next]_vars
      PROVE  [Call!Next]_(Call!vars)
  <2>1. ASSUME Applied' = Applied, Claimed' = Claimed
        PROVE  [Call!Next]_(Call!vars)
    BY <2>1 DEF Call!vars, Applied, Claimed
  <2>2. ASSUME NEW k \in Keys, Applied[k] = 0, Applied' = [Applied EXCEPT ![k] = 1], Claimed' = Claimed
        PROVE  [Call!Next]_(Call!vars)
    <3>1. Call!Apply(k)
      BY <2>2 DEF Call!Apply, Applied, Claimed
    <3> QED
      BY <3>1 DEF Call!Next
  <2>3. ASSUME NEW k \in Keys, NEW r \in Claims(k)', ClaimStep(k, r)
        PROVE  [Call!Next]_(Call!vars)
    <3>1. r \in Claimed'[k]
      BY <2>3 DEF Claimed
    <3>2. Call!Claim(k)
      BY <2>3, <3>1 DEF Call!Claim, ClaimStep, Applied, Claimed
    <3> QED
      BY <3>2 DEF Call!Next
  <2>4. CASE Execute
    BY <1>2, <2>1, <2>2, <2>4, ExecuteRefines
  <2>5. CASE Reply
    BY <1>2, <2>1, <2>3, <2>5, ReplyRefines
  <2>6. CASE ~Execute /\ ~Reply
    BY <1>2, <2>1, <2>6, OtherStutters
  <2> QED
    BY <2>4, <2>5, <2>6
<1>3. RequestsInv /\ [Next]_vars => [Call!Next]_(Call!vars)
  BY <1>2
<1> QED
  BY <1>1, <1>3, RequestsInvariant, PTL DEF Spec, ImplementsDurableCall, Call!Spec

-----------------------------------------------------------------------------
(***************************************************************************)
(* A committed checkpoint is never lost, for any number of hosts, commits, *)
(* failed calls and killed processes.                                      *)
(***************************************************************************)
(* The parts of PublicationTypeOK that the argument needs. *)
Types ==
  /\ outbox \in [Manifests -> States] /\ commits \in 0..MaxManifests
  /\ graph \subseteq Manifests
  /\ pc \in [Hosts -> Places] /\ todo \in [Hosts -> SUBSET Manifests]
  /\ mine \in [Hosts -> 0..MaxManifests] /\ report \in [Hosts -> Reports]

(* Rows exist exactly for the manifests that were committed. *)
RowPerCommit == \A m \in Manifests : outbox[m] = "none" <=> m > commits

(* A host about to complete a row has put its node in the graph, a host     *)
(* works on its own manifest only when it has one, and it reports nothing   *)
(* while its command runs.                                                  *)
NodeBeforeRow ==
  \A h \in Hosts :
    /\ pc[h] = "complete" => \A m \in Manifests : Oldest(h, m) => m \in graph
    /\ pc[h] = "complete own" => mine[h] \in graph
    /\ pc[h] \in {"find", "publish own", "complete own", "publish head"} => mine[h] \in Manifests
    /\ pc[h] # "idle" => report[h] # "published"

(* The session's head is a manifest once it is set. *)
HeadIsManifest == head \in {0} \cup Manifests

Inv == /\ Types /\ RowPerCommit /\ NodeBeforeRow /\ HeadIsManifest
       /\ PublishedIsInGraph /\ ReportHolds

LEMMA InitInv == PublicationInit => Inv
BY PublicationAssumption
DEF PublicationInit, Inv, Types, RowPerCommit, NodeBeforeRow, HeadIsManifest, PublishedIsInGraph,
    ReportHolds, Manifests, States, Places, Reports, Oldest

(* The oldest publication of a host is one manifest. *)
LEMMA OldestUnique ==
  ASSUME NEW h \in Hosts, Types, NEW m \in Manifests, NEW n \in Manifests,
         Oldest(h, m), Oldest(h, n)
  PROVE  m = n
BY PublicationAssumption DEF Oldest, Types, Manifests

(* A step that only moves one host to a place where it completes nothing,   *)
(* and leaves the outbox alone, keeps the invariant. *)
LEMMA Moves ==
  ASSUME Inv, NEW h \in Hosts,
         UNCHANGED <<outbox, commits, head>>,
         graph \subseteq graph', graph' \subseteq Manifests,
         todo' \in [Hosts -> SUBSET Manifests],
         \A g \in Hosts : g # h => todo'[g] = todo[g],
         mine' \in [Hosts -> 0..MaxManifests],
         \A g \in Hosts : g # h => mine'[g] = mine[g],
         report' \in [Hosts -> Reports],
         \A g \in Hosts : g # h => report'[g] = report[g],
         report'[h] # "published",
         NEW place \in Places \ {"complete", "complete own"},
         Goto(h, place),
         place \in {"find", "publish own", "publish head"} => mine'[h] \in Manifests
  PROVE  Inv'
<1> USE DEF Inv
<1>1. Types'
  BY DEF Types, Goto
<1>2. RowPerCommit'
  BY DEF RowPerCommit
<1>3. NodeBeforeRow'
  BY DEF NodeBeforeRow, Types, Goto, Oldest
<1>4. HeadIsManifest'
  BY DEF HeadIsManifest
<1>5. PublishedIsInGraph'
  BY DEF PublishedIsInGraph
<1>6. ReportHolds'
  BY DEF ReportHolds, Types
<1> QED BY <1>1, <1>2, <1>3, <1>4, <1>5, <1>6

(* Ending a command is such a move, unless it reports a publication. *)
LEMMA EndsCommand ==
  ASSUME Inv, NEW h \in Hosts, NEW how \in Reports \ {"published"},
         EndCommand(h, how),
         UNCHANGED <<outbox, commits, head, mine>>,
         graph \subseteq graph', graph' \subseteq Manifests
  PROVE  Inv'
<1>1. Goto(h, "idle") /\ "idle" \in Places \ {"complete", "complete own"}
  BY DEF EndCommand, Places
<1>2. /\ todo' \in [Hosts -> SUBSET Manifests] /\ report' \in [Hosts -> Reports]
      /\ \A g \in Hosts : g # h => todo'[g] = todo[g] /\ report'[g] = report[g]
      /\ report'[h] # "published"
  BY DEF EndCommand, Inv, Types
<1> QED BY <1>1, <1>2, Moves DEF Inv, Types

(* A step that settles a row whose node exists, and changes no other        *)
(* durable state, keeps the invariant. *)
LEMMA Settles ==
  ASSUME Inv, NEW h \in Hosts, NEW m \in graph, CanComplete(m), Completed(m),
         UNCHANGED <<commits, head, graph, mine>>,
         todo' \in [Hosts -> SUBSET Manifests],
         \A g \in Hosts : g # h => todo'[g] = todo[g],
         report' \in [Hosts -> Reports],
         \A g \in Hosts : g # h => report'[g] = report[g],
         NEW place \in {"publish", "command", "idle"}, Goto(h, place),
         report'[h] = "published" => mine[h] = m /\ place = "idle"
  PROVE  Inv'
<1> USE DEF Inv
<1>0. m \in Manifests
  BY DEF Types
<1>1. Types'
  BY <1>0 DEF Types, Goto, Completed, States, Places
<1>2. RowPerCommit'
  BY <1>0 DEF RowPerCommit, Completed, CanComplete, Types
<1>3. NodeBeforeRow'
  BY DEF NodeBeforeRow, Types, Goto, Oldest
<1>4. HeadIsManifest'
  BY DEF HeadIsManifest
<1>5. PublishedIsInGraph'
  BY <1>0 DEF PublishedIsInGraph, Completed, Types
<1>6. ReportHolds'
  BY <1>0 DEF ReportHolds, Completed, Types
<1> QED BY <1>1, <1>2, <1>3, <1>4, <1>5, <1>6

(* Committing adds the row of a manifest that nobody has worked on yet. *)
LEMMA Commits ==
  ASSUME Inv, NEW h \in Hosts, NEW m \in NextManifest, CommitTransaction(m),
         UNCHANGED graph,
         todo' \in [Hosts -> SUBSET Manifests],
         \A g \in Hosts : g # h => todo'[g] = todo[g],
         mine' \in [Hosts -> 0..MaxManifests],
         \A g \in Hosts : g # h => mine'[g] = mine[g],
         report' \in [Hosts -> Reports],
         \A g \in Hosts : g # h => report'[g] = report[g],
         report'[h] # "published",
         NEW place \in {"find", "idle"}, Goto(h, place),
         place = "find" => mine'[h] = m
  PROVE  Inv'
<1> USE DEF Inv
<1>0. m \in Manifests /\ m = commits + 1 /\ outbox[m] = "none" /\ graph' = graph
  BY PublicationAssumption DEF NextManifest, RowPerCommit, Manifests, Types
<1>1. Types'
  <2>1. outbox' \in [Manifests -> States]
    BY <1>0 DEF Types, CommitTransaction, States
  <2>2. commits' \in 0..MaxManifests
    BY <1>0, PublicationAssumption DEF CommitTransaction, Manifests
  <2>3. pc' \in [Hosts -> Places]
    BY DEF Types, Goto, Places
  <2> QED BY <1>0, <2>1, <2>2, <2>3 DEF Types
<1>2. RowPerCommit'
  BY <1>0, PublicationAssumption DEF RowPerCommit, CommitTransaction, Types, Manifests
<1>3. NodeBeforeRow'
  BY <1>0 DEF NodeBeforeRow, Types, Goto, Oldest
<1>4. HeadIsManifest'
  BY <1>0 DEF HeadIsManifest, CommitTransaction
<1>5. PublishedIsInGraph'
  BY <1>0 DEF PublishedIsInGraph, CommitTransaction, Types
<1>6. ReportHolds'
  BY <1>0 DEF ReportHolds, CommitTransaction, Types
<1> QED BY <1>1, <1>2, <1>3, <1>4, <1>5, <1>6

(* Publishing a node and going on to complete its row. *)
LEMMA Publishes ==
  ASSUME Inv, NEW h \in Hosts, PublishGraph(h) \/ PublishOwn(h)
  PROVE  Inv'
<1> USE DEF Inv
<1>1. PICK m \in Manifests :
        /\ Published(m)
        /\ \/ Goto(h, "complete") /\ Oldest(h, m)
           \/ Goto(h, "complete own") /\ m = mine[h]
        /\ UNCHANGED <<outbox, head, commits, todo, mine, report>>
        /\ report[h] # "published"
  BY DEF PublishGraph, PublishOwn, NodeBeforeRow
<1>2. graph \subseteq graph' /\ m \in graph' /\ graph' \subseteq Manifests
  BY <1>1 DEF Published, Types
<1>3. Types'
  BY <1>1, <1>2 DEF Types, Goto, Places
<1>4. RowPerCommit' /\ HeadIsManifest'
  BY <1>1 DEF RowPerCommit, HeadIsManifest
<1>5. NodeBeforeRow'
  <2> SUFFICES ASSUME NEW g \in Hosts
               PROVE  /\ pc'[g] = "complete" =>
                           \A n \in Manifests : Oldest(g, n) => n \in graph'
                      /\ pc'[g] = "complete own" => mine[g] \in graph'
                      /\ pc'[g] \in {"find", "publish own", "complete own", "publish head"} =>
                           mine[g] \in Manifests
                      /\ pc'[g] # "idle" => report[g] # "published"
    BY <1>1 DEF NodeBeforeRow, Oldest
  <2>1. CASE g # h
    BY <2>1, <1>1, <1>2 DEF NodeBeforeRow, Goto, Types
  <2>2. CASE g = h
    BY <2>2, <1>1, <1>2, OldestUnique DEF Goto, Types
  <2> QED BY <2>1, <2>2
<1>6. PublishedIsInGraph' /\ ReportHolds'
  BY <1>1, <1>2 DEF PublishedIsInGraph, ReportHolds
<1> QED BY <1>3, <1>4, <1>5, <1>6

LEMMA PruneKeepsInv == Inv /\ Prune => Inv'
<1> SUFFICES ASSUME Inv, Prune PROVE Inv'
  OBVIOUS
<1> USE DEF Inv
<1>1. PICK m \in Manifests : SettledRow(m) /\ outbox' = [outbox EXCEPT ![m] = "pruned"]
  BY DEF Prune
<1>2. Types' /\ RowPerCommit' /\ HeadIsManifest'
  BY <1>1 DEF Types, RowPerCommit, HeadIsManifest, Prune, SettledRow, States
<1>3. NodeBeforeRow'
  BY DEF NodeBeforeRow, Prune, Oldest
<1>4. PublishedIsInGraph' /\ ReportHolds'
  BY <1>1 DEF PublishedIsInGraph, ReportHolds, Prune, SettledRow, Types
<1> QED BY <1>2, <1>3, <1>4

(* Working off one publication of the list leaves the host in the loop. *)
LEMMA NextInList ==
  ASSUME Inv, NEW h \in Hosts, NEW m \in Manifests, NextPublication(h, m)
  PROVE  /\ todo' \in [Hosts -> SUBSET Manifests]
         /\ \A g \in Hosts : g # h => todo'[g] = todo[g]
         /\ \E place \in {"publish", "command"} : Goto(h, place)
BY DEF Inv, Types, NextPublication, Goto

LEMMA ReconcileKeepsInv ==
  ASSUME Inv, NEW h \in Hosts,
         \/ StartHost(h) \/ ReadOutbox(h) \/ ReadOutboxFails(h) \/ PublishGraphFails(h)
         \/ CompletePublication(h) \/ CompletePublicationFails(h)
  PROVE  Inv'
<1> USE DEF Inv
<1>0. 0 \in 0..MaxManifests
  BY PublicationAssumption
<1>1. CASE StartHost(h)
  <2>1. Goto(h, "reconcile") /\ "reconcile" \in Places \ {"complete", "complete own"}
    BY <1>1 DEF StartHost, Places
  <2>2. /\ mine' \in [Hosts -> 0..MaxManifests] /\ report' \in [Hosts -> Reports]
        /\ \A g \in Hosts : g # h => mine'[g] = mine[g] /\ report'[g] = report[g]
        /\ report'[h] # "published"
        /\ UNCHANGED <<outbox, commits, head, graph, todo>>
    BY <1>0, <1>1 DEF StartHost, durable, Types, Reports
  <2> QED BY <2>1, <2>2, Moves DEF Types
<1>2. CASE ReadOutbox(h) \/ ReadOutboxFails(h)
  <2>1. PICK place \in {"command", "publish"} : Goto(h, place)
    BY <1>2 DEF ReadOutbox, ReadOutboxFails
  <2>2. place \in Places \ {"complete", "complete own"}
    BY DEF Places
  <2>3. /\ todo' \in [Hosts -> SUBSET Manifests]
        /\ \A g \in Hosts : g # h => todo'[g] = todo[g]
        /\ UNCHANGED <<outbox, commits, head, graph, mine, report>>
        /\ report[h] # "published"
    BY <1>2 DEF ReadOutbox, ReadOutboxFails, PendingOutbox, Types, durable, NodeBeforeRow
  <2> QED BY <2>1, <2>2, <2>3, Moves DEF Types
<1>3. CASE PublishGraphFails(h)
  <2>1. PICK m \in Manifests : NextPublication(h, m) /\ (Published(m) \/ UNCHANGED graph)
    BY <1>3 DEF PublishGraphFails
  <2>2. PICK place \in {"publish", "command"} : Goto(h, place)
    BY <2>1, NextInList
  <2>3. place \in Places \ {"complete", "complete own"}
    BY DEF Places
  <2>4. /\ graph \subseteq graph' /\ graph' \subseteq Manifests
        /\ UNCHANGED <<outbox, commits, head, mine, report>>
        /\ report[h] # "published"
    BY <1>3, <2>1 DEF PublishGraphFails, Published, Types, NodeBeforeRow
  <2> QED BY <2>1, <2>2, <2>3, <2>4, NextInList, Moves DEF Types
<1>4. CASE CompletePublication(h) \/ CompletePublicationFails(h)
  <2>1. PICK m \in Manifests :
          /\ Oldest(h, m) /\ NextPublication(h, m)
          /\ (CanComplete(m) /\ Completed(m)) \/ UNCHANGED outbox
    BY <1>4 DEF CompletePublication, CompletePublicationFails
  <2>2. m \in graph
    BY <1>4, <2>1 DEF CompletePublication, CompletePublicationFails, NodeBeforeRow
  <2>3. PICK place \in {"publish", "command"} : Goto(h, place)
    BY <2>1, NextInList
  <2>4. UNCHANGED <<commits, head, graph, mine, report>> /\ report[h] # "published"
    BY <1>4 DEF CompletePublication, CompletePublicationFails, NodeBeforeRow
  <2>5. CASE CanComplete(m) /\ Completed(m)
    BY <2>1, <2>2, <2>3, <2>4, <2>5, NextInList, Settles DEF Types
  <2>6. CASE UNCHANGED outbox
    <3>1. place \in Places \ {"complete", "complete own"}
      BY DEF Places
    <3> QED BY <2>1, <2>3, <2>4, <2>6, <3>1, NextInList, Moves DEF Types
  <2> QED BY <2>1, <2>5, <2>6
<1> QED BY <1>1, <1>2, <1>3, <1>4

LEMMA CommandKeepsInv ==
  ASSUME Inv, NEW h \in Hosts,
         \/ Commit(h) \/ CommitFails(h) \/ FindOwn(h) \/ FindOwnFails(h) \/ PublishOwnFails(h)
         \/ CompleteOwn(h) \/ CompleteOwnFails(h)
  PROVE  Inv'
<1> USE DEF Inv
<1>0. {"commit failed", "remains pending"} \subseteq Reports \ {"published"}
  BY DEF Reports
<1>1. CASE Commit(h)
  <2>1. PICK m \in NextManifest : CommitTransaction(m) /\ mine' = [mine EXCEPT ![h] = m]
    BY <1>1 DEF Commit
  <2>2. Goto(h, "find") /\ UNCHANGED <<graph, todo, report>> /\ pc[h] = "command"
    BY <1>1 DEF Commit
  <2>3. m \in Manifests /\ m = commits + 1
    BY DEF NextManifest
  <2>4. /\ mine' \in [Hosts -> 0..MaxManifests] /\ mine'[h] = m
        /\ \A g \in Hosts : g # h => mine'[g] = mine[g]
    BY <2>1, <2>3, PublicationAssumption DEF Types, Manifests
  <2>5. report[h] # "published"
    BY <2>2 DEF NodeBeforeRow
  <2> QED BY <2>1, <2>2, <2>4, <2>5, Commits DEF Types
<1>2. CASE CommitFails(h)
  <2>1. EndCommand(h, "commit failed") /\ UNCHANGED <<graph, mine>>
    BY <1>2 DEF CommitFails
  <2>2. CASE \E m \in NextManifest : CommitTransaction(m)
    <3>1. PICK m \in NextManifest : CommitTransaction(m)
      BY <2>2
    <3>2. /\ todo' \in [Hosts -> SUBSET Manifests] /\ report' \in [Hosts -> Reports]
          /\ \A g \in Hosts : g # h => todo'[g] = todo[g] /\ report'[g] = report[g]
          /\ report'[h] # "published" /\ Goto(h, "idle")
      BY <2>1, <1>0 DEF EndCommand, Types
    <3> QED BY <2>1, <3>1, <3>2, Commits DEF Types
  <2>3. CASE UNCHANGED <<outbox, head, commits>>
    BY <1>0, <2>1, <2>3, EndsCommand DEF Types
  <2> QED BY <1>2, <2>2, <2>3 DEF CommitFails
<1>3. CASE FindOwn(h)
  <2>1. CASE mine[h] \in PendingOutbox
    <3>1. Goto(h, "publish own") /\ UNCHANGED <<outbox, head, commits, graph, mine, report, todo>>
      BY <1>3, <2>1 DEF FindOwn, durable
    <3>2. /\ "publish own" \in Places \ {"complete", "complete own"} /\ mine[h] \in Manifests
          /\ report[h] # "published"
      BY <1>3, <2>1 DEF Places, PendingOutbox, FindOwn, NodeBeforeRow
    <3> QED BY <3>1, <3>2, Moves DEF Types
  <2>2. CASE mine[h] \notin PendingOutbox
    <3>1. EndCommand(h, "remains pending") /\ UNCHANGED <<outbox, head, commits, graph, mine>>
      BY <1>3, <2>2 DEF FindOwn, durable
    <3> QED BY <1>0, <3>1, EndsCommand DEF Types
  <2> QED BY <2>1, <2>2
<1>4. CASE FindOwnFails(h)
  <2>1. EndCommand(h, "remains pending") /\ UNCHANGED <<outbox, head, commits, graph, mine>>
    BY <1>4 DEF FindOwnFails, durable
  <2> QED BY <1>0, <2>1, EndsCommand DEF Types
<1>5. CASE PublishOwnFails(h)
  <2>1. EndCommand(h, "remains pending") /\ UNCHANGED <<outbox, head, commits, mine>>
    BY <1>5 DEF PublishOwnFails
  <2>2. graph \subseteq graph' /\ graph' \subseteq Manifests
    BY <1>5 DEF PublishOwnFails, Published, NodeBeforeRow, Types
  <2> QED BY <1>0, <2>1, <2>2, EndsCommand
<1>6. CASE CompleteOwn(h) \/ CompleteOwnFails(h)
  <2>1. mine[h] \in graph /\ UNCHANGED <<head, commits, graph, mine>>
    BY <1>6 DEF CompleteOwn, CompleteOwnFails, NodeBeforeRow
  <2>2. CASE /\ CanComplete(mine[h]) /\ Completed(mine[h])
             /\ \E how \in Reports : EndCommand(h, how)
    <3>1. /\ todo' \in [Hosts -> SUBSET Manifests] /\ report' \in [Hosts -> Reports]
          /\ \A g \in Hosts : g # h => todo'[g] = todo[g] /\ report'[g] = report[g]
          /\ Goto(h, "idle")
      BY <2>2 DEF EndCommand, Types
    <3> QED BY <2>1, <2>2, <3>1, Settles
  <2>3. CASE UNCHANGED outbox /\ EndCommand(h, "remains pending")
    BY <1>0, <2>1, <2>3, EndsCommand DEF Types
  <2> QED BY <1>6, <2>2, <2>3 DEF CompleteOwn, CompleteOwnFails, Reports
<1> QED BY <1>1, <1>2, <1>3, <1>4, <1>5, <1>6

LEMMA OtherKeepsInv ==
  ASSUME Inv, NEW h \in Hosts,
         Continue(h) \/ PublishHead(h) \/ PublishHeadFails(h) \/ OtherCommand(h) \/ Kill(h)
  PROVE  Inv'
<1> USE DEF Inv
<1>0. {"continued", "failed", "none"} \subseteq Reports \ {"published"}
  BY DEF Reports
<1>1. CASE Continue(h)
  <2>1. /\ Goto(h, "publish head") /\ mine' = [mine EXCEPT ![h] = head] /\ head \in Manifests
        /\ UNCHANGED <<outbox, commits, head, graph, todo, report>>
    BY <1>1 DEF Continue, durable, HeadIsManifest
  <2>2. "publish head" \in Places \ {"complete", "complete own"}
    BY DEF Places
  <2>3. /\ mine' \in [Hosts -> 0..MaxManifests] /\ mine'[h] \in Manifests
        /\ \A g \in Hosts : g # h => mine'[g] = mine[g]
    <3>1. head \in Manifests
      BY <2>1
    <3>2. head \in 0..MaxManifests
      BY <3>1, PublicationAssumption DEF Manifests
    <3> QED BY <2>1, <3>2 DEF Types
  <2>4. report[h] # "published"
    BY <1>1 DEF Continue, NodeBeforeRow
  <2> QED BY <2>1, <2>2, <2>3, <2>4, Moves DEF Types
<1>2. CASE PublishHead(h) \/ PublishHeadFails(h)
  <2>1. PICK how \in {"continued", "failed"} :
          EndCommand(h, how) /\ UNCHANGED <<outbox, head, commits, mine>>
    BY <1>2 DEF PublishHead, PublishHeadFails
  <2>2. graph \subseteq graph' /\ graph' \subseteq Manifests
    BY <1>2 DEF PublishHead, PublishHeadFails, Published, NodeBeforeRow, Types
  <2> QED BY <1>0, <2>1, <2>2, EndsCommand
<1>3. CASE OtherCommand(h) \/ Kill(h)
  <2>1. EndCommand(h, "none") /\ UNCHANGED <<outbox, head, commits, graph, mine>>
    BY <1>3 DEF OtherCommand, Kill, durable
  <2> QED BY <1>0, <2>1, EndsCommand DEF Types
<1> QED BY <1>1, <1>2, <1>3

LEMMA StepInv == Inv /\ [PublicationNext]_publicationVars => Inv'
<1> SUFFICES ASSUME Inv, [PublicationNext]_publicationVars PROVE Inv'
  OBVIOUS
<1>1. CASE UNCHANGED publicationVars
  BY <1>1 DEF publicationVars, Inv, Types, RowPerCommit, NodeBeforeRow, HeadIsManifest,
              PublishedIsInGraph, ReportHolds, Oldest
<1>2. CASE Prune
  BY <1>2, PruneKeepsInv
<1>3. ASSUME NEW h \in Hosts, StartHost(h) \/ HostStep(h) \/ HostFault(h)
      PROVE  Inv'
  BY <1>3, ReconcileKeepsInv, CommandKeepsInv, OtherKeepsInv, Publishes DEF HostStep, HostFault
<1> QED BY <1>1, <1>2, <1>3 DEF PublicationNext

THEOREM Invariance == PublicationSpec => []Inv
BY InitInv, StepInv, PTL DEF PublicationSpec

(* A committed checkpoint waits in the outbox or is in the graph, whichever *)
(* host died and whichever daemon or graph call failed: the row comes with  *)
(* the commit (commit_checkpoint) and is settled after the node exists      *)
(* (_publish_outbox).                                                       *)
THEOREM CommittedNeverLost == PublicationSpec => []NothingLost
<1>1. Inv => NothingLost
  BY PublicationAssumption
  DEF Inv, Types, RowPerCommit, PublishedIsInGraph, NothingLost, Committed, States, Manifests
<1> QED BY Invariance, <1>1, PTL

(* The outbox never claims a node that does not exist: publish_checkpoint   *)
(* precedes complete_checkpoint_publication in every host.                  *)
THEOREM OutboxIsTruthful == PublicationSpec => []PublishedIsInGraph
<1>1. Inv => PublishedIsInGraph
  BY DEF Inv
<1> QED BY Invariance, <1>1, PTL

(* A command that ends with a published checkpoint has settled it           *)
(* (WorkspaceCoordinator.checkpoint).                                       *)
THEOREM SuccessIsSettled == PublicationSpec => []ReportHolds
<1>1. Inv => ReportHolds
  BY DEF Inv
<1> QED BY Invariance, <1>1, PTL
=============================================================================
