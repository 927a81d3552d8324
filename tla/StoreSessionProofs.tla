-------------------------- MODULE StoreSessionProofs --------------------------
(***************************************************************************)
(* Proofs about StoreSession, for every number of invocations, callers and *)
(* request ids, every limit, and reused request ids as well as fresh ones. *)
(*                                                                         *)
(* First what EventSequence::accept guarantees of streams of every length, *)
(* which is what the session validates its events with. Then the invariant *)
(* Inv of the invocations, which carries the streams,                      *)
(* the handover of the output, the dispositions and the validated events.  *)
(* Then, on top of it, the invariant Table of the session's tables, which  *)
(* carries TableIsSound: the counter, the map, the history, and close.     *)
(***************************************************************************)
EXTENDS StoreSession, FiniteSetTheorems, FunctionTheorems, TLAPS

\* The validator's state summarises the stream it has accepted.
Summarises(mode, sq, s) ==
    /\ s \in Seq(Events)
    /\ sq \in EventSequences
    /\ LegalStream(mode, s)
    /\ sq.next_sequence = Len(s)
    /\ sq.state = "AwaitingStart" <=> s = <<>>
    /\ sq.state = "Terminal" <=> \E k \in DOMAIN s : s[k].kind \in TerminalKinds
    /\ sq.data_events = 0 <=> DataAt(s) = {}
    /\ mode = "Unary" => sq.data_events \in {0, 1}

\* A new validator summarises the empty stream.
LEMMA NewSequenceSummarises ==
    ASSUME NEW mode
    PROVE  Summarises(mode, NewSequence, <<>>)
BY DEF Summarises, NewSequence, EventSequences, LegalStream, DataAt

\* The positions and values of a stream with one more event.
LEMMA AppendFacts ==
    ASSUME NEW s \in Seq(Events), NEW e \in Events
    PROVE  /\ Append(s, e) \in Seq(Events)
           /\ Len(Append(s, e)) = Len(s) + 1
           /\ DOMAIN s = 1..Len(s)
           /\ DOMAIN Append(s, e) = 1..(Len(s) + 1)
           /\ \A k \in 1..Len(s) : Append(s, e)[k] = s[k]
           /\ Append(s, e)[Len(s) + 1] = e
           /\ Len(s) \in Nat
OBVIOUS

\* If accept lets an event through, the longer stream is still one that the
\* README's contract allows and the new state summarises it.
LEMMA AcceptPreserves ==
    ASSUME NEW mode, NEW sq, NEW s, NEW e \in Events,
           Summarises(mode, sq, s), Accepts(mode, sq, e)
    PROVE  Summarises(mode, Accept(sq, e), Append(s, e))
<1> DEFINE t == Append(s, e)
           n == Len(s)
<1> USE DEF Events, Kinds, WellFormedKinds, TerminalKinds, Failures
<1>0. s \in Seq(Events) /\ sq \in EventSequences
  BY DEF Summarises
<1>1. /\ t \in Seq(Events) /\ Len(t) = n + 1 /\ DOMAIN s = 1..n /\ DOMAIN t = 1..(n + 1)
      /\ \A k \in 1..n : t[k] = s[k]
      /\ t[n + 1] = e /\ n \in Nat
  BY <1>0, AppendFacts
<1>2. Accept(sq, e) \in EventSequences
  BY <1>0 DEF Accept, EventSequences
<1>3. /\ sq.next_sequence = n
      /\ e.seq = n
      /\ KindAllowed(mode, sq, e.kind)
      /\ e.kind \in WellFormedKinds
  BY DEF Summarises, Accepts
<1>4. sq.state \in {"AwaitingStart", "Active"} /\ sq.state # "Terminal"
  BY <1>3 DEF KindAllowed
<1>5. \A k \in 1..n : s[k].kind \notin TerminalKinds
  BY <1>1, <1>4 DEF Summarises
<1>6. n = 0 <=> sq.state = "AwaitingStart"
  BY <1>0 DEF Summarises
<1>7. e.kind = "Started" <=> n = 0
  BY <1>3, <1>6 DEF KindAllowed
<1>8. \A k \in 1..n : /\ s[k].seq = k - 1
                      /\ s[k].kind \in WellFormedKinds
                      /\ s[k].kind = "Started" <=> k = 1
  BY <1>1 DEF Summarises, LegalStream
<1>9. \A k \in 1..(n + 1) : /\ t[k].seq = k - 1
                            /\ t[k].kind \in WellFormedKinds
                            /\ t[k].kind = "Started" <=> k = 1
                            /\ t[k].kind \in TerminalKinds => k = n + 1
  <2> SUFFICES ASSUME NEW k \in 1..(n + 1)
               PROVE  /\ t[k].seq = k - 1
                      /\ t[k].kind \in WellFormedKinds
                      /\ t[k].kind = "Started" <=> k = 1
                      /\ t[k].kind \in TerminalKinds => k = n + 1
    OBVIOUS
  <2>1. CASE k \in 1..n
    BY <2>1, <1>1, <1>5, <1>8
  <2>2. CASE k = n + 1
    BY <2>2, <1>1, <1>3, <1>7
  <2> QED
    BY <2>1, <2>2, <1>1
<1>10. DataAt(t) = IF e.kind = "Data" THEN DataAt(s) \cup {n + 1} ELSE DataAt(s)
  BY <1>1 DEF DataAt
<1>11. (\E k \in DOMAIN t : t[k].kind = "Complete") <=> e.kind = "Complete"
  BY <1>1, <1>5
<1>12. mode = "Unary" =>
         /\ \A j, k \in DataAt(t) : j = k
         /\ (\E k \in DOMAIN t : t[k].kind = "Complete") => DataAt(t) # {}
  <2> SUFFICES ASSUME mode = "Unary"
               PROVE  /\ \A j, k \in DataAt(t) : j = k
                      /\ e.kind = "Complete" => DataAt(t) # {}
    BY <1>11
  <2>1. \A j, k \in DataAt(s) : j = k
    BY DEF Summarises, LegalStream
  <2>2. sq.data_events = 0 <=> DataAt(s) = {}
    BY DEF Summarises
  <2>3. \A j, k \in DataAt(t) : j = k
    <3>1. CASE e.kind = "Data"
      <4>1. DataAt(s) = {}
        BY <3>1, <1>3, <2>2 DEF KindAllowed
      <4> QED
        BY <4>1, <3>1, <1>10
    <3>2. CASE e.kind # "Data"
      BY <3>2, <2>1, <1>10
    <3> QED
      BY <3>1, <3>2
  <2>4. e.kind = "Complete" => DataAt(t) # {}
    BY <1>3, <2>2, <1>10 DEF KindAllowed
  <2> QED
    BY <2>3, <2>4
<1>13. LegalStream(mode, t)
  BY <1>1, <1>9, <1>12 DEF LegalStream
<1>14. Accept(sq, e).next_sequence = Len(t)
  BY <1>1, <1>3 DEF Accept
<1>15. Accept(sq, e).state = "AwaitingStart" <=> t = <<>>
  <2>1. t # <<>>
    BY <1>1
  <2>2. Accept(sq, e).state # "AwaitingStart"
    BY <1>6, <1>7, <1>3 DEF Accept
  <2> QED
    BY <2>1, <2>2
<1>16. Accept(sq, e).state = "Terminal" <=> \E k \in DOMAIN t : t[k].kind \in TerminalKinds
  <2>1. Accept(sq, e).state = "Terminal" <=> e.kind \in TerminalKinds
    BY <1>4 DEF Accept
  <2>2. (\E k \in DOMAIN t : t[k].kind \in TerminalKinds) <=> e.kind \in TerminalKinds
    BY <1>1, <1>5
  <2> QED
    BY <2>1, <2>2
<1>17. Accept(sq, e).data_events = 0 <=> DataAt(t) = {}
  <2>1. sq.data_events \in Nat /\ (sq.data_events = 0 <=> DataAt(s) = {})
    BY <1>0 DEF Summarises, EventSequences
  <2>2. CASE e.kind = "Data"
    <3>1. Accept(sq, e).data_events = sq.data_events + 1
      BY <2>2 DEF Accept
    <3>2. DataAt(t) # {}
      BY <2>2, <1>10
    <3> QED
      BY <2>1, <3>1, <3>2
  <2>3. CASE e.kind # "Data"
    <3>1. Accept(sq, e).data_events = sq.data_events
      BY <2>1, <2>3 DEF Accept
    <3> QED
      BY <2>1, <2>3, <3>1, <1>10
  <2> QED
    BY <2>2, <2>3
<1>18. mode = "Unary" => Accept(sq, e).data_events \in {0, 1}
  BY <1>0, <1>3 DEF Summarises, Accept, KindAllowed, EventSequences
<1> QED
  BY <1>1, <1>2, <1>13, <1>14, <1>15, <1>16, <1>17, <1>18 DEF Summarises

\* accept refuses no event that the contract allows next: the validator is as
\* permissive as the contract, for streams of every length.
THEOREM AcceptIsComplete ==
    ASSUME NEW mode \in Modes, NEW sq, NEW s, NEW e \in Events,
           Summarises(mode, sq, s), LegalStream(mode, Append(s, e))
    PROVE  Accepts(mode, sq, e)
<1> DEFINE t == Append(s, e)
           n == Len(s)
<1> USE DEF Events, Kinds, WellFormedKinds, TerminalKinds, Failures
<1>0. s \in Seq(Events) /\ sq \in EventSequences
  BY DEF Summarises
<1>1. /\ DOMAIN s = 1..n /\ DOMAIN t = 1..(n + 1) /\ Len(t) = n + 1
      /\ \A k \in 1..n : t[k] = s[k]
      /\ t[n + 1] = e /\ n \in Nat
  BY <1>0, AppendFacts
<1>2. /\ e.seq = n /\ e.kind \in WellFormedKinds
      /\ e.kind = "Started" <=> n = 0
  BY <1>1 DEF LegalStream
<1>3. \A k \in 1..n : s[k].kind \notin TerminalKinds
  <2> SUFFICES ASSUME NEW k \in 1..n, s[k].kind \in TerminalKinds
               PROVE  FALSE
    OBVIOUS
  <2>1. k \in DOMAIN t /\ t[k].kind \in TerminalKinds
    BY <1>1
  <2>2. k = Len(t)
    BY <2>1 DEF LegalStream
  <2> QED
    BY <2>2, <1>1
<1>4. sq.next_sequence = n /\ sq.state # "Terminal"
  BY <1>1, <1>3 DEF Summarises
<1>5. sq.state = "AwaitingStart" <=> n = 0
  BY <1>0 DEF Summarises
<1>6. sq.state \in {"AwaitingStart", "Active"}
  BY <1>0, <1>4 DEF EventSequences
<1>7. DataAt(t) = IF e.kind = "Data" THEN DataAt(s) \cup {n + 1} ELSE DataAt(s)
  BY <1>1 DEF DataAt
<1>8. DataAt(s) \subseteq 1..n
  BY <1>1 DEF DataAt
<1>9. ASSUME mode = "Unary", e.kind = "Data" PROVE sq.data_events = 0
  <2>1. \A j, k \in DataAt(t) : j = k
    BY <1>9 DEF LegalStream
  <2>2. DataAt(s) = {}
    BY <2>1, <1>7, <1>8, <1>9, <1>1
  <2> QED
    BY <2>2 DEF Summarises
<1>10. ASSUME mode = "Unary", e.kind = "Complete" PROVE sq.data_events = 1
  <2>1. DataAt(t) # {}
    BY <1>10, <1>1 DEF LegalStream
  <2>2. DataAt(s) # {}
    BY <2>1, <1>7, <1>10
  <2> QED
    BY <2>2, <1>10 DEF Summarises
<1>11. KindAllowed(mode, sq, e.kind)
  BY <1>2, <1>5, <1>6, <1>9, <1>10 DEF KindAllowed
<1> QED
  BY <1>2, <1>4, <1>11 DEF Accepts

-----------------------------------------------------------------------------
(* The invocations of a session. *)

\* Actors are pairwise distinct, and each is an actor.
LEMMA ActorFacts ==
    /\ \A i \in Invocations : /\ Handler(i) \in Actors /\ Handler(i) \in Handlers
                              /\ Handler(i) \in Finishers /\ Handler(i) \notin Cancellers
                              /\ Handler(i) \notin Tasks /\ Subject(Handler(i)) = i
    /\ \A i \in Invocations : /\ Task(i) \in Actors /\ Task(i) \in Finishers
                              /\ Task(i) \notin Handlers /\ Task(i) \in Tasks
                              /\ Task(i) \notin Cancellers /\ Subject(Task(i)) = i
    /\ \A i \in Invocations : /\ Output(i) \in Actors /\ Output(i) \notin Handlers
                              /\ Output(i) \notin Tasks
                              /\ Output(i) \notin Cancellers /\ Subject(Output(i)) = i
    /\ \A x \in Callers, i \in Invocations :
         /\ Canceller(x, i) \in Actors /\ Canceller(x, i) \in Cancellers
         /\ Canceller(x, i) \in Finishers /\ Canceller(x, i) \notin Handlers
         /\ Canceller(x, i) \notin Tasks
         /\ Canceller(x, i)[2] = x /\ Subject(Canceller(x, i)) = i
    /\ \A i, j \in Invocations : /\ Handler(i) = Handler(j) <=> i = j
                                 /\ Task(i) = Task(j) <=> i = j
                                 /\ Output(i) = Output(j) <=> i = j
                                 /\ Handler(i) # Task(j)
                                 /\ Handler(i) # Output(j)
                                 /\ Task(i) # Output(j)
    /\ \A x, y \in Callers, i, j \in Invocations :
         /\ Canceller(x, i) = Canceller(y, j) <=> x = y /\ i = j
         /\ Canceller(x, i) # Handler(j)
         /\ Canceller(x, i) # Task(j)
         /\ Canceller(x, i) # Output(j)
BY DEF Handler, Task, Output, Canceller, Actors, Finishers, Handlers, Tasks, Outputs,
       Cancellers, Subject

\* Every actor is one of the four kinds.
LEMMA ActorKinds ==
    ASSUME NEW a \in Actors
    PROVE  \/ \E i \in Invocations : a = Handler(i)
           \/ \E i \in Invocations : a = Task(i)
           \/ \E i \in Invocations : a = Output(i)
           \/ \E x \in Callers, i \in Invocations : a = Canceller(x, i)
BY DEF Actors, Finishers, Handlers, Tasks, Outputs, Cancellers


\* The output task never runs finish_invocation.
LEMMA OutputsDoNotFinish == \A i \in Invocations : Output(i) \notin Finishers
BY DEF Output, Finishers, Handlers, Tasks, Cancellers, Handler, Task, Canceller

\* The control states of the actors, the part of TypeOK that every step changes.
PCTyped ==
    /\ pc \in [Actors -> HandlerPC \cup TaskPC \cup CancellerPC \cup OutputPC]
    /\ \A i \in Invocations : /\ pc[Handler(i)] \in HandlerPC
                              /\ pc[Task(i)] \in TaskPC
                              /\ pc[Output(i)] \in OutputPC
                              /\ \A x \in Callers : pc[Canceller(x, i)] \in CancellerPC

\* Moving one actor to a control state of its kind keeps PCTyped.
LEMMA GotoTyped ==
    ASSUME PCTyped, NEW a \in Actors, NEW to, pc' = [pc EXCEPT ![a] = to],
           \A i \in Invocations : /\ a = Handler(i) => to \in HandlerPC
                                  /\ a = Task(i) => to \in TaskPC
                                  /\ a = Output(i) => to \in OutputPC
                                  /\ \A x \in Callers : a = Canceller(x, i) => to \in CancellerPC
    PROVE  PCTyped'
<1>1. to \in HandlerPC \cup TaskPC \cup CancellerPC \cup OutputPC
  BY ActorKinds
<1>2. pc' \in [Actors -> HandlerPC \cup TaskPC \cup CancellerPC \cup OutputPC]
  BY <1>1 DEF PCTyped
<1>3. \A b \in Actors : pc'[b] = IF b = a THEN to ELSE pc[b]
  BY DEF PCTyped
<1>4. ASSUME NEW i \in Invocations
      PROVE  /\ pc'[Handler(i)] \in HandlerPC
             /\ pc'[Task(i)] \in TaskPC
             /\ pc'[Output(i)] \in OutputPC
             /\ \A x \in Callers : pc'[Canceller(x, i)] \in CancellerPC
  BY <1>3, ActorFacts DEF PCTyped
<1> QED
  BY <1>2, <1>4 DEF PCTyped

\* GotoTyped for a handler.
LEMMA HandlerGoto ==
    ASSUME PCTyped, NEW i \in Invocations, NEW to \in HandlerPC,
           pc' = [pc EXCEPT ![Handler(i)] = to]
    PROVE  PCTyped'
<1>1. Handler(i) \in Actors
  BY ActorFacts
<1>2. \A j \in Invocations : /\ Handler(i) = Handler(j) => to \in HandlerPC
                             /\ Handler(i) = Task(j) => to \in TaskPC
                             /\ Handler(i) = Output(j) => to \in OutputPC
                             /\ \A y \in Callers : Handler(i) = Canceller(y, j) => to \in CancellerPC
  BY ActorFacts
<1> QED
  BY <1>1, <1>2, GotoTyped

\* GotoTyped for the task of an invocation.
LEMMA TaskGoto ==
    ASSUME PCTyped, NEW i \in Invocations, NEW to \in TaskPC,
           pc' = [pc EXCEPT ![Task(i)] = to]
    PROVE  PCTyped'
<1>1. Task(i) \in Actors
  BY ActorFacts
<1>2. \A j \in Invocations : /\ Task(i) = Handler(j) => to \in HandlerPC
                             /\ Task(i) = Task(j) => to \in TaskPC
                             /\ Task(i) = Output(j) => to \in OutputPC
                             /\ \A y \in Callers : Task(i) = Canceller(y, j) => to \in CancellerPC
  BY ActorFacts
<1> QED
  BY <1>1, <1>2, GotoTyped

\* GotoTyped for a canceller.
LEMMA CancellerGoto ==
    ASSUME PCTyped, NEW x \in Callers, NEW i \in Invocations, NEW to \in CancellerPC,
           pc' = [pc EXCEPT ![Canceller(x, i)] = to]
    PROVE  PCTyped'
<1>1. Canceller(x, i) \in Actors
  BY ActorFacts
<1>2. \A j \in Invocations : /\ Canceller(x, i) = Handler(j) => to \in HandlerPC
                             /\ Canceller(x, i) = Task(j) => to \in TaskPC
                             /\ Canceller(x, i) = Output(j) => to \in OutputPC
                             /\ \A y \in Callers : Canceller(x, i) = Canceller(y, j) => to \in CancellerPC
  BY ActorFacts
<1> QED
  BY <1>1, <1>2, GotoTyped

\* A finishing step keeps the control states typed, whoever takes it.
LEMMA FinishTyped ==
    ASSUME TypeOK, NEW a \in Finishers, FinishInvocation(a)
    PROVE  TypeOK'
<1>1. a \in Actors /\ Subject(a) \in Invocations
  BY DEF Actors, Finishers, Handlers, Tasks, Cancellers, Handler, Task, Canceller, Subject
<1>2. RequestId[Subject(a)] \in Ids
  BY <1>1, InstanceAssumption
<1>3. PICK to \in Finishing \cup {AfterFinish(a)} : pc' = [pc EXCEPT ![a] = to]
  BY DEF FinishInvocation, FinishRequest, RecordCompletion, RemoveEntry, Uncount, Goto, Finishing
<1>4. PCTyped'
  <2>1. \A i \in Invocations : /\ a = Handler(i) => to \in HandlerPC
                               /\ a = Task(i) => to \in TaskPC
                               /\ a # Output(i)
                               /\ \A x \in Callers : a = Canceller(x, i) => to \in CancellerPC
    BY <1>3, ActorFacts, OutputsDoNotFinish
    DEF AfterFinish, Finishing, HandlerPC, TaskPC, CancellerPC
  <2>2. PCTyped
    BY DEF TypeOK, PCTyped
  <2> QED
    BY <1>1, <1>3, <2>1, <2>2, GotoTyped
<1>5. CASE FinishRequest(a)
  BY <1>4, <1>5 DEF PCTyped, TypeOK, FinishRequest, invocationVars, outputVars, callerVars
<1>6. CASE RecordCompletion(a)
  <2>1. Insert(completed, RequestId[Subject(a)]) \in Seq(Ids)
    BY <1>2, LimitAssumption DEF TypeOK, Insert
  <2> QED
    BY <1>4, <1>6, <2>1 DEF PCTyped, TypeOK, RecordCompletion, invocationVars, outputVars, callerVars
<1>7. CASE RemoveEntry(a)
  BY <1>2, <1>4, <1>7
  DEF PCTyped, TypeOK, RemoveEntry, DropUnheld, outputVars, callerVars
<1>8. CASE Uncount(a)
  BY <1>4, <1>8 DEF PCTyped, TypeOK, Uncount, DropUnheld, outputVars, callerVars
<1> QED
  BY <1>5, <1>6, <1>7, <1>8 DEF FinishInvocation


\* An event built by the host is an event.
LEMMA NextEventTyped ==
    ASSUME TypeOK, NEW i \in Invocations, NEW kind \in Kinds
    PROVE  NextEvent(i, kind) \in Events
BY DEF TypeOK, NextEvent, Events, EventSequences

\* A send keeps the output typed, whether it succeeds or fails.
LEMMA SendTyped ==
    ASSUME TypeOK, NEW i \in Invocations, NEW e \in Events, SendOk(i, e) \/ SendErr(i)
    PROVE  /\ outClosed' \in [Invocations -> BOOLEAN]
           /\ finished' \in [Invocations -> BOOLEAN]
           /\ sequence' \in [Invocations -> EventSequences]
           /\ sent' \in [Invocations -> Seq(Events)]
<1>1. Accept(sequence[i], e) \in EventSequences
  BY DEF TypeOK, Accept, EventSequences
<1>2. Append(sent[i], e) \in Seq(Events)
  BY DEF TypeOK
<1> QED
  BY <1>1, <1>2 DEF TypeOK, SendOk, SendErr

\* The two users of InvocationOutput::fail.
LEMMA FailTyped ==
    ASSUME TypeOK, NEW i \in Invocations, NEW a \in {Task(i), Output(i)},
           NEW kind \in {"Internal", "Cancelled"}, Fail(a, kind)
    PROVE  TypeOK'
<1>1. a \in Actors /\ Subject(a) = i
  BY ActorFacts
<1>2. FailEvent(i, kind) \in Events
  BY NextEventTyped DEF FailEvent, Kinds, WellFormedKinds, TerminalKinds, Failures
<1>3. /\ outClosed' \in [Invocations -> BOOLEAN]
      /\ finished' \in [Invocations -> BOOLEAN]
      /\ sequence' \in [Invocations -> EventSequences]
      /\ sent' \in [Invocations -> Seq(Events)]
  <2>1. CASE UNCHANGED outputVars
    BY <2>1 DEF TypeOK, outputVars
  <2>2. CASE SendOk(i, FailEvent(i, kind)) \/ SendErr(i)
    BY <2>2, <1>2, SendTyped
  <2> QED
    BY <1>1, <2>1, <2>2 DEF Fail
<1>4. PCTyped'
  <2>1. PCTyped
    BY DEF TypeOK, PCTyped
  <2>2. CASE pc' = pc
    BY <2>1, <2>2 DEF PCTyped
  <2>3. CASE pc' = [pc EXCEPT ![a] = AfterFail(a)]
    <3>1. \A j \in Invocations : /\ a # Handler(j)
                                 /\ a = Task(j) => AfterFail(a) \in TaskPC
                                 /\ a = Output(j) => AfterFail(a) \in OutputPC
                                 /\ \A x \in Callers : a # Canceller(x, j)
      BY ActorFacts DEF AfterFail, TaskPC, OutputPC, Finishing
    <3> QED
      BY <2>1, <2>3, <3>1, <1>1, GotoTyped
  <2> QED
    BY <2>2, <2>3 DEF Fail, Goto
<1> QED
  BY <1>3, <1>4 DEF PCTyped, TypeOK, Fail, sessionVars, invocationVars, callerVars

\* A step of a handler keeps the types.
LEMMA HandlerTyped ==
    ASSUME TypeOK, NEW i \in Invocations,
           BeginRequest(i) \/ AbortHandler(i) \/ HandlerStep(i)
    PROVE  TypeOK'
<1>0. PCTyped
  BY DEF TypeOK, PCTyped
<1>1. RequestId[i] \in Ids /\ Handler(i) \in Actors /\ Task(i) \in Actors
  BY InstanceAssumption, ActorFacts
<1>2. CASE BeginRequest(i)
  <2>1. PICK to \in HandlerPC : pc' = [pc EXCEPT ![Handler(i)] = to]
    BY <1>2 DEF BeginRequest, Goto, HandlerPC
  <2>2. PCTyped'
    BY <1>0, <2>1, HandlerGoto
  <2> QED
    BY <1>1, <1>2, <2>2 DEF PCTyped, BeginRequest, DropUnheld, TypeOK, sessionVars, invocationVars, outputVars, callerVars
<1>3. CASE AbortHandler(i)
  <2>1. PICK to \in HandlerPC : pc' = [pc EXCEPT ![Handler(i)] = to]
    BY <1>3 DEF AbortHandler, Goto, HandlerPC
  <2>2. PCTyped'
    BY <1>0, <2>1, HandlerGoto
  <2> QED
    BY <1>1, <1>3, <2>2 DEF PCTyped, AbortHandler, DropUnheld, TypeOK, sessionVars, invocationVars, outputVars, callerVars
<1>4. CASE Refuse(i)
  <2>1. PICK to \in HandlerPC : pc' = [pc EXCEPT ![Handler(i)] = to]
    BY <1>4 DEF Refuse, Goto, HandlerPC
  <2>2. PCTyped'
    BY <1>0, <2>1, HandlerGoto
  <2> QED
    BY <1>1, <1>4, <2>2 DEF PCTyped, Refuse, DropUnheld, TypeOK, sessionVars, invocationVars, outputVars, callerVars
<1>5. CASE AddInvocation(i)
  <2>1. PICK to \in HandlerPC : pc' = [pc EXCEPT ![Handler(i)] = to]
    BY <1>5 DEF AddInvocation, Goto, HandlerPC
  <2>2. PCTyped'
    BY <1>0, <2>1, HandlerGoto
  <2> QED
    BY <1>1, <1>5, <2>2 DEF PCTyped, AddInvocation, DropUnheld, TypeOK, sessionVars, invocationVars, outputVars, callerVars
<1>6. CASE AbortSilent(i)
  <2>1. PICK to \in HandlerPC : pc' = [pc EXCEPT ![Handler(i)] = to]
    BY <1>6 DEF AbortSilent, Goto, HandlerPC
  <2>2. PCTyped'
    BY <1>0, <2>1, HandlerGoto
  <2> QED
    BY <1>1, <1>6, <2>2 DEF PCTyped, AbortSilent, DropUnheld, TypeOK, sessionVars, invocationVars, outputVars, callerVars
<1>7. CASE SilentDone(i)
  <2>1. PICK to \in HandlerPC : pc' = [pc EXCEPT ![Handler(i)] = to]
    BY <1>7 DEF SilentDone, Goto, HandlerPC
  <2>2. PCTyped'
    BY <1>0, <2>1, HandlerGoto
  <2> QED
    BY <1>1, <1>7, <2>2 DEF PCTyped, SilentDone, DropUnheld, TypeOK, sessionVars, invocationVars, outputVars, callerVars
<1>8. CASE Fault(i)
  <2>1. PICK to \in HandlerPC : pc' = [pc EXCEPT ![Handler(i)] = to]
    BY <1>8 DEF Fault, Goto, HandlerPC
  <2>2. PCTyped'
    BY <1>0, <2>1, HandlerGoto
  <2> QED
    BY <1>1, <1>8, <2>2 DEF PCTyped, Fault, DropUnheld, TypeOK, sessionVars, invocationVars, outputVars, callerVars
<1>9. CASE SpawnTask(i) \/ StartTask(i)
  <2>1. \E to \in HandlerPC, go \in TaskPC :
          pc' = [pc EXCEPT ![Handler(i)] = to, ![Task(i)] = go]
    BY <1>0, <1>1, <1>9 DEF SpawnTask, StartTask, PCTyped, HandlerPC, TaskPC, Finishing
  <2>2. PCTyped'
    BY <1>0, <1>1, <2>1, ActorFacts DEF PCTyped
  <2>3. CASE SpawnTask(i)
    BY <2>2, <2>3
    DEF PCTyped, SpawnTask, TypeOK, sessionVars, invocationVars, outputVars, callerVars
  <2>4. CASE StartTask(i)
    BY <2>2, <2>4
    DEF PCTyped, StartTask, DropUnheld, TypeOK, sessionVars, outputVars, callerVars
  <2> QED
    BY <1>9, <2>3, <2>4
<1>10. CASE FinishInvocation(Handler(i))
  BY <1>10, FinishTyped, ActorFacts
<1> QED
  BY <1>2, <1>3, <1>4, <1>5, <1>6, <1>7, <1>8, <1>9, <1>10 DEF HandlerStep

\* A step of an invocation's task, its guest or its output task keeps the types.
LEMMA TaskTyped ==
    ASSUME TypeOK, NEW i \in Invocations,
           TaskStep(i) \/ GuestStep(i) \/ OutputStep(i) \/ Abandon(i) \/ Die(i)
    PROVE  TypeOK'
<1>0. PCTyped
  BY DEF TypeOK, PCTyped
<1>1. CASE \E kind \in GuestKinds : GuestEvent(i, kind)
  <2>1. PICK kind \in GuestKinds : GuestEvent(i, kind)
    BY <1>1
  <2>2. NextEvent(i, kind) \in Events
    BY NextEventTyped DEF GuestKinds, Kinds, WellFormedKinds, TerminalKinds, Failures
  <2>3. PICK to \in TaskPC : pc' = [pc EXCEPT ![Task(i)] = to]
    BY <2>1 DEF GuestEvent, Goto, TaskPC
  <2>4. PCTyped'
    BY <1>0, <2>3, TaskGoto
  <2> QED
    BY <2>1, <2>2, <2>4 DEF PCTyped, GuestEvent, TypeOK, sessionVars, invocationVars, outputVars, callerVars
<1>2. CASE GuestViolation(i) \/ GuestEnds(i) \/ Abandon(i) \/ Die(i)
  <2>1. PICK to \in TaskPC : pc' = [pc EXCEPT ![Task(i)] = to]
    BY <1>2 DEF GuestViolation, GuestEnds, Abandon, Die, Goto, TaskPC, Finishing
  <2>2. PCTyped'
    BY <1>0, <2>1, TaskGoto
  <2>3. NoEvent \in Events
    BY DEF NoEvent, Events, Kinds
  <2>4. CASE GuestViolation(i) \/ Die(i)
    <3>1. /\ pending' \in [Invocations -> Events]
          /\ UNCHANGED <<sessionVars, invocationVars, outputVars, connected, callerVars, registered>>
      BY <2>3, <2>4 DEF GuestViolation, Die, TypeOK
    <3> QED
      BY <2>2, <3>1 DEF PCTyped, TypeOK, sessionVars, invocationVars, outputVars, callerVars
  <2>5. CASE GuestEnds(i)
    BY <2>2, <2>5
    DEF PCTyped, GuestEnds, TypeOK, sessionVars, invocationVars, outputVars, callerVars
  <2>6. CASE Abandon(i)
    BY <2>2, <2>3, <2>6
    DEF PCTyped, Abandon, TypeOK, sessionVars, invocationVars, outputVars, callerVars
  <2> QED
    BY <1>2, <2>4, <2>5, <2>6
<1>3. CASE TaskSend(i)
  <2>1. PICK to \in TaskPC : pc' = [pc EXCEPT ![Task(i)] = to]
    BY <1>3 DEF TaskSend, Goto, TaskPC, Finishing
  <2>2. PCTyped'
    BY <1>0, <2>1, TaskGoto
  <2>3. NoEvent \in Events /\ pending[i] \in Events
    BY DEF NoEvent, Events, Kinds, TypeOK
  <2>4. SendOk(i, pending[i]) \/ SendErr(i)
    BY <1>3 DEF TaskSend
  <2> QED
    BY <1>3, <2>2, <2>3, <2>4, SendTyped
    DEF PCTyped, TaskSend, TypeOK, sessionVars, invocationVars, callerVars
<1>4. CASE Fail(Task(i), "Internal") \/ Fail(Output(i), "Cancelled")
  BY <1>4, FailTyped
<1>5. CASE FinishInvocation(Task(i))
  BY <1>5, FinishTyped, ActorFacts
<1> QED
  BY <1>1, <1>2, <1>3, <1>4, <1>5 DEF TaskStep, GuestStep, OutputStep

\* A step of a canceller keeps the types.
LEMMA CancellerTyped ==
    ASSUME TypeOK, NEW x \in Callers, NEW i \in Invocations, CancellerStep(x, i)
    PROVE  TypeOK'
<1>0. PCTyped /\ Canceller(x, i) \in Cancellers
  BY ActorFacts DEF TypeOK, PCTyped
<1>1. CASE EnterGate(x, i) \/ Reap(x, i)
  <2>1. PICK to \in CancellerPC : pc' = [pc EXCEPT ![Canceller(x, i)] = to]
    BY <1>1 DEF EnterGate, Reap, Goto, CancellerPC, Finishing
  <2>2. PCTyped'
    BY <1>0, <2>1, CancellerGoto
  <2>3. CASE EnterGate(x, i)
    <3>1. aborted' \in [Invocations -> BOOLEAN]
      BY <2>3 DEF EnterGate, TypeOK
    <3>2. handle' \in [Invocations -> BOOLEAN]
      BY <2>3 DEF EnterGate, TypeOK
    <3> QED
      BY <2>2, <2>3, <3>1, <3>2
      DEF PCTyped, EnterGate, TypeOK, sessionVars, outputVars, callerVars
  <2>4. CASE Reap(x, i)
    BY <1>0, <2>2, <2>4
    DEF PCTyped, Reap, TypeOK, sessionVars, invocationVars, outputVars, callerVars
  <2> QED
    BY <1>1, <2>3, <2>4
<1>2. CASE Join(x, i)
  <2>2. PCTyped'
    <3>1. CASE pc' = [pc EXCEPT ![Canceller(x, i)] = "request"]
      <4>1. "request" \in CancellerPC
        BY DEF CancellerPC, Finishing
      <4> QED
        BY <1>0, <3>1, <4>1, CancellerGoto
    <3>2. CASE pc' = [pc EXCEPT ![Canceller(x, i)] = "request", ![Output(i)] = "fail"]
      BY <1>0, <3>2, ActorFacts DEF PCTyped, CancellerPC, OutputPC, Finishing
    <3> QED
      BY <1>2, <3>1, <3>2 DEF Join, Goto
  <2> QED
    BY <1>0, <1>2, <2>2 DEF PCTyped, Join, TypeOK, sessionVars, invocationVars, outputVars, callerVars
<1>3. CASE FinishInvocation(Canceller(x, i))
  BY <1>3, FinishTyped, ActorFacts
<1> QED
  BY <1>1, <1>2, <1>3 DEF CancellerStep

\* A step of a caller, or of a client that starts one, keeps the types.
LEMMA CallerTyped ==
    ASSUME TypeOK, CallerReady, NEW x \in Callers,
           \/ CallerStep(x) \/ BeginClose(x) \/ Close(x) \/ AbortCaller(x)
           \/ \E d \in Ids : BeginCancel(x, d)
    PROVE  TypeOK'
<1>0. PCTyped
  BY DEF TypeOK, PCTyped
<1>1. CASE \E d \in Ids : BeginCancel(x, d)
  BY <1>1 DEF BeginCancel, TypeOK, sessionVars, invocationVars, outputVars, callerVars
<1>2. CASE BeginClose(x) \/ Close(x) \/ AbortCaller(x) \/ OwnerReturns(x)
  BY <1>2 DEF BeginClose, Close, AbortCaller, OwnerReturns, TypeOK, sessionVars, invocationVars, outputVars, callerVars
<1>3. CASE AskHistory(x) \/ CloseAnswered(x)
  BY <1>3 DEF AskHistory, CloseAnswered, Reply, TypeOK, sessionVars, invocationVars, outputVars, callerVars
<1>4. CASE \E i \in Invocations : CancelAnswered(x, i)
  BY <1>4, ActorFacts DEF CancelAnswered, Reply, TypeOK, sessionVars, invocationVars, outputVars, callerVars
<1>5. CASE Lookup(x)
  <2>1. target[x] \in Ids
    BY <1>5 DEF Lookup, CallerReady
  <2>2. invocations[target[x]] \in Invocations \cup {None}
    BY <2>1 DEF TypeOK
  <2>3. PCTyped'
    <3>1. CASE pc' = pc
      BY <1>0, <3>1 DEF PCTyped
    <3>2. CASE /\ invocations[target[x]] # None
               /\ pc' = [pc EXCEPT ![Canceller(x, invocations[target[x]])] = "gate"]
      BY <1>0, <2>2, <3>2, CancellerGoto DEF CancellerPC
    <3> QED
      BY <1>5, <3>1, <3>2 DEF Lookup, Goto
  <2> QED
    BY <1>5, <2>3 DEF PCTyped, Lookup, TypeOK, sessionVars, invocationVars, outputVars, callerVars
<1>6. CASE Sweep(x)
  <2>1. pc' \in [Actors -> HandlerPC \cup TaskPC \cup CancellerPC \cup OutputPC]
    BY <1>6 DEF Sweep, TypeOK, CancellerPC
  <2>2. \A a \in Actors : pc'[a] = pc[a] \/ (a \in Cancellers /\ pc'[a] = "gate")
    BY <1>6 DEF Sweep
  <2>3. PCTyped'
    BY <1>0, <2>1, <2>2, ActorFacts DEF PCTyped, CancellerPC
  <2> QED
    BY <1>6, <2>3 DEF PCTyped, Sweep, TypeOK, sessionVars, invocationVars, outputVars, callerVars
<1> QED
  BY <1>1, <1>2, <1>3, <1>4, <1>5, <1>6 DEF CallerStep

\* Every step keeps the types.
LEMMA TypeStep ==
    ASSUME TypeOK, CallerReady, [Next]_vars
    PROVE  TypeOK'
<1>1. CASE Disconnect
  BY <1>1 DEF Disconnect, TypeOK, sessionVars, invocationVars, outputVars, callerVars
<1>2. CASE UNCHANGED vars
  BY <1>2 DEF vars, TypeOK, sessionVars, invocationVars, outputVars, callerVars
<1>3. CASE \E i \in Invocations : BeginRequest(i) \/ AbortHandler(i) \/ HandlerStep(i)
  BY <1>3, HandlerTyped
<1>4. CASE \E i \in Invocations : TaskStep(i) \/ GuestStep(i) \/ OutputStep(i) \/ Abandon(i) \/ Die(i)
  BY <1>4, TaskTyped
<1>5. CASE \E i \in Invocations, x \in Callers : CancellerStep(x, i)
  BY <1>5, CancellerTyped
<1>6. CASE \E x \in Callers : \/ CallerStep(x) \/ BeginClose(x) \/ Close(x) \/ AbortCaller(x)
                              \/ \E d \in Ids : BeginCancel(x, d)
  BY <1>6, CallerTyped
<1> QED
  BY <1>1, <1>2, <1>3, <1>4, <1>5, <1>6 DEF Next, ClientStep

-----------------------------------------------------------------------------
\* Every output's validator summarises what that output has sent.
Summaries == \A i \in Invocations : Summarises(ModeOf[i], sequence[i], sent[i])

\* A send that succeeds keeps the summary, by AcceptPreserves.
LEMMA SendSummarised ==
    ASSUME TypeOK, Summaries, NEW i \in Invocations, NEW e \in Events, SendOk(i, e)
    PROVE  Summaries'
<1>1. Summarises(ModeOf[i], Accept(sequence[i], e), Append(sent[i], e))
  BY AcceptPreserves DEF Summaries, SendOk
<1>2. \A j \in Invocations : /\ sequence'[j] = IF j = i THEN Accept(sequence[i], e) ELSE sequence[j]
                             /\ sent'[j] = IF j = i THEN Append(sent[i], e) ELSE sent[j]
  BY DEF SendOk, TypeOK
<1> QED
  BY <1>1, <1>2 DEF Summaries

\* Only a successful send changes a stream or its validator.
LEMMA SummariesStep ==
    ASSUME TypeOK, Summaries, [Next]_vars
    PROVE  Summaries'
<1>1. CASE UNCHANGED <<sequence, sent>>
  BY <1>1 DEF Summaries
<1>2. ASSUME NEW i \in Invocations, NEW a \in {Task(i), Output(i)},
             NEW kind \in {"Internal", "Cancelled"}, Fail(a, kind)
      PROVE  Summaries'
  <2>1. FailEvent(i, kind) \in Events /\ Subject(a) = i
    BY NextEventTyped, ActorFacts
    DEF FailEvent, Kinds, WellFormedKinds, TerminalKinds, Failures
  <2>2. \/ UNCHANGED <<sequence, sent>>
        \/ SendOk(i, FailEvent(i, kind))
    BY <1>2, <2>1 DEF Fail, SendErr, outputVars
  <2> QED
    BY <1>1, <2>1, <2>2, SendSummarised
<1>3. ASSUME NEW i \in Invocations, TaskSend(i)
      PROVE  Summaries'
  <2>1. pending[i] \in Events
    BY DEF TypeOK
  <2>2. \/ UNCHANGED <<sequence, sent>>
        \/ SendOk(i, pending[i])
    BY <1>3 DEF TaskSend, SendErr
  <2> QED
    BY <1>1, <2>1, <2>2, SendSummarised
<1>4. ASSUME NEW a, FinishInvocation(a)
      PROVE  Summaries'
  BY <1>1, <1>4
  DEF FinishInvocation, FinishRequest, RecordCompletion, RemoveEntry, Uncount, outputVars
<1>5. ASSUME NEW i \in Invocations,
             BeginRequest(i) \/ AbortHandler(i) \/ HandlerStep(i) \/ TaskStep(i)
             \/ GuestStep(i) \/ OutputStep(i) \/ Abandon(i) \/ Die(i)
      PROVE  Summaries'
  BY <1>1, <1>2, <1>3, <1>4, <1>5
  DEF BeginRequest, AbortHandler, HandlerStep, Refuse, SpawnTask, AddInvocation, AbortSilent,
      SilentDone, StartTask, Fault, TaskStep, GuestStep, GuestEvent, GuestViolation, GuestEnds,
      OutputStep, Abandon, Die, outputVars
<1>6. ASSUME NEW x \in Callers, NEW i \in Invocations, CancellerStep(x, i)
      PROVE  Summaries'
  BY <1>1, <1>4, <1>6 DEF CancellerStep, EnterGate, Reap, Join, outputVars
<1>7. ASSUME NEW x \in Callers,
             \/ CallerStep(x) \/ BeginClose(x) \/ Close(x) \/ AbortCaller(x)
             \/ \E d \in Ids : BeginCancel(x, d)
      PROVE  Summaries'
  BY <1>1, <1>7
  DEF CallerStep, Lookup, AskHistory, Sweep, CloseAnswered, OwnerReturns, CancelAnswered,
      BeginClose, Close, AbortCaller, BeginCancel, outputVars
<1>8. CASE Disconnect \/ UNCHANGED vars
  BY <1>1, <1>8 DEF Disconnect, vars, outputVars
<1> QED
  BY <1>5, <1>6, <1>7, <1>8 DEF Next, ClientStep

-----------------------------------------------------------------------------
\* What a Goto does to every control state.
LEMMA GotoMoves ==
    ASSUME TypeOK, NEW a \in Actors, NEW to, Goto(a, to)
    PROVE  \A b \in Actors : pc'[b] = IF b = a THEN to ELSE pc[b]
BY DEF TypeOK, Goto

\* finish_invocation touches neither outputs nor cancellation state, and its
\* actor stays inside it or leaves it.
LEMMA FinishLifecycle ==
    ASSUME TypeOK, Lifecycle, NEW a \in Finishers, FinishInvocation(a)
    PROVE  Lifecycle'
<1>1. a \in Actors
  BY DEF Actors
<1>2. /\ pc[a] \in Finishing
      /\ \E to \in Finishing \cup {AfterFinish(a)} : Goto(a, to)
      /\ UNCHANGED <<cancelling, outputVars, pending, callerVars>>
  BY DEF FinishInvocation, FinishRequest, RecordCompletion, RemoveEntry, Uncount, Finishing,
         invocationVars
<1>3. PICK to \in Finishing \cup {AfterFinish(a)} : Goto(a, to)
  BY <1>2
<1>4. \A b \in Actors : pc'[b] = IF b = a THEN to ELSE pc[b]
  BY <1>1, <1>3, GotoMoves
<1>5. to \in Finishing \cup {"fault", "done"} /\ (a \in Handlers \/ to # "fault")
      /\ (a \notin Handlers \/ to # "done")
  BY <1>3 DEF AfterFinish, Finishing
<1> USE <1>1, <1>2, <1>4, <1>5, ActorFacts, OutputsDoNotFinish
<1>6. SpawnedOnce'
  BY DEF Lifecycle, SpawnedOnce, Finishing
<1>7. Undecided'
  BY DEF Lifecycle, Undecided, Running, Finishing, outputVars
<1>8. CancelledIsOver'
  BY DEF Lifecycle, CancelledIsOver, Over, Finishing
<1>9. Gate'
  BY DEF Lifecycle, Gate, Finishing, outputVars
<1>10. Reported'
  BY DEF Lifecycle, Reported, Finishing, outputVars, callerVars
<1>11. PendingValid'
  BY DEF Lifecycle, PendingValid, Finishing, outputVars
<1>12. CallerReady'
  BY DEF Lifecycle, CallerReady, Finishing, callerVars
<1> QED
  BY <1>6, <1>7, <1>8, <1>9, <1>10, <1>11, <1>12 DEF Lifecycle

\* A handler's own steps: it spawns the task only from "begun" and starts it
\* only while the task waits.
LEMMA HandlerLifecycle ==
    ASSUME TypeOK, Lifecycle, NEW i \in Invocations,
           BeginRequest(i) \/ AbortHandler(i) \/ HandlerStep(i)
    PROVE  Lifecycle'
<1>1. CASE FinishInvocation(Handler(i))
  BY <1>1, FinishLifecycle, ActorFacts
<1>2. CASE ~FinishInvocation(Handler(i))
  <2> DEFINE Moved ==
        /\ \A b \in Actors \ {Handler(i), Task(i)} : pc'[b] = pc[b]
        /\ pc'[Handler(i)] # "idle"
        /\ pc'[Handler(i)] = "begun" => pc[Handler(i)] = "idle"
        /\ \/ pc'[Task(i)] = pc[Task(i)]
           \/ pc[Handler(i)] = "begun" /\ pc'[Handler(i)] = "acquired" /\ pc'[Task(i)] = "ready"
           \/ pc[Task(i)] = "ready" /\ pc'[Task(i)] = "next"
  <2>1. UNCHANGED <<cancelling, outputVars, pending, callerVars>>
    BY <1>2
    DEF BeginRequest, AbortHandler, HandlerStep, Refuse, SpawnTask, AddInvocation, AbortSilent,
        SilentDone, StartTask, Fault, invocationVars
  <2>2. Moved
    <3>1. CASE BeginRequest(i) \/ AbortHandler(i) \/ Refuse(i) \/ AddInvocation(i)
               \/ AbortSilent(i) \/ SilentDone(i) \/ Fault(i)
      <4>1. PICK to \in HandlerPC \ {"idle"} :
              Goto(Handler(i), to) /\ (to = "begun" => pc[Handler(i)] = "idle")
        BY <3>1
        DEF BeginRequest, AbortHandler, Refuse, AddInvocation, AbortSilent, SilentDone, Fault,
            HandlerPC
      <4>2. \A b \in Actors : pc'[b] = IF b = Handler(i) THEN to ELSE pc[b]
        BY <4>1, GotoMoves, ActorFacts
      <4> QED
        BY <4>1, <4>2, ActorFacts
    <3>2. CASE SpawnTask(i)
      BY <3>2, ActorFacts DEF SpawnTask, TypeOK
    <3>3. CASE StartTask(i)
      BY <3>3, ActorFacts DEF StartTask, TypeOK
    <3> QED
      BY <1>2, <3>1, <3>2, <3>3 DEF HandlerStep
  <2> USE <2>1, <2>2, ActorFacts
  <2>3. SpawnedOnce'
    BY DEF Lifecycle, SpawnedOnce
  <2>4. Undecided'
    BY DEF Lifecycle, SpawnedOnce, Undecided, Running, outputVars
  <2>5. CancelledIsOver'
    BY DEF Lifecycle, SpawnedOnce, CancelledIsOver, Over
  <2>6. Gate'
    BY DEF Lifecycle, Gate, outputVars
  <2>7. Reported'
    BY DEF Lifecycle, Reported, outputVars, callerVars
  <2>8. PendingValid'
    BY DEF Lifecycle, PendingValid, outputVars
  <2>9. CallerReady'
    BY DEF Lifecycle, CallerReady, callerVars
  <2> QED
    BY <2>3, <2>4, <2>5, <2>6, <2>7, <2>8, <2>9 DEF Lifecycle
<1> QED
  BY <1>1, <1>2

\* A step of a live task that leaves cancellation state alone disturbs only what
\* is said about its own output.
LEMMA TaskMoves ==
    ASSUME TypeOK, Lifecycle, NEW i \in Invocations, NEW to,
           pc[Task(i)] \notin {"unborn", "done", "dead"}, to # "unborn",
           \A b \in Actors : pc'[b] = IF b = Task(i) THEN to ELSE pc[b],
           UNCHANGED <<cancelling, callerVars>>,
           \A j \in Invocations : finished[j] => finished'[j],
           \A j \in Invocations : j # i => sent'[j] = sent[j]
    PROVE  SpawnedOnce' /\ CancelledIsOver' /\ Gate' /\ Reported' /\ CallerReady'
<1>1. ~Over(i) /\ ~cancelling[i]
  BY DEF Over, Lifecycle, CancelledIsOver
<1>2. SpawnedOnce'
  BY ActorFacts DEF Lifecycle, SpawnedOnce
<1>3. CancelledIsOver'
  BY <1>1, ActorFacts DEF Lifecycle, CancelledIsOver, Over
<1>4. Gate'
  BY ActorFacts DEF Lifecycle, Gate
<1>5. Reported'
  BY <1>1, ActorFacts DEF Lifecycle, Reported, callerVars
<1>6. CallerReady'
  BY ActorFacts DEF Lifecycle, CallerReady, callerVars
<1> QED
  BY <1>2, <1>3, <1>4, <1>5, <1>6

\* The steps of the guest, and the death of an aborted task: nothing is sent.
LEMMA GuestLifecycle ==
    ASSUME TypeOK, Lifecycle, NEW i \in Invocations, GuestStep(i) \/ Die(i)
    PROVE  Lifecycle'
<1>1. /\ pc[Task(i)] \in Suspended
      /\ UNCHANGED <<cancelling, outputVars, callerVars>>
      /\ \E to \in {"confirm", "send", "fail", "dead"} : Goto(Task(i), to)
  BY DEF GuestStep, GuestEvent, GuestViolation, GuestEnds, Die, Suspended, invocationVars
<1>2. PICK to \in {"confirm", "send", "fail", "dead"} : Goto(Task(i), to)
  BY <1>1
<1>3. \A b \in Actors : pc'[b] = IF b = Task(i) THEN to ELSE pc[b]
  BY <1>2, GotoMoves, ActorFacts
<1>4. SpawnedOnce' /\ CancelledIsOver' /\ Gate' /\ Reported' /\ CallerReady'
  BY <1>1, <1>3, TaskMoves DEF Suspended, outputVars
<1>5. to \in Running => pc[Task(i)] \in Running
  <2>1. pc'[Task(i)] = to
    BY <1>3, ActorFacts
  <2>2. CASE GuestViolation(i) \/ Die(i)
    <3>1. pc'[Task(i)] \in {"fail", "dead"}
      BY <2>2, ActorFacts DEF GuestViolation, Die, Goto, TypeOK
    <3> QED
      BY <2>1, <3>1 DEF Running
  <2>3. CASE GuestEnds(i) \/ \E kind \in GuestKinds : GuestEvent(i, kind)
    BY <2>3 DEF GuestEnds, GuestEvent, Running
  <2> QED
    BY <2>2, <2>3 DEF GuestStep
<1>6. Undecided'
  BY <1>1, <1>3, <1>5, ActorFacts DEF Lifecycle, Undecided, outputVars
<1>7. PendingValid'
  <2>1. CASE \E kind \in GuestKinds : GuestEvent(i, kind)
    BY <2>1, <1>1, <1>3, ActorFacts
    DEF GuestEvent, Lifecycle, PendingValid, outputVars, TypeOK
  <2>2. CASE GuestEnds(i)
    BY <2>2, <1>1, <1>3, ActorFacts DEF GuestEnds, Lifecycle, PendingValid, outputVars
  <2>3. CASE GuestViolation(i) \/ Die(i)
    <3>1. pc'[Task(i)] \in {"fail", "dead"}
      BY <2>3, ActorFacts DEF GuestViolation, Die, Goto, TypeOK
    <3> QED
      BY <2>3, <3>1, <1>1, <1>3, ActorFacts
      DEF GuestViolation, Die, Lifecycle, PendingValid, outputVars, TypeOK
  <2> QED
    BY <2>1, <2>2, <2>3 DEF GuestStep
<1> QED
  BY <1>4, <1>6, <1>7 DEF Lifecycle

\* abandon() decides the output and the task goes on to finish.
LEMMA AbandonLifecycle ==
    ASSUME TypeOK, Lifecycle, NEW i \in Invocations, Abandon(i)
    PROVE  Lifecycle'
<1>1. \A b \in Actors : pc'[b] = IF b = Task(i) THEN "request" ELSE pc[b]
  BY GotoMoves, ActorFacts DEF Abandon
<1>2. \A j \in Invocations : /\ finished'[j] = IF j = i THEN TRUE ELSE finished[j]
                             /\ outClosed'[j] = IF j = i THEN TRUE ELSE outClosed[j]
                             /\ j # i => pending'[j] = pending[j]
  BY DEF Abandon, TypeOK
<1>3. UNCHANGED <<cancelling, sequence, sent, callerVars>>
  BY DEF Abandon, invocationVars
<1>4. pc[Task(i)] \notin {"unborn", "done", "dead"}
  BY DEF Abandon
<1>5. SpawnedOnce' /\ CancelledIsOver' /\ Gate' /\ Reported' /\ CallerReady'
  BY <1>1, <1>2, <1>3, <1>4, TaskMoves
<1>6. Undecided'
  BY <1>1, <1>2, <1>3, ActorFacts DEF Lifecycle, Undecided, Running
<1>7. PendingValid'
  BY <1>1, <1>2, <1>3, ActorFacts DEF Lifecycle, PendingValid
<1> QED
  BY <1>5, <1>6, <1>7 DEF Lifecycle

\* What a send changes, pointwise.
LEMMA SendEffect ==
    ASSUME TypeOK, Lifecycle, NEW i \in Invocations, NEW e \in Events,
           SendOk(i, e) \/ SendErr(i)
    PROVE  /\ \A j \in Invocations : /\ finished[j] => finished'[j]
                                     /\ outClosed'[j] => finished'[j]
                                     /\ sequence'[j].state = "Terminal" => finished'[j]
                                     /\ j # i => /\ sent'[j] = sent[j]
                                                 /\ finished'[j] = finished[j]
                                                 /\ sequence'[j] = sequence[j]
                                                 /\ outClosed'[j] = outClosed[j]
           /\ SendErr(i) => finished'[i]
           /\ SendOk(i, e) /\ e.kind \notin TerminalKinds => finished'[i] = finished[i]
<1>1. CASE SendErr(i)
  <2>1. ~SendOk(i, e)
    BY <1>1 DEF SendErr, SendOk, TypeOK
  <2> QED
    BY <1>1, <2>1 DEF SendErr, TypeOK, Lifecycle, Undecided
<1>2. CASE SendOk(i, e)
  <2>1. sequence'[i] = Accept(sequence[i], e)
    BY <1>2 DEF SendOk, TypeOK
  <2>2. finished'[i] = (finished[i] \/ IsTerminal(sequence'[i]))
    BY <1>2 DEF SendOk, TypeOK
  <2>3. ~SendErr(i)
    BY <1>2 DEF SendErr, SendOk, TypeOK
  <2>4. e.kind \notin TerminalKinds => ~IsTerminal(sequence'[i])
    BY <1>2, <2>1 DEF SendOk, Accepts, KindAllowed, Accept, IsTerminal, TerminalKinds, Failures
  <2>5. \A j \in Invocations : j # i => /\ sent'[j] = sent[j]
                                        /\ finished'[j] = finished[j]
                                        /\ sequence'[j] = sequence[j]
    BY <1>2 DEF SendOk, TypeOK
  <2>6. outClosed' = outClosed /\ ~outClosed[i]
    BY <1>2 DEF SendOk
  <2>7. \A j \in Invocations : finished[j] \in BOOLEAN
    BY DEF TypeOK
  <2> QED
    BY <2>2, <2>3, <2>4, <2>5, <2>6, <2>7 DEF IsTerminal, Lifecycle, Undecided
<1> QED
  BY <1>1, <1>2

\* The driver sends the event it validated: a terminal event or a delivery error
\* ends the loop, anything else leaves the outcome undecided.
LEMMA TaskSendLifecycle ==
    ASSUME TypeOK, Lifecycle, NEW i \in Invocations, TaskSend(i)
    PROVE  Lifecycle'
<1> DEFINE e == pending[i]
<1>1. e \in Events /\ (SendOk(i, e) \/ SendErr(i))
  BY DEF TypeOK, TaskSend
<1>2. PICK to \in {"request", "next"} :
        /\ Goto(Task(i), to)
        /\ to = "next" => SendOk(i, e) /\ e.kind \notin TerminalKinds
  BY DEF TaskSend
<1>3. \A b \in Actors : pc'[b] = IF b = Task(i) THEN to ELSE pc[b]
  BY <1>2, GotoMoves, ActorFacts
<1>4. /\ pc[Task(i)] = "send"
      /\ UNCHANGED <<cancelling, callerVars>>
      /\ \A j \in Invocations : j # i => pending'[j] = pending[j]
  BY DEF TaskSend, invocationVars, TypeOK
<1>5. SpawnedOnce' /\ CancelledIsOver' /\ Gate' /\ Reported' /\ CallerReady'
  BY <1>1, <1>3, <1>4, SendEffect, TaskMoves
<1>6. Undecided'
  <2>1. ~finished[i]
    BY <1>4 DEF Lifecycle, Undecided, Running
  <2>2. to = "next" => finished'[i] = finished[i]
    BY <1>1, <1>2, SendEffect
  <2> QED
    BY <1>1, <1>2, <1>3, <2>1, <2>2, SendEffect, ActorFacts DEF Lifecycle, Undecided, Running
<1>7. PendingValid'
  BY <1>1, <1>2, <1>3, <1>4, SendEffect, ActorFacts DEF Lifecycle, PendingValid
<1> QED
  BY <1>5, <1>6, <1>7 DEF Lifecycle

\* The driver reports a failure: the task stays in fail() or leaves for finish.
LEMMA TaskFailLifecycle ==
    ASSUME TypeOK, Lifecycle, NEW i \in Invocations, Fail(Task(i), "Internal")
    PROVE  Lifecycle'
<1> DEFINE e == FailEvent(i, "Internal")
<1>1. e \in Events /\ Subject(Task(i)) = i /\ Task(i) \in Tasks
  BY NextEventTyped, ActorFacts DEF FailEvent, Kinds, WellFormedKinds, TerminalKinds, Failures
<1>2. pc[Task(i)] = "fail" /\ UNCHANGED <<cancelling, callerVars, pending>>
  BY DEF Fail, invocationVars
<1>3. PICK to \in {"request", "fail"} :
        \A b \in Actors : pc'[b] = IF b = Task(i) THEN to ELSE pc[b]
  <2>1. CASE UNCHANGED pc
    BY <2>1, <1>2
  <2>2. CASE Goto(Task(i), "request")
    BY <2>2, GotoMoves, ActorFacts
  <2> QED
    BY <2>1, <2>2, <1>1 DEF Fail, AfterFail
<1>4. \A j \in Invocations : /\ finished[j] => finished'[j]
                             /\ outClosed'[j] => finished'[j]
                             /\ sequence'[j].state = "Terminal" => finished'[j]
                             /\ j # i => /\ sent'[j] = sent[j]
                                         /\ finished'[j] = finished[j]
                                         /\ sequence'[j] = sequence[j]
  <2>1. CASE UNCHANGED outputVars
    BY <2>1 DEF outputVars, Lifecycle, Undecided
  <2>2. CASE SendOk(i, e) \/ SendErr(i)
    BY <2>2, <1>1, SendEffect
  <2> QED
    BY <2>1, <2>2, <1>1 DEF Fail
<1>5. SpawnedOnce' /\ CancelledIsOver' /\ Gate' /\ Reported' /\ CallerReady'
  BY <1>2, <1>3, <1>4, TaskMoves
<1>6. Undecided'
  BY <1>3, <1>4, ActorFacts DEF Lifecycle, Undecided, Running
<1>7. PendingValid'
  BY <1>2, <1>3, <1>4, ActorFacts DEF Lifecycle, PendingValid
<1> QED
  BY <1>5, <1>6, <1>7 DEF Lifecycle

\* The output task reports a cancellation: the guest's task is over, and it adds
\* only Started and Cancelled to the stream.
LEMMA OutputLifecycle ==
    ASSUME TypeOK, Lifecycle, NEW i \in Invocations, OutputStep(i)
    PROVE  Lifecycle'
<1> DEFINE e == FailEvent(i, "Cancelled")
<1>1. e \in Events /\ Subject(Output(i)) = i /\ Output(i) \notin Tasks
  BY NextEventTyped, ActorFacts DEF FailEvent, Kinds, WellFormedKinds, TerminalKinds, Failures
<1>2. pc[Output(i)] = "fail" /\ UNCHANGED <<cancelling, callerVars, pending>>
  BY DEF OutputStep, Fail, invocationVars
<1>3. cancelling[i] /\ Over(i)
  BY <1>2 DEF Lifecycle, CancelledIsOver
<1>4. \A b \in Actors : \/ pc'[b] = pc[b]
                        \/ b = Output(i) /\ pc'[b] = "done"
  <2>1. CASE UNCHANGED pc
    BY <2>1
  <2>2. CASE Goto(Output(i), "done")
    BY <2>2, GotoMoves, ActorFacts
  <2> QED
    BY <2>1, <2>2, <1>1 DEF OutputStep, Fail, AfterFail
<1>5. \A j \in Invocations : /\ finished[j] => finished'[j]
                             /\ outClosed'[j] => finished'[j]
                             /\ sequence'[j].state = "Terminal" => finished'[j]
                             /\ j # i => /\ sent'[j] = sent[j]
                                         /\ finished'[j] = finished[j]
                                         /\ sequence'[j] = sequence[j]
  <2>1. CASE UNCHANGED outputVars
    BY <2>1 DEF outputVars, Lifecycle, Undecided
  <2>2. CASE SendOk(i, e) \/ SendErr(i)
    BY <2>2, <1>1, SendEffect
  <2> QED
    BY <2>1, <2>2, <1>1 DEF OutputStep, Fail
<1>6. \A k \in DOMAIN sent'[i] : sent'[i][k].kind \notin {"Complete", "Failure", "Internal"}
  <2>1. \A k \in DOMAIN sent[i] : sent[i][k].kind \notin {"Complete", "Failure", "Internal"}
    BY <1>3 DEF Lifecycle, Reported
  <2>2. CASE UNCHANGED sent
    BY <2>1, <2>2
  <2>3. CASE SendOk(i, e)
    <3>1. sent'[i] = Append(sent[i], e) /\ sent[i] \in Seq(Events)
      BY <2>3 DEF SendOk, TypeOK
    <3>2. e.kind \in {"Started", "Cancelled"}
      BY DEF FailEvent, NextEvent
    <3> QED
      BY <1>1, <2>1, <3>1, <3>2, AppendFacts
  <2> QED
    BY <2>2, <2>3, <1>1 DEF OutputStep, Fail, SendErr, outputVars
<1>7. SpawnedOnce'
  BY <1>4, ActorFacts DEF Lifecycle, SpawnedOnce
<1>8. Undecided'
  BY <1>3, <1>4, <1>5, ActorFacts DEF Lifecycle, Undecided, Over, Running
<1>9. CancelledIsOver'
  BY <1>2, <1>3, <1>4, ActorFacts DEF Lifecycle, CancelledIsOver, Over
<1>10. Gate'
  BY <1>2, <1>4, <1>5, ActorFacts DEF Lifecycle, Gate
<1>11. Reported'
  BY <1>2, <1>4, <1>5, <1>6, ActorFacts DEF Lifecycle, Reported, callerVars
<1>12. PendingValid'
  BY <1>2, <1>3, <1>4, <1>5, ActorFacts DEF Lifecycle, PendingValid, Over
<1>13. CallerReady'
  BY <1>2, <1>4, ActorFacts DEF Lifecycle, CallerReady, callerVars
<1> QED
  BY <1>7, <1>8, <1>9, <1>10, <1>11, <1>12, <1>13 DEF Lifecycle

\* A canceller behind the gate.  It enters alone, and it spawns the output task
\* only when the guest's task is over and has not decided the outcome.
LEMMA CancellerLifecycle ==
    ASSUME TypeOK, Summaries, Lifecycle, NEW x \in Callers, NEW i \in Invocations,
           CancellerStep(x, i)
    PROVE  Lifecycle'
<1> DEFINE c == Canceller(x, i)
<1>0. c \in Actors /\ c \in Cancellers
  BY ActorFacts
<1>1. CASE FinishInvocation(c)
  BY <1>1, FinishLifecycle, ActorFacts
<1>2. CASE EnterGate(x, i)
  <2>1. PICK to \in {"join", "reap"} :
          /\ Goto(c, to)
          /\ to = "reap" => finished[i] \/ cancelling[i]
          /\ to = "join" => ~cancelling[i]
    BY <1>2 DEF EnterGate
  <2>2. \A b \in Actors : pc'[b] = IF b = c THEN to ELSE pc[b]
    BY <1>0, <2>1, GotoMoves
  <2>3. /\ UNCHANGED <<cancelling, outputVars, pending, callerVars>>
        /\ pc[c] = "gate" /\ GateFree(i)
    BY <1>2 DEF EnterGate
  <2> USE <2>1, <2>2, <2>3, ActorFacts
  <2>4. SpawnedOnce'
    BY DEF Lifecycle, SpawnedOnce
  <2>5. Undecided'
    BY DEF Lifecycle, Undecided, outputVars
  <2>6. CancelledIsOver'
    BY DEF Lifecycle, CancelledIsOver, Over
  <2>7. Gate'
    BY DEF Lifecycle, Gate, GateFree, outputVars
  <2>8. Reported'
    BY DEF Lifecycle, Reported, Finishing, outputVars, callerVars
  <2>9. PendingValid'
    BY DEF Lifecycle, PendingValid, outputVars
  <2>10. CallerReady'
    BY DEF Lifecycle, CallerReady, callerVars
  <2> QED
    BY <2>4, <2>5, <2>6, <2>7, <2>8, <2>9, <2>10 DEF Lifecycle
<1>3. CASE Reap(x, i) \/ (Join(x, i) /\ finished[i])
  <2>0. finished[i] \/ cancelling[i]
    BY <1>3 DEF Reap, Join, Lifecycle, Gate
  <2>1. Goto(c, "request") /\ pc[c] \in {"join", "reap"}
    BY <1>3 DEF Reap, Join
  <2>2. \A b \in Actors : pc'[b] = IF b = c THEN "request" ELSE pc[b]
    BY <1>0, <2>1, GotoMoves
  <2>3. UNCHANGED <<cancelling, outputVars, pending, caller, target>>
    BY <1>3 DEF Reap, Join, invocationVars
  <2>4. \A d \in Cancellers : disposition'[d] = IF d = c THEN "AlreadyFinished" ELSE disposition[d]
    BY <1>0, <1>3 DEF Reap, Join, TypeOK
  <2> USE <2>1, <2>2, <2>3, <2>4, ActorFacts
  <2>5. SpawnedOnce'
    BY DEF Lifecycle, SpawnedOnce
  <2>6. Undecided'
    BY DEF Lifecycle, Undecided, outputVars
  <2>7. CancelledIsOver'
    BY DEF Lifecycle, CancelledIsOver, Over
  <2>8. Gate'
    BY DEF Lifecycle, Gate, outputVars
  <2>9. Reported'
    BY <2>0 DEF Lifecycle, Reported, Finishing, outputVars
  <2>10. PendingValid'
    BY DEF Lifecycle, PendingValid, outputVars
  <2>11. CallerReady'
    BY DEF Lifecycle, CallerReady
  <2> QED
    BY <2>5, <2>6, <2>7, <2>8, <2>9, <2>10, <2>11 DEF Lifecycle
<1>4. CASE Join(x, i) /\ ~finished[i]
  <2>1. /\ pc[c] = "join" /\ Over(i) /\ ~cancelling[i]
        /\ UNCHANGED <<outputVars, pending, caller, target>>
    BY <1>4 DEF Join, Lifecycle, Gate
  <2>2. \A b \in Actors : pc'[b] = IF b = c THEN "request" ELSE IF b = Output(i) THEN "fail" ELSE pc[b]
    BY <1>4, <1>0, ActorFacts DEF Join, TypeOK
  <2>3. \A d \in Cancellers : disposition'[d] = IF d = c THEN "Cancelled" ELSE disposition[d]
    BY <1>0, <1>4 DEF Join, TypeOK
  <2>4. \A j \in Invocations : cancelling'[j] = IF j = i THEN TRUE ELSE cancelling[j]
    BY <1>4 DEF Join, TypeOK
  <2>5. \A k \in DOMAIN sent[i] : sent[i][k].kind \notin {"Complete", "Failure", "Internal"}
    BY <1>4 DEF Summaries, Summarises, Lifecycle, Undecided, TerminalKinds, Failures
  <2>6. \A y \in Callers : disposition[Canceller(y, i)] # "Cancelled"
    BY <2>1 DEF Lifecycle, Reported
  <2>7. pc[Task(i)] \in {"done", "dead"}
    BY <2>1 DEF Over
  <2>20. \A j \in Invocations :
          /\ pc'[Handler(j)] = pc[Handler(j)] /\ pc'[Task(j)] = pc[Task(j)]
          /\ j # i => pc'[Output(j)] = pc[Output(j)]
          /\ \A y \in Callers : (y # x \/ j # i) => pc'[Canceller(y, j)] = pc[Canceller(y, j)]
    BY <2>2, ActorFacts
  <2>21. pc'[c] = "request"
    BY <2>2, <1>0
  <2>8. SpawnedOnce'
    BY <2>20 DEF Lifecycle, SpawnedOnce
  <2>9. Undecided'
    BY <2>1, <2>20 DEF Lifecycle, Undecided, outputVars
  <2>10. CancelledIsOver'
    BY <2>4, <2>7, <2>20 DEF Lifecycle, CancelledIsOver, Over
  <2>11. Gate'
    <3>1. ASSUME NEW j \in Invocations, NEW y \in Callers
          PROVE  /\ pc'[Canceller(y, j)] \in {"join", "reap"} =>
                      pc'[Canceller(y, j)] = pc[Canceller(y, j)] /\ (j # i)
      <4>1. CASE j = i /\ y = x
        BY <2>21, <4>1
      <4>2. CASE j = i /\ y # x
        BY <2>1, <2>20, <4>2 DEF Lifecycle, Gate
      <4>3. CASE j # i
        BY <2>20, <4>3
      <4> QED
        BY <4>1, <4>2, <4>3
    <3>2. ASSUME NEW j \in Invocations, j # i, NEW y \in Callers
          PROVE  /\ pc[Canceller(y, j)] \in {"join", "reap"} =>
                      \A z \in Callers : pc[Canceller(z, j)] \in {"join", "reap"} => z = y
                 /\ pc[Canceller(y, j)] = "join" => ~cancelling'[j]
                 /\ pc[Canceller(y, j)] = "reap" => finished'[j] \/ cancelling'[j]
      <4>1. cancelling'[j] = cancelling[j] /\ finished'[j] = finished[j]
        BY <2>1, <2>4, <3>2 DEF outputVars
      <4> QED
        BY <4>1 DEF Lifecycle, Gate
    <3>3. ASSUME NEW j \in Invocations, NEW y \in Callers
          PROVE  /\ pc'[Canceller(y, j)] \in {"join", "reap"} =>
                      \A z \in Callers : pc'[Canceller(z, j)] \in {"join", "reap"} => z = y
                 /\ pc'[Canceller(y, j)] = "join" => ~cancelling'[j]
                 /\ pc'[Canceller(y, j)] = "reap" => finished'[j] \/ cancelling'[j]
      BY <3>1, <3>2
    <3> QED
      BY <3>3 DEF Gate
  <2>12. Reported'
    <3>1. ASSUME NEW j \in Invocations, cancelling'[j]
          PROVE  \A k \in DOMAIN sent'[j] : sent'[j][k].kind \notin {"Complete", "Failure", "Internal"}
      BY <2>1, <2>4, <2>5, <3>1 DEF Lifecycle, Reported, outputVars
    <3>2. ASSUME NEW j \in Invocations, NEW y \in Callers,
                 disposition'[Canceller(y, j)] = "Cancelled"
          PROVE  /\ cancelling'[j]
                 /\ pc'[Canceller(y, j)] \in Finishing \cup {"done"}
                 /\ \A z \in Callers : disposition'[Canceller(z, j)] = "Cancelled" => z = y
      <4>1. CASE j = i
        <5>1. \A z \in Callers : disposition'[Canceller(z, i)] = "Cancelled" => z = x
          BY <2>3, <2>6, ActorFacts
        <5> QED
          <6>1. y = x
            BY <4>1, <5>1, <3>2
          <6>2. cancelling'[i] /\ pc'[Canceller(x, i)] = "request"
            BY <2>4, <2>21
          <6> QED
            BY <4>1, <5>1, <6>1, <6>2 DEF Finishing
      <4>2. CASE j # i
        <5>1. \A z \in Callers : disposition'[Canceller(z, j)] = disposition[Canceller(z, j)]
          BY <2>3, <4>2, ActorFacts
        <5> QED
          <6>1. disposition[Canceller(y, j)] = "Cancelled"
            BY <3>2, <5>1
          <6>2. /\ cancelling[j]
                /\ pc[Canceller(y, j)] \in Finishing \cup {"done"}
                /\ \A z \in Callers : disposition[Canceller(z, j)] = "Cancelled" => z = y
            BY <6>1 DEF Lifecycle, Reported
          <6>3. cancelling'[j] /\ pc'[Canceller(y, j)] = pc[Canceller(y, j)]
            BY <2>4, <2>20, <4>2, <6>2
          <6> QED
            BY <5>1, <6>2, <6>3
      <4> QED
        BY <4>1, <4>2
    <3>3. ASSUME NEW j \in Invocations, NEW y \in Callers,
                 disposition'[Canceller(y, j)] = "AlreadyFinished"
          PROVE  finished'[j] \/ cancelling'[j]
      <4>1. disposition[Canceller(y, j)] = "AlreadyFinished" /\ finished' = finished
        BY <2>1, <2>3, <3>3, ActorFacts DEF outputVars
      <4> QED
        BY <2>4, <4>1 DEF Lifecycle, Reported
    <3> QED
      BY <3>1, <3>2, <3>3 DEF Reported
  <2>13. PendingValid'
    BY <2>1, <2>20 DEF Lifecycle, PendingValid, outputVars
  <2>14. CallerReady'
    <3>1. ASSUME NEW y \in Callers,
                 caller[y] \in {"idle", "looking", "closing", "sweeping", "ownerSweeping"}
          PROVE  \A j \in Invocations : pc'[Canceller(y, j)] = "unborn"
      BY <2>1, <2>20, <3>1 DEF Lifecycle, CallerReady
    <3> QED
      BY <2>1, <3>1 DEF Lifecycle, CallerReady
  <2> QED
    BY <2>8, <2>9, <2>10, <2>11, <2>12, <2>13, <2>14 DEF Lifecycle
<1> QED
  BY <1>1, <1>2, <1>3, <1>4 DEF CancellerStep, Join

\* Spawning cancellers disturbs nothing but the callers' own bookkeeping.
LEMMA SpawnLifecycle ==
    ASSUME TypeOK, Lifecycle, UNCHANGED <<cancelling, outputVars, pending, disposition>>,
           \A b \in Actors : \/ pc'[b] = pc[b]
                             \/ b \in Cancellers /\ pc[b] = "unborn" /\ pc'[b] = "gate"
    PROVE  SpawnedOnce' /\ Undecided' /\ CancelledIsOver' /\ Gate' /\ Reported' /\ PendingValid'
<1>1. \A i \in Invocations : /\ pc'[Handler(i)] = pc[Handler(i)]
                             /\ pc'[Task(i)] = pc[Task(i)]
                             /\ pc'[Output(i)] = pc[Output(i)]
  BY ActorFacts
<1>2. \A x \in Callers, i \in Invocations :
        \/ pc'[Canceller(x, i)] = pc[Canceller(x, i)]
        \/ pc[Canceller(x, i)] = "unborn" /\ pc'[Canceller(x, i)] = "gate"
  BY ActorFacts
<1>3. SpawnedOnce'
  BY <1>1 DEF Lifecycle, SpawnedOnce
<1>4. Undecided'
  BY <1>1 DEF Lifecycle, Undecided, outputVars
<1>5. CancelledIsOver'
  BY <1>1 DEF Lifecycle, CancelledIsOver, Over
<1>6. Gate'
  BY <1>2 DEF Lifecycle, Gate, outputVars
<1>7. Reported'
  BY <1>2 DEF Lifecycle, Reported, Finishing, outputVars
<1>8. PendingValid'
  BY <1>1 DEF Lifecycle, PendingValid, outputVars
<1> QED
  BY <1>3, <1>4, <1>5, <1>6, <1>7, <1>8

\* The callers: they spawn cancellers only for themselves and only once.
LEMMA CallerLifecycle ==
    ASSUME TypeOK, Lifecycle, NEW x \in Callers,
           \/ CallerStep(x) \/ BeginClose(x) \/ Close(x) \/ AbortCaller(x)
           \/ \E d \in Ids : BeginCancel(x, d)
    PROVE  Lifecycle'
<1>1. UNCHANGED <<cancelling, outputVars, pending, disposition>>
  BY DEF CallerStep, Lookup, AskHistory, Sweep, CloseAnswered, OwnerReturns, CancelAnswered,
         BeginClose, Close, AbortCaller, BeginCancel, invocationVars
<1>2. CASE Lookup(x) /\ invocations[target[x]] # None
  <2> DEFINE i == invocations[target[x]]
  <2>1. i \in Invocations /\ caller[x] = "looking" /\ target[x] \in Ids
    BY <1>2 DEF Lookup, TypeOK, Lifecycle, CallerReady
  <2>2. Canceller(x, i) \in Actors /\ Canceller(x, i) \in Cancellers /\ pc[Canceller(x, i)] = "unborn"
    BY <2>1, ActorFacts DEF Lifecycle, CallerReady
  <2>3. Goto(Canceller(x, i), "gate")
    BY <1>2 DEF Lookup
  <2>4. \A b \in Actors : pc'[b] = IF b = Canceller(x, i) THEN "gate" ELSE pc[b]
    BY <2>2, <2>3, GotoMoves
  <2>5. \A y \in Callers : caller'[y] = IF y = x THEN "waiting" ELSE caller[y]
    BY <1>2 DEF Lookup, TypeOK
  <2>6. UNCHANGED target
    BY <1>2 DEF Lookup
  <2>7. \A y \in Callers : y # x => \A j \in Invocations : pc'[Canceller(y, j)] = pc[Canceller(y, j)]
    BY <2>1, <2>4, ActorFacts
  <2>8. CallerReady'
    BY <2>5, <2>6, <2>7 DEF Lifecycle, CallerReady
  <2> QED
    BY <1>1, <2>2, <2>4, <2>8, SpawnLifecycle DEF Lifecycle
<1>3. CASE Sweep(x)
  <2>1. caller[x] \in {"sweeping", "ownerSweeping"}
    BY <1>3 DEF Sweep
  <2>2. \A b \in Actors : \/ pc'[b] = pc[b]
                          \/ b \in Cancellers /\ b[2] = x /\ pc'[b] = "gate"
    BY <1>3 DEF Sweep
  <2>3. \A b \in Cancellers : b[2] = x => pc[b] = "unborn"
    <3>1. SUFFICES ASSUME NEW y \in Callers, NEW j \in Invocations, Canceller(y, j)[2] = x
                   PROVE  pc[Canceller(y, j)] = "unborn"
      BY DEF Cancellers
    <3>2. y = x
      BY <3>1, ActorFacts
    <3> QED
      BY <2>1, <3>2 DEF Lifecycle, CallerReady
  <2>4. \A y \in Callers : y # x => caller'[y] = caller[y]
    BY <1>3 DEF Sweep, TypeOK
  <2>5. caller'[x] \in {"draining", "ownerDraining"}
    BY <1>3 DEF Sweep, TypeOK
  <2>6. UNCHANGED target
    BY <1>3 DEF Sweep
  <2>7. \A y \in Callers : y # x => \A j \in Invocations : pc'[Canceller(y, j)] = pc[Canceller(y, j)]
    BY <2>2, ActorFacts
  <2>8. CallerReady'
    BY <2>4, <2>5, <2>6, <2>7 DEF Lifecycle, CallerReady
  <2> QED
    BY <1>1, <2>2, <2>3, <2>8, SpawnLifecycle DEF Lifecycle
<1>4. CASE UNCHANGED pc
  <2>1. \A y \in Callers : y # x => caller'[y] = caller[y] /\ target'[y] = target[y]
    BY DEF CallerStep, Lookup, AskHistory, Sweep, CloseAnswered, OwnerReturns, CancelAnswered,
           Reply, BeginClose, Close, AbortCaller, BeginCancel, TypeOK
  <2>2. caller'[x] = "looking" => target'[x] \in Ids
    BY <1>4
    DEF CallerStep, Lookup, AskHistory, Sweep, CloseAnswered, OwnerReturns, CancelAnswered,
        Reply, BeginClose, Close, AbortCaller, BeginCancel, TypeOK
  <2>3. caller'[x] \in {"idle", "looking", "closing", "sweeping", "ownerSweeping"} =>
          caller[x] \in {"idle", "looking", "closing", "sweeping", "ownerSweeping"}
    BY DEF CallerStep, Lookup, AskHistory, Sweep, CloseAnswered, OwnerReturns, CancelAnswered,
           Reply, BeginClose, Close, AbortCaller, BeginCancel, TypeOK
  <2>4. CallerReady'
    BY <1>4, <2>1, <2>2, <2>3 DEF Lifecycle, CallerReady
  <2> QED
    BY <1>1, <1>4, <2>4, SpawnLifecycle DEF Lifecycle
<1> QED
  BY <1>2, <1>3, <1>4
  DEF CallerStep, Lookup, AskHistory, CloseAnswered, OwnerReturns, CancelAnswered,
      BeginClose, Close, AbortCaller, BeginCancel

-----------------------------------------------------------------------------
\* Every step keeps the life of every invocation in order.
LEMMA LifecycleStep ==
    ASSUME TypeOK, Summaries, Lifecycle, [Next]_vars
    PROVE  Lifecycle'
<1>1. CASE Disconnect \/ UNCHANGED vars
  BY <1>1
  DEF Disconnect, vars, Lifecycle, SpawnedOnce, Undecided, CancelledIsOver, Over, Gate, Reported,
      PendingValid, CallerReady, invocationVars, outputVars, callerVars
<1>2. CASE \E i \in Invocations : BeginRequest(i) \/ AbortHandler(i) \/ HandlerStep(i)
  BY <1>2, HandlerLifecycle
<1>3. CASE \E i \in Invocations : FinishInvocation(Task(i))
  BY <1>3, FinishLifecycle, ActorFacts
<1>4. CASE \E i \in Invocations : TaskSend(i)
  BY <1>4, TaskSendLifecycle
<1>5. CASE \E i \in Invocations : Fail(Task(i), "Internal")
  BY <1>5, TaskFailLifecycle
<1>6. CASE \E i \in Invocations : GuestStep(i) \/ Die(i)
  BY <1>6, GuestLifecycle
<1>7. CASE \E i \in Invocations : OutputStep(i)
  BY <1>7, OutputLifecycle
<1>8. CASE \E i \in Invocations : Abandon(i)
  BY <1>8, AbandonLifecycle
<1>9. CASE \E i \in Invocations, x \in Callers : CancellerStep(x, i)
  BY <1>9, CancellerLifecycle
<1>10. CASE \E x \in Callers : \/ CallerStep(x) \/ BeginClose(x) \/ Close(x) \/ AbortCaller(x)
                               \/ \E d \in Ids : BeginCancel(x, d)
  BY <1>10, CallerLifecycle
<1> QED
  BY <1>1, <1>2, <1>3, <1>4, <1>5, <1>6, <1>7, <1>8, <1>9, <1>10
  DEF Next, ClientStep, TaskStep

\* The inductive invariant.
Inv == TypeOK /\ Summaries /\ Lifecycle

\* It holds at the start.
LEMMA InitInv == Init => Inv
<1> SUFFICES ASSUME Init PROVE Inv
  OBVIOUS
<1>1. \A i \in Invocations : /\ pc[Handler(i)] = "idle"
                             /\ pc[Task(i)] = "unborn"
                             /\ pc[Output(i)] = "unborn"
                             /\ \A x \in Callers : pc[Canceller(x, i)] = "unborn"
  BY ActorFacts DEF Init
<1>2. NewSequence \in EventSequences /\ NoEvent \in Events
  BY DEF NewSequence, EventSequences, NoEvent, Events, Kinds
<1>3. TypeOK
  <2>1. pc \in [Actors -> HandlerPC \cup TaskPC \cup CancellerPC \cup OutputPC]
    BY DEF Init, HandlerPC, TaskPC
  <2>2. \A i \in Invocations : /\ pc[Handler(i)] \in HandlerPC
                               /\ pc[Task(i)] \in TaskPC
                               /\ pc[Output(i)] \in OutputPC
                               /\ \A x \in Callers : pc[Canceller(x, i)] \in CancellerPC
    BY <1>1 DEF HandlerPC, TaskPC, CancellerPC, OutputPC
  <2>3. /\ handle \in [Invocations -> BOOLEAN] /\ aborted \in [Invocations -> BOOLEAN]
        /\ cancelling \in [Invocations -> BOOLEAN] /\ outClosed \in [Invocations -> BOOLEAN]
        /\ finished \in [Invocations -> BOOLEAN] /\ knew \in [Callers -> BOOLEAN]
        /\ closed \in BOOLEAN /\ connected \in BOOLEAN
    BY DEF Init
  <2>4. /\ sequence \in [Invocations -> EventSequences] /\ sent \in [Invocations -> Seq(Events)]
        /\ pending \in [Invocations -> Events]
    BY <1>2 DEF Init
  <2>5. /\ invocations \in [Ids -> Invocations \cup {None}]
        /\ \A d \in Ids : invocations[d] = None
        /\ target \in [Callers -> Ids \cup {None}]
    BY DEF Init
  <2>6. answer \in [Callers -> {None, "Cancelled", "AlreadyFinished", "NotFound",
                                "closed", "closedBefore"}]
    BY DEF Init
  <2>7. /\ disposition \in [Cancellers -> {None, "Cancelled", "AlreadyFinished"}]
        /\ requests \subseteq Ids \cup Callers /\ registered \subseteq Ids
        /\ completed \in Seq(Ids) /\ active \in Int
    BY DEF Init
  <2>8. caller \in [Callers -> {"idle", "looking", "asking", "waiting", "closing", "sweeping",
                                "draining", "ownerSweeping", "ownerDraining", "returned",
                                "answered", "aborted"}]
    BY DEF Init
  <2> QED
    BY <2>1, <2>2, <2>3, <2>4, <2>5, <2>6, <2>7, <2>8 DEF TypeOK
<1>4. Summaries
  BY NewSequenceSummarises DEF Init, Summaries
<1>5. Lifecycle
  <2>1. SpawnedOnce /\ CancelledIsOver /\ Gate /\ PendingValid /\ CallerReady
    BY <1>1
    DEF Init, SpawnedOnce, CancelledIsOver, Gate, PendingValid, CallerReady, Over
  <2>2. Undecided
    BY DEF Init, Undecided, NewSequence
  <2>3. Reported
    <3>1. \A x \in Callers, i \in Invocations : disposition[Canceller(x, i)] = None
      BY ActorFacts DEF Init
    <3> QED
      BY <3>1, InstanceAssumption DEF Init, Reported
  <2> QED
    BY <2>1, <2>2, <2>3 DEF Lifecycle
<1> QED
  BY <1>3, <1>4, <1>5 DEF Inv

\* It is preserved by every step.
LEMMA InvStep == Inv /\ [Next]_vars => Inv'
BY TypeStep, SummariesStep, LifecycleStep DEF Inv, Lifecycle

-----------------------------------------------------------------------------
\* Inv is an invariant of the specification.
THEOREM Invariance == Spec => []Inv
BY InitInv, InvStep, PTL DEF Spec

\* Type correctness.
THEOREM TypeCorrect == Spec => []TypeOK
<1>1. Inv => TypeOK
  BY DEF Inv
<1> QED
  BY <1>1, Invariance, PTL

\* Whatever is aborted, cancelled, closed or lost, every client sees a legal
\* event stream (InvocationOutput::send_event).
THEOREM StreamsAreLegal == Spec => []StreamsLegal
<1>1. Inv => StreamsLegal
  BY DEF Inv, Summaries, Summarises, StreamsLegal
<1> QED
  BY <1>1, Invariance, PTL

\* The cancellation output is serialised only after the guest's task is gone
\* (ActiveInvocation::cancel).
THEOREM HandoverHolds == Spec => []Handover
<1>1. Inv => Handover
  BY DEF Inv, Lifecycle, CancelledIsOver, Handover
<1> QED
  BY <1>1, Invariance, PTL

\* The answers of CancelInvocation are true.
THEOREM DispositionsAreHonest == Spec => []DispositionsHonest
<1>1. Inv => DispositionsHonest
  BY DEF Inv, Lifecycle, Reported, DispositionsHonest
<1> QED
  BY <1>1, Invariance, PTL

\* A validated event stays acceptable until the driver sends it.
THEOREM ValidatedEventsStayValid == Spec => []ValidatedStaysValid
<1>1. Inv => ValidatedStaysValid
  BY DEF Inv, Lifecycle, Undecided, PendingValid, Running, ValidatedStaysValid
<1> QED
  BY <1>1, Invariance, PTL

-----------------------------------------------------------------------------
(* The session's table.  The parts of TableSound are invariants of their   *)
(* own, each carried by what the finishing steps of an invocation may rely *)
(* on: its task is over, its id is in the history, its handle was given.   *)

Driving == {"next", "confirm", "send", "fail"}

\* The history has the id, or has overflowed.
Remembers(d) == (\E k \in DOMAIN completed : completed[k] = d) \/ Len(completed) = History

\* An id leaves the map only after it was recorded, so who finds no entry for an
\* id that was registered finds it in the history.
Recorded ==
    /\ Len(completed) <= History
    /\ \A a \in Finishers : pc[a] = "entry" => Remembers(RequestId[Subject(a)])
    /\ \A d \in registered : invocations[d] # None \/ Remembers(d)

\* What a cancel request knew when it began stays true while it looks and asks.
Asked ==
    \A x \in Callers :
      /\ caller[x] = "idle" => answer[x] # "NotFound"
      /\ knew[x] /\ caller[x] \in {"looking", "asking"} => target[x] \in registered
      /\ knew[x] /\ caller[x] = "asking" => Remembers(target[x])

\* Until a running task is aborted its handle is there for the canceller to
\* take, in an ActiveInvocation that somebody holds.
HandleKept ==
    \A i \in Invocations :
      pc[Task(i)] \in {"ready"} \cup Driving /\ ~aborted[i] /\ ~finished[i] =>
        handle[i] /\ Held(i)

\* finish_invocation runs for an invocation whose task is over, unless it is the
\* task that runs it; a handler that has not started the task finds it waiting
\* or dropped.
FinishersAreLate ==
    \A i \in Invocations :
      /\ pc[Handler(i)] \in Finishing => Over(i)
      /\ pc[Handler(i)] \in {"acquired", "added", "silencing"} => pc[Task(i)] \in {"ready", "dead"}
      /\ \A x \in Callers : pc[Canceller(x, i)] \in Finishing \cup {"done"} => Over(i)

\* With fresh ids an invocation stays in the map while its guest may run.
Listed ==
    FreshIds =>
      \A i \in Invocations :
        \/ pc[Task(i)] \in Driving
        \/ pc[Handler(i)] = "added" /\ pc[Task(i)] = "ready"
        => invocations[RequestId[i]] = i

\* x has a canceller for every invocation in the map.
Swept(x) ==
    \A i \in Invocations : invocations[RequestId[i]] = i => pc[Canceller(x, i)] # "unborn"

\* The close of x is acknowledged.
ClosedTo(x) == caller[x] = "answered" /\ answer[x] \in {"closed", "closedBefore"}

\* A close that has swept the map needs no other sweep: nothing is added to a
\* closed session.
Closing ==
    \A x \in Callers :
      /\ caller[x] \in {"sweeping", "draining"} \/ ClosedTo(x) => closed
      /\ caller[x] = "draining" \/ ClosedTo(x) => Swept(x)
      /\ ClosedTo(x) => Drained(x)

\* The part of the inductive invariant that is about the table.
Table ==
    /\ CounterExact /\ Recorded /\ Asked /\ NotFoundHonest
    /\ HandleKept /\ FinishersAreLate /\ Listed /\ Closing

-----------------------------------------------------------------------------
(* How the control states may move in one step.                            *)

HandlerMove(i) ==
    LET from == pc[Handler(i)]
        to == pc'[Handler(i)]
        taskStays == pc'[Task(i)] = pc[Task(i)]
    IN  \/ from = to
        \/ from = "idle" /\ to \in {"begun", "faulted"}
        \/ from = "begun" /\ to = "fault"
        \/ from = "begun" /\ to = "acquired" /\ pc'[Task(i)] = "ready"
        \/ from = "acquired" /\ to \in {"added", "silencing"} /\ taskStays
        \/ from = "silencing" /\ to \in {"fault", "faulted"}
        \/ from = "added" /\ to = "started" /\ pc[Task(i)] = "ready"
        \/ from = "added" /\ to = "request" /\ pc[Task(i)] # "ready" /\ taskStays
        \/ from \in Finishing /\ to \in Finishing \cup {"fault", "faulted"}
        \/ from = "fault" /\ to = "faulted"

TaskMove(i) ==
    LET from == pc[Task(i)]
        to == pc'[Task(i)]
    IN  \/ from = to
        \/ from = "unborn" /\ to = "ready" /\ pc'[Handler(i)] = "acquired"
        \/ from = "ready" /\ to = "next" /\ pc[Handler(i)] = "added" /\ pc'[Handler(i)] = "started"
        \/ from \in Driving /\ to \in Driving \cup {"request"}
        \/ from \in Suspended /\ to = "dead"
        \/ from \in Finishing /\ to \in Finishing \cup {"done"}

CancellerMove(x, i) ==
    LET from == pc[Canceller(x, i)]
        to == pc'[Canceller(x, i)]
    IN  \/ from = to
        \/ from = "unborn" /\ to = "gate" /\ caller[x] \in {"looking", "sweeping", "ownerSweeping"}
        \/ from = "gate" /\ to \in {"join", "reap"}
        \/ from \in {"join", "reap"} /\ to = "request" /\ Over(i)
        \/ from \in Finishing /\ to \in Finishing \cup {"done"}

Moves ==
    \A i \in Invocations : /\ HandlerMove(i) /\ TaskMove(i)
                           /\ \A x \in Callers : CancellerMove(x, i)

\* One actor moves.
LEMMA OneMoves ==
    ASSUME TypeOK, NEW a \in Actors, NEW to, Goto(a, to),
           \A i \in Invocations : /\ a = Handler(i) => HandlerMove(i)
                                  /\ a = Task(i) => TaskMove(i)
                                  /\ \A x \in Callers : a = Canceller(x, i) => CancellerMove(x, i)
    PROVE  Moves
<1>1. \A b \in Actors : b # a => pc'[b] = pc[b]
  BY GotoMoves
<1>2. SUFFICES ASSUME NEW i \in Invocations
               PROVE  HandlerMove(i) /\ TaskMove(i) /\ \A x \in Callers : CancellerMove(x, i)
  BY DEF Moves
<1>3. HandlerMove(i)
  BY <1>1, ActorFacts DEF HandlerMove
<1>4. TaskMove(i)
  BY <1>1, ActorFacts DEF TaskMove
<1>5. ASSUME NEW x \in Callers PROVE CancellerMove(x, i)
  BY <1>1, ActorFacts DEF CancellerMove
<1> QED
  BY <1>3, <1>4, <1>5

\* Nobody moves.
LEMMA NobodyMoves == UNCHANGED pc => Moves
BY DEF Moves, HandlerMove, TaskMove, CancellerMove

\* A finishing step.
LEMMA FinishMoves ==
    ASSUME TypeOK, NEW a \in Finishers, FinishInvocation(a)
    PROVE  Moves
<1>1. a \in Actors
  BY DEF Actors
<1>2. PICK to \in Finishing \cup {AfterFinish(a)} : Goto(a, to)
  BY DEF FinishInvocation, FinishRequest, RecordCompletion, RemoveEntry, Uncount, Finishing
<1>3. pc[a] \in Finishing /\ pc'[a] = to
  BY <1>1, <1>2, GotoMoves
  DEF FinishInvocation, FinishRequest, RecordCompletion, RemoveEntry, Uncount, Finishing
<1>4. \A i \in Invocations : /\ a = Handler(i) => HandlerMove(i)
                             /\ a = Task(i) => TaskMove(i)
                             /\ \A x \in Callers : a = Canceller(x, i) => CancellerMove(x, i)
  <2> SUFFICES ASSUME NEW i \in Invocations
               PROVE  /\ a = Handler(i) => HandlerMove(i)
                      /\ a = Task(i) => TaskMove(i)
                      /\ \A x \in Callers : a = Canceller(x, i) => CancellerMove(x, i)
    OBVIOUS
  <2>1. CASE a = Handler(i)
    BY <1>2, <1>3, <2>1, ActorFacts DEF HandlerMove, AfterFinish
  <2>2. CASE a = Task(i)
    BY <1>2, <1>3, <2>2, ActorFacts DEF TaskMove, AfterFinish
  <2>3. ASSUME NEW x \in Callers, a = Canceller(x, i) PROVE CancellerMove(x, i)
    BY <1>2, <1>3, <2>3, ActorFacts DEF CancellerMove, AfterFinish
  <2> QED
    BY <2>1, <2>2, <2>3, ActorFacts
<1> QED
  BY <1>1, <1>2, <1>4, OneMoves

\* A handler's own steps.
LEMMA HandlerMoves ==
    ASSUME TypeOK, Lifecycle, NEW i \in Invocations,
           BeginRequest(i) \/ AbortHandler(i) \/ HandlerStep(i)
    PROVE  Moves
<1> DEFINE h == Handler(i)
<1>0. h \in Actors /\ Task(i) \in Actors /\ h # Task(i)
  BY ActorFacts
<1>1. CASE FinishInvocation(Handler(i))
  BY <1>1, ActorFacts, FinishMoves
<1>2. CASE SpawnTask(i) \/ (StartTask(i) /\ pc[Task(i)] = "ready")
  <2>1. \A b \in Actors : b # h /\ b # Task(i) => pc'[b] = pc[b]
    BY <1>0, <1>2 DEF SpawnTask, StartTask, TypeOK
  <2>2. \/ pc[h] = "begun" /\ pc'[h] = "acquired" /\ pc'[Task(i)] = "ready"
        \/ pc[h] = "added" /\ pc'[h] = "started" /\ pc[Task(i)] = "ready" /\ pc'[Task(i)] = "next"
    BY <1>0, <1>2 DEF SpawnTask, StartTask, TypeOK
  <2>3. pc[h] = "begun" => pc[Task(i)] = "unborn"
    BY DEF Lifecycle, SpawnedOnce
  <2>4. SUFFICES ASSUME NEW j \in Invocations
                 PROVE  HandlerMove(j) /\ TaskMove(j) /\ \A x \in Callers : CancellerMove(x, j)
    BY DEF Moves
  <2>5. CASE j = i
    <3>1. HandlerMove(i)
      BY <2>2 DEF HandlerMove
    <3>2. TaskMove(i)
      BY <2>2, <2>3 DEF TaskMove
    <3>3. \A x \in Callers : CancellerMove(x, i)
      BY <2>1, ActorFacts DEF CancellerMove
    <3> QED
      BY <2>5, <3>1, <3>2, <3>3
  <2>6. CASE j # i
    <3>1. HandlerMove(j)
      BY <2>1, <2>6, ActorFacts DEF HandlerMove
    <3>2. TaskMove(j)
      BY <2>1, <2>6, ActorFacts DEF TaskMove
    <3>3. \A x \in Callers : CancellerMove(x, j)
      BY <2>1, ActorFacts DEF CancellerMove
    <3> QED
      BY <3>1, <3>2, <3>3
  <2> QED
    BY <2>5, <2>6
<1>3. ASSUME NEW to, Goto(h, to), HandlerMove(i)
      PROVE  Moves
  <2>1. \A j \in Invocations : /\ h = Handler(j) => HandlerMove(j)
                               /\ h = Task(j) => TaskMove(j)
                               /\ \A x \in Callers : h = Canceller(x, j) => CancellerMove(x, j)
    BY <1>3, ActorFacts
  <2> QED
    BY <1>0, <1>3, <2>1, OneMoves
<1>4. ASSUME NEW to, Goto(h, to)
      PROVE  pc'[h] = to /\ pc'[Task(i)] = pc[Task(i)]
  BY <1>0, <1>4, GotoMoves
<1>5. CASE BeginRequest(i)
  <2>1. PICK to \in {"begun", "faulted"} : Goto(h, to)
    BY <1>5 DEF BeginRequest
  <2>2. HandlerMove(i)
    BY <1>4, <1>5, <2>1 DEF BeginRequest, HandlerMove
  <2> QED
    BY <1>3, <2>1, <2>2
<1>6. CASE AbortHandler(i)
  <2>1. HandlerMove(i)
    BY <1>4, <1>6 DEF AbortHandler, HandlerMove, Finishing
  <2> QED
    BY <1>3, <1>6, <2>1 DEF AbortHandler
<1>7. CASE Refuse(i)
  <2>1. HandlerMove(i)
    BY <1>4, <1>7 DEF Refuse, HandlerMove
  <2> QED
    BY <1>3, <1>7, <2>1 DEF Refuse
<1>8. CASE AddInvocation(i)
  <2>1. HandlerMove(i)
    BY <1>4, <1>8 DEF AddInvocation, HandlerMove
  <2> QED
    BY <1>3, <1>8, <2>1 DEF AddInvocation
<1>9. CASE AbortSilent(i)
  <2>1. HandlerMove(i)
    BY <1>4, <1>9 DEF AbortSilent, HandlerMove
  <2> QED
    BY <1>3, <1>9, <2>1 DEF AbortSilent
<1>10. CASE SilentDone(i)
  <2>1. HandlerMove(i)
    BY <1>4, <1>10 DEF SilentDone, HandlerMove
  <2> QED
    BY <1>3, <1>10, <2>1 DEF SilentDone
<1>11. CASE StartTask(i) /\ pc[Task(i)] # "ready"
  <2>1. Goto(h, "request")
    BY <1>11 DEF StartTask, Goto
  <2>2. HandlerMove(i)
    BY <1>4, <1>11, <2>1 DEF StartTask, HandlerMove
  <2> QED
    BY <1>3, <2>1, <2>2
<1>12. CASE Fault(i)
  <2>1. HandlerMove(i)
    BY <1>4, <1>12 DEF Fault, HandlerMove
  <2> QED
    BY <1>3, <1>12, <2>1 DEF Fault
<1> QED
  BY <1>1, <1>2, <1>5, <1>6, <1>7, <1>8, <1>9, <1>10, <1>11, <1>12 DEF HandlerStep

\* The task, its guest and its output task.
LEMMA GuestMoves ==
    ASSUME TypeOK, NEW i \in Invocations,
           TaskStep(i) \/ GuestStep(i) \/ OutputStep(i) \/ Abandon(i) \/ Die(i)
    PROVE  Moves
<1>1. CASE FinishInvocation(Task(i))
  BY <1>1, ActorFacts, FinishMoves
<1>2. CASE OutputStep(i)
  <2>1. \/ UNCHANGED pc
        \/ Goto(Output(i), AfterFail(Output(i)))
    BY <1>2 DEF OutputStep, Fail
  <2> QED
    BY <2>1, NobodyMoves, OneMoves, ActorFacts
<1>3. CASE \/ TaskSend(i) \/ GuestStep(i) \/ Abandon(i) \/ Die(i) \/ Fail(Task(i), "Internal")
  <2>1. \/ UNCHANGED pc
        \/ \E to \in Driving \cup {"request"} : Goto(Task(i), to) /\ pc[Task(i)] \in Driving
        \/ Goto(Task(i), "dead") /\ pc[Task(i)] \in Suspended
    <3>1. CASE TaskSend(i)
      BY <3>1 DEF TaskSend, Driving
    <3>2. CASE GuestStep(i)
      BY <3>2 DEF GuestStep, GuestEvent, GuestViolation, GuestEnds, Driving
    <3>3. CASE Abandon(i) \/ Die(i)
      BY <3>3 DEF Abandon, Die, Driving
    <3>4. CASE Fail(Task(i), "Internal")
      BY <3>4, ActorFacts DEF Fail, AfterFail, Driving
    <3> QED
      BY <1>3, <3>1, <3>2, <3>3, <3>4
  <2>2. CASE UNCHANGED pc
    BY <2>2, NobodyMoves
  <2>3. ASSUME NEW to, Goto(Task(i), to),
               \/ to \in Driving \cup {"request"} /\ pc[Task(i)] \in Driving
               \/ to = "dead" /\ pc[Task(i)] \in Suspended
        PROVE  Moves
    <3>1. pc'[Task(i)] = to
      BY <2>3, GotoMoves, ActorFacts
    <3>2. TaskMove(i)
      BY <2>3, <3>1 DEF TaskMove
    <3>3. \A j \in Invocations : /\ Task(i) = Handler(j) => HandlerMove(j)
                                 /\ Task(i) = Task(j) => TaskMove(j)
                                 /\ \A x \in Callers : Task(i) = Canceller(x, j) => CancellerMove(x, j)
      BY <3>2, ActorFacts
    <3> QED
      BY <2>3, <3>3, OneMoves, ActorFacts
  <2> QED
    BY <2>1, <2>2, <2>3
<1> QED
  BY <1>1, <1>2, <1>3 DEF TaskStep

\* A canceller.
LEMMA CancellerMoves ==
    ASSUME TypeOK, NEW x \in Callers, NEW i \in Invocations, CancellerStep(x, i)
    PROVE  Moves
<1> DEFINE c == Canceller(x, i)
<1>0. c \in Actors /\ Output(i) \in Actors /\ c # Output(i)
  BY ActorFacts
<1>1. CASE FinishInvocation(c)
  BY <1>1, ActorFacts, FinishMoves
<1>2. CASE EnterGate(x, i) \/ Reap(x, i) \/ Join(x, i)
  <2>1. \A b \in Actors : b # c /\ b # Output(i) => pc'[b] = pc[b]
    BY <1>0, <1>2 DEF EnterGate, Reap, Join, Goto, TypeOK
  <2>2. CancellerMove(x, i)
    <3>1. CASE EnterGate(x, i)
      BY <1>0, <3>1 DEF EnterGate, Goto, CancellerMove, TypeOK
    <3>2. CASE Reap(x, i)
      BY <1>0, <3>2 DEF Reap, Goto, CancellerMove, TypeOK
    <3>3. CASE Join(x, i)
      BY <1>0, <3>3 DEF Join, Goto, CancellerMove, TypeOK
    <3> QED
      BY <1>2, <3>1, <3>2, <3>3
  <2>3. SUFFICES ASSUME NEW j \in Invocations
                 PROVE  HandlerMove(j) /\ TaskMove(j) /\ \A y \in Callers : CancellerMove(y, j)
    BY DEF Moves
  <2>4. HandlerMove(j)
    BY <2>1, ActorFacts DEF HandlerMove
  <2>5. TaskMove(j)
    BY <2>1, ActorFacts DEF TaskMove
  <2>6. ASSUME NEW y \in Callers PROVE CancellerMove(y, j)
    <3>1. CASE y = x /\ j = i
      BY <2>2, <3>1
    <3>2. CASE ~(y = x /\ j = i)
      BY <2>1, <3>2, ActorFacts DEF CancellerMove
    <3> QED
      BY <3>1, <3>2
  <2> QED
    BY <2>4, <2>5, <2>6
<1> QED
  BY <1>1, <1>2 DEF CancellerStep

\* The callers spawn their cancellers.
LEMMA CallerMoves ==
    ASSUME TypeOK, Lifecycle, NEW x \in Callers,
           \/ CallerStep(x) \/ BeginClose(x) \/ Close(x) \/ AbortCaller(x)
           \/ \E d \in Ids : BeginCancel(x, d)
    PROVE  Moves
<1>1. CASE UNCHANGED pc
  BY <1>1, NobodyMoves
<1>2. CASE caller[x] \in {"looking", "sweeping", "ownerSweeping"}
           /\ \A b \in Actors : \/ pc'[b] = pc[b]
                                \/ \E i \in Invocations : b = Canceller(x, i) /\ pc'[b] = "gate"
  <2>1. \A i \in Invocations : pc[Canceller(x, i)] = "unborn"
    BY <1>2 DEF Lifecycle, CallerReady
  <2>2. SUFFICES ASSUME NEW j \in Invocations
                 PROVE  HandlerMove(j) /\ TaskMove(j) /\ \A y \in Callers : CancellerMove(y, j)
    BY DEF Moves
  <2>3. HandlerMove(j)
    BY <1>2, ActorFacts DEF HandlerMove
  <2>4. TaskMove(j)
    BY <1>2, ActorFacts DEF TaskMove
  <2>5. ASSUME NEW y \in Callers PROVE CancellerMove(y, j)
    BY <1>2, <2>1, ActorFacts DEF CancellerMove
  <2> QED
    BY <2>3, <2>4, <2>5
<1>3. CASE Lookup(x) /\ invocations[target[x]] # None
  <2>1. PICK i \in Invocations : i = invocations[target[x]]
    BY <1>3 DEF Lookup, TypeOK, Lifecycle, CallerReady
  <2>2. Goto(Canceller(x, i), "gate") /\ caller[x] = "looking"
    BY <1>3, <2>1 DEF Lookup
  <2> QED
    BY <1>2, <2>2, GotoMoves, ActorFacts
<1>4. CASE Sweep(x)
  <2>1. \A b \in Actors : \/ pc'[b] = pc[b]
                          \/ b \in Cancellers /\ b[2] = x /\ pc'[b] = "gate"
    BY <1>4 DEF Sweep
  <2>2. \A b \in Cancellers : b[2] = x => \E i \in Invocations : b = Canceller(x, i)
    BY DEF Cancellers, Canceller
  <2> QED
    BY <1>2, <1>4, <2>1, <2>2 DEF Sweep
<1> QED
  BY <1>1, <1>3, <1>4
  DEF CallerStep, Lookup, AskHistory, CloseAnswered, OwnerReturns, CancelAnswered,
      BeginClose, Close, AbortCaller, BeginCancel

\* Every step moves the control states as above.
LEMMA EveryStepMoves ==
    ASSUME TypeOK, Lifecycle, [Next]_vars
    PROVE  Moves
<1>1. CASE Disconnect \/ UNCHANGED vars
  BY <1>1, NobodyMoves DEF Disconnect, vars
<1>2. CASE \E i \in Invocations : BeginRequest(i) \/ AbortHandler(i) \/ HandlerStep(i)
  BY <1>2, HandlerMoves
<1>3. CASE \E i \in Invocations : TaskStep(i) \/ GuestStep(i) \/ OutputStep(i) \/ Abandon(i) \/ Die(i)
  BY <1>3, GuestMoves
<1>4. CASE \E i \in Invocations, x \in Callers : CancellerStep(x, i)
  BY <1>4, CancellerMoves
<1>5. CASE \E x \in Callers : \/ CallerStep(x) \/ BeginClose(x) \/ Close(x) \/ AbortCaller(x)
                              \/ \E d \in Ids : BeginCancel(x, d)
  BY <1>5, CallerMoves
<1> QED
  BY <1>1, <1>2, <1>3, <1>4, <1>5 DEF Next, ClientStep

\* A task that is over stays over.
LEMMA OverStays ==
    ASSUME Moves, NEW i \in Invocations, Over(i)
    PROVE  pc'[Task(i)] = pc[Task(i)]
BY DEF Moves, TaskMove, Over, Driving, Suspended, Finishing

\* FinishersAreLate is kept by every step.
LEMMA LateStep ==
    ASSUME Moves, FinishersAreLate
    PROVE  FinishersAreLate'
<1>1. SUFFICES ASSUME NEW i \in Invocations
               PROVE  /\ pc'[Handler(i)] \in Finishing => Over(i)'
                      /\ pc'[Handler(i)] \in {"acquired", "added", "silencing"} =>
                           pc'[Task(i)] \in {"ready", "dead"}
                      /\ \A x \in Callers : pc'[Canceller(x, i)] \in Finishing \cup {"done"} => Over(i)'
  BY DEF FinishersAreLate
<1>2. Over(i) => Over(i)'
  BY OverStays DEF Over
<1>3. HandlerMove(i) /\ TaskMove(i)
  BY DEF Moves
<1>4. /\ pc[Handler(i)] \in Finishing => Over(i)
      /\ pc[Handler(i)] \in {"acquired", "added", "silencing"} => pc[Task(i)] \in {"ready", "dead"}
  BY DEF FinishersAreLate
<1>5. pc'[Handler(i)] \in Finishing => Over(i)'
  BY <1>2, <1>3, <1>4 DEF HandlerMove, Finishing, Over
<1>6. pc'[Handler(i)] \in {"acquired", "added", "silencing"} => pc'[Task(i)] \in {"ready", "dead"}
  BY <1>3, <1>4 DEF HandlerMove, TaskMove, Finishing, Driving, Suspended
<1>7. ASSUME NEW x \in Callers, pc'[Canceller(x, i)] \in Finishing \cup {"done"}
      PROVE  Over(i)'
  <2>1. CancellerMove(x, i)
    BY DEF Moves
  <2>2. pc[Canceller(x, i)] \in Finishing \cup {"done"} => Over(i)
    BY DEF FinishersAreLate
  <2> QED
    BY <1>2, <1>7, <2>1, <2>2 DEF CancellerMove, Finishing
<1> QED
  BY <1>5, <1>6, <1>7

-----------------------------------------------------------------------------
(* How the map of invocations may change in one step.                      *)

EntryStays(d) == invocations'[d] = invocations[d]

EntryAdded(d) ==
    \E i \in Invocations : /\ RequestId[i] = d /\ pc[Handler(i)] = "acquired"
                           /\ ~closed /\ invocations[d] = None /\ invocations'[d] = i

EntryRemoved(d) ==
    \E a \in Finishers : RequestId[Subject(a)] = d /\ pc[a] = "entry" /\ invocations'[d] = None

MapMoves ==
    /\ \A d \in Ids : EntryStays(d) \/ EntryAdded(d) \/ EntryRemoved(d)
    /\ \A i \in Invocations :
         pc[Handler(i)] = "acquired" /\ pc'[Handler(i)] = "added" => invocations'[RequestId[i]] = i

\* The steps that leave the map alone and add nothing.
LEMMA MapStays ==
    ASSUME UNCHANGED invocations,
           \A i \in Invocations : pc[Handler(i)] = "acquired" => pc'[Handler(i)] # "added"
    PROVE  MapMoves
BY DEF MapMoves, EntryStays

\* Only AddInvocation adds, and only RemoveEntry removes.
LEMMA EveryStepMapMoves ==
    ASSUME TypeOK, [Next]_vars
    PROVE  MapMoves
<1>1. ASSUME NEW a \in Finishers, FinishInvocation(a)
      PROVE  MapMoves
  <2>1. a \in Actors /\ Subject(a) \in Invocations /\ RequestId[Subject(a)] \in Ids
    BY InstanceAssumption
    DEF Actors, Finishers, Handlers, Tasks, Cancellers, Handler, Task, Canceller, Subject
  <2>2. PICK to \in Finishing \cup {AfterFinish(a)} : Goto(a, to)
    BY <1>1 DEF FinishInvocation, FinishRequest, RecordCompletion, RemoveEntry, Uncount, Finishing
  <2>3. \A i \in Invocations : pc'[Handler(i)] = "added" => pc[Handler(i)] = "added"
    BY <2>1, <2>2, GotoMoves, ActorFacts DEF AfterFinish, Finishing
  <2>4. CASE UNCHANGED invocations
    BY <2>3, <2>4, MapStays
  <2>5. CASE RemoveEntry(a)
    <3>1. \A d \in Ids : invocations'[d] = IF d = RequestId[Subject(a)] THEN None ELSE invocations[d]
      BY <2>5 DEF RemoveEntry, TypeOK
    <3>2. pc[a] = "entry"
      BY <2>5 DEF RemoveEntry
    <3>3. \A d \in Ids : EntryStays(d) \/ EntryRemoved(d)
      BY <3>1, <3>2 DEF EntryStays, EntryRemoved
    <3> QED
      BY <2>3, <3>3 DEF MapMoves
  <2> QED
    BY <1>1, <2>4, <2>5 DEF FinishInvocation, FinishRequest, RecordCompletion, Uncount
<1>2. ASSUME NEW i \in Invocations, AddInvocation(i)
      PROVE  MapMoves
  <2>1. RequestId[i] \in Ids
    BY InstanceAssumption
  <2>2. \A d \in Ids : invocations'[d] = IF d = RequestId[i] THEN i ELSE invocations[d]
    BY <1>2 DEF AddInvocation, TypeOK
  <2>3. pc[Handler(i)] = "acquired" /\ ~closed /\ invocations[RequestId[i]] = None
    BY <1>2 DEF AddInvocation, CanAdd
  <2>4. \A d \in Ids : EntryStays(d) \/ EntryAdded(d)
    BY <2>2, <2>3 DEF EntryStays, EntryAdded
  <2>5. \A j \in Invocations : j # i => pc'[Handler(j)] = pc[Handler(j)]
    BY <1>2, GotoMoves, ActorFacts DEF AddInvocation
  <2> QED
    BY <2>1, <2>2, <2>4, <2>5 DEF MapMoves
<1>3. ASSUME NEW i \in Invocations, BeginRequest(i) \/ AbortHandler(i) \/ HandlerStep(i)
      PROVE  MapMoves
  <2>1. Handler(i) \in Actors /\ Task(i) \in Actors
    BY ActorFacts
  <2>2. CASE FinishInvocation(Handler(i))
    BY <1>1, <2>2, ActorFacts
  <2>3. CASE AddInvocation(i)
    BY <1>2, <2>3
  <2>4. CASE SpawnTask(i) \/ StartTask(i)
    <3>1. \A j \in Invocations : pc[Handler(j)] = "acquired" => pc'[Handler(j)] # "added"
      <4>1. \A j \in Invocations : Handler(j) \in Actors /\ Handler(j) # Task(i)
        BY ActorFacts
      <4>2. DOMAIN pc = Actors
        BY DEF TypeOK
      <4>3. CASE SpawnTask(i)
        BY <2>1, <4>1, <4>2, <4>3 DEF SpawnTask
      <4>4. CASE StartTask(i)
        BY <2>1, <4>1, <4>2, <4>4 DEF StartTask
      <4> QED
        BY <2>4, <4>3, <4>4
    <3> QED
      BY <2>4, <3>1, MapStays DEF SpawnTask, StartTask, sessionVars
  <2>5. CASE \/ BeginRequest(i) \/ AbortHandler(i) \/ Refuse(i) \/ AbortSilent(i) \/ SilentDone(i)
             \/ Fault(i)
    <3>1. PICK to \in {"begun", "faulted", "fault", "silencing"} : Goto(Handler(i), to)
      BY <2>5 DEF BeginRequest, AbortHandler, Refuse, AbortSilent, SilentDone, Fault
    <3>2. \A j \in Invocations : pc[Handler(j)] = "acquired" => pc'[Handler(j)] # "added"
      BY <2>1, <3>1, GotoMoves, ActorFacts
    <3>3. UNCHANGED invocations
      BY <2>5 DEF BeginRequest, AbortHandler, Refuse, AbortSilent, SilentDone, Fault, sessionVars
    <3> QED
      BY <3>2, <3>3, MapStays
  <2> QED
    BY <1>3, <2>2, <2>3, <2>4, <2>5 DEF HandlerStep
<1>4. ASSUME UNCHANGED invocations, \A j \in Invocations : pc'[Handler(j)] = pc[Handler(j)]
      PROVE  MapMoves
  BY <1>4, MapStays
<1>5. ASSUME NEW i \in Invocations,
             TaskStep(i) \/ GuestStep(i) \/ OutputStep(i) \/ Abandon(i) \/ Die(i)
      PROVE  MapMoves
  <2>1. CASE FinishInvocation(Task(i))
    BY <1>1, <2>1, ActorFacts
  <2>2. CASE \/ TaskSend(i) \/ GuestStep(i) \/ Abandon(i) \/ Die(i) \/ Fail(Task(i), "Internal")
             \/ OutputStep(i)
    <3>1. UNCHANGED pc \/ \E to : Goto(Task(i), to) \/ Goto(Output(i), to)
      <4>1. CASE TaskSend(i) \/ GuestStep(i)
        BY <4>1 DEF TaskSend, GuestStep, GuestEvent, GuestViolation, GuestEnds
      <4>2. CASE Abandon(i) \/ Die(i)
        BY <4>2 DEF Abandon, Die
      <4>3. CASE Fail(Task(i), "Internal") \/ OutputStep(i)
        BY <4>3 DEF Fail, OutputStep
      <4> QED
        BY <2>2, <4>1, <4>2, <4>3
    <3>2. \A j \in Invocations : pc'[Handler(j)] = pc[Handler(j)]
      BY <3>1, GotoMoves, ActorFacts
    <3>3. UNCHANGED invocations
      BY <2>2
      DEF TaskSend, GuestStep, GuestEvent, GuestViolation, GuestEnds, Abandon, Die, Fail, OutputStep,
          sessionVars
    <3> QED
      BY <1>4, <3>2, <3>3
  <2> QED
    BY <1>5, <2>1, <2>2 DEF TaskStep
<1>6. ASSUME NEW x \in Callers, NEW i \in Invocations, CancellerStep(x, i)
      PROVE  MapMoves
  <2>1. CASE FinishInvocation(Canceller(x, i))
    BY <1>1, <2>1, ActorFacts
  <2>2. CASE EnterGate(x, i) \/ Reap(x, i) \/ Join(x, i)
    <3>1. \A j \in Invocations : pc'[Handler(j)] = pc[Handler(j)]
      BY <2>2, ActorFacts DEF EnterGate, Reap, Join, Goto, TypeOK
    <3>2. UNCHANGED invocations
      BY <2>2 DEF EnterGate, Reap, Join, sessionVars
    <3> QED
      BY <1>4, <3>1, <3>2
  <2> QED
    BY <1>6, <2>1, <2>2 DEF CancellerStep
<1>7. ASSUME NEW x \in Callers,
             \/ CallerStep(x) \/ BeginClose(x) \/ Close(x) \/ AbortCaller(x)
             \/ \E d \in Ids : BeginCancel(x, d)
      PROVE  MapMoves
  <2>1. UNCHANGED invocations
    BY <1>7
    DEF CallerStep, Lookup, AskHistory, Sweep, CloseAnswered, OwnerReturns, CancelAnswered,
        BeginClose, Close, AbortCaller, BeginCancel, sessionVars
  <2>2. \A b \in Actors : pc'[b] = pc[b] \/ pc'[b] = "gate"
    BY <1>7
    DEF CallerStep, Lookup, AskHistory, Sweep, CloseAnswered, OwnerReturns, CancelAnswered,
        BeginClose, Close, AbortCaller, BeginCancel, Goto, TypeOK
  <2>3. \A j \in Invocations : pc[Handler(j)] = "acquired" => pc'[Handler(j)] # "added"
    BY <2>2, ActorFacts
  <2> QED
    BY <2>1, <2>3, MapStays
<1>8. CASE Disconnect \/ UNCHANGED vars
  BY <1>4, <1>8 DEF Disconnect, vars, sessionVars
<1> QED
  BY <1>3, <1>5, <1>6, <1>7, <1>8 DEF Next, ClientStep

\* A guest that may run is listed: only a finisher of its own invocation could
\* take it off the map, and every one of them comes after its task.
LEMMA ListedStep ==
    ASSUME TypeOK, Moves, MapMoves, FinishersAreLate, Listed
    PROVE  Listed'
<1>1. SUFFICES ASSUME FreshIds, NEW i \in Invocations,
                      \/ pc'[Task(i)] \in Driving
                      \/ pc'[Handler(i)] = "added" /\ pc'[Task(i)] = "ready"
               PROVE  invocations'[RequestId[i]] = i
  BY DEF Listed, FreshIds
<1>2. HandlerMove(i) /\ TaskMove(i) /\ RequestId[i] \in Ids
  BY InstanceAssumption DEF Moves
<1>3. CASE pc[Handler(i)] = "acquired" /\ pc'[Handler(i)] = "added"
  BY <1>3 DEF MapMoves
<1>4. CASE ~(pc[Handler(i)] = "acquired" /\ pc'[Handler(i)] = "added")
  <2>1. \/ pc[Task(i)] \in Driving
        \/ pc[Handler(i)] = "added" /\ pc[Task(i)] = "ready"
    <3>1. CASE pc'[Task(i)] \in Driving
      BY <1>2, <3>1 DEF TaskMove, Driving, Suspended, Finishing
    <3>2. CASE pc'[Handler(i)] = "added" /\ pc'[Task(i)] = "ready"
      <4>1. pc[Handler(i)] = "added"
        BY <1>2, <1>4, <3>2 DEF HandlerMove, Finishing
      <4>2. pc[Task(i)] \in {"ready", "dead"}
        BY <4>1 DEF FinishersAreLate
      <4> QED
        BY <1>2, <3>2, <4>1, <4>2 DEF TaskMove, Driving, Suspended, Finishing
    <3> QED
      BY <1>1, <3>1, <3>2
  <2>2. invocations[RequestId[i]] = i /\ i # None
    BY <1>1, <2>1, InstanceAssumption DEF Listed
  <2>3. ~Over(i) /\ pc[Task(i)] # "entry"
    BY <2>1 DEF Over, Driving
  <2>4. ASSUME EntryRemoved(RequestId[i]) PROVE FALSE
    <3>1. PICK a \in Finishers : RequestId[Subject(a)] = RequestId[i] /\ pc[a] = "entry"
      BY <2>4 DEF EntryRemoved
    <3>2. PICK j \in Invocations : /\ Subject(a) = j
                                   /\ \/ a = Handler(j) \/ a = Task(j)
                                      \/ \E x \in Callers : a = Canceller(x, j)
      BY ActorFacts DEF Finishers, Handlers, Tasks, Cancellers
    <3>3. j = i
      BY <1>1, <3>1, <3>2 DEF FreshIds
    <3> QED
      BY <2>3, <3>1, <3>2, <3>3 DEF FinishersAreLate, Finishing
  <2>5. ~EntryAdded(RequestId[i])
    BY <2>2 DEF EntryAdded
  <2> QED
    BY <1>2, <2>2, <2>4, <2>5 DEF MapMoves, EntryStays
<1> QED
  BY <1>3, <1>4

-----------------------------------------------------------------------------
\* There are finitely many actors that finish invocations.
LEMMA FinishersFinite == IsFiniteSet(Finishers)
<1> DEFINE Tags == {"handler", "task", "canceller"}
           Pairs == Tags \X (Callers \cup Invocations)
           Triples == Pairs \X Invocations
           f == [a \in Finishers |-> <<<<a[1], a[2]>>, a[3]>>]
<1>1. IsFiniteSet(Tags)
  <2>1. Tags = ({"handler"} \cup {"task"}) \cup {"canceller"}
    OBVIOUS
  <2>2. IsFiniteSet({"handler"})
    BY FS_Singleton
  <2>3. IsFiniteSet({"handler"} \cup {"task"})
    BY <2>2, FS_AddElement
  <2> QED
    BY <2>1, <2>3, FS_AddElement
<1>2. IsFiniteSet(Callers \cup Invocations) /\ IsFiniteSet(Invocations)
  BY InstanceAssumption, FS_Union
<1>3. IsFiniteSet(Pairs)
  BY <1>1, <1>2, FS_Product
<1>4. IsFiniteSet(Triples)
  BY <1>2, <1>3, FS_Product
<1>5. \A a \in Finishers : /\ a[1] \in Tags /\ a[2] \in Callers \cup Invocations /\ a[3] \in Invocations
                           /\ a = <<a[1], a[2], a[3]>>
  BY DEF Finishers, Handlers, Tasks, Cancellers, Handler, Task, Canceller
<1>6. f \in [Finishers -> Triples]
  BY <1>5
<1>7. \A a, b \in Finishers : f[a] = f[b] => a = b
  BY <1>5
<1>8. f \in Injection(Finishers, Triples)
  BY <1>6, <1>7, Fun_IsInj
<1> QED
  BY <1>4, <1>8, FS_Injection

\* The sets the counter counts are finite.
LEMMA CountsFinite ==
    /\ IsFiniteSet(Registered) /\ IsFiniteSet(Uncounted)
    /\ IsFiniteSet(Registered)' /\ IsFiniteSet(Uncounted)'
<1>1. /\ Registered \in SUBSET Ids /\ Uncounted \in SUBSET Finishers
      /\ Registered' \in SUBSET Ids /\ Uncounted' \in SUBSET Finishers
  BY DEF Registered, Uncounted
<1> QED
  BY <1>1, FinishersFinite, InstanceAssumption, FS_Subset

\* The steps that neither count nor uncount.
LEMMA CountStays ==
    ASSUME CounterExact, UNCHANGED <<active, invocations>>,
           \A a \in Finishers : pc[a] = "count" <=> pc'[a] = "count"
    PROVE  CounterExact'
<1>1. Registered' = Registered /\ Uncounted' = Uncounted
  BY DEF Registered, Uncounted
<1> QED
  BY <1>1 DEF CounterExact

\* An entry added is counted in the same step, under the lifecycle mutex.
LEMMA AddCounts ==
    ASSUME TypeOK, CounterExact, NEW i \in Invocations, AddInvocation(i)
    PROVE  CounterExact'
<1> DEFINE d == RequestId[i]
<1>1. d \in Ids /\ i # None
  BY InstanceAssumption
<1>2. invocations[d] = None /\ active < MaxPerSession /\ active' = active + 1
  BY DEF AddInvocation, CanAdd
<1>3. \A e \in Ids : invocations'[e] = IF e = d THEN i ELSE invocations[e]
  BY DEF AddInvocation, TypeOK
<1>4. Registered' = Registered \cup {d} /\ d \notin Registered
  BY <1>1, <1>2, <1>3 DEF Registered
<1>5. \A a \in Finishers : pc[a] = "count" <=> pc'[a] = "count"
  <2>1. \A b \in Actors : pc'[b] = IF b = Handler(i) THEN "added" ELSE pc[b]
    BY GotoMoves, ActorFacts DEF AddInvocation
  <2>2. pc[Handler(i)] = "acquired"
    BY DEF AddInvocation
  <2> QED
    BY <2>1, <2>2 DEF Actors
<1>6. Uncounted' = Uncounted
  BY <1>5 DEF Uncounted
<1>7. Cardinality(Registered') = Cardinality(Registered) + 1
  BY <1>4, CountsFinite, FS_AddElement
<1>8. Cardinality(Registered) \in Nat /\ Cardinality(Uncounted) \in Nat
  BY CountsFinite, FS_CardinalityType
<1> QED
  BY <1>2, <1>6, <1>7, <1>8, LimitAssumption DEF CounterExact, TypeOK

\* finish_invocation subtracts once for each entry it really removed.
LEMMA FinishCounts ==
    ASSUME TypeOK, CounterExact, NEW a \in Finishers, FinishInvocation(a)
    PROVE  CounterExact'
<1> DEFINE d == RequestId[Subject(a)]
<1>1. a \in Actors /\ Subject(a) \in Invocations /\ d \in Ids
  BY InstanceAssumption
  DEF Actors, Finishers, Handlers, Tasks, Cancellers, Handler, Task, Canceller, Subject
<1>2. Cardinality(Registered) \in Nat /\ Cardinality(Uncounted) \in Nat
  BY CountsFinite, FS_CardinalityType
<1>3. AfterFinish(a) # "count"
  BY DEF AfterFinish
<1>4. CASE FinishRequest(a) \/ RecordCompletion(a)
  <2>1. \E to \in {"history", "entry"} : Goto(a, to)
    BY <1>4 DEF FinishRequest, RecordCompletion
  <2>2. pc[a] # "count" /\ UNCHANGED <<active, invocations>>
    BY <1>4 DEF FinishRequest, RecordCompletion
  <2>3. \A b \in Finishers : pc[b] = "count" <=> pc'[b] = "count"
    BY <1>1, <2>1, <2>2, GotoMoves DEF Actors
  <2> QED
    BY <2>2, <2>3, CountStays
<1>5. CASE RemoveEntry(a) /\ invocations[d] = None
  <2>1. Goto(a, AfterFinish(a)) /\ pc[a] = "entry" /\ UNCHANGED active
    BY <1>5 DEF RemoveEntry
  <2>2. UNCHANGED invocations
    BY <1>1, <1>5 DEF RemoveEntry, TypeOK
  <2>3. \A b \in Finishers : pc[b] = "count" <=> pc'[b] = "count"
    BY <1>1, <1>3, <2>1, GotoMoves DEF Actors
  <2> QED
    BY <2>1, <2>2, <2>3, CountStays
<1>6. CASE RemoveEntry(a) /\ invocations[d] # None
  <2>1. Goto(a, "count") /\ pc[a] = "entry" /\ UNCHANGED active
    BY <1>6 DEF RemoveEntry
  <2>2. \A e \in Ids : invocations'[e] = IF e = d THEN None ELSE invocations[e]
    BY <1>6 DEF RemoveEntry, TypeOK
  <2>3. Registered' = Registered \ {d} /\ d \in Registered
    BY <1>1, <1>6, <2>2 DEF Registered
  <2>4. \A b \in Finishers : pc'[b] = IF b = a THEN "count" ELSE pc[b]
    BY <1>1, <2>1, GotoMoves DEF Actors
  <2>5. Uncounted' = Uncounted \cup {a} /\ a \notin Uncounted
    BY <2>1, <2>4 DEF Uncounted
  <2>6. Cardinality(Registered') = Cardinality(Registered) - 1
    BY <2>3, CountsFinite, FS_RemoveElement
  <2>7. Cardinality(Uncounted') = Cardinality(Uncounted) + 1
    BY <2>5, CountsFinite, FS_AddElement
  <2> QED
    BY <1>2, <2>1, <2>6, <2>7 DEF CounterExact, TypeOK
<1>7. CASE Uncount(a)
  <2>1. Goto(a, AfterFinish(a)) /\ pc[a] = "count" /\ active' = active - 1 /\ UNCHANGED invocations
    BY <1>7 DEF Uncount
  <2>2. \A b \in Finishers : pc'[b] = IF b = a THEN AfterFinish(a) ELSE pc[b]
    BY <1>1, <2>1, GotoMoves DEF Actors
  <2>3. Uncounted' = Uncounted \ {a} /\ a \in Uncounted
    BY <1>3, <2>1, <2>2 DEF Uncounted
  <2>4. Cardinality(Uncounted') = Cardinality(Uncounted) - 1
    BY <2>3, CountsFinite, FS_RemoveElement
  <2>5. Registered' = Registered
    BY <2>1 DEF Registered
  <2>6. active' = Cardinality(Registered') + Cardinality(Uncounted')
    BY <1>2, <2>1, <2>4, <2>5 DEF CounterExact
  <2>7. active' <= MaxPerSession
    BY <1>2, <2>1, LimitAssumption DEF CounterExact
  <2> QED
    BY <2>6, <2>7 DEF CounterExact
<1> QED
  BY <1>4, <1>5, <1>6, <1>7 DEF FinishInvocation

-----------------------------------------------------------------------------
\* A step that neither finishes nor adds leaves the table alone, and nobody
\* enters or leaves the last two stages of finish_invocation by it.
Elsewhere ==
    /\ UNCHANGED <<invocations, completed, active, registered>>
    /\ \A a \in Finishers : \/ pc'[a] = pc[a]
                            \/ pc[a] \notin {"entry", "count"} /\ pc'[a] \notin {"entry", "count"}

\* Every step finishes, adds or is elsewhere.
LEMMA StepKinds ==
    ASSUME TypeOK, Lifecycle, [Next]_vars
    PROVE  \/ \E a \in Finishers : FinishInvocation(a)
           \/ \E i \in Invocations : AddInvocation(i)
           \/ Elsewhere
<1>0. Finishers \subseteq Actors
  BY DEF Actors
<1>1. CASE Disconnect \/ UNCHANGED vars
  BY <1>1 DEF Disconnect, vars, sessionVars, Elsewhere
<1>2. ASSUME NEW i \in Invocations, BeginRequest(i) \/ AbortHandler(i) \/ HandlerStep(i),
             ~FinishInvocation(Handler(i)), ~AddInvocation(i)
      PROVE  Elsewhere
  <2>1. Handler(i) \in Actors /\ Task(i) \in Actors /\ Handler(i) # Task(i)
    BY ActorFacts
  <2>2. UNCHANGED <<invocations, completed, active, registered>>
    BY <1>2
    DEF BeginRequest, AbortHandler, HandlerStep, Refuse, SpawnTask, AbortSilent, SilentDone,
        StartTask, Fault, sessionVars
  <2>3. CASE SpawnTask(i) \/ StartTask(i)
    <3>1. \A b \in Actors : \/ pc'[b] = pc[b]
                            \/ pc[b] \notin {"entry", "count"} /\ pc'[b] \notin {"entry", "count"}
      <4>1. CASE SpawnTask(i)
        <5>1. pc[Task(i)] = "unborn" /\ pc[Handler(i)] = "begun"
          BY <4>1 DEF SpawnTask, Lifecycle, SpawnedOnce
        <5>2. \A b \in Actors : pc'[b] = IF b = Task(i) THEN "ready"
                                         ELSE IF b = Handler(i) THEN "acquired" ELSE pc[b]
          BY <2>1, <4>1 DEF SpawnTask, TypeOK
        <5> QED
          BY <5>1, <5>2
      <4>2. CASE StartTask(i)
        BY <2>1, <4>2 DEF StartTask, TypeOK
      <4> QED
        BY <2>3, <4>1, <4>2
    <3> QED
      BY <1>0, <2>2, <3>1 DEF Elsewhere
  <2>4. CASE \/ BeginRequest(i) \/ AbortHandler(i) \/ Refuse(i) \/ AbortSilent(i) \/ SilentDone(i)
             \/ Fault(i)
    <3>1. PICK to \in {"begun", "faulted", "fault", "silencing"} : Goto(Handler(i), to)
      BY <2>4 DEF BeginRequest, AbortHandler, Refuse, AbortSilent, SilentDone, Fault
    <3>2. pc[Handler(i)] \notin {"entry", "count"}
      BY <2>4 DEF BeginRequest, AbortHandler, Refuse, AbortSilent, SilentDone, Fault
    <3> QED
      BY <1>0, <2>1, <2>2, <3>1, <3>2, GotoMoves DEF Elsewhere
  <2> QED
    BY <1>2, <2>3, <2>4 DEF HandlerStep
<1>3. ASSUME NEW i \in Invocations,
             TaskStep(i) \/ GuestStep(i) \/ OutputStep(i) \/ Abandon(i) \/ Die(i),
             ~FinishInvocation(Task(i))
      PROVE  Elsewhere
  <2>1. Task(i) \in Actors /\ Output(i) \in Actors /\ Output(i) \notin Finishers
    BY ActorFacts, OutputsDoNotFinish
  <2>2. UNCHANGED <<invocations, completed, active, registered>>
    BY <1>3
    DEF TaskStep, TaskSend, GuestStep, GuestEvent, GuestViolation, GuestEnds, Abandon, Die, Fail,
        OutputStep, sessionVars
  <2>3. CASE OutputStep(i)
    <3>1. UNCHANGED pc \/ \E to : Goto(Output(i), to)
      BY <2>3 DEF OutputStep, Fail
    <3> QED
      BY <1>0, <2>1, <2>2, <3>1, GotoMoves DEF Elsewhere
  <2>4. CASE TaskStep(i) \/ GuestStep(i) \/ Abandon(i) \/ Die(i)
    <3>1. \/ UNCHANGED pc
          \/ \E to \in {"next", "confirm", "send", "fail", "request", "dead"} :
               Goto(Task(i), to) /\ pc[Task(i)] \notin {"entry", "count"}
      <4>1. CASE TaskSend(i)
        BY <4>1 DEF TaskSend
      <4>2. CASE GuestStep(i)
        BY <4>2 DEF GuestStep, GuestEvent, GuestViolation, GuestEnds
      <4>3. CASE Abandon(i) \/ Die(i)
        BY <4>3 DEF Abandon, Die, Suspended
      <4>4. CASE Fail(Task(i), "Internal")
        BY <4>4, ActorFacts DEF Fail, AfterFail
      <4> QED
        BY <1>3, <2>4, <4>1, <4>2, <4>3, <4>4 DEF TaskStep
    <3> QED
      BY <1>0, <2>1, <2>2, <3>1, GotoMoves DEF Elsewhere
  <2> QED
    BY <1>3, <2>3, <2>4
<1>4. ASSUME NEW x \in Callers, NEW i \in Invocations, CancellerStep(x, i),
             ~FinishInvocation(Canceller(x, i))
      PROVE  Elsewhere
  <2>1. Canceller(x, i) \in Actors /\ Output(i) \in Actors /\ Output(i) \notin Finishers
        /\ Canceller(x, i) # Output(i)
    BY ActorFacts, OutputsDoNotFinish
  <2>2. EnterGate(x, i) \/ Reap(x, i) \/ Join(x, i)
    BY <1>4 DEF CancellerStep
  <2>3. UNCHANGED <<invocations, completed, active, registered>>
    BY <2>2 DEF EnterGate, Reap, Join, sessionVars
  <2>4. \A b \in Actors : b # Canceller(x, i) /\ b # Output(i) => pc'[b] = pc[b]
    BY <2>1, <2>2 DEF EnterGate, Reap, Join, Goto, TypeOK
  <2>5. pc[Canceller(x, i)] \in {"gate", "join", "reap"}
        /\ pc'[Canceller(x, i)] \in {"join", "reap", "request"}
    BY <2>1, <2>2 DEF EnterGate, Reap, Join, Goto, TypeOK
  <2> QED
    BY <1>0, <2>1, <2>3, <2>4, <2>5 DEF Elsewhere
<1>5. ASSUME NEW x \in Callers,
             \/ CallerStep(x) \/ BeginClose(x) \/ Close(x) \/ AbortCaller(x)
             \/ \E d \in Ids : BeginCancel(x, d)
      PROVE  Elsewhere
  <2>1. UNCHANGED <<invocations, completed, active, registered>>
    BY <1>5
    DEF CallerStep, Lookup, AskHistory, Sweep, CloseAnswered, OwnerReturns, CancelAnswered,
        BeginClose, Close, AbortCaller, BeginCancel, sessionVars
  <2>2. \A b \in Actors : pc'[b] = pc[b] \/ pc'[b] = "gate"
    BY <1>5
    DEF CallerStep, Lookup, AskHistory, Sweep, CloseAnswered, OwnerReturns, CancelAnswered,
        BeginClose, Close, AbortCaller, BeginCancel, Goto, TypeOK
  <2>3. Moves
    BY <1>5, CallerMoves
  <2>4. ASSUME NEW a \in Finishers, pc'[a] # pc[a]
        PROVE  pc[a] = "unborn" /\ pc'[a] = "gate"
    <3>1. pc'[a] = "gate" /\ a \in Actors
      BY <1>0, <2>2, <2>4
    <3>2. CASE \E j \in Invocations : a = Handler(j)
      BY <2>3, <2>4, <3>1, <3>2 DEF Moves, HandlerMove, Finishing
    <3>3. CASE \E j \in Invocations : a = Task(j)
      BY <2>3, <2>4, <3>1, <3>3 DEF Moves, TaskMove, Finishing, Driving
    <3>4. CASE \E y \in Callers, j \in Invocations : a = Canceller(y, j)
      BY <2>3, <2>4, <3>1, <3>4 DEF Moves, CancellerMove, Finishing
    <3> QED
      BY <3>1, <3>2, <3>3, <3>4, ActorKinds, OutputsDoNotFinish
  <2> QED
    BY <2>1, <2>4 DEF Elsewhere
<1> QED
  BY <1>1, <1>2, <1>3, <1>4, <1>5, ActorFacts DEF Next, ClientStep

\* The counter stays exact.
LEMMA CounterStep ==
    ASSUME TypeOK, Lifecycle, CounterExact, [Next]_vars
    PROVE  CounterExact'
<1>1. CASE \E a \in Finishers : FinishInvocation(a)
  BY <1>1, FinishCounts
<1>2. CASE \E i \in Invocations : AddInvocation(i)
  BY <1>2, AddCounts
<1>3. CASE Elsewhere
  BY <1>3, CountStays DEF Elsewhere
<1> QED
  BY <1>1, <1>2, <1>3, StepKinds

-----------------------------------------------------------------------------
\* What CompletionHistory::insert keeps: the id it is given, and every other id
\* unless the history is full.
LEMMA InsertFacts ==
    ASSUME NEW order \in Seq(Ids), NEW d \in Ids, Len(order) <= History
    PROVE  /\ Insert(order, d) \in Seq(Ids)
           /\ Len(Insert(order, d)) <= History
           /\ \E k \in DOMAIN Insert(order, d) : Insert(order, d)[k] = d
           /\ Len(order) = History => Len(Insert(order, d)) = History
           /\ \A e \in Ids : (\E k \in DOMAIN order : order[k] = e) =>
                \/ \E k \in DOMAIN Insert(order, d) : Insert(order, d)[k] = e
                \/ Len(Insert(order, d)) = History
<1>0. History \in Nat /\ History > 0 /\ Len(order) \in Nat
  BY LimitAssumption
<1>1. CASE \E k \in DOMAIN order : order[k] = d
  <2>1. Insert(order, d) = order
    BY <1>1 DEF Insert
  <2> QED
    BY <1>0, <1>1, <2>1
<1>2. CASE ~(\E k \in DOMAIN order : order[k] = d) /\ Len(order) >= History
  <2> DEFINE t == Tail(order)
             new == Append(t, d)
  <2>1. Insert(order, d) = new
    BY <1>2 DEF Insert
  <2>2. Len(order) = History /\ order # <<>>
    <3>0. Len(order) >= History
      BY <1>2
    <3>1. Len(order) = History
      BY <1>0, <3>0
    <3>2. Len(<<>>) = 0
      OBVIOUS
    <3> QED
      BY <1>0, <3>1, <3>2
  <2>3. t \in Seq(Ids) /\ Len(t) = Len(order) - 1
    BY <2>2
  <2> HIDE DEF t
  <2>4. new \in Seq(Ids) /\ Len(new) = Len(t) + 1 /\ new[Len(t) + 1] = d
    BY <2>3
  <2>5. Len(t) + 1 = History
    BY <1>0, <2>2, <2>3
  <2>6. DOMAIN new = 1..History
    BY <2>4, <2>5
  <2> HIDE DEF new
  <2>7. new[History] = d /\ History \in DOMAIN new /\ Len(new) = History
    BY <1>0, <2>4, <2>5, <2>6
  <2> QED
    BY <1>0, <2>1, <2>4, <2>7
<1>3. CASE ~(\E k \in DOMAIN order : order[k] = d) /\ ~(Len(order) >= History)
  <2> DEFINE new == Append(order, d)
  <2>1. Insert(order, d) = new
    BY <1>3 DEF Insert
  <2>2. /\ new \in Seq(Ids) /\ Len(new) = Len(order) + 1 /\ DOMAIN new = 1..(Len(order) + 1)
        /\ new[Len(order) + 1] = d
    BY <1>0
  <2>3. \A k \in DOMAIN order : k \in DOMAIN new /\ new[k] = order[k]
    BY <1>0, <2>2
  <2> HIDE DEF new
  <2>0. ~(Len(order) >= History)
    BY <1>3
  <2>4. Len(new) <= History /\ Len(order) # History
    BY <1>0, <2>0, <2>2
  <2>5. Len(order) + 1 \in DOMAIN new
    BY <1>0, <2>2
  <2> QED
    BY <2>1, <2>2, <2>3, <2>4, <2>5
<1> QED
  BY <1>1, <1>2, <1>3

\* The history only grows or overflows, and Recorded is kept.
LEMMA RecordedStep ==
    ASSUME TypeOK, Lifecycle, Recorded, [Next]_vars
    PROVE  /\ Recorded'
           /\ registered \subseteq registered'
           /\ Len(completed) = History => Len(completed') = History
           /\ \A d \in Ids : Remembers(d) => Remembers(d)'
<1>1. ASSUME UNCHANGED completed
      PROVE  /\ Len(completed') <= History
             /\ Len(completed) = History => Len(completed') = History
             /\ \A d \in Ids : Remembers(d) => Remembers(d)'
  BY <1>1 DEF Recorded, Remembers
<1>2. CASE Elsewhere
  <2>1. \A a \in Finishers : pc'[a] = "entry" => Remembers(RequestId[Subject(a)])'
    BY <1>2 DEF Elsewhere, Recorded, Remembers
  <2>2. \A d \in registered' : invocations'[d] # None \/ Remembers(d)'
    BY <1>2 DEF Elsewhere, Recorded, Remembers
  <2> QED
    BY <1>1, <1>2, <2>1, <2>2 DEF Elsewhere, Recorded
<1>3. ASSUME NEW i \in Invocations, AddInvocation(i)
      PROVE  /\ Recorded'
             /\ registered \subseteq registered'
             /\ UNCHANGED completed
  <2>1. RequestId[i] \in Ids /\ i # None /\ Handler(i) \in Actors
    BY InstanceAssumption, ActorFacts
  <2>2. /\ UNCHANGED completed /\ registered' = registered \cup {RequestId[i]}
        /\ \A d \in Ids : invocations'[d] = IF d = RequestId[i] THEN i ELSE invocations[d]
        /\ \A b \in Actors : pc'[b] = IF b = Handler(i) THEN "added" ELSE pc[b]
    BY <1>3, <2>1, GotoMoves DEF AddInvocation, TypeOK
  <2>3. \A a \in Finishers : pc'[a] = "entry" => Remembers(RequestId[Subject(a)])'
    BY <2>2 DEF Recorded, Remembers, Actors
  <2>4. \A d \in registered' : invocations'[d] # None \/ Remembers(d)'
    BY <2>1, <2>2 DEF Recorded, Remembers, TypeOK
  <2> QED
    BY <2>2, <2>3, <2>4 DEF Recorded
<1>4. ASSUME NEW a \in Finishers, FinishInvocation(a)
      PROVE  /\ Recorded'
             /\ UNCHANGED registered
             /\ Len(completed) = History => Len(completed') = History
             /\ \A d \in Ids : Remembers(d) => Remembers(d)'
  <2> DEFINE d == RequestId[Subject(a)]
  <2>1. a \in Actors /\ d \in Ids /\ Finishers \subseteq Actors
    BY InstanceAssumption
    DEF Actors, Finishers, Handlers, Tasks, Cancellers, Handler, Task, Canceller, Subject
  <2>2. UNCHANGED registered
    BY <1>4 DEF FinishInvocation, FinishRequest, RecordCompletion, RemoveEntry, Uncount
  <2>3. CASE RecordCompletion(a)
    <3>1. completed' = Insert(completed, d) /\ UNCHANGED invocations
      BY <2>3 DEF RecordCompletion
    <3>2. completed \in Seq(Ids) /\ Len(completed) <= History
      BY DEF TypeOK, Recorded
    <3>3. /\ Len(completed') <= History
          /\ Len(completed) = History => Len(completed') = History
          /\ Remembers(d)'
      BY <2>1, <3>1, <3>2, InsertFacts DEF Remembers
    <3>4. \A e \in Ids : Remembers(e) => Remembers(e)'
      BY <2>1, <3>1, <3>2, InsertFacts DEF Remembers
    <3>5. \A b \in Finishers : RequestId[Subject(b)] \in Ids
      BY InstanceAssumption
      DEF Finishers, Handlers, Tasks, Cancellers, Handler, Task, Canceller, Subject
    <3>6. \A b \in Finishers : pc'[b] = IF b = a THEN "entry" ELSE pc[b]
      BY <2>1, <2>3, GotoMoves DEF RecordCompletion
    <3>7. \A b \in Finishers : pc'[b] = "entry" => Remembers(RequestId[Subject(b)])'
      BY <3>3, <3>4, <3>5, <3>6 DEF Recorded
    <3>8. \A e \in registered' : invocations'[e] # None \/ Remembers(e)'
      BY <2>2, <3>1, <3>4 DEF Recorded, TypeOK
    <3> QED
      BY <2>2, <3>3, <3>4, <3>7, <3>8 DEF Recorded
  <2>4. CASE FinishRequest(a) \/ RemoveEntry(a) \/ Uncount(a)
    <3>1. UNCHANGED completed
      BY <2>4 DEF FinishRequest, RemoveEntry, Uncount
    <3>2. PICK to \in {"history", "count", AfterFinish(a)} : Goto(a, to)
      BY <2>4 DEF FinishRequest, RemoveEntry, Uncount
    <3>3. \A b \in Finishers : pc'[b] = "entry" => pc[b] = "entry"
      BY <2>1, <3>2, GotoMoves DEF AfterFinish
    <3>4. \A b \in Finishers : pc'[b] = "entry" => Remembers(RequestId[Subject(b)])'
      BY <3>1, <3>3 DEF Recorded, Remembers
    <3>5. \A e \in registered : invocations'[e] # None \/ Remembers(e)
      <4>1. CASE UNCHANGED invocations
        BY <4>1 DEF Recorded
      <4>2. CASE RemoveEntry(a)
        <5>1. pc[a] = "entry" /\ \A e \in Ids : e # d => invocations'[e] = invocations[e]
          BY <4>2 DEF RemoveEntry, TypeOK
        <5> QED
          BY <5>1 DEF Recorded, TypeOK
      <4> QED
        BY <2>4, <4>1, <4>2 DEF FinishRequest, Uncount
    <3>6. \A e \in registered' : invocations'[e] # None \/ Remembers(e)'
      BY <2>2, <3>1, <3>5 DEF Remembers
    <3> QED
      BY <1>1, <2>2, <3>1, <3>4, <3>6 DEF Recorded
  <2> QED
    BY <1>4, <2>3, <2>4 DEF FinishInvocation
<1> QED
  BY <1>1, <1>2, <1>3, <1>4, StepKinds

-----------------------------------------------------------------------------
\* What a caller does of its own, the client's part included.
CallerActs(x) ==
    \/ CallerStep(x) \/ BeginClose(x) \/ Close(x) \/ AbortCaller(x)
    \/ \E d \in Ids : BeginCancel(x, d)

\* Nobody else touches a caller.
LEMMA CallersAlone ==
    ASSUME [Next]_vars
    PROVE  \/ \E x \in Callers : CallerActs(x)
           \/ UNCHANGED <<caller, target, answer, knew, closed>>
<1>1. ASSUME NEW a, FinishInvocation(a)
      PROVE  UNCHANGED <<caller, target, answer, knew, closed>>
  BY <1>1 DEF FinishInvocation, FinishRequest, RecordCompletion, RemoveEntry, Uncount, callerVars
<1>2. ASSUME NEW i \in Invocations, BeginRequest(i) \/ AbortHandler(i) \/ HandlerStep(i)
      PROVE  UNCHANGED <<caller, target, answer, knew, closed>>
  BY <1>1, <1>2
  DEF BeginRequest, AbortHandler, HandlerStep, Refuse, SpawnTask, AddInvocation, AbortSilent,
      SilentDone, StartTask, Fault, sessionVars, callerVars
<1>3. ASSUME NEW i \in Invocations,
             TaskStep(i) \/ GuestStep(i) \/ OutputStep(i) \/ Abandon(i) \/ Die(i)
      PROVE  UNCHANGED <<caller, target, answer, knew, closed>>
  BY <1>1, <1>3
  DEF TaskStep, TaskSend, GuestStep, GuestEvent, GuestViolation, GuestEnds, OutputStep, Fail,
      Abandon, Die, sessionVars, callerVars
<1>4. ASSUME NEW x \in Callers, NEW i \in Invocations, CancellerStep(x, i)
      PROVE  UNCHANGED <<caller, target, answer, knew, closed>>
  BY <1>1, <1>4 DEF CancellerStep, EnterGate, Reap, Join, sessionVars, callerVars
<1>5. CASE Disconnect \/ UNCHANGED vars
  BY <1>5 DEF Disconnect, vars, sessionVars, callerVars
<1> QED
  BY <1>2, <1>3, <1>4, <1>5 DEF Next, ClientStep, CallerActs

\* What a cancel request knew when it began: Asked and NotFoundHonest are kept.
LEMMA AskedStep ==
    ASSUME TypeOK, Lifecycle, Recorded, Asked, NotFoundHonest, [Next]_vars
    PROVE  Asked' /\ NotFoundHonest'
<1>1. /\ registered \subseteq registered'
      /\ Len(completed) = History => Len(completed') = History
      /\ \A d \in Ids : Remembers(d) => Remembers(d)'
  BY RecordedStep
<1>2. ASSUME NEW y \in Callers, UNCHANGED <<caller[y], target[y], answer[y], knew[y]>>
      PROVE  /\ caller'[y] = "idle" => answer'[y] # "NotFound"
             /\ knew'[y] /\ caller'[y] \in {"looking", "asking"} => target'[y] \in registered'
             /\ knew'[y] /\ caller'[y] = "asking" => Remembers(target[y])'
             /\ answer'[y] = "NotFound" /\ knew'[y] => Len(completed') = History
  <2>1. knew[y] /\ caller[y] = "asking" => target[y] \in Ids /\ Remembers(target[y])
    BY DEF Asked, TypeOK
  <2>2. \A d \in Ids : d = target[y] /\ Remembers(d) => d = target'[y] /\ Remembers(d)'
    BY <1>1, <1>2
  <2>3. knew'[y] /\ caller'[y] = "asking" => Remembers(target[y])'
    BY <1>2, <2>1, <2>2
  <2> QED
    BY <1>1, <1>2, <2>3 DEF Asked, NotFoundHonest
<1>3. CASE UNCHANGED <<caller, target, answer, knew>>
  BY <1>2, <1>3 DEF Asked, NotFoundHonest
<1>4. ASSUME NEW x \in Callers, CallerActs(x)
      PROVE  Asked' /\ NotFoundHonest'
  <2>1. \A y \in Callers : y # x => UNCHANGED <<caller[y], target[y], answer[y], knew[y]>>
    BY <1>4
    DEF CallerActs, CallerStep, Lookup, AskHistory, Sweep, CloseAnswered, OwnerReturns,
        CancelAnswered, Reply, BeginClose, Close, AbortCaller, BeginCancel, TypeOK
  <2>2. UNCHANGED <<completed, registered, invocations>>
    BY <1>4
    DEF CallerActs, CallerStep, Lookup, AskHistory, Sweep, CloseAnswered, OwnerReturns,
        CancelAnswered, BeginClose, Close, AbortCaller, BeginCancel, sessionVars
  <2>3. /\ caller'[x] = "idle" => answer'[x] # "NotFound"
        /\ knew'[x] /\ caller'[x] \in {"looking", "asking"} => target'[x] \in registered'
        /\ knew'[x] /\ caller'[x] = "asking" => Remembers(target[x])'
        /\ answer'[x] = "NotFound" /\ knew'[x] => Len(completed') = History
    <3>1. CASE \E d \in Ids : BeginCancel(x, d)
      <4>1. PICK d \in Ids : BeginCancel(x, d)
        BY <3>1
      <4>2. /\ caller[x] = "idle" /\ caller'[x] = "looking" /\ target'[x] = d
            /\ knew'[x] = (d \in registered) /\ answer'[x] = answer[x]
        BY <4>1 DEF BeginCancel, TypeOK
      <4> QED
        BY <2>2, <4>2 DEF Asked
    <3>2. CASE BeginClose(x) \/ OwnerReturns(x) \/ AbortCaller(x) \/ Sweep(x)
      <4>1. /\ caller'[x] \notin {"idle", "looking", "asking"}
            /\ UNCHANGED <<answer, knew>>
        BY <3>2 DEF BeginClose, OwnerReturns, AbortCaller, Sweep, TypeOK
      <4> QED
        BY <2>2, <4>1 DEF NotFoundHonest
    <3>3. CASE Close(x)
      <4>1. caller'[x] \in {"sweeping", "ownerSweeping"} /\ answer'[x] \in {"closed", "closedBefore"}
        BY <3>3 DEF Close, TypeOK
      <4> QED
        BY <4>1
    <3>4. CASE Lookup(x)
      <4>1. /\ caller[x] = "looking" /\ UNCHANGED <<answer, knew, target>>
            /\ caller'[x] \in {"asking", "waiting"}
            /\ caller'[x] = "asking" => invocations[target[x]] = None
        BY <3>4, InstanceAssumption DEF Lookup, TypeOK
      <4>2. knew[x] => target[x] \in registered
        BY <4>1 DEF Asked
      <4>3. knew[x] /\ caller'[x] = "asking" => Remembers(target[x])
        BY <4>1, <4>2 DEF Recorded
      <4>4. knew'[x] /\ caller'[x] = "asking" => Remembers(target[x])'
        BY <2>2, <4>1, <4>3 DEF Remembers
      <4> QED
        BY <2>2, <4>1, <4>2, <4>4 DEF NotFoundHonest
    <3>5. CASE AskHistory(x)
      <4>1. /\ caller[x] = "asking" /\ caller'[x] = "answered" /\ UNCHANGED knew
            /\ answer'[x] = "NotFound" => ~(\E k \in DOMAIN completed : completed[k] = target[x])
        BY <3>5 DEF AskHistory, Reply, TypeOK
      <4>2. knew[x] => Remembers(target[x])
        BY <4>1 DEF Asked
      <4> QED
        BY <2>2, <4>1, <4>2 DEF Remembers
    <3>6. CASE CloseAnswered(x)
      <4>1. caller'[x] = "answered" /\ answer'[x] = answer[x] /\ UNCHANGED knew
        BY <3>6 DEF CloseAnswered, Reply, TypeOK
      <4> QED
        BY <2>2, <4>1 DEF NotFoundHonest
    <3>7. CASE \E i \in Invocations : CancelAnswered(x, i)
      <4>1. caller'[x] = "answered" /\ answer'[x] \in {None, "Cancelled", "AlreadyFinished"}
        BY <3>7, ActorFacts DEF CancelAnswered, Reply, TypeOK
      <4> QED
        BY <4>1, InstanceAssumption
    <3> QED
      BY <1>4, <3>1, <3>2, <3>3, <3>4, <3>5, <3>6, <3>7 DEF CallerActs, CallerStep
  <2> QED
    BY <1>2, <2>1, <2>3 DEF Asked, NotFoundHonest
<1> QED
  BY <1>3, <1>4, CallersAlone

-----------------------------------------------------------------------------
(* Who holds an ActiveInvocation.                                          *)

HandlerHolds == {"acquired", "added", "silencing"} \cup Finishing
CancellerHolds == {"gate", "join", "reap"} \cup Finishing

\* Nobody lets go of i.
Keeps(i) ==
    /\ invocations[RequestId[i]] = i => invocations'[RequestId[i]] = i
    /\ pc[Handler(i)] \in HandlerHolds => pc'[Handler(i)] \in HandlerHolds
    /\ \A x \in Callers : pc[Canceller(x, i)] \in CancellerHolds =>
                            pc'[Canceller(x, i)] \in CancellerHolds

\* Then i stays held.
LEMMA HeldStays ==
    ASSUME NEW i \in Invocations, Keeps(i), Held(i)
    PROVE  Held(i)'
BY DEF Keeps, Held, HandlerHolds, CancellerHolds

\* A task that runs after the step ran before it, unless it was just spawned.
LEMMA RanBefore ==
    ASSUME Moves, NEW i \in Invocations, pc'[Task(i)] \in {"ready"} \cup Driving
    PROVE  pc[Task(i)] \in {"ready"} \cup Driving \/ pc'[Handler(i)] = "acquired"
BY DEF Moves, TaskMove, Driving, Finishing, Suspended

\* Whoever drops the last Arc aborts the task whose handle is still there.
LEMMA DropKeeps ==
    ASSUME TypeOK, HandleKept, DropUnheld, UNCHANGED <<handle, finished>>,
           \A i \in Invocations :
             pc'[Task(i)] \in {"ready"} \cup Driving => pc[Task(i)] \in {"ready"} \cup Driving
    PROVE  HandleKept'
<1>1. SUFFICES ASSUME NEW i \in Invocations, pc'[Task(i)] \in {"ready"} \cup Driving,
                      ~aborted'[i], ~finished'[i]
               PROVE  handle'[i] /\ Held(i)'
  BY DEF HandleKept
<1>2. aborted'[i] = (aborted[i] \/ (Held(i) /\ ~Held(i)' /\ ~finished[i] /\ handle[i]))
  BY DEF DropUnheld
<1>3. ~aborted[i] /\ ~finished[i]
  BY <1>1, <1>2
<1>4. handle[i] /\ Held(i)
  BY <1>1, <1>3 DEF HandleKept
<1> QED
  BY <1>1, <1>2, <1>3, <1>4

\* A step that drops nothing.
LEMMA OthersKeep ==
    ASSUME HandleKept, UNCHANGED <<handle, aborted>>,
           \A i \in Invocations : finished[i] => finished'[i],
           \A i \in Invocations :
             pc'[Task(i)] \in {"ready"} \cup Driving =>
               pc[Task(i)] \in {"ready"} \cup Driving /\ Keeps(i)
    PROVE  HandleKept'
<1>1. SUFFICES ASSUME NEW i \in Invocations, pc'[Task(i)] \in {"ready"} \cup Driving,
                      ~aborted'[i], ~finished'[i]
               PROVE  handle'[i] /\ Held(i)'
  BY DEF HandleKept
<1>2. pc[Task(i)] \in {"ready"} \cup Driving /\ Keeps(i) /\ ~aborted[i] /\ ~finished[i]
  BY <1>1
<1>3. handle[i] /\ Held(i)
  BY <1>2 DEF HandleKept
<1> QED
  BY <1>2, <1>3, HeldStays

\* Keeps, when the map and the handlers and cancellers stay.
LEMMA NobodyLetsGo ==
    ASSUME UNCHANGED invocations, NEW i \in Invocations,
           pc'[Handler(i)] = pc[Handler(i)],
           \A x \in Callers : pc'[Canceller(x, i)] = pc[Canceller(x, i)]
    PROVE  Keeps(i)
BY DEF Keeps

\* The handler's steps.
LEMMA HandlerKeepsHandle ==
    ASSUME TypeOK, Lifecycle, Moves, HandleKept, FinishersAreLate, NEW i \in Invocations,
           BeginRequest(i) \/ AbortHandler(i) \/ HandlerStep(i), ~FinishInvocation(Handler(i))
    PROVE  HandleKept'
<1> DEFINE h == Handler(i)
<1>0. h \in Actors /\ Task(i) \in Actors /\ h # Task(i)
  BY ActorFacts
<1>1. UNCHANGED finished
  BY DEF BeginRequest, AbortHandler, HandlerStep, Refuse, SpawnTask, AddInvocation, AbortSilent,
         SilentDone, StartTask, Fault, outputVars
<1>2. \A b \in Actors : b # h /\ b # Task(i) => pc'[b] = pc[b]
  <2>1. CASE SpawnTask(i) \/ StartTask(i)
    BY <1>0, <2>1 DEF SpawnTask, StartTask, TypeOK
  <2>2. CASE ~(SpawnTask(i) \/ StartTask(i))
    <3>1. \E to : Goto(h, to)
      BY <2>2
      DEF BeginRequest, AbortHandler, HandlerStep, Refuse, AddInvocation, AbortSilent, SilentDone,
          Fault
    <3> QED
      BY <1>0, <3>1, GotoMoves
  <2> QED
    BY <2>1, <2>2
<1>3. \A j \in Invocations : j # i => /\ pc'[Handler(j)] = pc[Handler(j)]
                                      /\ pc'[Task(j)] = pc[Task(j)]
  BY <1>2, ActorFacts
<1>4. \A j \in Invocations, x \in Callers : pc'[Canceller(x, j)] = pc[Canceller(x, j)]
  BY <1>2, ActorFacts
<1>5. CASE StartTask(i) \/ AbortHandler(i)
  <2>1. DropUnheld /\ UNCHANGED handle /\ pc'[h] # "acquired"
    BY <1>0, <1>5 DEF StartTask, AbortHandler, Goto, TypeOK
  <2>2. \A j \in Invocations :
          pc'[Task(j)] \in {"ready"} \cup Driving => pc[Task(j)] \in {"ready"} \cup Driving
    BY <1>3, <2>1, RanBefore
  <2> QED
    BY <1>1, <2>1, <2>2, DropKeeps
<1>6. CASE BeginRequest(i) \/ Refuse(i) \/ AddInvocation(i) \/ Fault(i)
  <2>1. UNCHANGED <<handle, aborted>>
    BY <1>6 DEF BeginRequest, Refuse, AddInvocation, Fault, invocationVars
  <2>2. /\ pc[h] \in HandlerHolds => pc'[h] \in HandlerHolds
        /\ pc'[Task(i)] = pc[Task(i)]
    <3>1. PICK to \in {"begun", "faulted", "fault", "added"} : Goto(h, to)
      BY <1>6 DEF BeginRequest, Refuse, AddInvocation, Fault
    <3>2. pc'[h] = to /\ pc'[Task(i)] = pc[Task(i)]
      BY <1>0, <3>1, GotoMoves
    <3>3. pc[h] \in {"idle", "begun", "fault"} \/ pc'[h] = "added"
      BY <1>0, <1>6, GotoMoves DEF BeginRequest, Refuse, AddInvocation, Fault
    <3> QED
      BY <3>2, <3>3 DEF HandlerHolds, Finishing
  <2>3. \A j \in Invocations :
          invocations[RequestId[j]] = j => invocations'[RequestId[j]] = j
    <3>1. CASE UNCHANGED invocations
      BY <3>1
    <3>2. CASE AddInvocation(i)
      <4>1. invocations[RequestId[i]] = None /\ RequestId[i] \in Ids
        BY <3>2, InstanceAssumption DEF AddInvocation, CanAdd
      <4>2. \A d \in Ids : d # RequestId[i] => invocations'[d] = invocations[d]
        BY <3>2 DEF AddInvocation, TypeOK
      <4> QED
        BY <4>1, <4>2, InstanceAssumption
    <3> QED
      BY <1>6, <3>1, <3>2 DEF BeginRequest, Refuse, Fault, sessionVars
  <2>4. \A j \in Invocations : Keeps(j)
    <3>1. \A j \in Invocations : pc[Handler(j)] \in HandlerHolds => pc'[Handler(j)] \in HandlerHolds
      BY <1>3, <2>2
    <3> QED
      BY <1>4, <2>3, <3>1 DEF Keeps
  <2>5. \A j \in Invocations : pc'[Task(j)] = pc[Task(j)]
    BY <1>3, <2>2
  <2> QED
    BY <1>1, <2>1, <2>4, <2>5, OthersKeep
<1>7. CASE SpawnTask(i) \/ AbortSilent(i) \/ SilentDone(i)
  <2>1. UNCHANGED invocations
    BY <1>7 DEF SpawnTask, AbortSilent, SilentDone, sessionVars
  <2>2. \A j \in Invocations : j # i => Keeps(j) /\ handle'[j] = handle[j] /\ aborted'[j] = aborted[j]
    <3>1. \A j \in Invocations : j # i => Keeps(j)
      BY <1>3, <1>4, <2>1, NobodyLetsGo
    <3>2. \A j \in Invocations : j # i => handle'[j] = handle[j] /\ aborted'[j] = aborted[j]
      BY <1>7 DEF SpawnTask, AbortSilent, SilentDone, TypeOK, invocationVars
    <3> QED
      BY <3>1, <3>2
  <2>3. SUFFICES ASSUME NEW j \in Invocations, pc'[Task(j)] \in {"ready"} \cup Driving,
                        ~aborted'[j], ~finished'[j]
                 PROVE  handle'[j] /\ Held(j)'
    BY DEF HandleKept
  <2>4. CASE j # i
    <3>1. pc[Task(j)] \in {"ready"} \cup Driving /\ ~aborted[j] /\ ~finished[j] /\ Keeps(j)
      BY <1>1, <1>3, <2>2, <2>3, <2>4
    <3>2. handle[j] /\ Held(j)
      BY <3>1 DEF HandleKept
    <3>3. handle'[j]
      BY <2>2, <2>4, <3>2
    <3> QED
      BY <3>1, <3>2, <3>3, HeldStays
  <2>5. CASE j = i
    <3>1. CASE SpawnTask(i)
      <4>1. handle'[i]
        BY <3>1 DEF SpawnTask, TypeOK
      <4>2. pc'[h] = "acquired"
        BY <1>0, <3>1 DEF SpawnTask, TypeOK
      <4>3. Held(i)'
        BY <4>2 DEF Held
      <4> QED
        BY <2>5, <4>1, <4>3
    <3>2. CASE AbortSilent(i)
      <4>1. aborted'[i]
        BY <3>2 DEF AbortSilent, TypeOK
      <4> QED
        BY <2>3, <2>5, <4>1
    <3>3. CASE SilentDone(i)
      <4>1. Over(i)
        BY <3>3 DEF SilentDone
      <4>2. pc'[Task(i)] \in {"done", "dead"}
        BY <4>1, OverStays DEF Over
      <4> QED
        BY <2>3, <2>5, <4>2 DEF Driving
    <3> QED
      BY <1>7, <3>1, <3>2, <3>3
  <2> QED
    BY <2>4, <2>5
<1> QED
  BY <1>5, <1>6, <1>7 DEF HandlerStep

\* finish_invocation: only its last two stages let go, and they drop.
LEMMA FinishKeepsHandle ==
    ASSUME TypeOK, Moves, HandleKept, NEW a \in Finishers, FinishInvocation(a)
    PROVE  HandleKept'
<1>1. a \in Actors
  BY DEF Actors
<1>2. UNCHANGED <<handle, finished>>
  BY DEF FinishInvocation, FinishRequest, RecordCompletion, RemoveEntry, Uncount, invocationVars,
         outputVars
<1>3. PICK to \in Finishing \cup {AfterFinish(a)} : Goto(a, to) /\ pc[a] \in Finishing
  BY DEF FinishInvocation, FinishRequest, RecordCompletion, RemoveEntry, Uncount, Finishing
<1>4. \A b \in Actors : pc'[b] = IF b = a THEN to ELSE pc[b]
  BY <1>1, <1>3, GotoMoves
<1>5. \A i \in Invocations :
        pc'[Task(i)] \in {"ready"} \cup Driving => pc[Task(i)] \in {"ready"} \cup Driving
  <2>1. to \notin {"ready"} \cup Driving
    BY <1>3 DEF AfterFinish, Driving, Finishing
  <2> QED
    BY <1>4, <2>1, ActorFacts
<1>6. CASE DropUnheld
  BY <1>2, <1>5, <1>6, DropKeeps
<1>7. CASE FinishRequest(a) \/ RecordCompletion(a)
  <2>1. UNCHANGED <<aborted, invocations>> /\ \E go \in Finishing : Goto(a, go)
    BY <1>7 DEF FinishRequest, RecordCompletion, invocationVars, Finishing
  <2>2. \A b \in Actors : pc'[b] = pc[b] \/ (pc[b] \in Finishing /\ pc'[b] \in Finishing)
    BY <1>1, <1>3, <2>1, GotoMoves
  <2>3. ASSUME NEW i \in Invocations PROVE Keeps(i)
    <3>1. pc[Handler(i)] \in HandlerHolds => pc'[Handler(i)] \in HandlerHolds
      BY <2>2, ActorFacts DEF HandlerHolds
    <3>2. \A x \in Callers : pc[Canceller(x, i)] \in CancellerHolds =>
                               pc'[Canceller(x, i)] \in CancellerHolds
      BY <2>2, ActorFacts DEF CancellerHolds
    <3> QED
      BY <2>1, <3>1, <3>2 DEF Keeps
  <2> QED
    BY <1>2, <1>5, <2>1, <2>3, OthersKeep
<1> QED
  BY <1>6, <1>7 DEF FinishInvocation, RemoveEntry, Uncount

\* The task and its output: they hold nothing.
LEMMA GuestKeepsHandle ==
    ASSUME TypeOK, HandleKept, Moves, FinishersAreLate, NEW i \in Invocations,
           TaskStep(i) \/ GuestStep(i) \/ OutputStep(i) \/ Abandon(i) \/ Die(i),
           ~FinishInvocation(Task(i))
    PROVE  HandleKept'
<1>1. UNCHANGED <<handle, aborted, invocations>>
  BY DEF TaskStep, TaskSend, GuestStep, GuestEvent, GuestViolation, GuestEnds, OutputStep, Fail,
         Abandon, Die, sessionVars, invocationVars
<1>2. \A j \in Invocations : finished[j] => finished'[j]
  <2>1. ASSUME NEW k \in Invocations, NEW e, SendOk(k, e) \/ SendErr(k)
        PROVE  \A j \in Invocations : finished[j] => finished'[j]
    <3>1. \A j \in Invocations : j # k => finished'[j] = finished[j]
      BY <2>1 DEF SendOk, SendErr, TypeOK
    <3>2. CASE SendErr(k)
      BY <3>1, <3>2 DEF SendErr, TypeOK
    <3>3. CASE SendOk(k, e)
      <4>1. finished'[k] = (finished[k] \/ IsTerminal(sequence'[k]))
        BY <3>3 DEF SendOk, TypeOK
      <4> QED
        BY <3>1, <4>1
    <3> QED
      BY <2>1, <3>2, <3>3
  <2>2. CASE UNCHANGED finished
    BY <2>2
  <2>3. CASE Abandon(i)
    BY <2>3 DEF Abandon, TypeOK
  <2>4. \/ UNCHANGED finished
        \/ Abandon(i)
        \/ \E e : SendOk(i, e) \/ SendErr(i)
    <3>1. CASE TaskSend(i)
      BY <3>1 DEF TaskSend
    <3>2. CASE GuestStep(i) \/ Die(i)
      BY <3>2 DEF GuestStep, GuestEvent, GuestViolation, GuestEnds, Die, outputVars
    <3>3. CASE Fail(Task(i), "Internal") \/ OutputStep(i)
      BY <3>3, ActorFacts DEF Fail, OutputStep, outputVars
    <3> QED
      BY <3>1, <3>2, <3>3 DEF TaskStep
  <2> QED
    BY <2>1, <2>2, <2>3, <2>4
<1>3. UNCHANGED pc \/ \E to : Goto(Task(i), to) \/ Goto(Output(i), to)
  <2>1. CASE TaskSend(i) \/ GuestStep(i)
    BY <2>1 DEF TaskSend, GuestStep, GuestEvent, GuestViolation, GuestEnds
  <2>2. CASE Abandon(i) \/ Die(i)
    BY <2>2 DEF Abandon, Die
  <2>3. CASE Fail(Task(i), "Internal") \/ OutputStep(i)
    BY <2>3 DEF Fail, OutputStep
  <2> QED
    BY <2>1, <2>2, <2>3 DEF TaskStep
<1>4. \A j \in Invocations : /\ pc'[Handler(j)] = pc[Handler(j)]
                             /\ \A x \in Callers : pc'[Canceller(x, j)] = pc[Canceller(x, j)]
  BY <1>3, GotoMoves, ActorFacts
<1>5. \A j \in Invocations : Keeps(j)
  BY <1>1, <1>4, NobodyLetsGo
<1>6. \A j \in Invocations :
        pc'[Task(j)] \in {"ready"} \cup Driving => pc[Task(j)] \in {"ready"} \cup Driving
  <2>1. \A j \in Invocations : pc'[Handler(j)] = "acquired" => pc[Task(j)] \in {"ready", "dead"}
    BY <1>4 DEF FinishersAreLate
  <2>2. \A j \in Invocations : pc[Task(j)] = "dead" => pc'[Task(j)] = "dead"
    BY OverStays DEF Over
  <2> QED
    BY <2>1, <2>2, RanBefore DEF Driving
<1> QED
  BY <1>1, <1>2, <1>5, <1>6, OthersKeep

\* A canceller at the gate takes the handle only to abort the task, or when the
\* task has nothing left to decide.
LEMMA CancellerKeepsHandle ==
    ASSUME TypeOK, Lifecycle, HandleKept, NEW x \in Callers, NEW i \in Invocations,
           CancellerStep(x, i), ~FinishInvocation(Canceller(x, i))
    PROVE  HandleKept'
<1> DEFINE c == Canceller(x, i)
<1>0. c \in Actors /\ Output(i) \in Actors /\ c # Output(i)
  BY ActorFacts
<1>1. EnterGate(x, i) \/ Reap(x, i) \/ Join(x, i)
  BY DEF CancellerStep
<1>2. UNCHANGED <<invocations, finished>>
  BY <1>1 DEF EnterGate, Reap, Join, sessionVars, outputVars
<1>3. \A b \in Actors : b # c /\ b # Output(i) => pc'[b] = pc[b]
  BY <1>0, <1>1 DEF EnterGate, Reap, Join, Goto, TypeOK
<1>4. pc'[c] \in {"join", "reap", "request"}
  BY <1>0, <1>1 DEF EnterGate, Reap, Join, Goto, TypeOK
<1>5. \A j \in Invocations : pc'[Task(j)] = pc[Task(j)] /\ pc'[Handler(j)] = pc[Handler(j)]
  BY <1>3, ActorFacts
<1>6. ASSUME NEW j \in Invocations PROVE Keeps(j)
  <2>1. ASSUME NEW y \in Callers, pc[Canceller(y, j)] \in CancellerHolds
        PROVE  pc'[Canceller(y, j)] \in CancellerHolds
    <3>1. CASE y = x /\ j = i
      BY <1>4, <3>1 DEF CancellerHolds, Finishing
    <3>2. CASE ~(y = x /\ j = i)
      BY <1>3, <2>1, <3>2, ActorFacts
    <3> QED
      BY <3>1, <3>2
  <2> QED
    BY <1>2, <1>5, <2>1 DEF Keeps
<1>7. CASE Reap(x, i) \/ Join(x, i)
  <2>1. UNCHANGED <<handle, aborted>>
    BY <1>7 DEF Reap, Join, invocationVars
  <2> QED
    BY <1>2, <1>5, <1>6, <2>1, OthersKeep
<1>8. CASE EnterGate(x, i)
  <2>1. SUFFICES ASSUME NEW j \in Invocations, pc'[Task(j)] \in {"ready"} \cup Driving,
                        ~aborted'[j], ~finished'[j]
                 PROVE  handle'[j] /\ Held(j)'
    BY DEF HandleKept
  <2>2. pc[Task(j)] \in {"ready"} \cup Driving /\ ~finished[j]
    BY <1>2, <1>5, <2>1
  <2>3. CASE j # i
    <3>1. handle'[j] = handle[j] /\ aborted'[j] = aborted[j]
      BY <1>8, <2>3 DEF EnterGate, TypeOK
    <3>2. handle[j] /\ Held(j)
      BY <2>1, <2>2, <3>1 DEF HandleKept
    <3> QED
      BY <1>6, <3>1, <3>2, HeldStays
  <2>4. CASE j = i
    <3>1. ~cancelling[i]
      BY <2>2, <2>4 DEF Lifecycle, CancelledIsOver, Over, Driving
    <3>2. aborted'[i] = (aborted[i] \/ handle[i])
      BY <1>8, <2>2, <2>4, <3>1 DEF EnterGate, TypeOK
    <3>3. ~aborted[i] /\ ~handle[i]
      BY <2>1, <2>4, <3>2
    <3>4. handle[i]
      BY <2>2, <2>4, <3>3 DEF HandleKept
    <3> QED
      BY <3>3, <3>4
  <2> QED
    BY <2>3, <2>4
<1> QED
  BY <1>1, <1>7, <1>8

\* Every step keeps the handles.
LEMMA HandleStep ==
    ASSUME TypeOK, Lifecycle, HandleKept, FinishersAreLate, [Next]_vars
    PROVE  HandleKept'
<1>0. Moves
  BY EveryStepMoves
<1>1. CASE Disconnect \/ UNCHANGED vars
  <2>1. UNCHANGED <<handle, aborted, finished, pc, invocations>>
    BY <1>1 DEF Disconnect, vars, sessionVars, invocationVars, outputVars
  <2>2. \A i \in Invocations : Keeps(i)
    BY <2>1, NobodyLetsGo
  <2> QED
    BY <2>1, <2>2, OthersKeep
<1>2. CASE \E a \in Finishers : FinishInvocation(a)
  BY <1>0, <1>2, FinishKeepsHandle
<1>3. ASSUME NEW i \in Invocations, BeginRequest(i) \/ AbortHandler(i) \/ HandlerStep(i)
      PROVE  HandleKept'
  BY <1>0, <1>2, <1>3, HandlerKeepsHandle, ActorFacts
<1>4. ASSUME NEW i \in Invocations,
             TaskStep(i) \/ GuestStep(i) \/ OutputStep(i) \/ Abandon(i) \/ Die(i)
      PROVE  HandleKept'
  BY <1>0, <1>2, <1>4, GuestKeepsHandle, ActorFacts
<1>5. ASSUME NEW x \in Callers, NEW i \in Invocations, CancellerStep(x, i)
      PROVE  HandleKept'
  BY <1>2, <1>5, CancellerKeepsHandle, ActorFacts
<1>6. ASSUME NEW x \in Callers, CallerActs(x)
      PROVE  HandleKept'
  <2>1. UNCHANGED <<handle, aborted, finished, invocations>>
    BY <1>6
    DEF CallerActs, CallerStep, Lookup, AskHistory, Sweep, CloseAnswered, OwnerReturns,
        CancelAnswered, BeginClose, Close, AbortCaller, BeginCancel, sessionVars, invocationVars,
        outputVars
  <2>2. \A b \in Actors : pc'[b] = pc[b] \/ pc'[b] = "gate"
    BY <1>6
    DEF CallerActs, CallerStep, Lookup, AskHistory, Sweep, CloseAnswered, OwnerReturns,
        CancelAnswered, BeginClose, Close, AbortCaller, BeginCancel, Goto, TypeOK
  <2>3. \A i \in Invocations : pc'[Task(i)] = pc[Task(i)] /\ pc'[Handler(i)] = pc[Handler(i)]
    <3>1. SUFFICES ASSUME NEW i \in Invocations
                   PROVE  pc'[Task(i)] = pc[Task(i)] /\ pc'[Handler(i)] = pc[Handler(i)]
      OBVIOUS
    <3>2. pc'[Task(i)] = pc[Task(i)]
      BY <1>0, <2>2, ActorFacts DEF Moves, TaskMove, Driving, Finishing
    <3>3. pc'[Handler(i)] = pc[Handler(i)]
      BY <1>0, <2>2, ActorFacts DEF Moves, HandlerMove, Finishing
    <3> QED
      BY <3>2, <3>3
  <2>4. ASSUME NEW i \in Invocations PROVE Keeps(i)
    <3>1. \A y \in Callers : pc[Canceller(y, i)] \in CancellerHolds =>
                               pc'[Canceller(y, i)] \in CancellerHolds
      BY <2>2, ActorFacts DEF CancellerHolds
    <3> QED
      BY <2>1, <2>3, <3>1 DEF Keeps
  <2> QED
    BY <2>1, <2>3, <2>4, OthersKeep
<1> QED
  BY <1>1, <1>3, <1>4, <1>5, <1>6 DEF Next, ClientStep, CallerActs

-----------------------------------------------------------------------------
\* What a sweep has seen to stays seen to.
LEMMA SweptStays ==
    ASSUME TypeOK, Moves, MapMoves, closed, NEW x \in Callers, Swept(x)
    PROVE  Swept(x)'
<1>1. SUFFICES ASSUME NEW i \in Invocations, invocations'[RequestId[i]] = i
               PROVE  pc'[Canceller(x, i)] # "unborn"
  BY DEF Swept
<1>2. RequestId[i] \in Ids /\ i # None /\ CancellerMove(x, i)
  BY InstanceAssumption DEF Moves
<1>3. invocations[RequestId[i]] = i
  BY <1>1, <1>2 DEF MapMoves, EntryStays, EntryAdded, EntryRemoved
<1>4. pc[Canceller(x, i)] # "unborn"
  BY <1>3 DEF Swept
<1> QED
  BY <1>2, <1>4 DEF CancellerMove, Finishing

\* A caller that has drained and is past its sweep gets no new cancellers.
LEMMA DrainedStays ==
    ASSUME Moves, NEW x \in Callers, Drained(x),
           caller[x] \notin {"looking", "sweeping", "ownerSweeping"}
    PROVE  Drained(x)'
<1>1. SUFFICES ASSUME NEW i \in Invocations
               PROVE  pc'[Canceller(x, i)] \in {"unborn", "done"}
  BY DEF Drained
<1>2. CancellerMove(x, i) /\ pc[Canceller(x, i)] \in {"unborn", "done"}
  BY DEF Moves, Drained
<1> QED
  BY <1>2 DEF CancellerMove, Finishing

\* Closing is kept by every step.
LEMMA ClosingStep ==
    ASSUME TypeOK, Lifecycle, Closing, [Next]_vars
    PROVE  Closing'
<1>0. Moves /\ MapMoves
  BY EveryStepMoves, EveryStepMapMoves
<1>1. closed => closed'
  <2>1. ASSUME NEW x \in Callers, CallerActs(x) PROVE closed => closed'
    BY <2>1
    DEF CallerActs, CallerStep, Lookup, AskHistory, Sweep, CloseAnswered, OwnerReturns,
        CancelAnswered, BeginClose, Close, AbortCaller, BeginCancel, sessionVars
  <2> QED
    BY <2>1, CallersAlone
<1>2. ASSUME NEW y \in Callers, UNCHANGED <<caller[y], answer[y]>>
      PROVE  /\ caller'[y] \in {"sweeping", "draining"} \/ ClosedTo(y)' => closed'
             /\ caller'[y] = "draining" \/ ClosedTo(y)' => Swept(y)'
             /\ ClosedTo(y)' => Drained(y)'
  <2>1. ClosedTo(y)' <=> ClosedTo(y)
    BY <1>2 DEF ClosedTo
  <2>2. /\ caller[y] \in {"sweeping", "draining"} \/ ClosedTo(y) => closed
        /\ caller[y] = "draining" \/ ClosedTo(y) => Swept(y)
        /\ ClosedTo(y) => Drained(y)
    BY DEF Closing
  <2>3. caller[y] = "draining" \/ ClosedTo(y) => Swept(y)'
    BY <1>0, <2>2, SweptStays
  <2>4. ClosedTo(y) => Drained(y)'
    BY <1>0, <2>2, DrainedStays DEF ClosedTo
  <2> QED
    BY <1>1, <1>2, <2>1, <2>2, <2>3, <2>4
<1>3. CASE UNCHANGED <<caller, answer>>
  BY <1>2, <1>3 DEF Closing
<1>4. ASSUME NEW x \in Callers, CallerActs(x)
      PROVE  Closing'
  <2>1. \A y \in Callers : y # x => UNCHANGED <<caller[y], answer[y]>>
    BY <1>4
    DEF CallerActs, CallerStep, Lookup, AskHistory, Sweep, CloseAnswered, OwnerReturns,
        CancelAnswered, Reply, BeginClose, Close, AbortCaller, BeginCancel, TypeOK
  <2>2. /\ caller'[x] \in {"sweeping", "draining"} \/ ClosedTo(x)' => closed'
        /\ caller'[x] = "draining" \/ ClosedTo(x)' => Swept(x)'
        /\ ClosedTo(x)' => Drained(x)'
    <3>1. CASE \/ BeginClose(x) \/ OwnerReturns(x) \/ AbortCaller(x) \/ Lookup(x)
               \/ \E d \in Ids : BeginCancel(x, d)
      <4>1. caller'[x] \notin {"sweeping", "draining", "answered"}
        BY <3>1 DEF BeginClose, OwnerReturns, AbortCaller, Lookup, BeginCancel, TypeOK
      <4> QED
        BY <4>1 DEF ClosedTo
    <3>2. CASE Close(x)
      <4>1. caller'[x] \in {"sweeping", "ownerSweeping"} /\ closed'
        BY <3>2 DEF Close, TypeOK
      <4> QED
        BY <4>1 DEF ClosedTo
    <3>3. CASE AskHistory(x) \/ \E i \in Invocations : CancelAnswered(x, i)
      <4>1. caller'[x] = "answered" /\ answer'[x] \in {None, "Cancelled", "AlreadyFinished", "NotFound"}
        BY <3>3, ActorFacts DEF AskHistory, CancelAnswered, Reply, TypeOK
      <4> QED
        BY <4>1, InstanceAssumption DEF ClosedTo
    <3>4. CASE CloseAnswered(x)
      <4>1. caller[x] = "draining" /\ Drained(x) /\ caller'[x] = "answered"
        BY <3>4 DEF CloseAnswered, Reply, TypeOK
      <4>2. closed /\ Swept(x)
        BY <4>1 DEF Closing
      <4>3. Swept(x)' /\ Drained(x)'
        BY <1>0, <4>1, <4>2, SweptStays, DrainedStays
      <4> QED
        BY <1>1, <4>1, <4>2, <4>3
    <3>5. CASE Sweep(x)
      <4>1. /\ caller[x] \in {"sweeping", "ownerSweeping"} /\ UNCHANGED <<closed, invocations>>
            /\ caller'[x] = IF caller[x] = "sweeping" THEN "draining" ELSE "ownerDraining"
        BY <3>5 DEF Sweep, sessionVars, TypeOK
      <4>2. caller[x] = "sweeping" => closed
        BY DEF Closing
      <4>3. ASSUME NEW i \in Invocations, invocations[RequestId[i]] = i
            PROVE  pc'[Canceller(x, i)] = "gate"
        BY <3>5, <4>3, ActorFacts DEF Sweep
      <4>4. Swept(x)'
        BY <4>1, <4>3 DEF Swept
      <4> QED
        BY <4>1, <4>2, <4>4 DEF ClosedTo
    <3> QED
      BY <1>4, <3>1, <3>2, <3>3, <3>4, <3>5 DEF CallerActs, CallerStep
  <2> QED
    BY <1>2, <2>1, <2>2 DEF Closing
<1> QED
  BY <1>3, <1>4, CallersAlone

-----------------------------------------------------------------------------
\* The table is sound at the start.
LEMMA InitTable == Init => Table
<1> SUFFICES ASSUME Init PROVE Table
  OBVIOUS
<1>1. \A i \in Invocations : /\ pc[Handler(i)] = "idle"
                             /\ pc[Task(i)] = "unborn"
                             /\ \A x \in Callers : pc[Canceller(x, i)] = "unborn"
  BY ActorFacts DEF Init
<1>2. \A a \in Finishers : pc[a] \in {"idle", "unborn"}
  BY DEF Init, Actors
<1>3. CounterExact
  <2>1. Registered = {} /\ Uncounted = {}
    BY <1>2 DEF Init, Registered, Uncounted
  <2> QED
    BY <2>1, FS_EmptySet, LimitAssumption DEF Init, CounterExact
<1>4. Recorded
  <2>1. completed = <<>> /\ Len(completed) = 0 /\ registered = {}
    BY DEF Init
  <2> QED
    BY <1>2, <2>1, LimitAssumption DEF Recorded
<1>5. Asked /\ NotFoundHonest
  BY InstanceAssumption DEF Init, Asked, NotFoundHonest
<1>6. HandleKept /\ FinishersAreLate
  BY <1>1 DEF HandleKept, FinishersAreLate, Driving, Finishing
<1>7. Listed
  BY <1>1 DEF Listed, Driving
<1>8. Closing
  BY DEF Init, Closing, ClosedTo
<1> QED
  BY <1>3, <1>4, <1>5, <1>6, <1>7, <1>8 DEF Table

\* It stays so.
LEMMA TableStep ==
    ASSUME TypeOK, Lifecycle, Table, [Next]_vars
    PROVE  Table'
<1>1. Moves /\ MapMoves
  BY EveryStepMoves, EveryStepMapMoves
<1>2. CounterExact' /\ Recorded' /\ Asked' /\ NotFoundHonest'
  BY CounterStep, RecordedStep, AskedStep DEF Table
<1>3. HandleKept' /\ Closing'
  BY HandleStep, ClosingStep DEF Table
<1>4. FinishersAreLate' /\ Listed'
  BY <1>1, LateStep, ListedStep DEF Table
<1> QED
  BY <1>2, <1>3, <1>4 DEF Table

\* An acknowledged close: every invocation in the map had a canceller of the
\* close, which is done, so its task is over.
LEMMA CloseIsQuiet ==
    ASSUME FinishersAreLate, Listed, Closing
    PROVE  CloseQuiesces
<1>1. SUFFICES ASSUME FreshIds, NEW x \in Callers, ClosedTo(x), NEW i \in Invocations,
                      pc[Task(i)] \in Driving
               PROVE  FALSE
  BY DEF CloseQuiesces, ClosedTo, Driving
<1>2. invocations[RequestId[i]] = i
  BY <1>1 DEF Listed
<1>3. pc[Canceller(x, i)] = "done"
  BY <1>1, <1>2 DEF Closing, Swept, Drained
<1>4. Over(i)
  BY <1>3 DEF FinishersAreLate
<1> QED
  BY <1>1, <1>4 DEF Over, Driving

\* A session's table, counter and tasks agree, whatever is aborted, cancelled,
\* closed or lost: an acknowledged close leaves no guest running, NotFound is
\* said only of what was never there or has left the history, the counter is
\* exact, and no guest runs that nothing can stop (SessionState and
\* ActiveInvocation).
THEOREM TableIsSound == Spec => []TableSound
<1>1. Init => Table
  BY InitTable
<1>2. Inv /\ Table /\ [Next]_vars => Table'
  BY TableStep DEF Inv
<1>3. Spec => []Table
  BY <1>1, <1>2, Invariance, PTL DEF Spec
<1>4. Inv /\ Table => TableSound
  <2>1. ASSUME HandleKept PROVE NoOrphanTask
    BY <2>1 DEF HandleKept, NoOrphanTask, Driving
  <2> QED
    BY <2>1, CloseIsQuiet DEF Inv, Table, TableSound
<1> QED
  BY <1>3, <1>4, Invariance, PTL

=============================================================================
