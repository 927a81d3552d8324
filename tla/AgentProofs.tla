---------------------------- MODULE AgentProofs ----------------------------
(***************************************************************************)
(* What the agent host leaves in its memory: first the turns that end and  *)
(* what they have said and stored (TurnFlow), then the filesystem memories *)
(* that are published into the graph (MemoryGraph).                        *)
(***************************************************************************)
EXTENDS TurnFlow, MemoryGraph, SequenceTheorems, FiniteSetTheorems, TLAPS

-----------------------------------------------------------------------------
(***************************************************************************)
(* What a voice turn leaves behind is what it earned (TurnsSound), for any *)
(* turns and any answers of the models.                                    *)
(*                                                                         *)
(* TurnsInv follows the record of a turn through the stages of             *)
(* RunVoiceTurn: the count of idle choices is borne out by the choices     *)
(* made, and past the request check the turn has passed it or given up.    *)
(* HistoryInv follows a reply: it is in the actions of the attempt under   *)
(* way or in a history node before its turn can end, and it is stored      *)
(* before a thread may speak it.                                           *)
(***************************************************************************)
IsSeq(s) == \E S : s \in Seq(S)

LEMMA SeqMonotone ==
  ASSUME NEW S, NEW T, S \subseteq T, NEW s \in Seq(S)
  PROVE  s \in Seq(T)
OBVIOUS

(* What appending does to a sequence of unknown elements.                  *)
LEMMA AppendFacts ==
  ASSUME NEW s, NEW e, IsSeq(s)
  PROVE  /\ IsSeq(Append(s, e)) /\ Len(s) \in Nat /\ Len(Append(s, e)) = Len(s) + 1
         /\ \A i \in 1..Len(s) : Append(s, e)[i] = s[i]
         /\ Append(s, e)[Len(s) + 1] = e
<1>1. PICK S : s \in Seq(S)
  BY DEF IsSeq
<1>2. s \in Seq(S \cup {e})
  BY <1>1, SeqMonotone
<1>3. Append(s, e) \in Seq(S \cup {e})
  BY <1>2
<1> QED
  BY <1>2, <1>3 DEF IsSeq

LEMMA SeqDomain ==
  ASSUME NEW s, IsSeq(s)
  PROVE  DOMAIN s = 1..Len(s) /\ Len(s) \in Nat
BY DEF IsSeq

(* A sequence without its i-th element has only elements it had.           *)
LEMMA RemoveAtFacts ==
  ASSUME NEW s, IsSeq(s), NEW i \in 1..Len(s)
  PROVE  /\ IsSeq(RemoveAt(s, i)) /\ Len(RemoveAt(s, i)) = Len(s) - 1
         /\ \A j \in 1..Len(RemoveAt(s, i)) : \E k \in 1..Len(s) : RemoveAt(s, i)[j] = s[k]
<1>1. PICK S : s \in Seq(S)
  BY DEF IsSeq
<1> DEFINE a == SubSeq(s, 1, i - 1)
           b == SubSeq(s, i + 1, Len(s))
<1>2. a \in Seq(S) /\ b \in Seq(S) /\ Len(a) = i - 1 /\ Len(b) = Len(s) - i
  BY <1>1
<1>3. \A j \in 1..Len(a) : a[j] = s[j]
  BY <1>1, <1>2
<1>4. \A j \in 1..Len(b) : b[j] = s[j + i]
  BY <1>1, <1>2
<1> HIDE DEF a, b
<1>5. a \o b \in Seq(S) /\ Len(a \o b) = Len(s) - 1
  BY <1>1, <1>2
<1>6. ASSUME NEW j \in 1..Len(a \o b)
      PROVE  \E k \in 1..Len(s) : (a \o b)[j] = s[k]
  <2>1. CASE j <= Len(a)
    <3>1. (a \o b)[j] = a[j] /\ j \in 1..Len(a)
      BY <1>1, <1>2, <1>5, <2>1
    <3> QED
      BY <1>1, <1>2, <1>3, <3>1
  <2>2. CASE j > Len(a)
    <3>1. (a \o b)[j] = b[j - Len(a)] /\ j - Len(a) \in 1..Len(b)
      BY <1>1, <1>2, <1>5, <2>2
    <3>2. (a \o b)[j] = s[j + 1] /\ j + 1 \in 1..Len(s)
      BY <1>1, <1>2, <1>4, <1>5, <3>1, <2>2
    <3> QED
      BY <3>2
  <2> QED
    BY <1>2, <1>5, <2>1, <2>2
<1>7. RemoveAt(s, i) = a \o b
  BY DEF RemoveAt, a, b
<1> QED
  BY <1>5, <1>6, <1>7 DEF IsSeq

(* Moving the next action from what is left to what is done keeps both.    *)
LEMMA Moved ==
  ASSUME NEW S, NEW a \in Seq(S), NEW b \in Seq(S), b # <<>>
  PROVE  /\ Append(a, Head(b)) \o Tail(b) = a \o b
         /\ Append(a, Head(b)) \in Seq(S) /\ Tail(b) \in Seq(S)
         /\ Append(a, Head(b)) # <<>>
<1>1. Head(b) \in S /\ Tail(b) \in Seq(S) /\ Len(b) \in Nat \ {0} /\ Len(Tail(b)) = Len(b) - 1
  BY SMT
<1> DEFINE c == Append(a, Head(b))
           d == Tail(b)
<1>2. c \in Seq(S) /\ Len(c) = Len(a) + 1 /\ c[Len(a) + 1] = Head(b) /\ \A i \in 1..Len(a) : c[i] = a[i]
  BY <1>1
<1>3. d \in Seq(S) /\ Len(d) = Len(b) - 1 /\ \A i \in 1..Len(d) : d[i] = b[i + 1]
  BY <1>1, HeadTailProperties
<1>4. Head(b) = b[1]
  OBVIOUS
<1> HIDE DEF c, d
<1>5. Len(a) \in Nat /\ Len(b) \in Nat /\ Len(c) + Len(d) = Len(a) + Len(b)
  BY <1>1, <1>2, <1>3
<1>6. c \o d \in Seq(S) /\ Len(c \o d) = Len(a) + Len(b)
  <2>1. c \in Seq(S) /\ d \in Seq(S)
    BY <1>2, <1>3
  <2>2. c \o d \in Seq(S) /\ Len(c \o d) = Len(c) + Len(d)
    BY <2>1, ConcatProperties
  <2> QED
    BY <1>5, <2>2
<1>7. a \o b \in Seq(S) /\ Len(a \o b) = Len(a) + Len(b)
  BY ConcatProperties
<1>8. ASSUME NEW i \in 1..Len(a) + Len(b)
      PROVE  (c \o d)[i] = (a \o b)[i]
  <2>0. /\ (c \o d)[i] = IF i <= Len(c) THEN c[i] ELSE d[i - Len(c)]
        /\ (a \o b)[i] = IF i <= Len(a) THEN a[i] ELSE b[i - Len(a)]
    BY <1>2, <1>3, <1>5, <1>8, ConcatProperties
  <2>1. CASE i <= Len(a)
    BY <1>1, <1>2, <2>0, <2>1
  <2>2. CASE i = Len(a) + 1
    BY <1>1, <1>2, <1>4, <2>0, <2>2
  <2>3. CASE i > Len(a) + 1
    <3>1. i - Len(c) \in 1..Len(d) /\ (i - Len(c)) + 1 = i - Len(a)
      BY <1>1, <1>2, <1>3, <1>8, <2>3
    <3>2. d[i - Len(c)] = b[i - Len(a)]
      BY <1>3, <3>1
    <3> QED
      BY <1>1, <1>2, <2>0, <2>3, <3>2
  <2> QED
    BY <1>5, <2>1, <2>2, <2>3
<1>9. c \o d = a \o b
  BY <1>6, <1>8, <1>7, SeqEqual
<1> QED
  BY <1>1, <1>2, <1>9 DEF c, d

------------------------------------------------------------------------------
(* The inductive invariant.                                                  *)

Fields == DOMAIN NewTurn

(* The stages of a turn at which a further task may be chosen.             *)
Asking == {"new", "load", "choose", "retrieve", "execute", "dispatch", "summarize", "check", "resolve",
           "record"}

(* The record of a turn: a count of idle choices that its choices bear out, *)
(* a request that is only put when a cycle is finished, and a result that   *)
(* is that of a completed task if there is one.                             *)
TurnShape(r) ==
  /\ DOMAIN r = Fields /\ r.pc \in Pcs
  /\ r.cycle \in Nat /\ r.attempt \in Nat /\ r.idle \in 0..3
  /\ r.picks \in Seq(BOOLEAN) /\ r.work \in Seq(Nat \X Nat)
  /\ r.acts \in Seq(STRING) /\ r.todo \in Seq(STRING)

Earned(r) ==
  /\ r.pc \in Asking => r.idle < 3
  /\ r.pc = "request" => r.finished
  /\ r.pc \in {"review", "write", "done"} => r.passed \/ r.idle = 3
  /\ r.idle <= Len(r.picks)
  /\ \A i \in 1..Len(r.picks) : i > Len(r.picks) - r.idle => r.picks[i]
  /\ r.pc = "done" => (r.work # <<>> <=> Len(r.result) = 2)

TurnsInv ==
  /\ DOMAIN turn = Turns
  /\ \A t \in Turns : TurnShape(turn[t]) /\ Earned(turn[t])

(* One turn changes, to a record that is again of the shape.               *)
LEMMA OneTurn ==
  ASSUME TurnsInv, NEW t \in Turns, NEW r, turn' = [turn EXCEPT ![t] = r],
         TurnShape(r), Earned(r)
  PROVE  TurnsInv'
<1>1. DOMAIN turn' = Turns /\ turn'[t] = r /\ \A u \in Turns \ {t} : turn'[u] = turn[u]
  BY DEF TurnsInv
<1>2. ASSUME NEW u \in Turns
      PROVE  TurnShape(turn'[u]) /\ Earned(turn'[u])
  BY <1>1 DEF TurnsInv
<1> QED
  BY <1>1, <1>2 DEF TurnsInv

LEMMA TurnsInit == Init => TurnsInv
<1> SUFFICES ASSUME Init PROVE TurnsInv
  OBVIOUS
<1>1. TurnShape(NewTurn)
  BY DEF TurnShape, NewTurn, Fields, Pcs
<1>2. Earned(NewTurn)
  BY DEF Earned, NewTurn, Asking
<1> QED
  BY <1>1, <1>2 DEF Init, TurnsInv

(* One lemma for each step of a turn.                                      *)
LEMMA BeginKeeps ==
  ASSUME TurnsInv, NEW t \in Turns, NEW text, Begin(t, text)
  PROVE  TurnsInv'
<1> DEFINE r == [turn[t] EXCEPT !.pc = "load", !.text = text, !.reply = NextCapturedAt]
<1>1. turn' = [turn EXCEPT ![t] = r]
  BY DEF Begin
<1>2. TurnShape(turn[t]) /\ Earned(turn[t]) /\ turn[t].pc = "new"
  BY DEF TurnsInv, Begin
<1>3. TurnShape(r)
  BY <1>2 DEF TurnShape, Fields, NewTurn, Pcs
<1>4. Earned(r)
  BY <1>2 DEF TurnShape, Earned, Fields, NewTurn, Asking
<1> QED
  BY <1>1, <1>3, <1>4, OneTurn

LEMMA LoadKeeps ==
  ASSUME TurnsInv, NEW t \in Turns, LoadContext(t)
  PROVE  TurnsInv'
<1> DEFINE r == [turn[t] EXCEPT !.pc = "choose", !.cycle = @ + 1, !.finished = FALSE, !.scope = {},
                             !.seen = CurrentConversation, !.known = UnderstandingInputs]
<1>1. turn' = [turn EXCEPT ![t] = r]
  BY DEF LoadContext
<1>2. TurnShape(turn[t]) /\ Earned(turn[t]) /\ turn[t].pc = "load"
  BY DEF TurnsInv, LoadContext
<1>3. TurnShape(r)
  BY <1>2 DEF TurnShape, Fields, NewTurn, Pcs
<1>4. Earned(r)
  BY <1>2 DEF TurnShape, Earned, Fields, NewTurn, Asking
<1> QED
  BY <1>1, <1>3, <1>4, OneTurn

LEMMA RetrieveKeeps ==
  ASSUME TurnsInv, NEW t \in Turns, NEW new, RetrieveMemories(t, new)
  PROVE  TurnsInv'
<1> DEFINE r == [turn[t] EXCEPT !.scope = TaskConversationScope, !.seen = <<>>, !.cands = @ \cup new,
                              !.pc = "execute"]
<1>1. turn' = [turn EXCEPT ![t] = r]
  BY DEF RetrieveMemories
<1>2. TurnShape(turn[t]) /\ Earned(turn[t]) /\ turn[t].pc = "retrieve"
  BY DEF TurnsInv, RetrieveMemories
<1>3. TurnShape(r)
  BY <1>2 DEF TurnShape, Fields, NewTurn, Pcs
<1>4. Earned(r)
  BY <1>2 DEF TurnShape, Earned, Fields, NewTurn, Asking
<1> QED
  BY <1>1, <1>3, <1>4, OneTurn

LEMMA ExecuteKeeps ==
  ASSUME TurnsInv, NEW t \in Turns, NEW returns \in Returns[t], ExecuteTask(t, returns)
  PROVE  TurnsInv'
<1> DEFINE r == [turn[t] EXCEPT !.attempt = @ + 1, !.todo = returns, !.acts = <<>>, !.pc = "dispatch"]
<1>1. turn' = [turn EXCEPT ![t] = r]
  BY DEF ExecuteTask
<1>2. TurnShape(turn[t]) /\ Earned(turn[t]) /\ turn[t].pc = "execute"
  BY DEF TurnsInv, ExecuteTask
<1>a. returns \in Seq(STRING)
  BY FlowBounds
<1>3. TurnShape(r)
  BY <1>2, <1>a DEF TurnShape, Fields, NewTurn, Pcs
<1>4. Earned(r)
  BY <1>2 DEF TurnShape, Earned, Fields, NewTurn, Asking
<1> QED
  BY <1>1, <1>3, <1>4, OneTurn

LEMMA DispatchKeeps ==
  ASSUME TurnsInv, NEW t \in Turns, DispatchCall(t)
  PROVE  TurnsInv'
<1> DEFINE r == [turn[t] EXCEPT !.todo = Tail(@), !.acts = Append(@, Head(turn[t].todo))]
<1>1. turn' = [turn EXCEPT ![t] = r]
  BY DEF DispatchCall
<1>2. TurnShape(turn[t]) /\ Earned(turn[t]) /\ turn[t].pc = "dispatch" /\ turn[t].todo # <<>>
  BY DEF TurnsInv, DispatchCall
<1>a. /\ Tail(turn[t].todo) \in Seq(STRING)
      /\ Append(turn[t].acts, Head(turn[t].todo)) \in Seq(STRING)
  BY <1>2, Moved DEF TurnShape
<1>3. TurnShape(r)
  BY <1>2, <1>a DEF TurnShape, Fields, NewTurn, Pcs
<1>4. Earned(r)
  BY <1>2 DEF TurnShape, Earned, Fields, NewTurn, Asking
<1> QED
  BY <1>1, <1>3, <1>4, OneTurn

LEMMA AppendNodeKeeps ==
  ASSUME TurnsInv, NEW t \in Turns, AppendTaskHistoryNode(t)
  PROVE  TurnsInv'
<1> DEFINE r == [turn[t] EXCEPT !.acts = <<>>, !.pc = "summarize"]
<1>1. turn' = [turn EXCEPT ![t] = r]
  BY DEF AppendTaskHistoryNode
<1>2. TurnShape(turn[t]) /\ Earned(turn[t]) /\ turn[t].pc = "dispatch"
  BY DEF TurnsInv, AppendTaskHistoryNode
<1>3. TurnShape(r)
  BY <1>2 DEF TurnShape, Fields, NewTurn, Pcs
<1>4. Earned(r)
  BY <1>2 DEF TurnShape, Earned, Fields, NewTurn, Asking
<1> QED
  BY <1>1, <1>3, <1>4, OneTurn

LEMMA SummarizeKeeps ==
  ASSUME TurnsInv, NEW t \in Turns, SummarizeTaskActions(t)
  PROVE  TurnsInv'
<1> DEFINE r == [turn[t] EXCEPT !.pc = "check"]
<1>1. turn' = [turn EXCEPT ![t] = r]
  BY DEF SummarizeTaskActions, Go
<1>2. TurnShape(turn[t]) /\ Earned(turn[t]) /\ turn[t].pc = "summarize"
  BY DEF TurnsInv, SummarizeTaskActions
<1>3. TurnShape(r)
  BY <1>2 DEF TurnShape, Fields, NewTurn, Pcs
<1>4. Earned(r)
  BY <1>2 DEF TurnShape, Earned, Fields, NewTurn, Asking
<1> QED
  BY <1>1, <1>3, <1>4, OneTurn

LEMMA RecordKeeps ==
  ASSUME TurnsInv, NEW t \in Turns, RecordValidationReply(t)
  PROVE  TurnsInv'
<1> DEFINE r == [turn[t] EXCEPT !.pc = "record"]
<1>1. turn' = [turn EXCEPT ![t] = r]
  BY DEF RecordValidationReply, Go
<1>2. TurnShape(turn[t]) /\ Earned(turn[t]) /\ turn[t].pc = "resolve"
  BY DEF TurnsInv, RecordValidationReply
<1>3. TurnShape(r)
  BY <1>2 DEF TurnShape, Fields, NewTurn, Pcs
<1>4. Earned(r)
  BY <1>2 DEF TurnShape, Earned, Fields, NewTurn, Asking
<1> QED
  BY <1>1, <1>3, <1>4, OneTurn

LEMMA StoreKeeps ==
  ASSUME TurnsInv, NEW t \in Turns, NEW refine \in BOOLEAN, StoreValidationReply(t, refine)
  PROVE  TurnsInv'
<1> DEFINE r == [turn[t] EXCEPT !.pc = IF refine THEN "execute" ELSE "load"]
<1>1. turn' = [turn EXCEPT ![t] = r]
  BY DEF StoreValidationReply, Go
<1>2. TurnShape(turn[t]) /\ Earned(turn[t]) /\ turn[t].pc = "record"
  BY DEF TurnsInv, StoreValidationReply
<1>3. TurnShape(r)
  BY <1>2 DEF TurnShape, Fields, NewTurn, Pcs
<1>4. Earned(r)
  BY <1>2 DEF TurnShape, Earned, Fields, NewTurn, Asking
<1> QED
  BY <1>1, <1>3, <1>4, OneTurn

LEMMA ReviewKeeps ==
  ASSUME TurnsInv, NEW t \in Turns, NEW keep, ReviewMemories(t, keep)
  PROVE  TurnsInv'
<1> DEFINE r == [turn[t] EXCEPT !.batch = SetToSeq(keep), !.pc = "write"]
<1>1. turn' = [turn EXCEPT ![t] = r]
  BY DEF ReviewMemories
<1>2. TurnShape(turn[t]) /\ Earned(turn[t]) /\ turn[t].pc = "review"
  BY DEF TurnsInv, ReviewMemories
<1>3. TurnShape(r)
  BY <1>2 DEF TurnShape, Fields, NewTurn, Pcs
<1>4. Earned(r)
  BY <1>2 DEF TurnShape, Earned, Fields, NewTurn, Asking
<1> QED
  BY <1>1, <1>3, <1>4, OneTurn

LEMMA WriteKeeps ==
  ASSUME TurnsInv, NEW t \in Turns, WriteCandidateMemory(t)
  PROVE  TurnsInv'
<1> DEFINE r == [turn[t] EXCEPT !.batch = Tail(@)]
<1>1. turn' = [turn EXCEPT ![t] = r]
  BY DEF WriteCandidateMemory
<1>2. TurnShape(turn[t]) /\ Earned(turn[t]) /\ turn[t].pc = "write"
  BY DEF TurnsInv, WriteCandidateMemory
<1>3. TurnShape(r)
  BY <1>2 DEF TurnShape, Fields, NewTurn, Pcs
<1>4. Earned(r)
  BY <1>2 DEF TurnShape, Earned, Fields, NewTurn, Asking
<1> QED
  BY <1>1, <1>3, <1>4, OneTurn

LEMMA ChoiceKeeps ==
  ASSUME TurnsInv, NEW t \in Turns, NEW doNothing \in BOOLEAN, NEW new,
         ReportTaskChoice(t, doNothing, new)
  PROVE  TurnsInv'
<1> DEFINE q == turn[t]
           idle == NextConsecutiveNoActionCount(q.idle, doNothing)
           picks == Append(q.picks, doNothing)
           r == [q EXCEPT !.idle = idle, !.picks = picks, !.cands = @ \cup new,
                          !.finished = doNothing, !.seen = IF doNothing THEN <<>> ELSE @,
                          !.pc = IF doNothing THEN "request" ELSE "retrieve"]
<1>1. turn' = [turn EXCEPT ![t] = r]
  BY DEF ReportTaskChoice
<1>2. TurnShape(q) /\ Earned(q) /\ q.pc = "choose"
  BY DEF TurnsInv, ReportTaskChoice
<1>3. /\ q.idle \in 0..2 /\ idle \in 0..3 /\ (~doNothing => idle = 0)
      /\ (doNothing => idle = q.idle + 1)
  BY <1>2 DEF TurnShape, Earned, Asking, NextConsecutiveNoActionCount
<1>4. q.picks \in Seq(BOOLEAN)
  BY <1>2 DEF TurnShape
<1>5. /\ picks \in Seq(BOOLEAN) /\ Len(picks) = Len(q.picks) + 1 /\ Len(q.picks) \in Nat
      /\ picks[Len(q.picks) + 1] = doNothing /\ \A i \in 1..Len(q.picks) : picks[i] = q.picks[i]
  BY <1>4
<1>6. q.idle <= Len(q.picks) /\ \A i \in 1..Len(q.picks) : i > Len(q.picks) - q.idle => q.picks[i]
  BY <1>2 DEF Earned
<1> HIDE DEF idle, picks
<1>7. ASSUME NEW i \in 1..Len(picks), i > Len(picks) - idle
      PROVE  picks[i]
  <2>1. doNothing
    BY <1>3, <1>5, <1>7
  <2>2. CASE i = Len(q.picks) + 1
    BY <1>5, <2>1, <2>2
  <2>3. CASE i # Len(q.picks) + 1
    <3>1. i \in 1..Len(q.picks) /\ i > Len(q.picks) - q.idle
      BY <1>3, <1>5, <1>7, <2>1, <2>3
    <3> QED
      BY <1>5, <1>6, <3>1
  <2> QED
    BY <2>2, <2>3
<1>8. idle <= Len(picks)
  BY <1>3, <1>5, <1>6
<1>9. /\ DOMAIN r = Fields /\ r.pc = (IF doNothing THEN "request" ELSE "retrieve")
      /\ r.idle = idle /\ r.picks = picks /\ r.finished = doNothing
      /\ r.cycle = q.cycle /\ r.attempt = q.attempt /\ r.work = q.work
      /\ r.acts = q.acts /\ r.todo = q.todo
  BY <1>2 DEF TurnShape, Fields, NewTurn
<1> HIDE DEF r
<1>10. TurnShape(r)
  BY <1>2, <1>3, <1>5, <1>9 DEF TurnShape, Pcs
<1>11. Earned(r)
  BY <1>3, <1>7, <1>8, <1>9 DEF Earned, Asking
<1> QED
  BY <1>1, <1>10, <1>11, OneTurn

LEMMA CheckTaskKeeps ==
  ASSUME TurnsInv, NEW t \in Turns, NEW pass \in BOOLEAN, CheckTaskCompletion(t, pass)
  PROVE  TurnsInv'
<1> DEFINE q == turn[t]
           work == IF pass THEN Append(q.work, <<q.cycle, q.attempt>>) ELSE q.work
           r == [q EXCEPT !.pc = IF pass THEN "request" ELSE "resolve", !.finished = pass, !.work = work]
<1>1. turn' = [turn EXCEPT ![t] = r]
  BY DEF CheckTaskCompletion
<1>2. TurnShape(q) /\ Earned(q) /\ q.pc = "check"
  BY DEF TurnsInv, CheckTaskCompletion
<1>3. work \in Seq(Nat \X Nat)
  BY <1>2 DEF TurnShape
<1> HIDE DEF work
<1>4. TurnShape(r)
  BY <1>2, <1>3 DEF TurnShape, Fields, NewTurn, Pcs
<1>5. Earned(r)
  BY <1>2 DEF TurnShape, Earned, Fields, NewTurn, Asking
<1> QED
  BY <1>1, <1>4, <1>5, OneTurn

(* A request leaves the loop only when it passed or after three idle       *)
(* choices.                                                                *)
LEMMA CheckRequestKeeps ==
  ASSUME TurnsInv, NEW t \in Turns, NEW pass \in BOOLEAN, CheckRequestCompletion(t, pass)
  PROVE  TurnsInv'
<1> DEFINE q == turn[t]
           r == [q EXCEPT !.passed = pass /\ ShouldCheck(t),
                          !.pc = IF ~ShouldCheck(t) \/ pass THEN "review" ELSE "load"]
<1>1. turn' = [turn EXCEPT ![t] = r]
  BY DEF CheckRequestCompletion
<1>2. TurnShape(q) /\ Earned(q) /\ q.pc = "request"
  BY DEF TurnsInv, CheckRequestCompletion
<1>3. ShouldCheck(t) <=> q.idle < 3
  BY <1>2 DEF ShouldCheck, Earned
<1>4. /\ DOMAIN r = Fields /\ r.pc = (IF ~ShouldCheck(t) \/ pass THEN "review" ELSE "load")
      /\ r.passed = (pass /\ ShouldCheck(t))
      /\ r.idle = q.idle /\ r.picks = q.picks /\ r.finished = q.finished
      /\ r.cycle = q.cycle /\ r.attempt = q.attempt /\ r.work = q.work
      /\ r.acts = q.acts /\ r.todo = q.todo
  BY <1>2 DEF TurnShape, Fields, NewTurn
<1> HIDE DEF r
<1>5. TurnShape(r)
  BY <1>2, <1>4 DEF TurnShape, Pcs
<1>6. Earned(r)
  <2>1. q.idle \in 0..3
    BY <1>2 DEF TurnShape
  <2>2. CASE ShouldCheck(t) /\ pass
    BY <1>2, <1>3, <1>4, <2>1, <2>2 DEF Earned, Asking
  <2>3. CASE ShouldCheck(t) /\ ~pass
    BY <1>2, <1>3, <1>4, <2>1, <2>3 DEF Earned, Asking
  <2>4. CASE ~ShouldCheck(t)
    BY <1>2, <1>3, <1>4, <2>1, <2>4 DEF Earned, Asking
  <2> QED
    BY <2>2, <2>3, <2>4
<1> QED
  BY <1>1, <1>5, <1>6, OneTurn

(* A turn's result is a pair exactly when a task was completed.            *)
LEMMA FinishKeeps ==
  ASSUME TurnsInv, NEW t \in Turns, Finish(t)
  PROVE  TurnsInv'
<1> DEFINE q == turn[t]
           r == [q EXCEPT !.pc = "done", !.result = VoiceRequestResult(t),
                          !.cands = {}, !.known = {}, !.scope = {}]
<1>1. turn' = [turn EXCEPT ![t] = r]
  BY DEF Finish
<1>2. TurnShape(q) /\ Earned(q) /\ q.pc = "write"
  BY DEF TurnsInv, Finish
<1>3. q.work # <<>> <=> Len(VoiceRequestResult(t)) = 2
  <2>1. CASE q.work = <<>>
    BY <2>1 DEF VoiceRequestResult
  <2>2. CASE q.work # <<>>
    <3>1. VoiceRequestResult(t) \in Nat \X Nat
      BY <1>2, <2>2 DEF VoiceRequestResult, TurnShape
    <3>2. Len(VoiceRequestResult(t)) = 2
      BY <3>1
    <3> QED
      BY <2>2, <3>2
  <2> QED
    BY <2>1, <2>2
<1>4. TurnShape(r)
  BY <1>2 DEF TurnShape, Fields, NewTurn, Pcs
<1>5. Earned(r)
  BY <1>2, <1>3 DEF TurnShape, Earned, Fields, NewTurn, Asking
<1> QED
  BY <1>1, <1>4, <1>5, OneTurn

LEMMA FailKeeps ==
  ASSUME TurnsInv, NEW t \in Turns, TurnFails(t)
  PROVE  TurnsInv'
<1> DEFINE r == [NewTurn EXCEPT !.pc = "failed", !.text = turn[t].text, !.reply = turn[t].reply]
<1>1. turn' = [turn EXCEPT ![t] = r]
  BY DEF TurnFails
<1>2. TurnShape(r)
  BY DEF TurnShape, Fields, NewTurn, Pcs
<1>3. Earned(r)
  BY DEF Earned, NewTurn, Asking
<1> QED
  BY <1>1, <1>2, <1>3, OneTurn

(* The threads leave the turns alone.                                      *)
LEMMA ThreadsKeep ==
  ASSUME TurnsInv, ThreadStep \/ UNCHANGED vars
  PROVE  TurnsInv'
<1>1. turn' = turn
  BY DEF ThreadStep, RecordHumanReply, Speak, RecordReplyInterrupted, SpeechInterrupted, vars
<1> QED
  BY <1>1 DEF TurnsInv

LEMMA TurnsStep ==
  ASSUME TurnsInv, [Next]_vars
  PROVE  TurnsInv'
<1>1. ASSUME NEW t \in Turns, TurnStep(t) PROVE TurnsInv'
  BY <1>1, BeginKeeps, LoadKeeps, ChoiceKeeps, RetrieveKeeps, ExecuteKeeps, DispatchKeeps,
     AppendNodeKeeps, SummarizeKeeps, CheckTaskKeeps, RecordKeeps, StoreKeeps, CheckRequestKeeps,
     ReviewKeeps, WriteKeeps, FinishKeeps, FailKeeps DEF TurnStep
<1> QED
  BY <1>1, ThreadsKeep DEF Next

LEMMA TurnsInvEarns == TurnsInv => CompletionEarned
<1> SUFFICES ASSUME TurnsInv, NEW t \in Turns, turn[t].pc = "done"
             PROVE  LET picks == turn[t].picks IN
                    /\ \/ turn[t].passed
                       \/ Len(picks) >= 3 /\ \A i \in Len(picks)-2..Len(picks) : picks[i]
                    /\ turn[t].work # <<>> <=> Len(turn[t].result) = 2
  BY DEF CompletionEarned
<1> DEFINE q == turn[t]
<1>1. TurnShape(q) /\ Earned(q)
  BY DEF TurnsInv
<1>2. Len(q.picks) \in Nat
  BY <1>1 DEF TurnShape
<1>3. CASE q.idle = 3
  <2>1. Len(q.picks) >= 3
    BY <1>1, <1>2, <1>3 DEF Earned
  <2>2. \A i \in Len(q.picks)-2..Len(q.picks) : q.picks[i]
    BY <1>1, <1>2, <1>3, <2>1 DEF Earned
  <2> QED
    BY <1>1, <2>1, <2>2 DEF Earned
<1>4. CASE q.passed
  BY <1>1, <1>4 DEF Earned
<1> QED
  BY <1>1, <1>3, <1>4 DEF Earned

------------------------------------------------------------------------------
(* The history.                                                              *)

(* A reply x is among the messages s.                                      *)
Kept(s, x) == \E i \in 1..Len(s) : s[i].role = "agent" /\ s[i].text = x

(* The reply of attempt a of a turn in state r has its node, or the turn   *)
(* is about to append it, or it failed.                                    *)
Recorded(r, ns, t, a) ==
  \/ r.pc = "failed"
  \/ r.pc = "dispatch" /\ r.attempt = a /\ r.acts # <<>>
  \/ \E n \in ns : n.turn = t /\ n.attempt = a

(* What a turn has dispatched and what is left are one answer of the model.*)
Dispatching(r, t) == r.pc = "dispatch" => r.acts \o r.todo \in Returns[t]

HistoryInv ==
  /\ IsSeq(stored) /\ IsSeq(queue)
  /\ \A t \in Turns : Dispatching(turn[t], t)
  /\ \A n \in nodes : n.turn \in Turns /\ n.acts \in Returns[n.turn]
  /\ \A i \in 1..Len(stored) : stored[i].role = "agent" =>
       LET t == stored[i].text[1] IN
         t \in Turns => Recorded(turn[t], nodes, t, stored[i].text[2])
  /\ \A i \in 1..Len(queue) : Kept(stored, queue[i])
  /\ \A th \in threads : th.kind = "speak" => Kept(stored, th.text)

LEMMA HistoryInit == Init => HistoryInv
<1> SUFFICES ASSUME Init PROVE HistoryInv
  OBVIOUS
<1>1. IsSeq(stored) /\ IsSeq(queue)
  BY OldConversation, <<>> \in Seq({}) DEF Init, IsSeq
<1>2. \A t \in Turns : turn[t].pc = "new"
  BY DEF Init, NewTurn
<1>3. Len(queue) = 0 /\ threads = {} /\ nodes = {} /\ stored = Old
  BY DEF Init
<1> QED
  BY <1>1, <1>2, <1>3, OldConversation DEF HistoryInv, Dispatching

(* The stored conversation is as it was, or has one more message that is   *)
(* no reply.                                                               *)
Grows == stored' = stored \/ \E m : stored' = Append(stored, m) /\ m.role # "agent"

LEMMA GrowsFacts ==
  ASSUME HistoryInv, Grows
  PROVE  /\ IsSeq(stored')
         /\ \A i \in 1..Len(stored') : stored'[i].role = "agent" =>
              i \in 1..Len(stored) /\ stored'[i] = stored[i]
         /\ \A i \in 1..Len(stored) : i \in 1..Len(stored') /\ stored'[i] = stored[i]
<1>1. IsSeq(stored)
  BY DEF HistoryInv
<1>2. CASE stored' = stored
  BY <1>1, <1>2
<1>3. CASE stored' # stored
  <2>1. PICK m : stored' = Append(stored, m) /\ m.role # "agent"
    BY <1>3 DEF Grows
  <2>2. /\ IsSeq(stored') /\ Len(stored) \in Nat /\ Len(stored') = Len(stored) + 1
        /\ (\A i \in 1..Len(stored) : stored'[i] = stored[i]) /\ stored'[Len(stored) + 1] = m
    BY <1>1, <2>1, AppendFacts
  <2>3. \A i \in 1..Len(stored') : i \in 1..Len(stored) \/ i = Len(stored) + 1
    BY <2>2
  <2>4. \A i \in 1..Len(stored) : i \in 1..Len(stored')
    BY <2>2
  <2> QED
    BY <2>1, <2>2, <2>3, <2>4
<1> QED
  BY <1>2, <1>3

LEMMA GrowsKeeps ==
  ASSUME HistoryInv, Grows, NEW x, Kept(stored, x)
  PROVE  Kept(stored', x)
BY GrowsFacts DEF Kept

(* Steps of a turn that neither answer nor record an attempt.              *)
LEMMA ElsewhereKeeps ==
  ASSUME TurnsInv, HistoryInv, Grows, NEW t \in Turns, NEW r, turn' = [turn EXCEPT ![t] = r],
         r.pc # "dispatch", turn[t].pc \notin {"dispatch", "failed"} \/ r.pc = "failed",
         nodes' = nodes, queue' = queue,
         \A th \in threads' : th.kind = "speak" => th \in threads
  PROVE  HistoryInv'
<1>1. DOMAIN turn = Turns /\ turn'[t] = r /\ \A u \in Turns \ {t} : turn'[u] = turn[u]
  BY DEF TurnsInv
<1>2. \A u \in Turns : Dispatching(turn'[u], u)
  BY <1>1 DEF HistoryInv, Dispatching
<1>3. ASSUME NEW i \in 1..Len(stored'), stored'[i].role = "agent", stored'[i].text[1] \in Turns
      PROVE  Recorded(turn'[stored'[i].text[1]], nodes', stored'[i].text[1], stored'[i].text[2])
  <2>1. PICK m : m = stored'[i]
    OBVIOUS
  <2>2. i \in 1..Len(stored) /\ stored[i] = m /\ m.role = "agent"
    BY <1>3, <2>1, GrowsFacts
  <2>3. Recorded(turn[m.text[1]], nodes, m.text[1], m.text[2])
    BY <1>3, <2>1, <2>2 DEF HistoryInv
  <2>4. Recorded(turn'[m.text[1]], nodes, m.text[1], m.text[2])
    BY <1>1, <1>3, <2>1, <2>3 DEF Recorded
  <2> QED
    BY <2>1, <2>4
<1>4. \A i \in 1..Len(queue') : Kept(stored', queue'[i])
  BY GrowsKeeps DEF HistoryInv
<1>5. ASSUME NEW th \in threads', th.kind = "speak"
      PROVE  Kept(stored', th.text)
  BY <1>5, GrowsKeeps DEF HistoryInv
<1>6. IsSeq(stored') /\ IsSeq(queue')
  BY GrowsFacts DEF HistoryInv
<1>7. \A n \in nodes' : n.turn \in Turns /\ n.acts \in Returns[n.turn]
  BY DEF HistoryInv
<1> QED
  BY <1>2, <1>3, <1>4, <1>5, <1>6, <1>7 DEF HistoryInv

(* A step of a turn that changes its record to r, and perhaps the stored   *)
(* conversation and the threads, in a way ElsewhereKeeps covers.           *)
LEMMA QuietSteps ==
  ASSUME TurnsInv, HistoryInv, NEW t \in Turns, TurnStep(t),
         \A returns \in Returns[t] : ~ExecuteTask(t, returns),
         ~DispatchCall(t), ~AppendTaskHistoryNode(t)
  PROVE  HistoryInv'
<1>1. TurnShape(turn[t])
  BY DEF TurnsInv
<1> DEFINE Quiet(r) == /\ turn' = [turn EXCEPT ![t] = r]
                       /\ r.pc # "dispatch"
                       /\ turn[t].pc \notin {"dispatch", "failed"} \/ r.pc = "failed"
           Same == nodes' = nodes /\ queue' = queue
<1>2. ASSUME NEW r, Quiet(r), Same, Grows, \A th \in threads' : th.kind = "speak" => th \in threads
      PROVE  HistoryInv'
  BY <1>2, ElsewhereKeeps
<1>3. ASSUME NEW text, Begin(t, text) PROVE HistoryInv'
  <2>1. Quiet([turn[t] EXCEPT !.pc = "load", !.text = text, !.reply = NextCapturedAt])
    BY <1>1, <1>3 DEF Begin, TurnShape, Fields, NewTurn
  <2>2. Same /\ Grows /\ \A th \in threads' : th.kind = "speak" => th \in threads
    BY <1>3 DEF Begin, RecordInBackground, Spawn, Grows
  <2> QED
    BY <1>2, <2>1, <2>2
<1>4. CASE LoadContext(t)
  <2>1. Quiet([turn[t] EXCEPT !.pc = "choose", !.cycle = @ + 1, !.finished = FALSE, !.scope = {},
                              !.seen = CurrentConversation, !.known = UnderstandingInputs])
    BY <1>1, <1>4 DEF LoadContext, TurnShape, Fields, NewTurn
  <2> QED
    BY <1>2, <1>4, <2>1 DEF LoadContext, Grows
<1>5. ASSUME NEW doNothing \in BOOLEAN, NEW new, ReportTaskChoice(t, doNothing, new) PROVE HistoryInv'
  <2>1. Quiet([turn[t] EXCEPT !.idle = NextConsecutiveNoActionCount(@, doNothing),
                              !.picks = Append(@, doNothing), !.cands = @ \cup new,
                              !.finished = doNothing, !.seen = IF doNothing THEN <<>> ELSE @,
                              !.pc = IF doNothing THEN "request" ELSE "retrieve"])
    BY <1>1, <1>5 DEF ReportTaskChoice, TurnShape, Fields, NewTurn
  <2> QED
    BY <1>2, <1>5, <2>1 DEF ReportTaskChoice, Grows
<1>6. ASSUME NEW new, RetrieveMemories(t, new) PROVE HistoryInv'
  <2>1. Quiet([turn[t] EXCEPT !.scope = TaskConversationScope, !.seen = <<>>, !.cands = @ \cup new,
                              !.pc = "execute"])
    BY <1>1, <1>6 DEF RetrieveMemories, TurnShape, Fields, NewTurn
  <2> QED
    BY <1>2, <1>6, <2>1 DEF RetrieveMemories, Grows
<1>7. CASE SummarizeTaskActions(t)
  <2>1. Quiet([turn[t] EXCEPT !.pc = "check"])
    BY <1>1, <1>7 DEF SummarizeTaskActions, Go, TurnShape, Fields, NewTurn
  <2> QED
    BY <1>2, <1>7, <2>1 DEF SummarizeTaskActions, Grows
<1>8. ASSUME NEW pass \in BOOLEAN, CheckTaskCompletion(t, pass) PROVE HistoryInv'
  <2>1. Quiet([turn[t] EXCEPT !.pc = IF pass THEN "request" ELSE "resolve", !.finished = pass,
                 !.work = IF pass THEN Append(@, <<turn[t].cycle, turn[t].attempt>>) ELSE @])
    BY <1>1, <1>8 DEF CheckTaskCompletion, TurnShape, Fields, NewTurn
  <2> QED
    BY <1>2, <1>8, <2>1 DEF CheckTaskCompletion, Grows
<1>9. ASSUME NEW refine \in BOOLEAN, StoreValidationReply(t, refine) PROVE HistoryInv'
  <2>1. Quiet([turn[t] EXCEPT !.pc = IF refine THEN "execute" ELSE "load"])
    BY <1>1, <1>9 DEF StoreValidationReply, Go, TurnShape, Fields, NewTurn
  <2>2. Grows
    BY <1>9 DEF StoreValidationReply, StoreMessage, Msg, Grows
  <2> QED
    BY <1>2, <1>9, <2>1, <2>2 DEF StoreValidationReply
<1>15. CASE RecordValidationReply(t)
  <2>1. Quiet([turn[t] EXCEPT !.pc = "record"])
    BY <1>1, <1>15 DEF RecordValidationReply, Go, TurnShape, Fields, NewTurn
  <2> QED
    BY <1>2, <1>15, <2>1 DEF RecordValidationReply, Grows
<1>10. ASSUME NEW pass \in BOOLEAN, CheckRequestCompletion(t, pass) PROVE HistoryInv'
  <2>1. Quiet([turn[t] EXCEPT !.passed = pass /\ ShouldCheck(t),
                              !.pc = IF ~ShouldCheck(t) \/ pass THEN "review" ELSE "load"])
    BY <1>1, <1>10 DEF CheckRequestCompletion, TurnShape, Fields, NewTurn
  <2> QED
    BY <1>2, <1>10, <2>1 DEF CheckRequestCompletion, Grows
<1>11. ASSUME NEW keep, ReviewMemories(t, keep) PROVE HistoryInv'
  <2>1. Quiet([turn[t] EXCEPT !.batch = SetToSeq(keep), !.pc = "write"])
    BY <1>1, <1>11 DEF ReviewMemories, TurnShape, Fields, NewTurn
  <2> QED
    BY <1>2, <1>11, <2>1 DEF ReviewMemories, Grows
<1>12. CASE WriteCandidateMemory(t)
  <2>1. Quiet([turn[t] EXCEPT !.batch = Tail(@)])
    BY <1>1, <1>12 DEF WriteCandidateMemory, TurnShape, Fields, NewTurn
  <2> QED
    BY <1>2, <1>12, <2>1 DEF WriteCandidateMemory, Grows
<1>13. CASE Finish(t)
  <2>1. Quiet([turn[t] EXCEPT !.pc = "done", !.result = VoiceRequestResult(t),
                              !.cands = {}, !.known = {}, !.scope = {}])
    BY <1>1, <1>13 DEF Finish, TurnShape, Fields, NewTurn
  <2> QED
    BY <1>2, <1>13, <2>1 DEF Finish, Grows
<1>14. CASE TurnFails(t)
  <2>1. Quiet([NewTurn EXCEPT !.pc = "failed", !.text = turn[t].text, !.reply = turn[t].reply])
    BY <1>14 DEF TurnFails, NewTurn
  <2> QED
    BY <1>2, <1>14, <2>1 DEF TurnFails, Grows
<1> QED
  BY <1>3, <1>4, <1>5, <1>6, <1>7, <1>8, <1>9, <1>10, <1>11, <1>12, <1>13, <1>14, <1>15
  DEF TurnStep

(* An attempt begins: everything its model returned is left to do, and the *)
(* replies of the attempts before it have their nodes.                     *)
LEMMA ExecuteRecords ==
  ASSUME TurnsInv, HistoryInv, NEW t \in Turns, NEW returns \in Returns[t], ExecuteTask(t, returns)
  PROVE  HistoryInv'
<1> DEFINE r == [turn[t] EXCEPT !.attempt = @ + 1, !.todo = returns, !.acts = <<>>, !.pc = "dispatch"]
<1>1. /\ turn' = [turn EXCEPT ![t] = r] /\ turn[t].pc = "execute"
      /\ stored' = stored /\ nodes' = nodes /\ queue' = queue /\ threads' = threads
  BY DEF ExecuteTask
<1>2. TurnShape(turn[t]) /\ DOMAIN turn = Turns
  BY DEF TurnsInv
<1>3. r.acts = <<>> /\ r.todo = returns
  BY <1>2 DEF TurnShape, Fields, NewTurn
<1>4. r.acts \o r.todo \in Returns[t]
  <2>1. returns \in Seq(STRING)
    BY FlowBounds
  <2>2. <<>> \o returns = returns
    BY <2>1, ConcatEmptySeq
  <2> QED
    BY <1>3, <2>2
<1> HIDE DEF r
<1>5. turn'[t] = r /\ \A u \in Turns \ {t} : turn'[u] = turn[u]
  BY <1>1, <1>2
<1>6. \A u \in Turns : Dispatching(turn'[u], u)
  BY <1>4, <1>5 DEF HistoryInv, Dispatching
<1>7. ASSUME NEW u \in Turns, NEW a, Recorded(turn[u], nodes, u, a)
      PROVE  Recorded(turn'[u], nodes, u, a)
  BY <1>1, <1>5, <1>7 DEF Recorded
<1>8. ASSUME NEW i \in 1..Len(stored), stored[i].role = "agent", stored[i].text[1] \in Turns
      PROVE  Recorded(turn'[stored[i].text[1]], nodes, stored[i].text[1], stored[i].text[2])
  BY <1>7, <1>8 DEF HistoryInv
<1> QED
  BY <1>1, <1>6, <1>8 DEF HistoryInv

(* One action of the attempt; a reply is stored before it is spoken, and   *)
(* the turn still has to append the node of the attempt.                   *)
LEMMA DispatchRecords ==
  ASSUME TurnsInv, HistoryInv, NEW t \in Turns, DispatchCall(t)
  PROVE  HistoryInv'
<1> DEFINE q == turn[t]
           name == Head(q.todo)
           r == [q EXCEPT !.todo = Tail(@), !.acts = Append(@, name)]
<1>1. /\ turn' = [turn EXCEPT ![t] = r] /\ q.pc = "dispatch" /\ q.todo # <<>>
      /\ nodes' = nodes /\ queue' = queue
  BY DEF DispatchCall
<1>2. TurnShape(q) /\ DOMAIN turn = Turns
  BY DEF TurnsInv
<1>3. /\ r.todo = Tail(q.todo) /\ r.acts = Append(q.acts, name)
      /\ r.pc = "dispatch" /\ r.attempt = q.attempt
  BY <1>1, <1>2 DEF TurnShape, Fields, NewTurn
<1> HIDE DEF r
<1>4. r.acts \o r.todo = q.acts \o q.todo /\ r.acts # <<>>
  <2>1. q.acts \in Seq(STRING) /\ q.todo \in Seq(STRING) /\ q.todo # <<>>
    BY <1>1, <1>2 DEF TurnShape
  <2>2. /\ Append(q.acts, name) \o Tail(q.todo) = q.acts \o q.todo
        /\ Append(q.acts, name) # <<>>
    BY <2>1, Moved
  <2> QED
    BY <1>3, <2>2
<1>5. turn'[t] = r /\ \A u \in Turns \ {t} : turn'[u] = turn[u]
  BY <1>1, <1>2
<1>6. \A u \in Turns : Dispatching(turn'[u], u)
  BY <1>1, <1>3, <1>4, <1>5 DEF HistoryInv, Dispatching
<1>7. ASSUME NEW u \in Turns, NEW a, Recorded(turn[u], nodes, u, a)
      PROVE  Recorded(turn'[u], nodes, u, a)
  BY <1>1, <1>3, <1>4, <1>5, <1>7 DEF Recorded
<1>8. Recorded(turn'[t], nodes, t, q.attempt)
  BY <1>3, <1>4, <1>5 DEF Recorded
<1>9. IsSeq(queue) /\ IsSeq(stored)
  BY DEF HistoryInv
<1>10. CASE Grows /\ threads' = threads
  <2>1. ASSUME NEW i \in 1..Len(stored'), stored'[i].role = "agent", stored'[i].text[1] \in Turns
        PROVE  Recorded(turn'[stored'[i].text[1]], nodes', stored'[i].text[1], stored'[i].text[2])
    <3>1. i \in 1..Len(stored) /\ stored'[i] = stored[i]
      BY <1>10, <2>1, GrowsFacts
    <3>2. Recorded(turn[stored[i].text[1]], nodes, stored[i].text[1], stored[i].text[2])
      BY <2>1, <3>1 DEF HistoryInv
    <3>3. Recorded(turn'[stored[i].text[1]], nodes, stored[i].text[1], stored[i].text[2])
      BY <1>7, <2>1, <3>1, <3>2
    <3> QED
      BY <1>1, <3>1, <3>3
  <2>2. \A i \in 1..Len(queue) : Kept(stored', queue[i])
    BY <1>10, GrowsKeeps DEF HistoryInv
  <2>3. \A th \in threads : th.kind = "speak" => Kept(stored', th.text)
    BY <1>10, GrowsKeeps DEF HistoryInv
  <2> QED
    BY <1>1, <1>6, <1>9, <1>10, <2>1, <2>2, <2>3, GrowsFacts DEF HistoryInv
<1>11. CASE AgentReply(t)
  <2> DEFINE m == Msg("agent", ReplyOf(t), Stamp("agent"))
  <2>1. /\ stored' = Append(stored, m)
        /\ threads' = threads \cup {[kind |-> "speak", turn |-> t, text |-> ReplyOf(t)]}
    BY <1>11 DEF AgentReply, StoreMessage, Spawn
  <2>2. m.role = "agent" /\ m.text = <<t, q.attempt>> /\ ReplyOf(t) = <<t, q.attempt>>
    BY DEF Msg, ReplyOf
  <2> HIDE DEF m
  <2>3. /\ IsSeq(stored') /\ Len(stored) \in Nat /\ Len(stored') = Len(stored) + 1
        /\ (\A i \in 1..Len(stored) : stored'[i] = stored[i]) /\ stored'[Len(stored) + 1] = m
    BY <1>9, <2>1, AppendFacts
  <2>4. ASSUME NEW x, Kept(stored, x) PROVE Kept(stored', x)
    BY <2>3, <2>4 DEF Kept
  <2>5. Kept(stored', ReplyOf(t))
    BY <2>2, <2>3 DEF Kept
  <2>6. ASSUME NEW i \in 1..Len(stored'), stored'[i].role = "agent", stored'[i].text[1] \in Turns
        PROVE  Recorded(turn'[stored'[i].text[1]], nodes', stored'[i].text[1], stored'[i].text[2])
    <3>1. CASE i = Len(stored) + 1
      <4>1. stored'[i].text[1] = t /\ stored'[i].text[2] = q.attempt
        BY <2>2, <2>3, <3>1
      <4> QED
        BY <1>1, <1>8, <4>1
    <3>2. CASE i # Len(stored) + 1
      <4>1. i \in 1..Len(stored) /\ stored'[i] = stored[i]
        BY <2>3, <2>6, <3>2
      <4>2. Recorded(turn[stored[i].text[1]], nodes, stored[i].text[1], stored[i].text[2])
        BY <2>6, <4>1 DEF HistoryInv
      <4>3. Recorded(turn'[stored[i].text[1]], nodes, stored[i].text[1], stored[i].text[2])
        BY <1>7, <2>6, <4>1, <4>2
      <4> QED
        BY <1>1, <4>1, <4>3
    <3> QED
      BY <3>1, <3>2
  <2>7. \A i \in 1..Len(queue) : Kept(stored', queue[i])
    BY <2>4 DEF HistoryInv
  <2>8. \A th \in threads' : th.kind = "speak" => Kept(stored', th.text)
    BY <2>1, <2>4, <2>5 DEF HistoryInv
  <2> QED
    BY <1>1, <1>6, <1>9, <2>3, <2>6, <2>7, <2>8 DEF HistoryInv
<1>12. CASE AgentThought(t)
  <2>1. Grows /\ threads' = threads
    BY <1>12 DEF AgentThought, StoreMessage, Msg, Grows
  <2> QED
    BY <1>10, <2>1
<1>13. CASE TurnOffConversation
  BY <1>10, <1>13 DEF TurnOffConversation, Grows
<1>14. CASE CreateMemory(t, name)
  BY <1>10, <1>14 DEF CreateMemory, Grows
<1> QED
  BY <1>11, <1>12, <1>13, <1>14 DEF DispatchCall

(* The node of the attempt: its actions are everything that was returned.  *)
LEMMA AppendNodeRecords ==
  ASSUME TurnsInv, HistoryInv, NEW t \in Turns, AppendTaskHistoryNode(t)
  PROVE  HistoryInv'
<1> DEFINE q == turn[t]
           new == [turn |-> t, attempt |-> q.attempt, acts |-> q.acts]
           r == [q EXCEPT !.acts = <<>>, !.pc = "summarize"]
<1>1. /\ turn' = [turn EXCEPT ![t] = r] /\ q.pc = "dispatch" /\ q.todo = <<>>
      /\ queue' = queue /\ stored' = stored /\ threads' = threads
      /\ nodes' = IF q.acts = <<>> THEN nodes ELSE nodes \cup {new}
  BY DEF AppendTaskHistoryNode
<1>2. TurnShape(q) /\ DOMAIN turn = Turns
  BY DEF TurnsInv
<1>3. r.pc = "summarize"
  BY <1>2 DEF TurnShape, Fields, NewTurn
<1> HIDE DEF r
<1>4. turn'[t] = r /\ \A u \in Turns \ {t} : turn'[u] = turn[u]
  BY <1>1, <1>2
<1>5. q.acts \in Returns[t]
  <2>1. q.acts \in Seq(STRING) /\ q.acts \o q.todo \in Returns[t]
    BY <1>1, <1>2 DEF TurnShape, HistoryInv, Dispatching
  <2>2. q.acts \o <<>> = q.acts
    BY <2>1, ConcatEmptySeq
  <2> QED
    BY <1>1, <2>1, <2>2
<1>6. \A u \in Turns : Dispatching(turn'[u], u)
  BY <1>3, <1>4 DEF HistoryInv, Dispatching
<1>7. \A n \in nodes' : n.turn \in Turns /\ n.acts \in Returns[n.turn]
  BY <1>1, <1>5 DEF HistoryInv
<1>8. ASSUME NEW u \in Turns, NEW a, Recorded(turn[u], nodes, u, a)
      PROVE  Recorded(turn'[u], nodes', u, a)
  <2>1. CASE \E n \in nodes : n.turn = u /\ n.attempt = a
    BY <1>1, <2>1 DEF Recorded
  <2>2. CASE u # t /\ ~ \E n \in nodes : n.turn = u /\ n.attempt = a
    BY <1>4, <1>8, <2>2 DEF Recorded
  <2>3. CASE u = t /\ ~ \E n \in nodes : n.turn = u /\ n.attempt = a
    <3>1. q.acts # <<>> /\ q.attempt = a
      BY <1>1, <1>8, <2>3 DEF Recorded
    <3>2. new \in nodes' /\ new.turn = u /\ new.attempt = a
      BY <1>1, <2>3, <3>1
    <3> QED
      BY <3>2 DEF Recorded
  <2> QED
    BY <2>1, <2>2, <2>3
<1>9. ASSUME NEW i \in 1..Len(stored), stored[i].role = "agent", stored[i].text[1] \in Turns
      PROVE  Recorded(turn'[stored[i].text[1]], nodes', stored[i].text[1], stored[i].text[2])
  BY <1>8, <1>9 DEF HistoryInv
<1> QED
  BY <1>1, <1>6, <1>7, <1>9 DEF HistoryInv

(* The threads: a reply that is spoken has been stored.                    *)
LEMMA ThreadsRecord ==
  ASSUME TurnsInv, HistoryInv, ThreadStep
  PROVE  HistoryInv'
<1>1. turn' = turn /\ nodes' = nodes /\ IsSeq(queue)
  BY DEF ThreadStep, RecordHumanReply, Speak, RecordReplyInterrupted, SpeechInterrupted, HistoryInv
<1>2. ASSUME Grows, IsSeq(queue'), \A i \in 1..Len(queue') : Kept(stored, queue'[i]),
             \A th \in threads' : th.kind = "speak" => th \in threads
      PROVE  HistoryInv'
  <2>1. ASSUME NEW i \in 1..Len(stored'), stored'[i].role = "agent", stored'[i].text[1] \in Turns
        PROVE  Recorded(turn'[stored'[i].text[1]], nodes', stored'[i].text[1], stored'[i].text[2])
    <3>1. i \in 1..Len(stored) /\ stored'[i] = stored[i]
      BY <1>2, <2>1, GrowsFacts
    <3>2. Recorded(turn[stored[i].text[1]], nodes, stored[i].text[1], stored[i].text[2])
      BY <2>1, <3>1 DEF HistoryInv
    <3> QED
      BY <1>1, <3>1, <3>2
  <2>2. \A i \in 1..Len(queue') : Kept(stored', queue'[i])
    BY <1>2, GrowsKeeps
  <2>3. \A th \in threads' : th.kind = "speak" => Kept(stored', th.text)
    BY <1>2, GrowsKeeps DEF HistoryInv
  <2>4. (\A t \in Turns : Dispatching(turn'[t], t)) /\ IsSeq(stored')
    BY <1>1, <1>2, GrowsFacts DEF HistoryInv
  <2>5. \A n \in nodes' : n.turn \in Turns /\ n.acts \in Returns[n.turn]
    BY <1>1 DEF HistoryInv
  <2> QED
    BY <1>2, <2>1, <2>2, <2>3, <2>4, <2>5 DEF HistoryInv
<1>3. ASSUME NEW th \in threads, RecordHumanReply(th) PROVE HistoryInv'
  <2>1. Grows
    BY <1>3 DEF RecordHumanReply, StoreMessage, Msg, Grows
  <2> QED
    BY <1>1, <1>2, <1>3, <2>1 DEF RecordHumanReply, HistoryInv
<1>4. ASSUME NEW th \in threads, RecordReplyInterrupted(th) PROVE HistoryInv'
  <2>1. Grows
    BY <1>4 DEF RecordReplyInterrupted, StoreMessage, Msg, Grows
  <2> QED
    BY <1>1, <1>2, <1>4, <2>1 DEF RecordReplyInterrupted, HistoryInv
<1>5. ASSUME NEW th \in threads, Speak(th) PROVE HistoryInv'
  <2>1. Kept(stored, th.text) /\ queue' = Append(queue, th.text)
    BY <1>5 DEF Speak, HistoryInv
  <2>2. /\ IsSeq(queue') /\ Len(queue) \in Nat /\ Len(queue') = Len(queue) + 1
        /\ (\A i \in 1..Len(queue) : queue'[i] = queue[i]) /\ queue'[Len(queue) + 1] = th.text
    BY <1>1, <2>1, AppendFacts
  <2>3. \A i \in 1..Len(queue') : i \in 1..Len(queue) \/ i = Len(queue) + 1
    BY <2>2
  <2>4. \A i \in 1..Len(queue') : Kept(stored, queue'[i])
    BY <2>1, <2>2, <2>3 DEF HistoryInv
  <2> QED
    BY <1>2, <1>5, <2>2, <2>4 DEF Speak, Grows
<1>6. ASSUME NEW i \in DOMAIN queue, SpeechInterrupted(i) PROVE HistoryInv'
  <2>1. i \in 1..Len(queue) /\ queue' = RemoveAt(queue, i)
    BY <1>1, <1>6, SeqDomain DEF SpeechInterrupted
  <2>2. IsSeq(queue') /\ \A j \in 1..Len(queue') : \E k \in 1..Len(queue) : queue'[j] = queue[k]
    BY <1>1, <2>1, RemoveAtFacts
  <2>3. \A j \in 1..Len(queue') : Kept(stored, queue'[j])
    BY <2>2 DEF HistoryInv
  <2>4. \A th \in threads' : th.kind = "speak" => th \in threads
    BY <1>6 DEF SpeechInterrupted, Spawn
  <2> QED
    BY <1>2, <1>6, <2>2, <2>3, <2>4 DEF SpeechInterrupted, Grows
<1> QED
  BY <1>3, <1>4, <1>5, <1>6 DEF ThreadStep

LEMMA HistoryStep ==
  ASSUME TurnsInv, HistoryInv, [Next]_vars
  PROVE  HistoryInv'
<1>1. ASSUME NEW t \in Turns, TurnStep(t) PROVE HistoryInv'
  <2>1. CASE \E returns \in Returns[t] : ExecuteTask(t, returns)
    BY <2>1, ExecuteRecords
  <2>2. CASE DispatchCall(t)
    BY <2>2, DispatchRecords
  <2>3. CASE AppendTaskHistoryNode(t)
    BY <2>3, AppendNodeRecords
  <2> QED
    BY <1>1, <2>1, <2>2, <2>3, QuietSteps
<1>2. CASE UNCHANGED vars
  BY <1>2 DEF vars, HistoryInv
<1> QED
  BY <1>1, <1>2, ThreadsRecord DEF Next

(* A reply that is kept is counted.                                        *)
LEMMA KeptCounts ==
  ASSUME NEW s, IsSeq(s), NEW x, Kept(s, x)
  PROVE  Count(s, <<"agent", x>>) > 0
<1> DEFINE A == {i \in DOMAIN s : Key(s[i]) = <<"agent", x>>}
<1>1. DOMAIN s = 1..Len(s) /\ Len(s) \in Nat
  BY SeqDomain
<1>2. IsFiniteSet(DOMAIN s)
  BY <1>1, FS_Interval
<1>3. IsFiniteSet(A) /\ Cardinality(A) \in Nat
  BY <1>2, FS_Subset, FS_CardinalityType
<1>4. PICK i \in 1..Len(s) : s[i].role = "agent" /\ s[i].text = x
  BY DEF Kept
<1>5. i \in A
  BY <1>1, <1>4 DEF Key
<1>6. Cardinality(A) # 0
  BY <1>3, <1>5, FS_EmptySet
<1> QED
  BY <1>3, <1>6 DEF Count

LEMMA HistoryInvExact == HistoryInv => HistoryExact
<1> SUFFICES ASSUME HistoryInv PROVE HistoryExact
  OBVIOUS
<1>1. DOMAIN stored = 1..Len(stored) /\ DOMAIN queue = 1..Len(queue) /\ IsSeq(stored)
  BY SeqDomain DEF HistoryInv
<1>2. \A n \in nodes : n.acts \in Returns[n.turn]
  BY DEF HistoryInv
<1>3. ASSUME NEW i \in DOMAIN stored, stored[i].role = "agent", stored[i].text[1] \in Turns,
             turn[stored[i].text[1]].pc = "done"
      PROVE  \E n \in nodes : n.turn = stored[i].text[1] /\ n.attempt = stored[i].text[2]
  BY <1>1, <1>3 DEF HistoryInv, Recorded
<1>4. ASSUME NEW x \in {queue[i] : i \in DOMAIN queue}
                        \cup {th.text : th \in {h \in threads : h.kind = "speak"}}
      PROVE  Count(stored, <<"agent", x>>) > 0
  <2>1. Kept(stored, x)
    BY <1>1, <1>4 DEF HistoryInv
  <2> QED
    BY <1>1, <2>1, KeptCounts
<1> QED
  BY <1>2, <1>3, <1>4 DEF HistoryExact

------------------------------------------------------------------------------
(* Types.                                                                    *)

TypeInv ==
  /\ IsSeq(live) /\ IsSeq(memories)
  /\ \A t \in Turns : turn[t].cands \subseteq Candidates[t] /\ turn[t].known \subseteq Range(memories)
  /\ active \subseteq {live[i].at : i \in DOMAIN live}
  /\ mode \in {"on", "off"} /\ now \in Nat

LEMMA TypeInit == Init => TypeInv
<1> SUFFICES ASSUME Init PROVE TypeInv
  OBVIOUS
<1>1. IsSeq(live) /\ IsSeq(memories)
  BY <<>> \in Seq({}) DEF Init, IsSeq
<1>2. \A t \in Turns : turn[t].cands = {} /\ turn[t].known = {}
  BY DEF Init, NewTurn
<1>3. now \in Nat
  BY OldConversation DEF Init
<1> QED
  BY <1>1, <1>2, <1>3 DEF Init, TypeInv

(* Appending keeps what is in a sequence.                                  *)
LEMMA AppendRange ==
  ASSUME NEW s, IsSeq(s), NEW e
  PROVE  /\ IsSeq(Append(s, e)) /\ Range(s) \subseteq Range(Append(s, e))
         /\ {s[i].at : i \in DOMAIN s} \cup {e.at} \subseteq {Append(s, e)[i].at : i \in DOMAIN Append(s, e)}
<1> DEFINE a == Append(s, e)
<1>1. /\ IsSeq(a) /\ Len(s) \in Nat /\ Len(a) = Len(s) + 1
      /\ (\A i \in 1..Len(s) : a[i] = s[i]) /\ a[Len(s) + 1] = e
  BY AppendFacts
<1>2. DOMAIN s = 1..Len(s)
  BY SeqDomain
<1> HIDE DEF a
<1>3. DOMAIN a = 1..Len(a)
  BY <1>1, SeqDomain
<1>4. (\A i \in DOMAIN s : i \in DOMAIN a /\ a[i] = s[i]) /\ Len(s) + 1 \in DOMAIN a
  BY <1>1, <1>2, <1>3
<1>5. Range(s) \subseteq Range(a)
  BY <1>4 DEF Range
<1>6. {s[i].at : i \in DOMAIN s} \subseteq {a[i].at : i \in DOMAIN a}
  BY <1>4
<1>7. e.at \in {a[i].at : i \in DOMAIN a}
  BY <1>1, <1>4
<1> QED
  BY <1>1, <1>5, <1>6, <1>7 DEF a

(* Memories are only added.                                                *)
LEMMA MemoriesGrow ==
  ASSUME TypeInv, [Next]_vars
  PROVE  IsSeq(memories') /\ Range(memories) \subseteq Range(memories')
<1>1. memories' = memories \/ \E e : memories' = Append(memories, e)
  <2>1. ASSUME NEW t \in Turns, TurnStep(t)
        PROVE  memories' = memories \/ \E e : memories' = Append(memories, e)
    <3>1. CASE DispatchCall(t)
      BY <3>1 DEF DispatchCall, AgentReply, AgentThought, TurnOffConversation, CreateMemory
    <3>2. CASE WriteCandidateMemory(t)
      BY <3>2 DEF WriteCandidateMemory
    <3> QED
      BY <2>1, <3>1, <3>2 DEF TurnStep, Begin, LoadContext, ReportTaskChoice, RetrieveMemories,
         ExecuteTask, AppendTaskHistoryNode, SummarizeTaskActions, CheckTaskCompletion,
         RecordValidationReply, StoreValidationReply, CheckRequestCompletion, ReviewMemories, Finish, TurnFails
  <2>2. CASE ThreadStep \/ UNCHANGED vars
    BY <2>2 DEF ThreadStep, RecordHumanReply, Speak, RecordReplyInterrupted, SpeechInterrupted, vars
  <2> QED
    BY <2>1, <2>2 DEF Next
<1>2. IsSeq(memories)
  BY DEF TypeInv
<1> QED
  BY <1>1, <1>2, AppendRange

(* Every active reply is the time of a live message.                       *)
LEMMA LiveGrows ==
  ASSUME TypeInv, [Next]_vars
  PROVE  IsSeq(live') /\ active' \subseteq {live'[i].at : i \in DOMAIN live'}
<1>1. \/ live' = live /\ active' \subseteq active
      \/ \E m : live' = Append(live, m) /\ active' \subseteq active \cup {m.at}
  <2>1. ASSUME NEW t \in Turns, NEW text, Begin(t, text)
        PROVE  \E m : live' = Append(live, m) /\ active' \subseteq active \cup {m.at}
    BY <2>1 DEF Begin, AddLive, Msg, Stamp
  <2>2. ASSUME NEW t \in Turns, RecordValidationReply(t)
        PROVE  \E m : live' = Append(live, m) /\ active' \subseteq active \cup {m.at}
    BY <2>2 DEF RecordValidationReply, AddLive
  <2>3. ASSUME NEW t \in Turns, Finish(t)
        PROVE  live' = live /\ active' \subseteq active
    BY <2>3 DEF Finish, ResolveHumanReply
  <2>4. ASSUME NEW t \in Turns, TurnStep(t), ~Finish(t),
               \A text : ~Begin(t, text), ~RecordValidationReply(t)
        PROVE  live' = live /\ active' = active
    BY <2>4 DEF TurnStep, LoadContext, ReportTaskChoice, RetrieveMemories, ExecuteTask,
       DispatchCall, AppendTaskHistoryNode, SummarizeTaskActions, CheckTaskCompletion,
       StoreValidationReply, CheckRequestCompletion, ReviewMemories, WriteCandidateMemory, TurnFails
  <2>5. CASE ThreadStep \/ UNCHANGED vars
    BY <2>5 DEF ThreadStep, RecordHumanReply, Speak, RecordReplyInterrupted, SpeechInterrupted, vars
  <2> QED
    BY <2>1, <2>2, <2>3, <2>4, <2>5 DEF Next
<1>2. IsSeq(live) /\ active \subseteq {live[i].at : i \in DOMAIN live}
  BY DEF TypeInv
<1>3. CASE live' = live /\ active' \subseteq active
  BY <1>2, <1>3
<1>4. CASE \E m : live' = Append(live, m) /\ active' \subseteq active \cup {m.at}
  <2>1. PICK m : live' = Append(live, m) /\ active' \subseteq active \cup {m.at}
    BY <1>4
  <2>2. /\ IsSeq(live')
        /\ {live[i].at : i \in DOMAIN live} \cup {m.at} \subseteq {live'[i].at : i \in DOMAIN live'}
    BY <1>2, <2>1, AppendRange
  <2> QED
    BY <1>2, <2>1, <2>2
<1> QED
  BY <1>1, <1>3, <1>4

LEMMA ClockTicks ==
  ASSUME TypeInv, [Next]_vars
  PROVE  mode' \in {"on", "off"} /\ now' \in Nat
<1>1. now \in Nat /\ mode \in {"on", "off"}
  BY DEF TypeInv
<1>2. ASSUME NEW role, Tick(role) PROVE now' \in Nat
  BY <1>1, <1>2 DEF Tick, NextCapturedAt
<1>3. ASSUME NEW role, NEW text, StoreMessage(role, text) PROVE now' \in Nat
  BY <1>2, <1>3 DEF StoreMessage
<1>4. ASSUME NEW t \in Turns, TurnStep(t)
      PROVE  mode' \in {"on", "off"} /\ now' \in Nat
  <2>1. CASE DispatchCall(t)
    <3>1. \/ AgentReply(t) \/ AgentThought(t) \/ TurnOffConversation
          \/ CreateMemory(t, Head(turn[t].todo))
      BY <2>1 DEF DispatchCall
    <3> QED
      BY <1>1, <1>3, <3>1 DEF AgentReply, AgentThought, TurnOffConversation, CreateMemory
  <2>2. CASE \E text \in Texts[t] : Begin(t, text)
    BY <1>1, <1>2, <2>2 DEF Begin
  <2>3. CASE \E refine \in BOOLEAN : StoreValidationReply(t, refine)
    BY <1>1, <1>3, <2>3 DEF StoreValidationReply
  <2> QED
    BY <1>1, <1>4, <2>1, <2>2, <2>3 DEF TurnStep, LoadContext, ReportTaskChoice, RetrieveMemories,
       ExecuteTask, AppendTaskHistoryNode, SummarizeTaskActions, CheckTaskCompletion,
       RecordValidationReply, CheckRequestCompletion, ReviewMemories, WriteCandidateMemory, Finish, TurnFails
<1>5. CASE ThreadStep
  BY <1>1, <1>3, <1>5 DEF ThreadStep, RecordHumanReply, Speak, RecordReplyInterrupted, SpeechInterrupted
<1>6. CASE UNCHANGED vars
  BY <1>1, <1>6 DEF vars
<1> QED
  BY <1>4, <1>5, <1>6 DEF Next

(* What a turn proposes comes from its prompts, and what it knows to be    *)
(* stored has been stored.                                                 *)
LEMMA CandidatesStay ==
  ASSUME TurnsInv, TypeInv, [Next]_vars, NEW u \in Turns
  PROVE  turn'[u].cands \subseteq Candidates[u] /\ turn'[u].known \subseteq Range(memories')
<1>1. /\ turn[u].cands \subseteq Candidates[u] /\ turn[u].known \subseteq Range(memories')
      /\ Range(memories) \subseteq Range(memories')
  BY MemoriesGrow DEF TypeInv
<1>2. DOMAIN turn = Turns /\ TurnShape(turn[u])
  BY DEF TurnsInv
<1>3. CASE turn'[u] = turn[u]
  BY <1>1, <1>3
<1>4. CASE TurnStep(u)
  <2>1. CASE LoadContext(u)
    BY <1>1, <1>2, <2>1 DEF LoadContext, UnderstandingInputs, TurnShape, Fields, NewTurn
  <2>2. ASSUME NEW doNothing \in BOOLEAN, NEW new \in SUBSET Candidates[u],
               ReportTaskChoice(u, doNothing, new)
        PROVE  turn'[u].cands \subseteq Candidates[u] /\ turn'[u].known = turn[u].known
    BY <1>1, <1>2, <2>2 DEF ReportTaskChoice, TurnShape, Fields, NewTurn
  <2>3. ASSUME NEW new \in SUBSET Candidates[u], RetrieveMemories(u, new)
        PROVE  turn'[u].cands \subseteq Candidates[u] /\ turn'[u].known = turn[u].known
    BY <1>1, <1>2, <2>3 DEF RetrieveMemories, TurnShape, Fields, NewTurn
  <2>4. CASE Finish(u)
    BY <1>2, <2>4 DEF Finish, TurnShape, Fields, NewTurn
  <2>5. CASE TurnFails(u)
    BY <1>2, <2>5 DEF TurnFails, NewTurn
  <2> DEFINE Same == turn'[u].cands = turn[u].cands /\ turn'[u].known = turn[u].known
  <2>6. ASSUME NEW text, Begin(u, text) PROVE Same
    BY <1>2, <2>6 DEF Begin, TurnShape, Fields, NewTurn
  <2>7. ASSUME NEW returns, ExecuteTask(u, returns) PROVE Same
    BY <1>2, <2>7 DEF ExecuteTask, TurnShape, Fields, NewTurn
  <2>8. ASSUME DispatchCall(u) PROVE Same
    BY <1>2, <2>8 DEF DispatchCall, TurnShape, Fields, NewTurn
  <2>9. ASSUME AppendTaskHistoryNode(u) \/ SummarizeTaskActions(u) PROVE Same
    BY <1>2, <2>9 DEF AppendTaskHistoryNode, SummarizeTaskActions, Go, TurnShape, Fields, NewTurn
  <2>10. ASSUME NEW pass, CheckTaskCompletion(u, pass) PROVE Same
    BY <1>2, <2>10 DEF CheckTaskCompletion, TurnShape, Fields, NewTurn
  <2>11. ASSUME NEW refine, RecordValidationReply(u) \/ StoreValidationReply(u, refine) PROVE Same
    BY <1>2, <2>11 DEF RecordValidationReply, StoreValidationReply, Go, TurnShape, Fields, NewTurn
  <2>12. ASSUME NEW pass, CheckRequestCompletion(u, pass) PROVE Same
    BY <1>2, <2>12 DEF CheckRequestCompletion, TurnShape, Fields, NewTurn
  <2>13. ASSUME NEW keep, ReviewMemories(u, keep) PROVE Same
    BY <1>2, <2>13 DEF ReviewMemories, TurnShape, Fields, NewTurn
  <2>14. ASSUME WriteCandidateMemory(u) PROVE Same
    BY <1>2, <2>14 DEF WriteCandidateMemory, TurnShape, Fields, NewTurn
  <2> QED
    BY <1>1, <1>4, <2>1, <2>2, <2>3, <2>4, <2>5, <2>6, <2>7, <2>8, <2>9, <2>10, <2>11, <2>12, <2>13, <2>14
    DEF TurnStep
<1>5. turn'[u] = turn[u] \/ TurnStep(u)
  <2>1. ASSUME NEW t \in Turns, TurnStep(t), t # u PROVE turn'[u] = turn[u]
    BY <1>2, <2>1 DEF TurnStep, Begin, LoadContext, ReportTaskChoice, RetrieveMemories,
       ExecuteTask, DispatchCall, AppendTaskHistoryNode, SummarizeTaskActions, Go, CheckTaskCompletion,
       RecordValidationReply, StoreValidationReply, CheckRequestCompletion, ReviewMemories,
       WriteCandidateMemory, Finish, TurnFails
  <2>2. CASE ThreadStep \/ UNCHANGED vars
    BY <2>2 DEF ThreadStep, RecordHumanReply, Speak, RecordReplyInterrupted, SpeechInterrupted, vars
  <2> QED
    BY <2>1, <2>2 DEF Next
<1> QED
  BY <1>3, <1>4, <1>5

LEMMA TypeStep ==
  ASSUME TurnsInv, TypeInv, [Next]_vars
  PROVE  TypeInv'
<1>1. \A u \in Turns : turn'[u].cands \subseteq Candidates[u] /\ turn'[u].known \subseteq Range(memories')
  BY CandidatesStay
<1>2. IsSeq(memories') /\ IsSeq(live') /\ active' \subseteq {live'[i].at : i \in DOMAIN live'}
  BY MemoriesGrow, LiveGrows
<1>3. mode' \in {"on", "off"} /\ now' \in Nat
  BY ClockTicks
<1> QED
  BY <1>1, <1>2, <1>3 DEF TypeInv

LEMMA InvIsTyped == TurnsInv /\ TypeInv => TypeOK
BY DEF TurnsInv, TurnShape, TypeInv, TypeOK

------------------------------------------------------------------------------
(* What a turn leaves behind is what it earned, for any turns, answers and *)
(* interleavings: it ends when a completed cycle passed the request check  *)
(* or after three do-nothing choices in a row, with the result of its last *)
(* completed task; a task history node has the actions of its own attempt; *)
(* every reply of a finished turn is in the history, and only what is      *)
(* stored is spoken (RunVoiceTurn, task_flow_host.py).                     *)
THEOREM TurnsAreSound == Spec => []TurnsSound
<1> DEFINE Inv == TurnsInv /\ HistoryInv /\ TypeInv
<1>1. Init => Inv
  BY TurnsInit, HistoryInit, TypeInit
<1>2. Inv /\ [Next]_vars => Inv'
  BY TurnsStep, HistoryStep, TypeStep
<1>3. Inv => TurnsSound
  BY TurnsInvEarns, HistoryInvExact, InvIsTyped DEF TurnsSound
<1> HIDE DEF Inv
<1> QED
  BY <1>1, <1>2, <1>3, PTL DEF Spec

-----------------------------------------------------------------------------
(***************************************************************************)
(* A filesystem memory that was published stays (PublishedStays), for any  *)
(* processes and any plans of theirs that edit and delete filesystem       *)
(* memories only by publishing (PlanAssumption), whatever is cut short.    *)
(*                                                                         *)
(* FilesInv says that a filesystem memory has the identity of its content, *)
(* unless it is of before the identities, and is under its root and no     *)
(* other (GraphInv); that no query left to run would edit, unlink or       *)
(* remove one (QuerySeq); where each publication under way stands          *)
(* (PublishingAt); and what the publications that returned have (OverInv). *)
(* A step then spares every filesystem memory (GraphSpared): the one that  *)
(* publishes over a record has found the same identity in it.              *)
(***************************************************************************)
------------------------------------------------------------------------------
(* Queries that spare the filesystem memories.                               *)

QuerySeq(s) == IsSeq(s) /\ \A i \in DOMAIN s : Sparing(s[i])

LEMMA NoQueries == QuerySeq(<<>>)
<1>1. <<>> \in Seq({})
  OBVIOUS
<1> QED
  BY <1>1 DEF QuerySeq, IsSeq

LEMMA OneQuery ==
  ASSUME NEW x, Sparing(x)
  PROVE  QuerySeq(<<x>>)
<1>1. <<x>> \in Seq({x})
  OBVIOUS
<1>2. \A i \in DOMAIN <<x>> : <<x>>[i] = x
  OBVIOUS
<1> QED
  BY <1>1, <1>2 DEF QuerySeq, IsSeq

(* Queries put before others spare the memories if both do.               *)
LEMMA ConcatQueries ==
  ASSUME NEW s, NEW t, QuerySeq(s), QuerySeq(t)
  PROVE  QuerySeq(s \o t)
<1>1. PICK S : s \in Seq(S)
  BY DEF QuerySeq, IsSeq
<1>2. PICK T : t \in Seq(T)
  BY DEF QuerySeq, IsSeq
<1>3. s \in Seq(S \cup T) /\ t \in Seq(S \cup T)
  BY <1>1, <1>2, SeqMonotone
<1>4. s \o t \in Seq(S \cup T)
  BY <1>3
<1>5. ASSUME NEW i \in DOMAIN (s \o t)
      PROVE  Sparing((s \o t)[i])
  <2>1. i \in 1..(Len(s) + Len(t)) /\ Len(s) \in Nat /\ Len(t) \in Nat
    BY <1>3, <1>5
  <2>2. CASE i <= Len(s)
    <3>1. (s \o t)[i] = s[i] /\ i \in DOMAIN s
      BY <1>3, <2>1, <2>2
    <3> QED
      BY <3>1 DEF QuerySeq
  <2>3. CASE i > Len(s)
    <3>1. (s \o t)[i] = t[i - Len(s)] /\ i - Len(s) \in DOMAIN t
      BY <1>3, <2>1, <2>3
    <3> QED
      BY <3>1 DEF QuerySeq
  <2> QED
    BY <2>1, <2>2, <2>3
<1> QED
  BY <1>4, <1>5 DEF QuerySeq, IsSeq

LEMMA TailQueries ==
  ASSUME NEW s, QuerySeq(s), s # <<>>
  PROVE  Sparing(Head(s)) /\ QuerySeq(Tail(s))
<1>1. PICK S : s \in Seq(S)
  BY DEF QuerySeq, IsSeq
<1>2. Head(s) = s[1] /\ 1 \in DOMAIN s /\ Tail(s) \in Seq(S)
  BY <1>1
<1>3. \A i \in DOMAIN Tail(s) : Tail(s)[i] = s[i + 1] /\ i + 1 \in DOMAIN s
  BY <1>1
<1> QED
  BY <1>2, <1>3 DEF QuerySeq, IsSeq

(* So does a list that is given element by element.                       *)
LEMMA ListQueries ==
  ASSUME NEW n \in Nat, NEW s, DOMAIN s = 1..n, s = [i \in 1..n |-> s[i]],
         \A i \in 1..n : Sparing(s[i])
  PROVE  QuerySeq(s)
<1> DEFINE S == {s[i] : i \in 1..n}
<1>1. s \in [1..n -> S]
  OBVIOUS
<1>2. s \in Seq(S)
  BY <1>1 
<1> QED
  BY <1>2 DEF QuerySeq, IsSeq

------------------------------------------------------------------------------
(* What a query selects is finite, and comes in a list.                      *)

(* The image of finitely many relations.                                  *)
LEMMA OutFinite ==
  ASSUME IsFiniteSet(edge), NEW rel, NEW from
  PROVE  IsFiniteSet(Out(rel, from))
<1> DEFINE E == {f \in edge : f.rel = rel /\ f.from = from}
           T == Out(rel, from)
           f == [e \in E |-> e.to]
<1>1. IsFiniteSet(E)
  BY FS_Subset, E \in SUBSET edge
<1>2. f \in Surjection(E, T)
  <2>1. T = {e.to : e \in E}
    BY DEF Out
  <2>2. f \in [E -> T]
    BY <2>1
  <2>3. \A t \in T : \E e \in E : f[e] = t
    BY <2>1
  <2> QED
    BY <2>2, <2>3 DEF Surjection
<1> HIDE DEF E, T, f
<1>3. IsFiniteSet(T)
  BY <1>1, <1>2, FS_Surjection
<1> QED
  BY <1>3 DEF T

LEMMA PartFinite ==
  ASSUME IsFiniteSet(edge), NEW rel, NEW from, NEW ids, ids \subseteq Out(rel, from)
  PROVE  IsFiniteSet(ids)
BY OutFinite, FS_Subset

(* A finite set has a list, so SetToSeq is one of its elements.           *)
LEMMA ListOfSet ==
  ASSUME NEW ids, IsFiniteSet(ids)
  PROVE  Cardinality(ids) \in Nat /\ SetToSeq(ids) \in [1..Cardinality(ids) -> ids]
<1>1. Cardinality(ids) \in Nat /\ ExistsBijection(1..Cardinality(ids), ids)
  BY FS_CardinalityType
<1>2. PICK f \in Bijection(1..Cardinality(ids), ids) : TRUE
  BY <1>1 DEF ExistsBijection
<1>3. f \in [1..Cardinality(ids) -> ids] /\ IsInjective(f)
  BY <1>2 DEF Bijection, Injection
<1> QED
  BY <1>1, <1>3 DEF SetToSeq

LEMMA MarkQueries ==
  ASSUME NEW ids, IsFiniteSet(ids)
  PROVE  QuerySeq(MarkRecords(ids))
<1>1. Cardinality(ids) \in Nat
  BY ListOfSet
<1>2. \A i \in 1..Cardinality(ids) : Sparing(MarkRecords(ids)[i])
  BY DEF MarkRecords, Mark, Sparing
<1>3. /\ DOMAIN MarkRecords(ids) = 1..Cardinality(ids)
      /\ MarkRecords(ids) = [i \in 1..Cardinality(ids) |-> MarkRecords(ids)[i]]
  BY DEF MarkRecords
<1> QED
  BY <1>1, <1>2, <1>3, ListQueries

LEMMA OrderedList ==
  ASSUME IsFiniteSet(edge), NEW rel, NEW from
  PROVE  \E n \in Nat : DOMAIN Ordered(rel, from) = 1..n
<1> DEFINE E == {e \in edge : e.rel = rel /\ e.from = from}
<1>1. IsFiniteSet(E)
  BY FS_Subset, E \in SUBSET edge
<1>2. Cardinality(E) \in Nat
  BY <1>1, FS_CardinalityType
<1> QED
  BY <1>2 DEF Ordered

------------------------------------------------------------------------------
(* The invariant.                                                            *)

\* The ids that no other root and no other query may name.
InFiles(i) == i[1] \in {"fs", "root"}

\* A filesystem memory is under its root and has its identity; nothing is under
\* another root by its id.
GraphInv ==
  /\ IsFiniteSet(edge)
  /\ \A e \in edge : e.rel = "contains" /\ e.from # Root("filesystem_memories") => ~InFiles(e.to)
  /\ \A i \in DOMAIN node : i[1] = "fs" => Identified(node[i]) /\ i \in Under("filesystem_memories")

\* What a step leaves of the filesystem memories.
GraphSpared ==
  \A i \in DOMAIN node : i[1] = "fs" =>
    /\ i \in DOMAIN node'
    /\ PersistentIdentity(node'[i].content) = PersistentIdentity(node[i].content)

Has(m) ==
  /\ FilesystemId(m) \in DOMAIN node
  /\ PersistentIdentity(node[FilesystemId(m)].content) = PersistentIdentity(m)

ProcFields == {"ops", "busy", "script", "reg", "seen"}

ProcOK(pr) ==
  /\ DOMAIN pr = ProcFields /\ pr = [k \in ProcFields |-> pr[k]]
  /\ IsSeq(pr.ops) /\ \A i \in DOMAIN pr.ops : OperationLegal(pr.ops[i])
  /\ pr.busy \in BOOLEAN /\ (pr.busy => pr.ops # <<>>)
  /\ QuerySeq(pr.script)
  /\ \A k \in DOMAIN pr.reg : NodeRegister(k) => pr.reg[k][1] = "node"

Publishes(pr) == pr.busy /\ Head(pr.ops).name[1] = "publish"

Published(m) == <<[q |-> "read_back", memory |-> m]>>

\* Where a publication may be: at its transaction, at reading back, or done.
PublishingAt(p) ==
  LET m == Head(Head(proc[p].ops).script).memory IN
  \/ proc[p].script = Publish(m)
  \/ proc[p].script = Published(m)
  \/ proc[p].script = <<>> /\ Found(p) = {FilesystemId(m)} /\ Has(m)

ProcInv(p) == ProcOK(proc[p]) /\ (Publishes(proc[p]) => PublishingAt(p))

OverInv == \A o \in over : o.name[1] = "publish" =>
             LET m == Head(o.script).memory IN o.found = {FilesystemId(m)} /\ Has(m)

FilesInv ==
  /\ GraphInv /\ OverInv
  /\ DOMAIN proc = Procs /\ \A p \in Procs : ProcInv(p)

LEMMA FsId == \A m : FilesystemId(m)[1] = "fs"
BY DEF FilesystemId

(* A memory that has its identity has it after a step that spares it.     *)
LEMMA HasKept ==
  ASSUME GraphSpared, NEW m, Has(m)
  PROVE  Has(m)'
BY FsId DEF GraphSpared, Has, FilesystemId, PersistentIdentity, CanonicalPath

(* The step of one process: the others are where they were.                 *)
LEMMA OthersStay ==
  ASSUME FilesInv, GraphSpared, NEW p \in Procs, DOMAIN proc' = Procs,
         \A r \in Procs \ {p} : proc'[r] = proc[r]
  PROVE  \A r \in Procs \ {p} : ProcInv(r)'
<1> SUFFICES ASSUME NEW r \in Procs \ {p} PROVE ProcInv(r)'
  OBVIOUS
<1>1. proc'[r] = proc[r] /\ ProcInv(r)
  BY DEF FilesInv
<1>2. ProcOK(proc'[r])
  BY <1>1 DEF ProcInv
<1>3. ASSUME Publishes(proc'[r]) PROVE PublishingAt(r)'
  <2>1. PublishingAt(r)
    BY <1>1, <1>3 DEF ProcInv
  <2> QED
    BY <1>1, <2>1, HasKept DEF PublishingAt, Found
<1> QED
  BY <1>2, <1>3 DEF ProcInv, ProcOK, Publishes

(* An action that keeps the graph, the log and its own process keeps all.   *)
LEMMA StepKeeps ==
  ASSUME FilesInv, GraphSpared, GraphInv', NEW p \in Procs, DOMAIN proc' = Procs,
         \A r \in Procs \ {p} : proc'[r] = proc[r], ProcInv(p)', over' = over
  PROVE  FilesInv'
<1>1. \A r \in Procs : ProcInv(r)'
  BY OthersStay
<1>2. OverInv'
  BY HasKept DEF FilesInv, OverInv
<1> QED
  BY <1>1, <1>2 DEF FilesInv

------------------------------------------------------------------------------
(* What the end of a query does to its process.                              *)

MovedOn(p) ==
  /\ DOMAIN proc' = Procs /\ \A r \in Procs \ {p} : proc'[r] = proc[r]
  /\ ProcInv(p)'

(* A publication consists of its two queries, so another query is not one.*)
LEMMA NotPublishing ==
  ASSUME FilesInv, NEW p \in Procs, NEW name, At(p, name), name \notin {"publish", "read_back"}
  PROVE  ~Publishes(proc[p])
<1> SUFFICES ASSUME Publishes(proc[p]) PROVE FALSE
  OBVIOUS
<1>1. PublishingAt(p) /\ proc[p].script # <<>> /\ Head(proc[p].script).q = name
  BY DEF FilesInv, ProcInv, At
<1>2. \A m : Head(Publish(m)).q = "publish" /\ Head(Published(m)).q = "read_back"
  BY DEF Publish, Published
<1> QED
  BY <1>1, <1>2 DEF PublishingAt

LEMMA QueryFacts ==
  ASSUME FilesInv, NEW p \in Procs, NEW name, At(p, name)
  PROVE  /\ Query(p).q = name /\ Sparing(Query(p)) /\ QuerySeq(Tail(proc[p].script))
         /\ ProcOK(proc[p]) /\ proc[p].busy
BY TailQueries DEF FilesInv, ProcInv, ProcOK, At, Query

LEMMA ThenFacts ==
  ASSUME FilesInv, NEW p \in Procs, NEW name, At(p, name), NEW more, QuerySeq(more), Then(p, more)
  PROVE  /\ DOMAIN proc' = Procs /\ \A r \in Procs \ {p} : proc'[r] = proc[r]
         /\ ProcOK(proc'[p]) /\ proc'[p].ops = proc[p].ops /\ proc'[p].busy = proc[p].busy
         /\ proc'[p].script = more \o Tail(proc[p].script)
<1> DEFINE old == proc[p]
           new == proc'[p]
<1>1. DOMAIN proc = Procs /\ ProcOK(old) /\ QuerySeq(Tail(old.script))
  BY QueryFacts DEF FilesInv
<1>2. /\ DOMAIN proc' = Procs /\ \A r \in Procs \ {p} : proc'[r] = proc[r]
      /\ new = [old EXCEPT !.script = more \o Tail(@)]
  BY <1>1 DEF Then
<1>3. /\ DOMAIN new = ProcFields /\ new.ops = old.ops /\ new.busy = old.busy
      /\ new.reg = old.reg /\ new.script = more \o Tail(old.script) /\ new = [k \in ProcFields |-> new[k]]
  BY <1>1, <1>2 DEF ProcOK, ProcFields
<1>4. QuerySeq(new.script)
  BY <1>1, <1>3, ConcatQueries
<1>5. ProcOK(new)
  BY <1>1, <1>3, <1>4 DEF ProcOK
<1> QED
  BY <1>2, <1>3, <1>5

LEMMA KeepFacts ==
  ASSUME FilesInv, NEW p \in Procs, NEW name, At(p, name), NEW more, QuerySeq(more),
         NEW register, NEW value, NodeRegister(register) => value[1] = "node",
         Keep(p, register, value, more)
  PROVE  /\ DOMAIN proc' = Procs /\ \A r \in Procs \ {p} : proc'[r] = proc[r]
         /\ ProcOK(proc'[p]) /\ proc'[p].ops = proc[p].ops /\ proc'[p].busy = proc[p].busy
         /\ proc'[p].script = more \o Tail(proc[p].script)
         /\ proc'[p].reg = Assigned(proc[p].reg, register, value)
<1> DEFINE old == proc[p]
           new == proc'[p]
<1>1. DOMAIN proc = Procs /\ ProcOK(old) /\ QuerySeq(Tail(old.script))
  BY QueryFacts DEF FilesInv
<1>2. /\ DOMAIN proc' = Procs /\ \A r \in Procs \ {p} : proc'[r] = proc[r]
      /\ new = [old EXCEPT !.script = more \o Tail(@), !.reg = Assigned(@, register, value)]
  BY <1>1 DEF Keep
<1>3. /\ DOMAIN new = ProcFields /\ new.ops = old.ops /\ new.busy = old.busy
      /\ new.reg = Assigned(old.reg, register, value)
      /\ new.script = more \o Tail(old.script) /\ new = [k \in ProcFields |-> new[k]]
  BY <1>1, <1>2 DEF ProcOK, ProcFields
<1>4. QuerySeq(new.script)
  BY <1>1, <1>3, ConcatQueries
<1>5. \A k \in DOMAIN new.reg : NodeRegister(k) => new.reg[k][1] = "node"
  BY <1>1, <1>3 DEF ProcOK, Assigned
<1>6. ProcOK(new)
  BY <1>1, <1>3, <1>4, <1>5 DEF ProcOK
<1> QED
  BY <1>2, <1>3, <1>6

LEMMA OwnFacts ==
  ASSUME FilesInv, NEW p \in Procs, NEW name, At(p, name), NEW more, QuerySeq(more),
         NEW register, NEW value, ~NodeRegister(register), Keep(p, register, value, more)
  PROVE  /\ DOMAIN proc' = Procs /\ \A r \in Procs \ {p} : proc'[r] = proc[r]
         /\ ProcOK(proc'[p]) /\ proc'[p].ops = proc[p].ops /\ proc'[p].busy = proc[p].busy
         /\ proc'[p].script = more \o Tail(proc[p].script)
         /\ proc'[p].reg = Assigned(proc[p].reg, register, value)
BY KeepFacts

LEMMA ThenMoves ==
  ASSUME FilesInv, NEW p \in Procs, NEW name, At(p, name), name \notin {"publish", "read_back"},
         NEW more, QuerySeq(more), Then(p, more)
  PROVE  MovedOn(p)
BY ThenFacts, NotPublishing DEF MovedOn, ProcInv, Publishes

LEMMA KeepMoves ==
  ASSUME FilesInv, NEW p \in Procs, NEW name, At(p, name), name \notin {"publish", "read_back"},
         NEW more, QuerySeq(more), NEW register, NEW value, NodeRegister(register) => value[1] = "node",
         Keep(p, register, value, more)
  PROVE  MovedOn(p)
BY KeepFacts, NotPublishing DEF MovedOn, ProcInv, Publishes

LEMMA TailOps ==
  ASSUME NEW s, IsSeq(s), s # <<>>
  PROVE  /\ IsSeq(Tail(s)) /\ Head(s) = s[1] /\ 1 \in DOMAIN s
         /\ \A i \in DOMAIN Tail(s) : Tail(s)[i] = s[i + 1] /\ i + 1 \in DOMAIN s
<1>1. PICK S : s \in Seq(S)
  BY DEF IsSeq
<1> QED
  BY <1>1 DEF IsSeq

LEMMA IdleOK ==
  ASSUME NEW ops, IsSeq(ops), \A i \in DOMAIN ops : OperationLegal(ops[i])
  PROVE  ProcOK(Idle(ops)) /\ ~Publishes(Idle(ops))
<1>1. /\ DOMAIN Idle(ops) = ProcFields /\ Idle(ops) = [k \in ProcFields |-> Idle(ops)[k]]
      /\ Idle(ops).ops = ops /\ Idle(ops).busy = FALSE /\ Idle(ops).script = <<>> /\ Idle(ops).reg = <<>>
  BY DEF Idle, ProcFields
<1>2. DOMAIN <<>> = {}
  OBVIOUS
<1> QED
  BY <1>1, <1>2, NoQueries DEF ProcOK, Publishes

LEMMA IdleMoves ==
  ASSUME FilesInv, NEW p \in Procs, proc[p].busy, proc' = [proc EXCEPT ![p] = Idle(Tail(proc[p].ops))]
  PROVE  MovedOn(p)
<1>1. DOMAIN proc = Procs /\ ProcOK(proc[p]) /\ proc[p].ops # <<>>
  BY DEF FilesInv, ProcInv, ProcOK
<1>2. IsSeq(Tail(proc[p].ops)) /\ \A i \in DOMAIN Tail(proc[p].ops) : OperationLegal(Tail(proc[p].ops)[i])
  BY <1>1, TailOps DEF ProcOK
<1>3. /\ DOMAIN proc' = Procs /\ \A r \in Procs \ {p} : proc'[r] = proc[r]
      /\ proc'[p] = Idle(Tail(proc[p].ops))
  BY <1>1
<1>4. ProcOK(proc'[p]) /\ ~Publishes(proc'[p])
  BY <1>2, <1>3, IdleOK
<1> QED
  BY <1>3, <1>4 DEF MovedOn, ProcInv

LEMMA RaiseMoves ==
  ASSUME FilesInv, NEW p \in Procs, proc[p].busy, Raise(p)
  PROVE  MovedOn(p)
BY IdleMoves DEF Raise

------------------------------------------------------------------------------
(* The queries that only read.                                               *)

LEMMA ReadKeeps ==
  ASSUME FilesInv, NEW p \in Procs, SameGraph, over' = over, MovedOn(p)
  PROVE  FilesInv'
<1>1. GraphSpared /\ GraphInv'
  BY DEF FilesInv, SameGraph, GraphSpared, GraphInv, Under, Out, Identified, PersistentIdentity, CanonicalPath
<1> QED
  BY <1>1, StepKeeps DEF MovedOn

(* A check that lets its operation go on, or raises.                        *)
LEMMA CheckKeeps ==
  ASSUME FilesInv, NEW p \in Procs, SameGraph, over' = over,
         NEW name, At(p, name), name \notin {"publish", "read_back"}, Then(p, <<>>) \/ Raise(p)
  PROVE  FilesInv'
<1>1. proc[p].busy
  BY DEF At
<1>2. MovedOn(p)
  BY <1>1, ThenMoves, RaiseMoves, NoQueries
<1> QED
  BY <1>2, ReadKeeps

LEMMA ThenReads ==
  ASSUME FilesInv, NEW p \in Procs, SameGraph, over' = over,
         NEW name, At(p, name), name \notin {"publish", "read_back"},
         NEW more, QuerySeq(more), Then(p, more)
  PROVE  FilesInv'
BY ThenMoves, ReadKeeps

LEMMA KeepReads ==
  ASSUME FilesInv, NEW p \in Procs, SameGraph, over' = over,
         NEW name, At(p, name), name \notin {"publish", "read_back"},
         NEW more, QuerySeq(more), NEW register, ~NodeRegister(register), NEW value,
         Keep(p, register, value, more)
  PROVE  FilesInv'
BY KeepMoves, ReadKeeps

LEMMA OwnRegister ==
  /\ ~NodeRegister(Reg("found")) /\ ~NodeRegister(Reg("position")) /\ ~NodeRegister(Reg("records"))
  /\ \A d : ~NodeRegister(ProviderOf(d))
  /\ NodeRegister(Reg("provider")) /\ NodeRegister(Reg("task"))
BY DEF NodeRegister, OwnRegisters, Reg, ProviderOf

LEMMA ReturnKeeps ==
  ASSUME FilesInv, NEW p \in Procs, SameGraph, over' = over,
         NEW name, At(p, name), name \notin {"publish", "read_back"},
         NEW ids, IsFiniteSet(ids), Return(p, ids)
  PROVE  FilesInv'
BY MarkQueries, KeepReads, OwnRegister DEF Return

LEMMA ChecksKeep ==
  ASSUME FilesInv, NEW p \in Procs,
         \/ EnsureUnder(p) \/ SelectNode(p) \/ CheckRoot(p) \/ CheckSeeded(p) \/ CheckExists(p)
         \/ CheckAttached(p) \/ TaskModelId(p)
  PROVE  FilesInv'
<1>1. SameGraph /\ over' = over /\ (Then(p, <<>>) \/ Raise(p))
  BY DEF EnsureUnder, SelectNode, CheckRoot, CheckSeeded, CheckExists, CheckAttached, TaskModelId
<1>2. PICK name \in {"ensure", "select", "root", "seeded", "exists", "attached", "match"} : At(p, name)
  BY DEF EnsureUnder, SelectNode, CheckRoot, CheckSeeded, CheckExists, CheckAttached, TaskModelId
<1> QED
  BY <1>1, <1>2, CheckKeeps

LEMMA SelectsKeep ==
  ASSUME FilesInv, NEW p \in Procs,
         Select(p) \/ SelectOne(p) \/ SelectOut(p)
  PROVE  FilesInv'
<1>1. IsFiniteSet(edge)
  BY DEF FilesInv, GraphInv
<1>2. SameGraph /\ over' = over
  BY DEF Select, SelectOne, SelectOut, SameLog
<1>3. PICK name \in {"search", "get", "out"} : At(p, name)
  BY DEF Select, SelectOne, SelectOut
<1>4. PICK rel, from, ids : ids \subseteq Out(rel, from) /\ Keep(p, Reg("found"), ids, MarkRecords(ids))
  <2>1. CASE Select(p)
    <3> DEFINE ids == {i \in Under(Query(p).root) : BuildMemoryNodeWhere(node[i], Query(p).where)}
    <3>1. ids \subseteq Out("contains", Root(Query(p).root))
      BY DEF Under
    <3> QED
      BY <2>1, <3>1 DEF Select
  <2>2. CASE SelectOne(p)
    BY <2>2, {Val(p, Query(p).id)} \cap Under(Query(p).root) \subseteq Under(Query(p).root)
      DEF SelectOne, Under
  <2>3. CASE SelectOut(p)
    <3>1. \A S : S \cap DOMAIN node \subseteq S
      OBVIOUS
    <3> QED
      BY <2>3, <3>1 DEF SelectOut
  <2> QED
    BY <2>1, <2>2, <2>3
<1>5. QuerySeq(MarkRecords(ids))
  BY <1>1, <1>4, PartFinite, MarkQueries
<1> QED
  BY <1>2, <1>3, <1>4, <1>5, KeepReads, OwnRegister

(* A list of queries made from the records selected, one for each.          *)
LEMMA OrderedQueries ==
  ASSUME FilesInv, NEW rel, NEW from, NEW s, DOMAIN s = DOMAIN Ordered(rel, from),
         s = [i \in DOMAIN Ordered(rel, from) |-> s[i]],
         \A i \in DOMAIN s : Sparing(s[i])
  PROVE  QuerySeq(s)
<1>1. PICK n \in Nat : DOMAIN Ordered(rel, from) = 1..n
  BY OrderedList DEF FilesInv, GraphInv
<1> QED
  BY <1>1, ListQueries

LEMMA SelectMessagesKeeps ==
  ASSUME FilesInv, NEW p \in Procs, SelectMessages(p)
  PROVE  FilesInv'
<1> DEFINE ids == Ordered("has_message", Val(p, Query(p).from))
           more == [i \in DOMAIN ids |-> Message(ids[i])]
<1>1. \A i \in DOMAIN more : Sparing(more[i])
  BY DEF Message, Sparing
<1>2. QuerySeq(more)
  <2> HIDE DEF more
  <2>1. DOMAIN more = DOMAIN ids /\ more = [i \in DOMAIN ids |-> more[i]]
    BY DEF more
  <2> QED
    BY <1>1, <2>1, OrderedQueries
<1> QED
  BY <1>2, KeepReads, OwnRegister DEF SelectMessages, SameLog

LEMMA SelectMessageKeeps ==
  ASSUME FilesInv, NEW p \in Procs, SelectMessage(p)
  PROVE  FilesInv'
<1> DEFINE ids == {Query(p).id} \cap DOMAIN node
<1>1. IsFiniteSet(ids)
  BY FS_Singleton, FS_Subset, ids \subseteq {Query(p).id}
<1>2. QuerySeq(MarkRecords(ids))
  <2> HIDE DEF ids
  <2> QED
    BY <1>1, MarkQueries
<1> QED
  BY <1>2, KeepReads, OwnRegister DEF SelectMessage, SameLog

LEMMA SelectHistoryKeeps ==
  ASSUME FilesInv, NEW p \in Procs, SelectHistory(p)
  PROVE  FilesInv'
<1> DEFINE ids == Ordered("history", Val(p, Query(p).from))
           more == [i \in DOMAIN ids |-> TaskHistoryNode(ids[i])]
<1>1. \A i \in DOMAIN more : Sparing(more[i])
  BY DEF TaskHistoryNode, Sparing
<1>2. QuerySeq(more)
  <2> HIDE DEF more
  <2>1. DOMAIN more = DOMAIN ids /\ more = [i \in DOMAIN ids |-> more[i]]
    BY DEF more
  <2> QED
    BY <1>1, <2>1, OrderedQueries
<1> QED
  BY <1>2, KeepReads, OwnRegister DEF SelectHistory, SameLog

LEMMA SelectActionsKeeps ==
  ASSUME FilesInv, NEW p \in Procs, SelectActions(p)
  PROVE  FilesInv'
<1> DEFINE ids == Ordered("actions", Query(p).from)
           more == [i \in DOMAIN ids |-> ActionForSessionAction(ids[i])]
<1>1. \A i \in DOMAIN more : Sparing(more[i])
  BY DEF ActionForSessionAction, Sparing
<1>2. QuerySeq(more)
  <2> HIDE DEF more
  <2>1. DOMAIN more = DOMAIN ids /\ more = [i \in DOMAIN ids |-> more[i]]
    BY DEF more
  <2> QED
    BY <1>1, <2>1, OrderedQueries
<1> QED
  BY <1>2, ThenReads DEF SelectActions, SameLog

LEMMA RecordsKeep ==
  ASSUME FilesInv, NEW p \in Procs,
         ReadPosition(p) \/ SelectHistoryNode(p) \/ SelectAction(p) \/ SelectActionRecord(p)
  PROVE  FilesInv'
<1>1. QuerySeq(<<ActionsForNode(Query(p).id)>>)
  <2>1. Sparing(ActionsForNode(Query(p).id))
    BY DEF ActionsForNode, Sparing
  <2> QED
    BY <2>1, OneQuery
<1>2. CASE ReadPosition(p)
  BY <1>2, NoQueries, KeepReads, OwnRegister DEF ReadPosition, SameLog
<1>3. CASE SelectHistoryNode(p)
  BY <1>1, <1>3, NoQueries, ThenReads, KeepReads, OwnRegister DEF SelectHistoryNode, SameLog
<1>4. CASE SelectAction(p)
  <2>1. \A id : QuerySeq(<<ActionRecord(id)>>)
    <3>1. \A id : Sparing(ActionRecord(id))
      BY DEF ActionRecord, Sparing
    <3> QED
      BY <3>1, OneQuery
  <2> QED
    BY <1>4, <2>1, NoQueries, ThenReads DEF SelectAction, SameLog
<1>5. CASE SelectActionRecord(p)
  BY <1>5, NoQueries, KeepReads, OwnRegister DEF SelectActionRecord, SameLog
<1> QED
  BY <1>2, <1>3, <1>4, <1>5

LEMMA SelectCatalogKeeps ==
  ASSUME FilesInv, NEW p \in Procs, SelectCatalog(p)
  PROVE  FilesInv'
<1> DEFINE ids == Under("tasks")
           rest == IF ids = {} THEN <<>> ELSE <<[q |-> "models", tasks |-> {node[i].ref : i \in ids}]>>
<1>1. QuerySeq(MarkRecords(ids))
  BY OutFinite, MarkQueries DEF FilesInv, GraphInv, Under
<1>2. Sparing([q |-> "models", tasks |-> {node[i].ref : i \in ids}])
  BY DEF Sparing
<1>3. QuerySeq(rest)
  BY <1>2, OneQuery, NoQueries
<1>4. QuerySeq(MarkRecords(ids) \o rest)
  BY <1>1, <1>3, ConcatQueries
<1> QED
  BY <1>4, KeepReads, OwnRegister DEF SelectCatalog, SameLog

LEMMA SelectModelsKeeps ==
  ASSUME FilesInv, NEW p \in Procs, SelectModels(p)
  PROVE  FilesInv'
<1> DEFINE ids == Under("providers")
           last == [q |-> "match", tasks |-> Query(p).tasks, providers |-> ids]
<1>1. QuerySeq(MarkRecords(ids))
  BY OutFinite, MarkQueries DEF FilesInv, GraphInv, Under
<1>2. QuerySeq(<<last>>)
  BY OneQuery DEF Sparing
<1>3. QuerySeq(MarkRecords(ids) \o <<last>>)
  BY <1>1, <1>2, ConcatQueries
<1> QED
  BY <1>3, ThenReads DEF SelectModels, SameLog

------------------------------------------------------------------------------
(* Seeding: what it updates or deletes is under another root.                *)

(* What is under another root is no filesystem memory.                    *)
LEMMA UnderOthers ==
  ASSUME FilesInv, NEW name, name # "filesystem_memories", NEW i \in Under(name)
  PROVE  i[1] \notin {"fs", "root"}
<1>1. PICK e \in edge : e.rel = "contains" /\ e.from = Root(name) /\ e.to = i
  BY DEF Under, Out
<1>2. Root(name) # Root("filesystem_memories")
  BY DEF Root
<1> QED
  BY <1>1, <1>2 DEF FilesInv, GraphInv, InFiles

LEMMA FewQueries ==
  ASSUME NEW x, NEW y, Sparing(x), Sparing(y)
  PROVE  /\ QuerySeq(<<x, y>>)
         /\ \A z : Sparing(z) => QuerySeq(<<x, y, z>>)
         /\ \A z, w : Sparing(z) /\ Sparing(w) => QuerySeq(<<x, y, z, w>>)
<1>1. <<x, y>> \in Seq({x, y}) /\ \A i \in DOMAIN <<x, y>> : <<x, y>>[i] \in {x, y}
  OBVIOUS
<1>2. ASSUME NEW z
      PROVE  <<x, y, z>> \in Seq({x, y, z}) /\ \A i \in DOMAIN <<x, y, z>> : <<x, y, z>>[i] \in {x, y, z}
  OBVIOUS
<1>3. ASSUME NEW z, NEW w
      PROVE  /\ <<x, y, z, w>> \in Seq({x, y, z, w})
             /\ \A i \in DOMAIN <<x, y, z, w>> : <<x, y, z, w>>[i] \in {x, y, z, w}
  OBVIOUS
<1>4. QuerySeq(<<x, y>>)
  BY <1>1 DEF QuerySeq, IsSeq
<1>5. ASSUME NEW z, Sparing(z) PROVE QuerySeq(<<x, y, z>>)
  BY <1>2, <1>5 DEF QuerySeq, IsSeq
<1>6. ASSUME NEW z, NEW w, Sparing(z), Sparing(w) PROVE QuerySeq(<<x, y, z, w>>)
  BY <1>3, <1>6 DEF QuerySeq, IsSeq
<1> QED
  BY <1>4, <1>5, <1>6

LEMMA ProviderQueries ==
  /\ \A new : QuerySeq(CreateProvider(new, Reg("provider")))
  /\ \A new, id : id[1] \notin {"fs", "root"} => QuerySeq(UpdateProvider(id, new))
<1>1. ASSUME NEW new PROVE QuerySeq(CreateProvider(new, Reg("provider")))
  <2>1. Sparing(Create("provider", new.tags, new.content, NoId, Reg("provider")))
    BY OwnRegister DEF Create, Sparing
  <2>2. Sparing(Relate("contains", Root("providers"), Reg("provider")))
    BY OwnRegister DEF Relate, Sparing
  <2> QED
    BY <2>1, <2>2, FewQueries DEF CreateProvider
<1>2. ASSUME NEW new, NEW id, id[1] \notin {"fs", "root"} PROVE QuerySeq(UpdateProvider(id, new))
  <2>1. Sparing([q |-> "update", id |-> id, tags |-> new.tags, content |-> new.content, ref |-> NoId])
    BY <1>2 DEF Sparing
  <2> QED
    BY <2>1, OneQuery DEF UpdateProvider
<1> QED
  BY <1>1, <1>2

LEMMA TaskQueries ==
  /\ \A d, provider : QuerySeq(CreateTask(d, provider))
  /\ \A d, provider, id : id[1] \notin {"fs", "root"} => QuerySeq(UpdateTask(id, d, provider))
<1>0. \A name, id : Sparing(Ensure(name, id))
  BY DEF Ensure, Sparing
<1>1. ASSUME NEW d, NEW provider PROVE QuerySeq(CreateTask(d, provider))
  <2> DEFINE a == Ensure("providers", provider)
             b == Create("task", d.tags, d.content, provider, Reg("task"))
             c == Relate("contains", Root("tasks"), Reg("task"))
             e == Relate("provides_task", provider, Reg("task"))
  <2>1. Sparing(b)
    BY OwnRegister DEF Create, Sparing
  <2>2. Sparing(c) /\ Sparing(e)
    BY OwnRegister DEF Relate, Sparing
  <2> HIDE DEF a, b, c, e
  <2>3. QuerySeq(<<a, b, c, e>>)
    BY <1>0, <2>1, <2>2, FewQueries DEF a
  <2> QED
    BY <2>3 DEF CreateTask, a, b, c, e
<1>2. ASSUME NEW d, NEW provider, NEW id, id[1] \notin {"fs", "root"}
      PROVE  QuerySeq(UpdateTask(id, d, provider))
  <2> DEFINE a == Ensure("providers", provider)
             b == [q |-> "update", id |-> id, tags |-> d.tags, content |-> d.content, ref |-> provider]
             c == [q |-> "reprovide", id |-> id, provider |-> provider]
  <2>1. Sparing(b) /\ Sparing(c)
    BY <1>2 DEF Sparing
  <2> HIDE DEF a, b, c
  <2>2. QuerySeq(<<a, b, c>>)
    BY <1>0, <2>1, FewQueries DEF a
  <2> QED
    BY <2>2 DEF UpdateTask, a, b, c
<1> QED
  BY <1>1, <1>2

LEMMA SeedProviderKeeps ==
  ASSUME FilesInv, NEW p \in Procs, SeedProvider(p)
  PROVE  FilesInv'
<1> DEFINE new == Query(p).provider
           ids == {i \in Under("providers") :
                     /\ new.content.model_id = node[i].content.model_id
                     /\ new.content.surface = node[i].content.surface
                     /\ new.content.name \subseteq node[i].content.name
                     /\ new.content.effort # {} => new.content.effort = node[i].content.effort}
           same == {i \in ids : /\ node[i].content.name = new.content.name
                                /\ node[i].content.effort = new.content.effort}
           one == CHOOSE i \in same : TRUE
           rest == IF same = {} THEN CreateProvider(new, Reg("provider"))
                   ELSE IF Differs(one, new) THEN UpdateProvider(one, new) ELSE <<>>
<1>1. ids \subseteq Under("providers") /\ same \subseteq ids
  OBVIOUS
<1>2. Then(p, MarkRecords(ids) \o rest) /\ At(p, "seed_provider") /\ SameGraph /\ over' = over
  BY DEF SeedProvider, SameLog
<1> HIDE DEF ids, same
<1>3. QuerySeq(MarkRecords(ids))
  BY <1>1, PartFinite, MarkQueries DEF FilesInv, GraphInv, Under
<1>4. same # {} => one[1] \notin {"fs", "root"}
  <2> SUFFICES ASSUME same # {} PROVE one[1] \notin {"fs", "root"}
    OBVIOUS
  <2>1. one \in Under("providers")
    BY <1>1
  <2> QED
    BY <2>1, UnderOthers
<1>5. QuerySeq(rest)
  <2> HIDE DEF one, new
  <2> QED
    BY <1>4, ProviderQueries, NoQueries
<1>6. QuerySeq(MarkRecords(ids) \o rest)
  BY <1>3, <1>5, ConcatQueries
<1> QED
  BY <1>2, <1>6, ThenReads

LEMMA SeedMagicKeeps ==
  ASSUME FilesInv, NEW p \in Procs, SeedMagic(p)
  PROVE  FilesInv'
<1> DEFINE same == {i \in Under("providers") : ProviderKey(node[i].content) = ProviderKey(MagicProvider.content)}
           one == CHOOSE i \in same : TRUE
           rest == IF same = {} THEN CreateProvider(MagicProvider, Reg("provider"))
                   ELSE IF Differs(one, MagicProvider) THEN UpdateProvider(one, MagicProvider) ELSE <<>>
<1>1. same \subseteq Under("providers")
  OBVIOUS
<1>2. Then(p, rest) /\ At(p, "seed_magic") /\ SameGraph /\ over' = over
  BY DEF SeedMagic, SameLog
<1> HIDE DEF same
<1>4. same # {} => one[1] \notin {"fs", "root"}
  <2> SUFFICES ASSUME same # {} PROVE one[1] \notin {"fs", "root"}
    OBVIOUS
  <2>1. one \in Under("providers")
    BY <1>1
  <2> QED
    BY <2>1, UnderOthers
<1>5. QuerySeq(rest)
  <2> HIDE DEF one
  <2> QED
    BY <1>4, ProviderQueries, NoQueries
<1> QED
  BY <1>2, <1>5, ThenReads

LEMMA SeedTaskKeeps ==
  ASSUME FilesInv, NEW p \in Procs, SeedTask(p)
  PROVE  FilesInv'
<1> DEFINE d == Query(p).task
           provider == Val(p, ProviderOf(d))
           same == {i \in Under("tasks") : node[i].content.name = d.content.name}
           one == CHOOSE i \in same : TRUE
           rest == IF same = {} THEN CreateTask(d, provider)
                   ELSE IF Differs(one, d) \/ node[one].ref # provider THEN UpdateTask(one, d, provider)
                   ELSE <<>>
<1>1. same \subseteq Under("tasks")
  OBVIOUS
<1>2. Then(p, rest) /\ At(p, "find_task") /\ SameGraph /\ over' = over
  BY DEF SeedTask, SameLog
<1> HIDE DEF same
<1>4. same # {} => one[1] \notin {"fs", "root"}
  <2> SUFFICES ASSUME same # {} PROVE one[1] \notin {"fs", "root"}
    OBVIOUS
  <2>1. one \in Under("tasks")
    BY <1>1
  <2> QED
    BY <2>1, UnderOthers
<1>5. QuerySeq(rest)
  <2> HIDE DEF one, d, provider
  <2> QED
    BY <1>4, TaskQueries, NoQueries
<1> QED
  BY <1>2, <1>5, ThenReads

LEMMA PruneKeeps ==
  ASSUME FilesInv, NEW p \in Procs, PruneRemovedProviders(p)
  PROVE  FilesInv'
<1> DEFINE ids == {i \in Under("providers") : /\ "opencode-go" \in node[i].tags
                                              /\ ProviderKey(node[i].content) \notin AllowedProviderKeys}
           more == [i \in 1..Cardinality(ids) |-> [q |-> "delete", id |-> SetToSeq(ids)[i]]]
<1>1. ids \subseteq Under("providers")
  OBVIOUS
<1>2. Then(p, more) /\ At(p, "prune") /\ SameGraph /\ over' = over
  BY DEF PruneRemovedProviders, SameLog
<1> HIDE DEF ids
<1>3. Cardinality(ids) \in Nat /\ SetToSeq(ids) \in [1..Cardinality(ids) -> ids]
  BY <1>1, PartFinite, ListOfSet DEF FilesInv, GraphInv, Under
<1>4. ASSUME NEW i \in 1..Cardinality(ids) PROVE Sparing(more[i])
  <2>1. SetToSeq(ids)[i] \in Under("providers")
    BY <1>1, <1>3
  <2>2. SetToSeq(ids)[i][1] \notin {"fs", "root"}
    BY <2>1, UnderOthers
  <2> QED
    BY <2>2 DEF Sparing
<1>5. DOMAIN more = 1..Cardinality(ids) /\ more = [i \in 1..Cardinality(ids) |-> more[i]]
  OBVIOUS
<1>6. QuerySeq(more)
  <2> HIDE DEF more
  <2> QED
    BY <1>3, <1>4, <1>5, ListQueries
<1> QED
  BY <1>2, <1>6, ThenReads

LEMMA LookUpKeeps ==
  ASSUME FilesInv, NEW p \in Procs, LookUpProvider(p)
  PROVE  FilesInv'
<1> DEFINE d == Query(p).task
<1>1. At(p, "provider_for") /\ SameGraph /\ over' = over
  BY DEF LookUpProvider
<1>2. \/ Then(p, <<>>) \/ Raise(p) \/ Keep(p, ProviderOf(d), CHOOSE i \in Seeded(d) : TRUE, <<>>)
  BY DEF LookUpProvider
<1> QED
  BY <1>1, <1>2, CheckKeeps, KeepReads, NoQueries, OwnRegister

------------------------------------------------------------------------------
(* Retrieval.                                                                *)

LEMMA OrderedFinite ==
  ASSUME IsFiniteSet(edge), NEW rel, NEW from
  PROVE  IsFiniteSet(Range(Ordered(rel, from)))
<1> DEFINE s == Ordered(rel, from)
<1>1. PICK n \in Nat : DOMAIN s = 1..n
  BY OrderedList
<1>2. s \in Surjection(1..n, Range(s))
  <2>1. s = [i \in DOMAIN s |-> s[i]]
    BY DEF Ordered
  <2>2. Range(s) = {s[i] : i \in DOMAIN s}
    BY DEF Range
  <2> HIDE DEF s
  <2>3. s \in [1..n -> Range(s)] /\ \A t \in Range(s) : \E i \in 1..n : s[i] = t
    BY <1>1, <2>1, <2>2
  <2> QED
    BY <2>3 DEF Surjection
<1>3. IsFiniteSet(1..n)
  BY FS_Interval
<1> HIDE DEF s
<1>4. IsFiniteSet(Range(s))
  BY <1>2, <1>3, FS_Surjection
<1> QED
  BY <1>4 DEF s

LEMMA FindMessagesKeeps ==
  ASSUME FilesInv, NEW p \in Procs, FindMessages(p)
  PROVE  FilesInv'
<1> DEFINE conversation == Query(p).from
           ids == Range(Ordered("has_message", conversation))
           all == IF Hits(ids, {"role", "content"}, Query(p)) = {} THEN {} ELSE ids
           own == IF Query(p).hit \/ all # {} THEN {conversation} ELSE {}
<1>1. IsFiniteSet(ids)
  BY OrderedFinite DEF FilesInv, GraphInv
<1>2. At(p, "find_messages") /\ Return(p, all \cup own) /\ SameGraph /\ over' = over
  BY DEF FindMessages, SameLog
<1> HIDE DEF ids
<1>3. IsFiniteSet(all)
  BY <1>1, FS_EmptySet
<1>4. IsFiniteSet(own)
  BY FS_EmptySet, FS_Singleton
<1>5. IsFiniteSet(all \cup own)
  BY <1>3, <1>4, FS_Union
<1> QED
  BY <1>2, <1>5, ReturnKeeps

LEMMA FindsKeep ==
  ASSUME FilesInv, NEW p \in Procs,
         FindCatalog(p) \/ FindMemories(p) \/ OwnMemories(p) \/ SettleSession(p)
  PROVE  FilesInv'
<1>0. IsFiniteSet(edge)
  BY DEF FilesInv, GraphInv
<1>1. \A ids, fields, how : Hits(ids, fields, how) \subseteq ids
  BY DEF Hits
<1>2. CASE FindCatalog(p)
  <2>1. IsFiniteSet(Hits(Under("tasks"), {"name", "text"}, Query(p)))
    BY <1>0, <1>1, PartFinite DEF Under
  <2> QED
    BY <1>2, <2>1, ReturnKeeps DEF FindCatalog, SameLog
<1>3. CASE FindMemories(p)
  <2>1. IsFiniteSet(Hits(Out("has_session_memory", Query(p).from), {"title"}, Query(p)))
    BY <1>0, <1>1, PartFinite
  <2> QED
    BY <1>3, <2>1, ReturnKeeps DEF FindMemories, SameLog
<1>4. CASE OwnMemories(p)
  BY <1>0, <1>4, OutFinite, ReturnKeeps DEF OwnMemories, SameLog
<1>5. CASE SettleSession(p)
  <2>1. PICK ids \in {{}, {Query(p).id}} : Return(p, ids)
    BY <1>5 DEF SettleSession
  <2>2. IsFiniteSet({}) /\ IsFiniteSet({Query(p).id})
    BY FS_EmptySet, FS_Singleton
  <2>3. IsFiniteSet(ids)
    BY <2>1, <2>2
  <2> QED
    BY <1>5, <2>1, <2>3, ReturnKeeps DEF SettleSession, SameLog
<1> QED
  BY <1>2, <1>3, <1>4, <1>5

LEMMA FindSessionsKeeps ==
  ASSUME FilesInv, NEW p \in Procs, FindSessions(p)
  PROVE  FilesInv'
<1> DEFINE ids == SetToSeq(Under("sessions"))
           hits == Hits(Under("sessions"), {"name"}, Query(p))
           more == [i \in DOMAIN ids |-> SessionContext(ids[i], ids[i] \in hits, Query(p))]
<1>1. At(p, "find_sessions") /\ Then(p, more) /\ SameGraph /\ over' = over
  BY DEF FindSessions, SameLog
<1>2. PICK n \in Nat : DOMAIN ids = 1..n
  BY OutFinite, ListOfSet DEF FilesInv, GraphInv, Under
<1>3. \A i \in 1..n : Sparing(more[i])
  BY <1>2 DEF SessionContext, Sparing
<1>4. DOMAIN more = 1..n /\ more = [i \in 1..n |-> more[i]]
  BY <1>2
<1>5. QuerySeq(more)
  <2> HIDE DEF more
  <2> QED
    BY <1>3, <1>4, ListQueries
<1> QED
  BY <1>1, <1>5, ThenReads

LEMMA FindConversationsKeeps ==
  ASSUME FilesInv, NEW p \in Procs, FindConversations(p)
  PROVE  FilesInv'
<1> DEFINE ids == Out("has_conversation", Query(p).from)
           hits == Hits(ids, {"name"}, Query(p))
           order == SetToSeq(ids)
           more == [i \in DOMAIN order |-> ConversationContext(order[i], order[i] \in hits, Query(p))]
           how == Query(p)
           own == [q |-> "find_memories", from |-> how.from, hints |-> how.hints, breadth |-> how.breadth]
           settle == [q |-> "settle_session", id |-> how.from, hit |-> how.hit]
<1>1. At(p, "find_conversations") /\ Then(p, more \o SessionRest(Query(p))) /\ SameGraph /\ over' = over
  BY DEF FindConversations, SameLog
<1>2. PICK n \in Nat : DOMAIN order = 1..n
  BY OutFinite, ListOfSet DEF FilesInv, GraphInv
<1>3. \A i \in 1..n : Sparing(more[i])
  BY <1>2 DEF ConversationContext, Sparing
<1>4. DOMAIN more = 1..n /\ more = [i \in 1..n |-> more[i]]
  BY <1>2
<1>5. QuerySeq(more)
  <2> HIDE DEF more
  <2> QED
    BY <1>3, <1>4, ListQueries
<1>6. Sparing(own) /\ Sparing(settle)
  BY DEF Sparing
<1>7. QuerySeq(SessionRest(Query(p)))
  <2>1. QuerySeq(IF how.from = how.current THEN <<>> ELSE <<own>>)
    BY <1>6, OneQuery, NoQueries
  <2>2. QuerySeq(<<settle>>)
    BY <1>6, OneQuery
  <2> QED
    BY <2>1, <2>2, ConcatQueries DEF SessionRest
<1>8. QuerySeq(more \o SessionRest(Query(p)))
  BY <1>5, <1>7, ConcatQueries
<1> QED
  BY <1>1, <1>8, ThenReads

------------------------------------------------------------------------------
(* The queries that write something else.                                    *)

\* The records of the filesystem memories have what they had.
FilesSame ==
  \A i : i[1] = "fs" =>
    /\ i \in DOMAIN node' <=> i \in DOMAIN node
    /\ i \in DOMAIN node => /\ DOMAIN node'[i] = RecordFields
                            /\ node'[i].content = node[i].content
                            /\ node'[i].identity = node[i].identity

\* Their relations stay, and no other root gets one to them.
LinksSame ==
  /\ IsFiniteSet(edge')
  /\ \A e \in edge' \ edge : e.rel = "contains" => ~InFiles(e.to)
  /\ \A e \in edge \ edge' : ~(e.rel = "contains" /\ e.from = Root("filesystem_memories") /\ e.to[1] = "fs")

LEMMA SameKeeps ==
  ASSUME FilesInv, NEW p \in Procs, FilesSame, LinksSame, over' = over, MovedOn(p)
  PROVE  FilesInv'
<1>1. GraphSpared
  BY DEF FilesSame, GraphSpared, PersistentIdentity, CanonicalPath
<1>2. \A e \in edge' : e.rel = "contains" /\ e.from # Root("filesystem_memories") => ~InFiles(e.to)
  BY DEF FilesInv, GraphInv, LinksSame
<1>3. ASSUME NEW i \in DOMAIN node', i[1] = "fs"
      PROVE  Identified(node'[i]) /\ i \in Under("filesystem_memories")'
  <2>1. i \in DOMAIN node /\ Identified(node[i]) /\ i \in Under("filesystem_memories")
    BY <1>3 DEF FilesSame, FilesInv, GraphInv
  <2>2. PICK e \in edge : e.rel = "contains" /\ e.from = Root("filesystem_memories") /\ e.to = i
    BY <2>1 DEF Under, Out
  <2>3. e \in edge'
    BY <1>3, <2>2 DEF LinksSame
  <2>4. i \in Under("filesystem_memories")'
    BY <2>2, <2>3 DEF Under, Out
  <2>5. DOMAIN node'[i] = RecordFields /\ node'[i].content = node[i].content
        /\ node'[i].identity = node[i].identity
    BY <1>3, <2>1 DEF FilesSame
  <2> QED
    BY <2>1, <2>4, <2>5 DEF Identified
<1>4. GraphInv'
  BY <1>2, <1>3 DEF GraphInv, LinksSame, Identified
<1> QED
  BY <1>1, <1>4, StepKeeps DEF MovedOn

LEMMA NodesUnchanged ==
  ASSUME FilesInv, node' = node
  PROVE  FilesSame
BY DEF FilesInv, GraphInv, FilesSame, Identified

LEMMA EdgesUnchanged ==
  ASSUME FilesInv, edge' = edge
  PROVE  LinksSame
BY DEF FilesInv, GraphInv, LinksSame

LEMMA FewerEdges ==
  ASSUME FilesInv, edge' \subseteq edge,
         \A e \in edge \ edge' : ~(e.rel = "contains" /\ e.from = Root("filesystem_memories") /\ e.to[1] = "fs")
  PROVE  LinksSame
BY FS_Subset DEF FilesInv, GraphInv, LinksSame

LEMMA OneMoreEdge ==
  ASSUME FilesInv, NEW e, edge' = edge \cup {e}, e.rel = "contains" => ~InFiles(e.to)
  PROVE  LinksSame
<1>1. IsFiniteSet(edge')
  BY FS_AddElement DEF FilesInv, GraphInv
<1> QED
  BY <1>1 DEF LinksSame

LEMMA TouchSpares ==
  ASSUME FilesInv, NEW id, NEW value,
         \/ node' = node
         \/ id \in DOMAIN node /\ node' = [node EXCEPT ![id].updated = value]
         \/ id \in DOMAIN node /\ node' = [node EXCEPT ![id].read = value]
  PROVE  FilesSame
<1>1. CASE node' = node
  BY <1>1, NodesUnchanged
<1>2. CASE id \in DOMAIN node /\ node' = [node EXCEPT ![id].updated = value]
  BY <1>2 DEF FilesInv, GraphInv, FilesSame, Identified, RecordFields
<1>3. CASE id \in DOMAIN node /\ node' = [node EXCEPT ![id].read = value]
  BY <1>3 DEF FilesInv, GraphInv, FilesSame, Identified, RecordFields
<1> QED
  BY <1>1, <1>2, <1>3

LEMMA UpsertKeeps ==
  ASSUME FilesInv, NEW p \in Procs, UpsertRoot(p)
  PROVE  FilesInv'
<1>1. MovedOn(p) /\ over' = over
  BY ThenMoves, NoQueries DEF UpsertRoot, SameLog
<1>2. FilesSame /\ LinksSame
  BY NodesUnchanged, EdgesUnchanged DEF UpsertRoot
<1> QED
  BY <1>1, <1>2, SameKeeps

LEMMA CreateKeeps ==
  ASSUME FilesInv, NEW p \in Procs, CreateNode(p)
  PROVE  FilesInv'
<1>1. NewId[1] = "node"
  BY DEF NewId
<1>2. MovedOn(p) /\ over' = over
  BY <1>1, KeepMoves, NoQueries DEF CreateNode, SameLog
<1>3. FilesSame
  BY <1>1 DEF CreateNode, Assigned, FilesSame, FilesInv, GraphInv, Identified
<1>4. LinksSame
  BY EdgesUnchanged DEF CreateNode
<1> QED
  BY <1>2, <1>3, <1>4, SameKeeps

(* What is put under a root is a record just created.                     *)
LEMMA RelateKeeps ==
  ASSUME FilesInv, NEW p \in Procs, RelateNodes(p)
  PROVE  FilesInv'
<1>1. MovedOn(p) /\ over' = over
  BY ThenMoves, NoQueries DEF RelateNodes, SameLog
<1>2. FilesSame
  BY NodesUnchanged DEF RelateNodes
<1> DEFINE e == Edge(Query(p).rel, Val(p, Query(p).from), Val(p, Query(p).to), Query(p).pos)
<1>3. e.rel = "contains" => ~InFiles(e.to)
  <2> SUFFICES ASSUME Query(p).rel = "contains" PROVE ~InFiles(Val(p, Query(p).to))
    BY DEF Edge
  <2>1. NodeRegister(Query(p).to) /\ ProcOK(proc[p])
    BY QueryFacts DEF RelateNodes, Sparing
  <2>2. Val(p, Query(p).to)[1] \in {"node", "reg"}
    BY <2>1 DEF Val, ProcOK, NodeRegister
  <2> QED
    BY <2>2 DEF InFiles
<1>4. LinksSame
  <2>1. edge' = edge \cup {e}
    BY DEF RelateNodes
  <2> HIDE DEF e
  <2> QED
    BY <1>3, <2>1, OneMoreEdge
<1> QED
  BY <1>1, <1>2, <1>4, SameKeeps

LEMMA RelateAtKeeps ==
  ASSUME FilesInv, NEW p \in Procs, RelateAtPosition(p)
  PROVE  FilesInv'
<1> DEFINE e == Edge(Query(p).rel, Val(p, Query(p).from), Val(p, Query(p).to), proc[p].reg[Reg("position")])
<1>1. MovedOn(p) /\ over' = over
  BY ThenMoves, NoQueries DEF RelateAtPosition, SameLog
<1>2. FilesSame
  BY TouchSpares DEF RelateAtPosition, Touched
<1>3. e.rel # "contains"
  BY QueryFacts DEF RelateAtPosition, Sparing, Edge
<1>4. edge' = edge \cup {e}
  BY DEF RelateAtPosition
<1>5. LinksSame
  <2> HIDE DEF e
  <2> QED
    BY <1>3, <1>4, OneMoreEdge
<1> QED
  BY <1>1, <1>2, <1>5, SameKeeps

LEMMA TouchesKeep ==
  ASSUME FilesInv, NEW p \in Procs, TouchNode(p) \/ MarkRead(p)
  PROVE  FilesInv'
<1>1. MovedOn(p) /\ over' = over
  BY ThenMoves, NoQueries DEF TouchNode, MarkRead, SameLog
<1>2. FilesSame
  BY TouchSpares DEF TouchNode, MarkRead, Touched
<1>3. LinksSame
  BY EdgesUnchanged DEF TouchNode, MarkRead
<1> QED
  BY <1>1, <1>2, <1>3, SameKeeps

LEMMA UpdateKeeps ==
  ASSUME FilesInv, NEW p \in Procs, UpdateNode(p)
  PROVE  FilesInv'
<1>1. At(p, "update") /\ proc[p].busy /\ over' = over /\ edge' = edge
  BY DEF UpdateNode, At
<1>2. Query(p).id[1] # "fs"
  BY <1>1, QueryFacts DEF Sparing
<1>3. MovedOn(p)
  BY <1>1, ThenMoves, RaiseMoves, NoQueries DEF UpdateNode
<1>4. FilesSame
  <2>1. CASE Query(p).id \in DOMAIN node
    <3>1. DOMAIN node' = DOMAIN node /\ \A i \in DOMAIN node : i # Query(p).id => node'[i] = node[i]
      BY <2>1 DEF UpdateNode
    <3> QED
      BY <1>2, <3>1 DEF FilesSame, FilesInv, GraphInv, Identified
  <2>2. CASE Query(p).id \notin DOMAIN node
    BY <2>2, NodesUnchanged DEF UpdateNode
  <2> QED
    BY <2>1, <2>2
<1>5. LinksSame
  BY <1>1, EdgesUnchanged
<1> QED
  BY <1>1, <1>3, <1>4, <1>5, SameKeeps

LEMMA ReprovideKeeps ==
  ASSUME FilesInv, NEW p \in Procs, Reprovide(p)
  PROVE  FilesInv'
<1> DEFINE e == Edge("provides_task", Val(p, Query(p).provider), Query(p).id, 0)
           rest == {f \in edge : ~(f.rel = "provides_task" /\ f.to = Query(p).id)}
<1>1. MovedOn(p) /\ over' = over
  BY ThenMoves, NoQueries DEF Reprovide, SameLog
<1>2. FilesSame
  BY NodesUnchanged DEF Reprovide
<1>3. edge' = rest \cup {e} /\ e.rel = "provides_task"
  BY DEF Reprovide, Edge
<1>4. IsFiniteSet(edge')
  BY <1>3, rest \in SUBSET edge, FS_Subset, FS_AddElement DEF FilesInv, GraphInv
<1>5. LinksSame
  BY <1>3, <1>4 DEF LinksSame
<1> QED
  BY <1>1, <1>2, <1>5, SameKeeps

LEMMA UnlinkKeeps ==
  ASSUME FilesInv, NEW p \in Procs, UnlinkNode(p)
  PROVE  FilesInv'
<1>1. MovedOn(p) /\ over' = over
  BY ThenMoves, NoQueries DEF UnlinkNode, SameLog
<1>2. FilesSame
  BY NodesUnchanged DEF UnlinkNode
<1>3. Query(p).id[1] \notin {"fs", "root"}
  BY QueryFacts DEF UnlinkNode, Sparing
<1>4. LinksSame
  BY <1>3, FewerEdges DEF UnlinkNode, Root
<1> QED
  BY <1>1, <1>2, <1>4, SameKeeps

LEMMA RemoveKeeps ==
  ASSUME FilesInv, NEW p \in Procs, RemoveNode(p)
  PROVE  FilesInv'
<1>1. At(p, "remove") /\ proc[p].busy /\ over' = over /\ edge' = edge
  BY DEF RemoveNode, At
<1>2. Query(p).id[1] # "fs"
  BY <1>1, QueryFacts DEF Sparing
<1>3. MovedOn(p)
  BY <1>1, ThenMoves, RaiseMoves, NoQueries DEF RemoveNode
<1>4. FilesSame
  BY <1>2 DEF RemoveNode, Restrict, FilesSame, FilesInv, GraphInv, Identified
<1>5. LinksSame
  BY <1>1, EdgesUnchanged
<1> QED
  BY <1>1, <1>3, <1>4, <1>5, SameKeeps

LEMMA DeleteProviderKeeps ==
  ASSUME FilesInv, NEW p \in Procs, DeleteProvider(p)
  PROVE  FilesInv'
<1>1. MovedOn(p) /\ over' = over
  BY ThenMoves, NoQueries DEF DeleteProvider, SameLog
<1>2. Query(p).id[1] # "fs"
  BY QueryFacts DEF DeleteProvider, Sparing
<1>3. FilesSame
  BY <1>2 DEF DeleteProvider, Restrict, FilesSame, FilesInv, GraphInv, Identified
<1>4. LinksSame
  BY <1>2, FewerEdges DEF DeleteProvider
<1> QED
  BY <1>1, <1>3, <1>4, SameKeeps

------------------------------------------------------------------------------
(* Operations begin and end.                                                 *)

LEMMA BeginOperationKeeps ==
  ASSUME FilesInv, NEW p \in Procs, BeginOperation(p)
  PROVE  FilesInv'
<1> DEFINE old == proc[p]
           new == proc'[p]
           op == Head(old.ops)
<1>1. DOMAIN proc = Procs /\ ProcOK(old) /\ old.ops # <<>>
  BY DEF FilesInv, ProcInv, BeginOperation
<1>2. OperationLegal(op)
  BY <1>1, TailOps DEF ProcOK
<1>3. QuerySeq(op.script)
  BY <1>2 DEF OperationLegal, QuerySeq, IsSeq
<1>4. /\ DOMAIN proc' = Procs /\ \A r \in Procs \ {p} : proc'[r] = proc[r]
      /\ new = [old EXCEPT !.busy = TRUE, !.script = op.script, !.reg = <<>>, !.seen = {o.name : o \in over}]
  BY <1>1 DEF BeginOperation
<1>5. /\ DOMAIN new = ProcFields /\ new.ops = old.ops /\ new.busy = TRUE
      /\ new.reg = <<>> /\ new.script = op.script /\ new = [k \in ProcFields |-> new[k]]
  BY <1>1, <1>4 DEF ProcOK, ProcFields
<1>6. DOMAIN <<>> = {}
  OBVIOUS
<1>7. ProcOK(new)
  BY <1>1, <1>3, <1>5, <1>6 DEF ProcOK
<1>8. ASSUME Publishes(new) PROVE PublishingAt(p)'
  <2>1. op.script = Publish(Head(op.script).memory)
    BY <1>2, <1>5, <1>8 DEF Publishes, OperationLegal
  <2> QED
    BY <1>5, <2>1 DEF PublishingAt
<1>9. MovedOn(p)
  BY <1>4, <1>7, <1>8 DEF MovedOn, ProcInv
<1> QED
  BY <1>9, ReadKeeps DEF BeginOperation, SameLog

LEMMA CutShortKeeps ==
  ASSUME FilesInv, NEW p \in Procs, CutShort(p)
  PROVE  FilesInv'
BY RaiseMoves, ReadKeeps DEF CutShort

(* An operation that returns is a publication that has read back, or none.*)
LEMMA EndKeeps ==
  ASSUME FilesInv, NEW p \in Procs, EndOperation(p)
  PROVE  FilesInv'
<1> DEFINE m == Head(Head(proc[p].ops).script).memory
           done == [name |-> Head(proc[p].ops).name, script |-> Head(proc[p].ops).script,
                    seen |-> proc[p].seen, found |-> Found(p)]
<1>1. MovedOn(p)
  BY IdleMoves DEF EndOperation
<1>2. GraphSpared /\ GraphInv'
  BY DEF EndOperation, FilesInv, SameGraph, GraphSpared, GraphInv, Under, Out, Identified,
         PersistentIdentity, CanonicalPath
<1>3. \A r \in Procs : ProcInv(r)'
  BY <1>1, <1>2, OthersStay DEF MovedOn
<1>4. done.name[1] = "publish" => done.found = {FilesystemId(m)} /\ Has(m)
  <2> SUFFICES ASSUME Head(proc[p].ops).name[1] = "publish" PROVE Found(p) = {FilesystemId(m)} /\ Has(m)
    OBVIOUS
  <2>1. PublishingAt(p) /\ proc[p].script = <<>>
    BY DEF EndOperation, FilesInv, ProcInv, Publishes
  <2>2. Publish(m) # <<>> /\ Published(m) # <<>>
    BY DEF Publish, Published
  <2> QED
    BY <2>1, <2>2 DEF PublishingAt
<1>5. over' = over \cup {done} /\ done.script = Head(proc[p].ops).script
  BY DEF EndOperation
<1>6. OverInv'
  <2> SUFFICES ASSUME NEW o \in over', o.name[1] = "publish"
               PROVE  LET n == Head(o.script).memory IN o.found = {FilesystemId(n)} /\ Has(n)'
    BY DEF OverInv
  <2>1. LET n == Head(o.script).memory IN o.found = {FilesystemId(n)} /\ Has(n)
    <3>1. CASE o \in over
      BY <3>1 DEF FilesInv, OverInv
    <3>2. CASE o = done
      <4> HIDE DEF done
      <4> QED
        BY <1>4, <1>5, <3>2
    <3> QED
      BY <1>5, <3>1, <3>2
  <2> QED
    BY <1>2, <2>1, HasKept
<1> QED
  BY <1>1, <1>2, <1>3, <1>6 DEF FilesInv, MovedOn

------------------------------------------------------------------------------
(* Publication.                                                              *)

(* What has the record id already and does not conflict has the identity.   *)
LEMMA SameIdentity ==
  ASSUME FilesInv, NEW m, FilesystemId(m) \in DOMAIN node, ~IdentityConflicts(FilesystemId(m), m)
  PROVE  PersistentIdentity(node[FilesystemId(m)].content) = PersistentIdentity(m)
<1> DEFINE r == node[FilesystemId(m)]
<1>1. Identified(r)
  BY FsId DEF FilesInv, GraphInv
<1>2. \/ r.identity = PersistentIdentity(m)
      \/ r.identity = NoIdentity /\ LegacyIdentityMatches(r, m)
  BY DEF IdentityConflicts
<1>3. CASE r.identity = PersistentIdentity(m)
  <2>1. PersistentIdentity(m) # NoIdentity
    BY DEF PersistentIdentity, NoIdentity
  <2> QED
    BY <1>1, <1>3, <2>1 DEF Identified
<1>4. CASE LegacyIdentityMatches(r, m)
  BY <1>4 DEF LegacyIdentityMatches, PersistentIdentity, CanonicalPath
<1> QED
  BY <1>2, <1>3, <1>4

LEMMA PublishedIdentified ==
  ASSUME NEW id, NEW m
  PROVE  Identified(PublishedRecord(id, m)) /\ PublishedRecord(id, m).content = m
BY DEF PublishedRecord, Record, Identified, RecordFields

(* The transaction: either the record conflicts and nothing changes, or   *)
(* it has the identity, or it is new.                                     *)
LEMMA PublishKeeps ==
  ASSUME FilesInv, NEW p \in Procs, PublishFilesystemMemory(p)
  PROVE  FilesInv'
<1> DEFINE m == Query(p).memory
           id == FilesystemId(m)
<1>1. At(p, "publish") /\ Then(p, <<>>) /\ over' = over
  BY DEF PublishFilesystemMemory, SameLog
<1>2. GraphSpared /\ GraphInv'
  <2>1. CASE IdentityConflicts(id, m)
    <3>1. node' = node /\ edge' = edge
      BY <2>1 DEF PublishFilesystemMemory
    <3> QED
      BY <3>1 DEF FilesInv, GraphSpared, GraphInv, Under, Out, Identified, PersistentIdentity, CanonicalPath
  <2>2. CASE ~IdentityConflicts(id, m)
    <3> DEFINE e == Edge("contains", Root("filesystem_memories"), id, 0)
               r == PublishedRecord(id, m)
    <3>1. node' = Assigned(node, id, r) /\ edge' = edge \cup {e}
      BY <2>2 DEF PublishFilesystemMemory
    <3>2. Identified(r) /\ r.content = m
      BY PublishedIdentified
    <3>3. e.rel = "contains" /\ e.from = Root("filesystem_memories") /\ e.to = id
      BY DEF Edge
    <3>4. id \in DOMAIN node => PersistentIdentity(node[id].content) = PersistentIdentity(m)
      BY <2>2, SameIdentity
    <3> HIDE DEF e, r, id, m
    <3>5. DOMAIN node' = DOMAIN node \cup {id} /\ node'[id] = r
          /\ \A i \in DOMAIN node : i # id => node'[i] = node[i]
      BY <3>1 DEF Assigned
    <3>6. GraphSpared
      <4> SUFFICES ASSUME NEW i \in DOMAIN node, i[1] = "fs"
                   PROVE  i \in DOMAIN node'
                          /\ PersistentIdentity(node'[i].content) = PersistentIdentity(node[i].content)
        BY DEF GraphSpared
      <4>1. CASE i = id
        <5>1. node'[i].content = m
          BY <3>2, <3>5, <4>1
        <5> QED
          BY <3>4, <3>5, <4>1, <5>1
      <4>2. CASE i # id
        <5>1. node'[i] = node[i]
          BY <3>5, <4>2
        <5> QED
          BY <3>5, <5>1
      <4> QED
        BY <4>1, <4>2
    <3>7. IsFiniteSet(edge')
      BY <3>1, FS_AddElement DEF FilesInv, GraphInv
    <3>8. \A f \in edge' : f.rel = "contains" /\ f.from # Root("filesystem_memories") => ~InFiles(f.to)
      BY <3>1, <3>3 DEF FilesInv, GraphInv
    <3>9. Under("filesystem_memories")' = Under("filesystem_memories") \cup {id}
      BY <3>1, <3>3 DEF Under, Out
    <3>10. \A i \in DOMAIN node' : i[1] = "fs" => Identified(node'[i]) /\ i \in Under("filesystem_memories")'
      BY <3>2, <3>5, <3>9 DEF FilesInv, GraphInv
    <3> QED
      BY <3>6, <3>7, <3>8, <3>10 DEF GraphInv, Identified
  <2> QED
    BY <2>1, <2>2
<1>3. /\ DOMAIN proc' = Procs /\ \A r \in Procs \ {p} : proc'[r] = proc[r]
      /\ ProcOK(proc'[p]) /\ proc'[p].ops = proc[p].ops /\ proc'[p].busy = proc[p].busy
      /\ proc'[p].script = <<>> \o Tail(proc[p].script)
  BY <1>1, NoQueries, ThenFacts
<1>4. ASSUME Publishes(proc'[p]) PROVE PublishingAt(p)'
  <2> DEFINE n == Head(Head(proc[p].ops).script).memory
  <2>1. PublishingAt(p) /\ proc[p].script # <<>> /\ Head(proc[p].script).q = "publish"
    BY <1>1, <1>3, <1>4 DEF FilesInv, ProcInv, Publishes, At
  <2>2. Head(Published(n)).q = "read_back" /\ <<>> \o Tail(Publish(n)) = Published(n)
    BY DEF Publish, Published
  <2>3. proc[p].script = Publish(n)
    BY <2>1, <2>2 DEF PublishingAt
  <2>4. proc'[p].script = Published(n)
    BY <1>3, <2>2, <2>3
  <2> QED
    BY <1>3, <2>4 DEF PublishingAt
<1>5. ProcInv(p)'
  BY <1>3, <1>4 DEF ProcInv
<1> QED
  BY <1>1, <1>2, <1>3, <1>5, StepKeeps

(* What is read back and compared is what the publication returns.        *)
LEMMA ReadBackKeeps ==
  ASSUME FilesInv, NEW p \in Procs, ReadBack(p)
  PROVE  FilesInv'
<1>0. PICK m : m = Query(p).memory
  OBVIOUS
<1> DEFINE id == FilesystemId(m)
<1>1. At(p, "read_back") /\ SameGraph /\ over' = over /\ proc[p].busy
  BY DEF ReadBack, At
<1>2. CASE Raise(p)
  BY <1>1, <1>2, RaiseMoves, ReadKeeps
<1>3. CASE Has(m) /\ Keep(p, Reg("found"), {id}, <<>>)
  <2>1. /\ DOMAIN proc' = Procs /\ \A r \in Procs \ {p} : proc'[r] = proc[r]
        /\ ProcOK(proc'[p]) /\ proc'[p].ops = proc[p].ops /\ proc'[p].busy = proc[p].busy
        /\ proc'[p].script = <<>> \o Tail(proc[p].script)
        /\ proc'[p].reg = Assigned(proc[p].reg, Reg("found"), {id})
    <3>1. At(p, "read_back") /\ Keep(p, Reg("found"), {id}, <<>>) /\ QuerySeq(<<>>) /\ ~NodeRegister(Reg("found"))
      BY <1>1, <1>3, NoQueries, OwnRegister
    <3>2. DOMAIN proc' = Procs
      BY <3>1, OwnFacts
    <3>3. \A r \in Procs \ {p} : proc'[r] = proc[r]
      BY <3>1, OwnFacts
    <3>4. ProcOK(proc'[p]) /\ proc'[p].ops = proc[p].ops /\ proc'[p].busy = proc[p].busy
      BY <3>1, OwnFacts
    <3>5. proc'[p].script = <<>> \o Tail(proc[p].script)
      BY <3>1, OwnFacts
    <3>6. proc'[p].reg = Assigned(proc[p].reg, Reg("found"), {id})
      BY <3>1, OwnFacts
    <3> QED
      BY <3>2, <3>3, <3>4, <3>5, <3>6
  <2>2. Found(p)' = {id}
    BY <2>1 DEF Found, Assigned
  <2>3. Has(m)'
    BY <1>1, <1>3 DEF SameGraph, Has, FilesystemId, PersistentIdentity, CanonicalPath
  <2>4. ASSUME Publishes(proc'[p]) PROVE PublishingAt(p)'
    <3> DEFINE n == Head(Head(proc[p].ops).script).memory
    <3>1. PublishingAt(p) /\ proc[p].script # <<>> /\ Head(proc[p].script).q = "read_back"
      BY <1>1, <2>1, <2>4 DEF FilesInv, ProcInv, Publishes, At
    <3>2. Head(Publish(n)).q = "publish" /\ <<>> \o Tail(Published(n)) = <<>> /\ Head(Published(n)).memory = n
      BY DEF Publish, Published
    <3>3. proc[p].script = Published(n)
      BY <3>1, <3>2 DEF PublishingAt
    <3>4. m = n
      BY <1>0, <3>2, <3>3 DEF Query
    <3>5. proc'[p].script = <<>>
      BY <2>1, <3>2, <3>3
    <3> QED
      BY <2>1, <2>2, <2>3, <3>4, <3>5 DEF PublishingAt
  <2>5. MovedOn(p)
    BY <2>1, <2>4 DEF MovedOn, ProcInv
  <2> QED
    BY <1>1, <2>5, ReadKeeps
<1> QED
  BY <1>0, <1>2, <1>3 DEF ReadBack, Has

------------------------------------------------------------------------------
(* Every start and every step.                                               *)

LEMMA FilesInit == GraphInit => FilesInv
<1> SUFFICES ASSUME GraphInit PROVE FilesInv
  OBVIOUS
<1>1. PICK plan \in Plans : /\ node = plan.node /\ edge = plan.edge
                            /\ proc = [p \in Procs |-> Idle(plan.ops[p])] /\ over = {}
  BY DEF GraphInit
<1>2. GraphInv
  BY <1>1, PlanAssumption DEF GraphInv, InFiles, Under, Out
<1>3. ASSUME NEW p \in Procs PROVE ProcInv(p)
  <2>1. IsSeq(plan.ops[p]) /\ \A i \in DOMAIN plan.ops[p] : OperationLegal(plan.ops[p][i])
    BY PlanAssumption DEF IsSeq
  <2>2. proc[p] = Idle(plan.ops[p])
    BY <1>1
  <2> QED
    BY <2>1, <2>2, IdleOK DEF ProcInv
<1> QED
  BY <1>1, <1>2, <1>3 DEF FilesInv, OverInv

LEMMA FilesNext ==
  ASSUME FilesInv, [GraphNext]_graphVars
  PROVE  FilesInv'
<1>1. CASE UNCHANGED graphVars
  BY <1>1 DEF graphVars, FilesInv, GraphInv, OverInv, ProcInv, ProcOK, PublishingAt, Publishes, Has, Found,
              Under, Out
<1>2. CASE GraphNext
  <2>1. PICK p \in Procs : Step(p)
    BY <1>2 DEF GraphNext
  <2> QED
    BY <2>1, BeginOperationKeeps, EndKeeps, CutShortKeeps, UpsertKeeps, ChecksKeep, CreateKeeps, RelateKeeps,
       RecordsKeep, RelateAtKeeps, TouchesKeep, UpdateKeeps, ReprovideKeeps, UnlinkKeeps, RemoveKeeps,
       SelectsKeep, SelectMessagesKeeps, SelectMessageKeeps, SelectHistoryKeeps, SelectActionsKeeps, SelectCatalogKeeps,
       SelectModelsKeeps, PublishKeeps, ReadBackKeeps, SeedProviderKeeps, PruneKeeps, DeleteProviderKeeps,
       SeedMagicKeeps, LookUpKeeps, SeedTaskKeeps, FindsKeep, FindSessionsKeeps, FindConversationsKeeps,
       FindMessagesKeeps
       DEF Step
<1> QED
  BY <1>1, <1>2

LEMMA FilesStay ==
  ASSUME FilesInv
  PROVE  PublishedStays
<1> SUFFICES ASSUME NEW o \in over, o.name[1] = "publish"
             PROVE  LET m == Head(o.script).memory IN
                      /\ o.found = {FilesystemId(m)} /\ o.found \subseteq Under("filesystem_memories")
                      /\ PersistentIdentity(node[FilesystemId(m)].content) = PersistentIdentity(m)
  BY DEF PublishedStays
<1> DEFINE m == Head(o.script).memory
<1>1. o.found = {FilesystemId(m)} /\ Has(m)
  BY DEF FilesInv, OverInv
<1>2. FilesystemId(m) \in Under("filesystem_memories")
  BY <1>1, FsId DEF Has, FilesInv, GraphInv
<1> QED
  BY <1>1, <1>2 DEF Has

(***************************************************************************)
(* Once publish_filesystem_memory has returned, its record is under the    *)
(* root of the filesystem memories and has the identity published, for     *)
(* good: whatever other processes publish under the same record id, seed,  *)
(* store, search or delete, and wherever one of them is cut short, as long *)
(* as filesystem memories are changed only by publishing.                  *)
(***************************************************************************)
THEOREM PublicationsStay == GraphSpec => []PublishedStays
<1>1. GraphInit => FilesInv
  BY FilesInit
<1>2. FilesInv /\ [GraphNext]_graphVars => FilesInv'
  BY FilesNext
<1>3. FilesInv => PublishedStays
  BY FilesStay
<1> QED
  BY <1>1, <1>2, <1>3, PTL DEF GraphSpec
=============================================================================
