------------------------------ MODULE TurnFlow ------------------------------
(***************************************************************************)
(* The agent half of a voice turn, from the committed transcript to the    *)
(* result: the request loop RunVoiceTurn of baml_src/ns_voice_turn and the *)
(* callbacks of voice/task_flow_host.py it runs on, the side effects of    *)
(* voice/turn_side_effects.py and task_execution/primitives.py, and the    *)
(* live conversation that hides requests still under way from each other.  *)
(* Turns run at the same time and share the live conversation, the stored  *)
(* conversation and the memories.  Every answer of a model is free, and    *)
(* every call of a model or of the database may raise, which ends the turn.*)
(* A stored message is one step here; MemoryGraph opens it up.             *)
(* A text is the sequence of its words; a transcript may hold an empty one *)
(* where the segments of the transcriber were joined.                      *)
(***************************************************************************)
EXTENDS Naturals, Sequences, FiniteSets, SequencesExt

CONSTANTS
  Turns,        \* the committed turns
  Texts,        \* what the human of each turn may say
  Old,          \* messages stored before this process: <<>> or a resumed conversation
  Candidates,   \* memories the prompt layers of each turn may propose
  Returns,      \* the return items a task execution of each turn may produce
  Faults,       \* the turns whose calls may raise
  Cycles,       \* bound: task choices of a turn
  Attempts      \* bound: executions of a turn

ASSUME FlowBounds ==
  /\ Faults \subseteq Turns
  /\ Cycles \in [Turns -> Nat] /\ Attempts \in [Turns -> Nat]
  /\ \A t \in Turns : \A returns \in Returns[t] : returns \in Seq(STRING)

\* A resumed conversation is a sequence, and its replies are those of earlier turns.
ASSUME OldConversation ==
  /\ Old \in Seq(Range(Old))
  /\ \A i \in 1..Len(Old) : Old[i].role = "agent" => Old[i].text[1] \notin Turns

VARIABLES
  turn,      \* the state of each turn
  live,      \* LiveConversationContext._messages
  active,    \* _active_human_replies, by their captured_at
  stored,    \* the conversation in the database
  memories,  \* memories and preferences in the database, in the order written
  nodes,     \* task history nodes: the turn, its attempt, the actions
  threads,   \* background threads that have not done their work
  queue,     \* replies handed to the speaker
  mode,      \* conversation mode of the controller
  now        \* the clock behind captured_at and created_at

vars == <<turn, live, active, stored, memories, nodes, threads, queue, mode, now>>

Pcs == {"new", "load", "choose", "retrieve", "execute", "dispatch", "summarize",
        "check", "resolve", "record", "request", "review", "write", "done", "failed"}

Msg(role, text, at) == [role |-> role, text |-> text, at |-> at]

Key(m) == <<m.role, m.text>>

Running(t) == turn[t].pc \notin {"new", "done", "failed"}

Over(t) == turn[t].pc \in {"done", "failed"}

TypeOK ==
  /\ DOMAIN turn = Turns
  /\ \A t \in Turns : /\ turn[t].pc \in Pcs
                      /\ turn[t].idle \in 0..3
                      /\ turn[t].cands \subseteq Candidates[t]
                      /\ turn[t].known \subseteq Range(memories)
  /\ active \subseteq {live[i].at : i \in DOMAIN live}
  /\ mode \in {"on", "off"}
  /\ now \in Nat

NewTurn == [pc |-> "new", text |-> <<>>, reply |-> 0, cycle |-> 0, attempt |-> 0,
            idle |-> 0, finished |-> FALSE, work |-> <<>>, cands |-> {},
            known |-> {}, seen |-> <<>>, scope |-> {}, todo |-> <<>>, acts |-> <<>>,
            batch |-> <<>>, passed |-> FALSE, picks |-> <<>>, result |-> <<>>]

Init ==
  /\ turn = [t \in Turns |-> NewTurn]
  /\ live = <<>> /\ active = {} /\ stored = Old
  /\ memories = <<>> /\ nodes = {} /\ threads = {} /\ queue = <<>>
  /\ mode = "on" /\ now = Len(Old)

------------------------------------------------------------------------------
(* The live conversation.                                                    *)

\* Timestamps are forced to grow, so that one names a message.  Only those of
\* human messages are ever compared; the others stay 0.
NextCapturedAt == now + 1

Stamp(role) == IF role = "human" THEN NextCapturedAt ELSE 0

Tick(role) == now' = IF role = "human" THEN NextCapturedAt ELSE now

\* Blanks are single in a live message; the stored one has the transcript as it is.
Clean(text) == SelectSeq(text, LAMBDA word : word # "")

\* A message of this process, seen by the prompts before it is stored.
AddLive(role, text) ==
  /\ live' = Append(live, Msg(role, text, Stamp(role)))
  /\ active' = IF role = "human" THEN active \cup {NextCapturedAt} ELSE active

ResolveHumanReply(at) == active' = active \ {at}

\* The replies of turns under way.
ActiveHumanReplies ==
  {live[i].at : i \in {j \in DOMAIN live : live[j].at \in active}}

\* The last stored copy of an active reply gives way to the live message.
ReplacePersisted(merged, m) ==
  LET copies == {i \in DOMAIN merged : Key(merged[i]) = Key(m) /\ merged[i].at >= m.at}
      last == CHOOSE i \in copies : \A j \in copies : j <= i
  IN IF copies = {} \/ merged[last].at = m.at THEN merged ELSE RemoveAt(merged, last)

\* Mutant: one stored message stands for every live one of the same words.
UnmatchedWords(merged) ==
  {i \in DOMAIN live : \A j \in DOMAIN merged : Key(merged[j]) # Key(live[i])}

\* Live messages that no stored message of the same role and words stands for.
Unmatched(merged) ==
  {i \in DOMAIN live :
     Cardinality({j \in 1..i : Key(live[j]) = Key(live[i])})
       > Cardinality({j \in DOMAIN merged : Key(merged[j]) = Key(live[i])})}

\* The conversation of the database and what this process knows beyond it.
MergeLive(conversation) ==
  LET merged == FoldLeft(LAMBDA c, m : IF m.at \in ActiveHumanReplies
                                         THEN ReplacePersisted(c, m) ELSE c,
                         conversation, live)
      more == Unmatched(merged)
  IN FoldLeft(LAMBDA c, i : IF i \in more THEN Append(c, live[i]) ELSE c,
              merged, [i \in DOMAIN live |-> i])

ConversationHistory == stored

CurrentConversation == MergeLive(ConversationHistory)

\* The scope names the replies under way when it is taken.
TaskConversationScope == ActiveHumanReplies

\* Replies under way of other turns are kept out of a prompt.
TaskConversation(conversation, scope, own) ==
  SelectSeq(conversation,
            LAMBDA m : m.role # "human" \/ m.at \notin scope \/ m.at = own)

------------------------------------------------------------------------------
(* Storing, speaking and remembering.                                        *)

StoreMessage(role, text) ==
  /\ stored' = Append(stored, Msg(role, text, Stamp(role)))
  /\ Tick(role)

Go(t, pc) == turn' = [turn EXCEPT ![t].pc = pc]

Spawn(kind, t, text) == threads \cup {[kind |-> kind, turn |-> t, text |-> text]}

\* The reply is stored by a thread of its own.
RecordInBackground(t, text) == threads' = Spawn("human", t, text)

RecordHumanReply(th) ==
  /\ th \in threads /\ th.kind = "human"
  /\ threads' = threads \ {th}
  /\ \/ StoreMessage("human", th.text)
     \/ th.turn \in Faults /\ UNCHANGED <<stored, now>>     \* a warning is all that is left
  /\ UNCHANGED <<turn, live, active, memories, nodes, queue, mode>>

\* A reply is spoken by a thread of its own, which queues it.
Speak(th) ==
  /\ th \in threads /\ th.kind = "speak"
  /\ threads' = threads \ {th}
  /\ queue' = Append(queue, th.text)
  /\ UNCHANGED <<turn, live, active, stored, memories, nodes, mode, now>>

\* A barge-in cuts a queued reply; a further thread records it.
SpeechInterrupted(i) ==
  /\ i \in DOMAIN queue
  /\ queue' = RemoveAt(queue, i)
  /\ threads' = Spawn("cut", queue[i][1], queue[i])
  /\ UNCHANGED <<turn, live, active, stored, memories, nodes, mode, now>>

RecordReplyInterrupted(th) ==
  /\ th \in threads /\ th.kind = "cut"
  /\ threads' = threads \ {th}
  /\ \/ StoreMessage("agent_reply_interrupted", th.text)
     \/ th.turn \in Faults /\ UNCHANGED <<stored, now>>     \* a warning again
  /\ UNCHANGED <<turn, live, active, memories, nodes, queue, mode>>

------------------------------------------------------------------------------
(* The turn.                                                                 *)

\* The committed transcript becomes the live human reply of the turn.
Begin(t, text) ==
  /\ turn[t].pc = "new"
  /\ AddLive("human", Clean(text)) /\ Tick("human")
  /\ turn' = [turn EXCEPT ![t].pc = "load", ![t].text = text,
                          ![t].reply = NextCapturedAt]
  /\ RecordInBackground(t, text)
  /\ UNCHANGED <<stored, memories, nodes, queue, mode>>

\* What the prompts of one cycle are given; reviews use the memories of the last.
UnderstandingInputs == Range(memories)

LoadContext(t) ==
  /\ turn[t].pc = "load" /\ turn[t].cycle < Cycles[t]
  /\ turn' = [turn EXCEPT ![t].pc = "choose", ![t].cycle = @ + 1,
                          ![t].finished = FALSE, ![t].scope = {},
                          ![t].seen = CurrentConversation,
                          ![t].known = UnderstandingInputs]
  /\ UNCHANGED <<live, active, stored, memories, nodes, threads, queue, mode, now>>

NextConsecutiveNoActionCount(idle, doNothing) == IF doNothing THEN idle + 1 ELSE 0

\* Doing nothing finishes the cycle, any other task is planned.
ReportTaskChoice(t, doNothing, new) ==
  /\ turn[t].pc = "choose"
  /\ turn' = [turn EXCEPT ![t].idle = NextConsecutiveNoActionCount(@, doNothing),
                          ![t].picks = Append(@, doNothing),   \* history
                          ![t].cands = @ \cup new,
                          ![t].finished = doNothing,
                          ![t].seen = IF doNothing THEN <<>> ELSE @,
                          ![t].pc = IF doNothing THEN "request" ELSE "retrieve"]
  /\ UNCHANGED <<live, active, stored, memories, nodes, threads, queue, mode, now>>

\* Search terms, depths, retrieval, relevance and the prompt of the task.
RetrieveMemories(t, new) ==
  /\ turn[t].pc = "retrieve"
  /\ turn' = [turn EXCEPT ![t].scope = TaskConversationScope, ![t].seen = <<>>,
                          ![t].cands = @ \cup new, ![t].pc = "execute"]
  /\ UNCHANGED <<live, active, stored, memories, nodes, threads, queue, mode, now>>

ExecuteTask(t, returns) ==
  /\ turn[t].pc = "execute" /\ turn[t].attempt < Attempts[t]
  /\ turn' = [turn EXCEPT ![t].attempt = @ + 1, ![t].todo = returns,
                          ![t].acts = <<>>, ![t].pc = "dispatch"]
  /\ UNCHANGED <<live, active, stored, memories, nodes, threads, queue, mode, now>>

ReplyOf(t) == <<t, turn[t].attempt>>

\* A reply is stored, then spoken.
AgentReply(t) ==
  /\ StoreMessage("agent", ReplyOf(t))
  /\ threads' = Spawn("speak", t, ReplyOf(t))
  /\ UNCHANGED <<memories, mode>>

AgentThought(t) ==
  /\ StoreMessage("agent_thought", ReplyOf(t))
  /\ UNCHANGED <<memories, threads, mode>>

TurnOffConversation == mode' = "off" /\ UNCHANGED <<stored, memories, threads, now>>

\* Session memories and user preferences are written at once, unreviewed.
CreateMemory(t, name) ==
  /\ memories' = Append(memories, <<name, t, turn[t].attempt>>)
  /\ UNCHANGED <<stored, threads, mode, now>>

\* One return item: its effect, then its record in the task history.
DispatchCall(t) ==
  LET name == Head(turn[t].todo) IN
  /\ turn[t].pc = "dispatch" /\ turn[t].todo # <<>>
  /\ CASE name = "agent_thought" -> AgentThought(t)
       [] name = "conversation_mode_off" -> TurnOffConversation
       [] name \in {"session_memory", "user_preference"} -> CreateMemory(t, name)
       [] OTHER -> AgentReply(t)       \* also unsupported and malformed items
  /\ turn' = [turn EXCEPT ![t].todo = Tail(@), ![t].acts = Append(@, name)]
  /\ UNCHANGED <<live, active, nodes, queue>>

\* The actions of the attempt become one node of its task history; without
\* return items nothing is dispatched.
AppendTaskHistoryNode(t) ==
  /\ turn[t].pc = "dispatch" /\ turn[t].todo = <<>>
  /\ nodes' = IF turn[t].acts = <<>> THEN nodes
              ELSE nodes \cup {[turn |-> t, attempt |-> turn[t].attempt,
                                acts |-> turn[t].acts]}
  /\ turn' = [turn EXCEPT ![t].acts = <<>>, ![t].pc = "summarize"]
  /\ UNCHANGED <<live, active, stored, memories, threads, queue, mode, now>>

SummarizeTaskActions(t) ==
  /\ turn[t].pc = "summarize"
  /\ Go(t, "check")
  /\ UNCHANGED <<live, active, stored, memories, nodes, threads, queue, mode, now>>

\* PASS completes the task and the cycle.
CheckTaskCompletion(t, pass) ==
  /\ turn[t].pc = "check"
  /\ turn' = [turn EXCEPT
       ![t].pc = IF pass THEN "request" ELSE "resolve",
       ![t].finished = pass,
       ![t].work = IF pass THEN Append(@, <<turn[t].cycle, turn[t].attempt>>) ELSE @]
  /\ UNCHANGED <<live, active, stored, memories, nodes, threads, queue, mode, now>>

ValidationReply(t) == <<"validation", t, turn[t].attempt>>

\* The failure is told to the conversation, first to the live one.
RecordValidationReply(t) ==
  /\ turn[t].pc = "resolve" /\ Go(t, "record")
  /\ AddLive("validation_reply", ValidationReply(t))
  /\ UNCHANGED <<stored, memories, nodes, threads, queue, mode, now>>

\* Once it is stored the task is refined or left.
StoreValidationReply(t, refine) ==
  /\ turn[t].pc = "record" /\ Go(t, IF refine THEN "execute" ELSE "load")
  /\ StoreMessage("validation_reply", ValidationReply(t))
  /\ UNCHANGED <<live, active, memories, nodes, threads, queue, mode>>

\* Mutant: the second do-nothing in a row ends the request.
ShouldCheckOnce(t) == turn[t].finished /\ turn[t].idle < 2

\* The third do-nothing in a row ends the request without asking.
ShouldCheck(t) == turn[t].finished /\ turn[t].idle < 3

CheckRequestCompletion(t, pass) ==
  /\ turn[t].pc = "request"
  /\ turn' = [turn EXCEPT
       ![t].passed = pass /\ ShouldCheck(t),
       ![t].pc = IF ~ShouldCheck(t) \/ pass THEN "review" ELSE "load"]
  /\ UNCHANGED <<live, active, stored, memories, nodes, threads, queue, mode, now>>

\* The result of the last completed task, or that nothing was done.
VoiceRequestResult(t) ==
  IF turn[t].work # <<>> THEN turn[t].work[Len(turn[t].work)] ELSE <<turn[t].cycle>>

\* The review rejects what it knows to be stored; the rest it keeps or not.
ReviewMemories(t, keep) ==
  /\ turn[t].pc = "review" /\ keep \subseteq turn[t].cands \ turn[t].known
  /\ turn' = [turn EXCEPT ![t].batch = SetToSeq(keep), ![t].pc = "write"]
  /\ UNCHANGED <<live, active, stored, memories, nodes, threads, queue, mode, now>>

WriteCandidateMemory(t) ==
  /\ turn[t].pc = "write" /\ turn[t].batch # <<>>
  /\ memories' = Append(memories, Head(turn[t].batch))
  /\ turn' = [turn EXCEPT ![t].batch = Tail(@)]
  /\ UNCHANGED <<live, active, stored, nodes, threads, queue, mode, now>>

\* The turn returns and its reply is resolved.
Finish(t) ==
  /\ turn[t].pc = "write" /\ turn[t].batch = <<>>
  /\ turn' = [turn EXCEPT ![t].pc = "done", ![t].result = VoiceRequestResult(t),
                          ![t].cands = {}, ![t].known = {}, ![t].scope = {}]
  /\ ResolveHumanReply(turn[t].reply)
  /\ UNCHANGED <<live, stored, memories, nodes, threads, queue, mode, now>>

\* A call raises: the error leaves the turn, and its reply unresolved.
TurnFails(t) ==
  /\ t \in Faults /\ Running(t)
  /\ turn' = [turn EXCEPT ![t] = [NewTurn EXCEPT !.pc = "failed", !.text = turn[t].text,
                                                  !.reply = turn[t].reply]]
  /\ UNCHANGED <<live, active, stored, memories, nodes, threads, queue, mode, now>>

TurnStep(t) ==
  \/ \E text \in Texts[t] : Begin(t, text)
  \/ LoadContext(t)
  \/ \E doNothing \in BOOLEAN, new \in SUBSET Candidates[t] :
       ReportTaskChoice(t, doNothing, new)
  \/ \E new \in SUBSET Candidates[t] : RetrieveMemories(t, new)
  \/ \E returns \in Returns[t] : ExecuteTask(t, returns)
  \/ DispatchCall(t) \/ AppendTaskHistoryNode(t) \/ SummarizeTaskActions(t)
  \/ \E pass \in BOOLEAN : CheckTaskCompletion(t, pass)
  \/ RecordValidationReply(t) \/ \E refine \in BOOLEAN : StoreValidationReply(t, refine)
  \/ \E pass \in BOOLEAN : CheckRequestCompletion(t, pass)
  \/ \E keep \in SUBSET Candidates[t] : ReviewMemories(t, keep)
  \/ WriteCandidateMemory(t) \/ Finish(t) \/ TurnFails(t)

ThreadStep ==
  \/ \E th \in threads : RecordHumanReply(th) \/ Speak(th) \/ RecordReplyInterrupted(th)
  \/ \E i \in DOMAIN queue : SpeechInterrupted(i)

Next == (\E t \in Turns : TurnStep(t)) \/ ThreadStep

Spec == Init /\ [][Next]_vars

------------------------------------------------------------------------------
(* Properties.                                                               *)

Count(messages, key) == Cardinality({i \in DOMAIN messages : Key(messages[i]) = key})

Words(t) == <<"human", Clean(turn[t].text)>>

\* The conversation the next prompt of a turn is given: the choice sees all of what
\* was loaded; the search and the prompt of the task see that through the scope of
\* the moment; the completion check sees the conversation of the moment through the
\* scope the attempts keep, and the request check through a new one.
PromptConversation(t) ==
  LET own == turn[t].reply IN
  CASE turn[t].pc = "choose"   -> turn[t].seen
    [] turn[t].pc = "retrieve" -> TaskConversation(turn[t].seen, TaskConversationScope, own)
    [] turn[t].pc = "check"    -> TaskConversation(CurrentConversation, turn[t].scope, own)
    [] turn[t].pc = "request"  -> TaskConversation(CurrentConversation, TaskConversationScope, own)

Prompting == {t \in Turns : turn[t].pc \in {"choose", "retrieve", "check", "request"}}

\* Whoever else said the same did so earlier, and is resolved.
Alone(t) == \A u \in Turns \ {t} : Words(u) = Words(t) =>
              turn[u].reply < turn[t].reply /\ turn[u].reply \notin active

\* Every prompt of a turn shows its own request: under its own timestamp, unless a
\* resumed conversation held the same words, which then stand for it.
OwnRequestShown ==
  \A t \in {r \in Prompting : Alone(r)} :
    LET shown == PromptConversation(t) IN
    IF Count(Old, Words(t)) = 0
    THEN \E i \in DOMAIN shown : shown[i].at = turn[t].reply
    ELSE Count(shown, Words(t)) > 0

\* The other requests under way: every prompt but the choice, which is not filtered,
\* hides them, the completion check only those that were under way when its task was
\* planned.  A request said before, in this process or in the one resumed, or stored
\* with other blanks than it has in the live conversation, is shown by that copy.
OthersHidden ==
  \A t \in {r \in Prompting : turn[r].pc # "choose"} :
    \A u \in {r \in Turns \ {t} : turn[r].reply \in active /\ Alone(r)} :
      \/ \E r \in Turns \ {u} : Over(r) /\ Words(r) = Words(u)
      \/ Count(Old, Words(u)) > 0 \/ Clean(turn[u].text) # turn[u].text
      \/ Count(PromptConversation(t), Words(u)) =
           (IF turn[t].pc = "check" /\ turn[u].reply \notin turn[t].scope THEN 1 ELSE 0)

\* The merged conversation has every human and validation reply of this process
\* exactly once, however far the threads that store them have come.  The words of a
\* resumed conversation are never lost, and may stand for the replies that repeat them.
MergeExact ==
  \A i \in DOMAIN live :
    LET count  == Count(CurrentConversation, Key(live[i]))
        mine  == Count(live, Key(live[i]))
        older == Count(Old, Key(live[i]))
    IN IF older = 0 THEN count = mine ELSE count >= older /\ count \in mine..older + mine

\* A turn ends when a completed cycle passed the request check or after three
\* do-nothing choices in a row, and its result is its last completed task.
CompletionEarned ==
  \A t \in Turns : turn[t].pc = "done" =>
    LET picks == turn[t].picks IN
    /\ \/ turn[t].passed
       \/ Len(picks) >= 3 /\ \A i \in Len(picks)-2..Len(picks) : picks[i]
    /\ turn[t].work # <<>> <=> Len(turn[t].result) = 2

\* A task history node has the actions of its own attempt, each once, and every
\* reply of a finished turn is in the history; only what is stored is spoken.
HistoryExact ==
  /\ \A n \in nodes : n.acts \in Returns[n.turn]
  /\ \A i \in DOMAIN stored : stored[i].role = "agent" =>
       LET t == stored[i].text[1] IN t \in Turns /\ turn[t].pc = "done" =>
         \E n \in nodes : n.turn = t /\ n.attempt = stored[i].text[2]
  /\ \A text \in {queue[i] : i \in DOMAIN queue}
                  \cup {th.text : th \in {h \in threads : h.kind = "speak"}} :
       Count(stored, <<"agent", text>>) > 0

\* What the prompts show of the conversation is exact, whatever the other turns and
\* the threads have done meanwhile.
ContextExact == OwnRequestShown /\ OthersHidden /\ MergeExact

\* What a turn leaves behind, its end, its result, its history and its replies, is
\* what it earned, whatever the other turns and the threads have done meanwhile.
TurnsSound == TypeOK /\ HistoryExact /\ CompletionEarned
=============================================================================
