----------------------------- MODULE PromptContext -----------------------------
(***************************************************************************)
(* What the prompts of a turn are given from the memory graph:             *)
(* agent_flow/memory_contexts.py, session_context.py, voice_turn_context.py*)
(* and the conversion of the retrieved graph to the types of the prompts   *)
(* and back (agent_flow/retrieved_memory_graph.py, against                 *)
(* reframe_memory/retrieved_context.py).                                   *)
(*                                                                         *)
(* A stored node is [id, tags, at, read, content]: at stands for the two   *)
(* timestamps every node has, read may be Never.  A content is a record    *)
(* whose fields are those of reframe_memory/models.py.                     *)
(***************************************************************************)
EXTENDS Naturals, Sequences, FiniteSets, SequencesExt

Never == "None"     \* a node no agent has read
NONE  == "NONE"     \* how a prompt is told so

Map(seq, Op(_)) == [i \in DOMAIN seq |-> Op(seq[i])]

TimestampFields(node) == [at |-> node.at, read |-> IF node.read = Never THEN NONE ELSE node.read]

-------------------------------------------------------------------------------
(* The retrieved graph as the prompts see it: contents are flattened into    *)
(* the nodes.                                                                *)

Flat(node) == [id |-> node.id, tags |-> node.tags, stamps |-> TimestampFields(node), fields |-> node.content]

ConversationGraph(c) ==
  [conversation |-> Flat(c.conversation), matched |-> c.matched,
   messages |-> Map(c.messages, Flat), matched_message_ids |-> c.matched_message_ids]

SessionGraph(s) ==
  [session |-> Flat(s.session), matched |-> s.matched,
   conversations |-> Map(s.conversations, ConversationGraph),
   session_memories |-> Map(s.session_memories, Flat)]

RetrievedMemoryGraph(m) ==
  [task_catalog |-> Map(m.tasks, Flat), past_sessions |-> Map(m.sessions, SessionGraph),
   current_session_memories |-> Map(m.current, Flat)]

(* BamlRetrievedMemoryContext: the graph a prompt selected, held as the       *)
(* retrieved memories are.                                                    *)
FromGraph(g) ==
  [tasks |-> g.task_catalog, sessions |-> g.past_sessions, current |-> g.current_session_memories]

(* The two renderings of a node, of a conversation, of a session, of all.     *)
BaseNode(n) == [id |-> n.id, tags |-> n.tags, stamps |-> n.stamps, content |-> n.fields]

BamlConversationDict(c) ==
  [conversation |-> BaseNode(c.conversation), matched |-> c.matched,
   messages |-> Map(c.messages, BaseNode), matched_message_ids |-> c.matched_message_ids]

BamlSessionDict(s) ==
  [session |-> BaseNode(s.session), matched |-> s.matched,
   conversations |-> Map(s.conversations, BamlConversationDict),
   session_memories |-> Map(s.session_memories, BaseNode)]

BamlToDict(m) ==
  [tasks |-> Map(m.tasks, BaseNode), sessions |-> Map(m.sessions, BamlSessionDict),
   current |-> Map(m.current, BaseNode)]

NodeToDict(n) == [id |-> n.id, tags |-> n.tags, stamps |-> TimestampFields(n), content |-> n.content]

ConversationToDict(c) ==
  [conversation |-> NodeToDict(c.conversation), matched |-> c.matched,
   messages |-> Map(c.messages, NodeToDict), matched_message_ids |-> c.matched_message_ids]

SessionToDict(s) ==
  [session |-> NodeToDict(s.session), matched |-> s.matched,
   conversations |-> Map(s.conversations, ConversationToDict),
   session_memories |-> Map(s.session_memories, NodeToDict)]

RetrievedToDict(m) ==
  [tasks |-> Map(m.tasks, NodeToDict), sessions |-> Map(m.sessions, SessionToDict),
   current |-> Map(m.current, NodeToDict)]

-------------------------------------------------------------------------------
(* The contexts of a turn, read from a database db of sequences of nodes.     *)

TaskModelId(task, providers) ==
  LET mine == SelectSeq(providers, LAMBDA p : p.id = task.content.provider_id)
  IN IF mine = <<>> THEN Never ELSE Last(mine).content.model_id

(* One task without a model fails the whole catalogue, and so every turn.     *)
AvailableTasks(db) ==
  LET missing == {i \in DOMAIN db.tasks : TaskModelId(db.tasks[i], db.providers) = Never}
  IN [ok |-> missing = {},
      tasks |-> IF missing = {}
                THEN [i \in DOMAIN db.tasks |->
                        [id |-> db.tasks[i].id, model |-> TaskModelId(db.tasks[i], db.providers)]]
                ELSE <<>>]

ContextMemories(nodes) == Map(nodes, Flat)

SessionMemoryContexts(db, session) ==
  IF session = Never THEN <<>>
  ELSE Map(SelectSeq(db.session_memories, LAMBDA n : n.session = session), LAMBDA n : Flat(n.node))

UnderstandingKeys ==
  {"current_timestamp", "current_user_request", "current_conversation", "session_memories",
   "user_preferences", "available_tasks", "task_choice_memories",
   "conversation_evaluation_memories", "search_depth_memories", "machine_state"}

ContinuationKeys ==
  {"current_user_request", "current_conversation", "session_memories", "user_preferences",
   "selected_task", "retrieved_memories", "current_session_id", "relevance_memories",
   "task_prompt_memories", "machine_state"}

VoiceTurnKeys ==
  (UnderstandingKeys \ {"current_user_request"})
    \cup {"current_session_id", "relevance_memories", "task_prompt_memories"}

(* load_context adds the request again for the debug layers of the cycle; the *)
(* scope of the turn is added later.                                          *)
CycleKeys == VoiceTurnKeys \cup {"current_user_request"}

(* The keys the debug layers pick from the inputs of a cycle.                 *)
ChooseTaskKeys ==
  {"current_user_request", "current_conversation", "session_memories", "user_preferences",
   "available_tasks", "task_choice_memories", "machine_state"}

MemorySearchKeys ==
  {"current_user_request", "current_conversation", "session_memories",
   "conversation_evaluation_memories", "machine_state"}

SearchDepthKeys ==
  {"current_timestamp", "current_user_request", "current_conversation", "session_memories",
   "search_depth_memories", "machine_state"}

ContinuationLayerKeys == ContinuationKeys \ {"selected_task", "retrieved_memories"}

(* A layer whose key is missing from the inputs raises before it is written.  *)
LayerBuilds(keys, inputs) == keys \subseteq inputs

-------------------------------------------------------------------------------

(* A prompt that is given the retrieved memories and hands the graph back   *)
(* loses nothing: both renderings of it are one (retrieved_memory_graph,    *)
(* from_graph and the two to_dict).  A session's own memories are the same  *)
(* to a prompt whether they are loaded or retrieved (memory_contexts.py).   *)
GraphRoundTrips(memories) ==
  \A m \in memories :
    /\ BamlToDict(FromGraph(RetrievedMemoryGraph(m))) = RetrievedToDict(m)
    /\ Map(ContextMemories(m.tasks), BaseNode) = Map(m.tasks, NodeToDict)
    /\ \A k \in DOMAIN m.sessions :
         LET own == m.sessions[k].session_memories
             db  == [session_memories |->
                       Map(m.current, LAMBDA n : [session |-> "another", node |-> n])
                         \o Map(own, LAMBDA n : [session |-> "own", node |-> n])]
         IN SessionMemoryContexts(db, "own") = RetrievedMemoryGraph(m).past_sessions[k].session_memories

(* The layers that are written for debugging need only what every cycle     *)
(* loads, and the prompts of a cycle get all they take.                     *)
LayersBuild ==
  /\ \A keys \in {ChooseTaskKeys, MemorySearchKeys, SearchDepthKeys, ContinuationLayerKeys, UnderstandingKeys} :
       LayerBuilds(keys, CycleKeys)
  /\ CycleKeys \subseteq UnderstandingKeys \cup ContinuationKeys

(* The tasks a model may choose from are all there with a model, or the     *)
(* turn fails: none is left out (available_tasks).                          *)
CatalogueWhole(databases) ==
  \A db \in databases :
    AvailableTasks(db).ok => /\ Len(AvailableTasks(db).tasks) = Len(db.tasks)
                             /\ \A i \in DOMAIN db.tasks : AvailableTasks(db).tasks[i].model # Never
===============================================================================
