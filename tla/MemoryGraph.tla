----------------------------- MODULE MemoryGraph -----------------------------
(***************************************************************************)
(* The memory graph of reframe_memory: roots, nodes and relations in one   *)
(* SurrealDB database, and the stores that read and write it.  The worker  *)
(* of database.py runs one query at a time, so a query is one step; an     *)
(* operation of a store is several queries with nothing around them, and   *)
(* the operations of other threads run in between.  An operation is        *)
(* written here as the sequence of its queries.  It may also stop after    *)
(* any query, when a query raises or the process ends.                     *)
(***************************************************************************)
EXTENDS MemorySearch, Sequences, SequencesExt, Functions

CONSTANTS
  Procs,       \* threads and commands that use the database
  Plans,       \* start states, each with the operations its processes run
  Inventory,   \* model ids of the OpenCode Go inventory, in its order
  Efforts,     \* the reasoning efforts of each of them, in their order
  CoreTasks,   \* the definitions of the task catalog, in its order
  NodeActions, \* actions in each history node that is appended
  MaxFaults    \* bound: operations cut short

VARIABLES
  roots,    \* root records that exist
  node,     \* memory_node records
  edge,     \* relation records
  proc,     \* the operation each process runs, and those it has left
  over,     \* history: operations that returned, with what they returned
  lost      \* history: operations that raised or were cut short

graphVars == <<roots, node, edge, proc, over, lost>>

Record(kind, tags, content, ref, identity) ==
  [kind |-> kind, tags |-> tags, content |-> content, ref |-> ref,
   identity |-> identity, created |-> 1, updated |-> 1, read |-> Never]

NoId == <<>>
NoIdentity == <<>>

Edge(rel, from, to, pos) == [rel |-> rel, from |-> from, to |-> to, pos |-> pos]

Reg(name) == <<"reg", name>>

Root(name) == <<"root", name>>

Out(rel, from) == {e.to : e \in {f \in edge : f.rel = rel /\ f.from = from}}

Under(name) == Out("contains", Root(name))

\* ORDER BY position; equal positions come in any order, here a fixed one.
Ordered(rel, from) ==
  LET es == {e \in edge : e.rel = rel /\ e.from = from}
  IN [i \in 1..Cardinality(es) |->
        (SetToSortSeq(es, LAMBDA a, b : a.pos < b.pos))[i].to]

------------------------------------------------------------------------------
(* The queries.                                                              *)

Upsert(name) == [q |-> "upsert", root |-> name]
Ensure(name, id) == [q |-> "ensure", root |-> name, id |-> id]
Create(kind, tags, content, ref, into) ==
  [q |-> "create", into |-> into, ref |-> ref, record |-> Record(kind, tags, content, ref, NoIdentity)]
Relate(rel, from, to) == [q |-> "relate", rel |-> rel, from |-> from, to |-> to, pos |-> 0]
RelateAt(rel, from, to, pos) == [q |-> "relate", rel |-> rel, from |-> from, to |-> to, pos |-> pos]
RelateNext(rel, from, to, touch) ==
  [q |-> "relate_next", rel |-> rel, from |-> from, to |-> to, touch |-> touch]
NextPosition(rel, from) == [q |-> "position", rel |-> rel, from |-> from]
Touch(id) == [q |-> "touch", id |-> id]
Mark(id) == [q |-> "mark", id |-> id]

\* mark_records_read and mark_record_ids_read: one query per record.
MarkRecords(ids) == [i \in 1..Cardinality(ids) |-> Mark(SetToSeq(ids)[i])]

------------------------------------------------------------------------------
(* The stores.                                                               *)

ProvidersRoot == Upsert("providers")
TasksRoot == Upsert("tasks")
SessionsRoot == Upsert("sessions")
ConversationsRoot == Upsert("conversations")
SessionMemoriesRoot == Upsert("session_memories")
ContextRoot(name) == Upsert(name)
FilesystemRoot == Upsert("filesystem_memories")

ContextNames == <<"task_choice", "conversation_evaluation", "search_depth", "relevance",
                  "task_prompt", "user_preferences">>

EnsureRoots ==
  <<ProvidersRoot, TasksRoot, SessionsRoot, ConversationsRoot, SessionMemoriesRoot>>
    \o [i \in 1..Len(ContextNames) |-> ContextRoot(ContextNames[i])]
    \o <<FilesystemRoot>>

CreateSession(name, into) ==
  <<Create("session", {"voice"}, [name |-> name], NoId, into),
    Relate("contains", Root("sessions"), into)>>

CreateConversation(session, name, into) ==
  <<Ensure("sessions", session),
    Create("conversation", {"voice"}, [name |-> name], NoId, into),
    Relate("contains", Root("conversations"), into),
    Relate("has_conversation", session, into)>>

AddMessage(conversation, role, text) ==
  <<Ensure("conversations", conversation),
    NextPosition("has_message", conversation),
    Create("message", {role}, [role |-> {role}, content |-> text], NoId, Reg("message")),
    RelateNext("has_message", conversation, Reg("message"), FALSE),
    Touch(conversation)>>

CreateSessionMemory(session, tags, title) ==
  <<Ensure("sessions", session),
    Create("session_memory", tags, [title |-> title], NoId, Reg("memory")),
    Relate("contains", Root("session_memories"), Reg("memory")),
    Relate("has_session_memory", session, Reg("memory"))>>

CreateContextMemory(name, tags, title) ==
  <<Create("context_memory", tags, [title |-> title], NoId, Reg("memory")),
    Relate("contains", Root(name), Reg("memory"))>>

CreateProvider(p, into) ==
  <<Create("provider", p.tags, p.content, NoId, into), Relate("contains", Root("providers"), into)>>

UpdateProvider(id, p) == <<[q |-> "update", id |-> id, tags |-> p.tags, content |-> p.content, ref |-> NoId]>>

CreateTask(d, provider) ==
  <<Ensure("providers", provider),
    Create("task", d.tags, d.content, provider, Reg("task")),
    Relate("contains", Root("tasks"), Reg("task")),
    Relate("provides_task", provider, Reg("task"))>>

UpdateTask(id, d, provider) ==
  <<Ensure("providers", provider),
    [q |-> "update", id |-> id, tags |-> d.tags, content |-> d.content, ref |-> provider],
    [q |-> "reprovide", id |-> id, provider |-> provider]>>

\* Selects under a root, the WHERE clause of the store applied, all marked read.
SearchTasks(search) == <<[q |-> "search", root |-> "tasks", where |-> search]>>
SearchProviders(search) == <<[q |-> "search", root |-> "providers", where |-> search]>>
SearchSessions(search) == <<[q |-> "search", root |-> "sessions", where |-> search]>>
SearchConversations(search) == <<[q |-> "search", root |-> "conversations", where |-> search]>>
SearchSessionMemories(search) == <<[q |-> "search", root |-> "session_memories", where |-> search]>>
SearchContext(name, search) == <<[q |-> "search", root |-> name, where |-> search]>>

Get(root, id) == <<[q |-> "get", root |-> root, id |-> id]>>
GetTask(id) == Get("tasks", id)
GetProvider(id) == Get("providers", id)
GetSession(id) == Get("sessions", id)
GetFilesystemMemory(id) == Get("filesystem_memories", id)

ConversationsFor(session) == <<[q |-> "out", rel |-> "has_conversation", from |-> session]>>
MemoriesFor(session) == <<[q |-> "out", rel |-> "has_session_memory", from |-> session]>>
TasksFor(provider) == <<[q |-> "out", rel |-> "provides_task", from |-> provider]>>
MessagesFor(conversation) == <<[q |-> "messages", from |-> conversation]>>
Message(id) == [q |-> "message", id |-> id]

------------------------------------------------------------------------------
(* Task histories.                                                           *)

CreateHistory(into) == <<Create("history", {"task-history"}, <<>>, NoId, into)>>

CreateAction(name, into) == <<Create("action", {"action"}, [name |-> {name}], NoId, into)>>

CreateSessionAction(action, into) ==
  <<Create("session_action", {"session-action"}, <<>>, NoId, into), Relate("action", into, action)>>

RecordAction(name, into) ==
  CreateAction(name, Reg("action")) \o CreateSessionAction(Reg("action"), into)

\* The node is linked to its history last, in one query with the history's time.
AppendNode(history, actions) ==
  <<Create("history_node", {"task-history-node"}, <<>>, NoId, Reg("history_node"))>>
    \o [i \in 1..Len(actions) |-> RelateAt("actions", Reg("history_node"), actions[i], i - 1)]
    \o <<NextPosition("history", history),
         RelateNext("history", history, Reg("history_node"), TRUE)>>

\* The records of a history, and of each its actions, in their order.
Records(history) == <<[q |-> "history", from |-> history]>>
TaskHistoryNode(id) == [q |-> "history_node", id |-> id]
ActionsForNode(id) == [q |-> "actions", from |-> id]
ActionForSessionAction(id) == [q |-> "action", from |-> id]
ActionRecord(id) == [q |-> "action_record", id |-> id]

------------------------------------------------------------------------------
(* Filesystem memories.  A path is a place and one of its spellings.         *)

CanonicalPath(path) == path[1]

\* The record id leaves the bases of a checkpoint out.
FilesystemId(m) == <<"fs", m.source, CanonicalPath(m.path), m.manifest>>

PersistentIdentity(m) ==
  IF m.source = "directory" THEN <<m.source, CanonicalPath(m.path)>>
  ELSE <<m.source, CanonicalPath(m.path), m.manifest, m.bases>>

DirectoryMemory(path, title) ==
  [source |-> "directory", path |-> path, manifest |-> "", bases |-> {}, title |-> title]

CheckpointMemory(store, manifest, bases) ==
  [source |-> "checkpoint", path |-> store, manifest |-> manifest, bases |-> bases, title |-> ""]

\* One transaction, then the record is read back and compared.
Publish(m) == <<[q |-> "publish", memory |-> m], [q |-> "read_back", memory |-> m]>>

\* A record of before the identities is compared by its content, as it is spelled;
\* of a directory its path alone.
LegacyIdentityMatches(existing, m) ==
  /\ existing.content.source = m.source
  /\ existing.content.path = m.path
  /\ m.source # "directory" =>
       existing.content.manifest = m.manifest /\ existing.content.bases = m.bases
\* Mutant: whatever has the record id is overwritten.
NothingConflicts(id, m) == FALSE

IdentityConflicts(id, m) ==
  /\ id \in DOMAIN node
  /\ node[id].identity # PersistentIdentity(m)
  /\ ~(node[id].identity = NoIdentity /\ LegacyIdentityMatches(node[id], m))

\* A republication keeps created_at and read_at, and updated_at unless it changes something.
PublishedRecord(id, m) ==
  LET new == Record("filesystem", {"filesystem"}, m, NoId, PersistentIdentity(m))
  IN IF id \notin DOMAIN node THEN new
     ELSE [new EXCEPT !.created = node[id].created, !.read = node[id].read,
                      !.updated = IF node[id].content # m \/ node[id].tags # new.tags
                                    THEN 1 ELSE node[id].updated]

------------------------------------------------------------------------------
(* Seeding: providers of the inventory, the magic provider, the core tasks.  *)

ProviderRecord(tags, name, surface, model, effort) ==
  [tags |-> tags,
   content |-> [name |-> name, description |-> {"new"}, surface |-> {surface},
                model_id |-> {model}, effort |-> effort]]

DirectTags == {"opencode-go", "model", "direct-model"}

\* The name has the model and the effort in it.
DirectProvider(model, effort) ==
  ProviderRecord(DirectTags \cup {model} \cup effort, {"direct model", model} \cup effort,
                 "direct", model, effort)

WorkspaceProvider(model) ==
  ProviderRecord({"opencode-go", "model", "workspace-model", model}, {"workspace model", model},
                 "workspace", model, {})

MagicProvider ==
  ProviderRecord({"magic-provider", "do-nothing", "silent"}, {"magic"}, "magic", "magic", {})

ProviderKey(content) == <<content.surface, content.model_id, content.effort>>

InventoryOf(model) ==
  <<DirectProvider(model, {})>>
    \o [i \in 1..Len(Efforts[model]) |-> DirectProvider(model, {Efforts[model][i]})]
    \o <<WorkspaceProvider(model)>>

ModelInventory == FoldLeft(LAMBDA s, m : s \o InventoryOf(m), <<>>, Inventory)

AllowedProviderKeys == {ProviderKey(p.content) : p \in Range(ModelInventory)}

EnsureProvider(p) == [q |-> "seed_provider", provider |-> p]

EnsureOpencodeGoProviders ==
  [i \in 1..Len(ModelInventory) |-> EnsureProvider(ModelInventory[i])] \o <<[q |-> "prune"]>>

EnsureMagicProviders == <<[q |-> "seed_magic"]>>

\* A provider is looked up once per model and effort, a task by its name.
ProviderForDefinition(d) == [q |-> "provider_for", task |-> d]
FindTask(d) == [q |-> "find_task", task |-> d]

EnsureCoreTasks ==
  EnsureOpencodeGoProviders \o EnsureMagicProviders
    \o FlattenSeq([i \in 1..Len(CoreTasks) |->
                     <<ProviderForDefinition(CoreTasks[i]), FindTask(CoreTasks[i])>>])

------------------------------------------------------------------------------
(* Checks before a voice turn, and the catalog its prompts are given.        *)

ReadyRoots == <<"providers", "tasks", "sessions", "conversations", "session_memories">>
                \o ContextNames

MissingRoots == [i \in 1..Len(ReadyRoots) |-> [q |-> "root", name |-> ReadyRoots[i]]]

\* The catalog is asked for by the commands that choose a task, not by the browser.
RequireMemoryReady == MissingRoots
RequireTaskCatalog ==
  RequireMemoryReady \o <<[q |-> "seeded", name |-> "providers"], [q |-> "seeded", name |-> "tasks"]>>

\* A session and a conversation of this process, or the two that were named.
EnsureVoiceMemoryContext ==
  RequireTaskCatalog \o CreateSession({"voice"}, Reg("session"))
    \o CreateConversation(Reg("session"), {"voice"}, Reg("conversation"))

ValidateVoiceMemoryContext(session, conversation) ==
  RequireTaskCatalog \o <<[q |-> "exists", root |-> "sessions", id |-> session],
                          [q |-> "attached", from |-> session, id |-> conversation]>>

AvailableTasks == <<[q |-> "catalog"]>>

------------------------------------------------------------------------------
(* The memory browser: each request opens the database and checks it.        *)

MemoryRelations ==
  <<"contains", "provides_task", "has_conversation", "has_message", "has_session_memory",
    "history", "actions", "action">>

EditNode(id, tags, content) ==
  RequireMemoryReady \o <<[q |-> "update", id |-> id, tags |-> tags, content |-> content, ref |-> NoId]>>

\* Mutant: the node goes first, and its relations only if nothing fails then.
DeleteNodeFirst(id) ==
  RequireMemoryReady \o <<[q |-> "select", id |-> id], [q |-> "remove", id |-> id]>>
    \o [i \in DOMAIN MemoryRelations |-> [q |-> "unlink", rel |-> MemoryRelations[i], id |-> id]]

\* The relations go table by table, then the node; there is no transaction.
DeleteNode(id) ==
  RequireMemoryReady \o <<[q |-> "select", id |-> id]>>
    \o [i \in DOMAIN MemoryRelations |-> [q |-> "unlink", rel |-> MemoryRelations[i], id |-> id]]
    \o <<[q |-> "remove", id |-> id]>>

------------------------------------------------------------------------------
(* The retrieval that serves a task.                                         *)

\* A domain without a breadth is not searched.
TaskCatalog(request) ==
  IF "task_catalog" \in DOMAIN request.depths
    THEN <<[q |-> "find_catalog", hints |-> request.hints, breadth |-> request.depths["task_catalog"]]>>
    ELSE <<>>

PastConversationContext(request, current) ==
  IF "past_conversation_context" \in DOMAIN request.depths
    THEN <<[q |-> "find_sessions", hints |-> request.hints, current |-> current,
            breadth |-> request.depths["past_conversation_context"]]>>
    ELSE <<>>

CurrentSessionMemories(session) ==
  IF session = NoId THEN <<>> ELSE <<[q |-> "own_memories", from |-> session]>>

Retrieve(request, current) ==
  TaskCatalog(request) \o PastConversationContext(request, current)
    \o CurrentSessionMemories(current)

SessionContext(session, hit, how) ==
  [q |-> "find_conversations", from |-> session, hit |-> hit, hints |-> how.hints,
   breadth |-> how.breadth, current |-> how.current]

\* The memories of the current session are returned apart.
SessionRest(how) ==
  (IF how.from = how.current THEN <<>>
   ELSE <<[q |-> "find_memories", from |-> how.from, hints |-> how.hints, breadth |-> how.breadth]>>)
    \o <<[q |-> "settle_session", id |-> how.from, hit |-> how.hit]>>

ConversationContext(conversation, hit, how) ==
  [q |-> "find_messages", from |-> conversation, hit |-> hit, hints |-> how.hints,
   breadth |-> how.breadth]

------------------------------------------------------------------------------
(* What the processes may be given to do.  The browser can edit and delete   *)
(* every node; here it leaves the filesystem memories to their own store.    *)

\* The registers a query fills by itself; the others hold ids of created records.
OwnRegisters == {Reg("found"), Reg("position"), Reg("records")}
NodeRegister(name) == name[1] = "reg" /\ name \notin OwnRegisters

Sparing(query) ==
  /\ query.q \in {"update", "unlink", "remove", "delete"} => query.id[1] \notin {"fs", "root"}
  /\ query.q = "relate" /\ query.rel = "contains" => NodeRegister(query.to)
  /\ query.q = "relate_next" => query.rel # "contains"
  /\ query.q = "create" => NodeRegister(query.into)

OperationLegal(op) ==
  /\ op.script \in Seq(Range(op.script)) /\ \A i \in DOMAIN op.script : Sparing(op.script[i])
  /\ op.name[1] = "publish" => op.script = Publish(Head(op.script).memory)

\* A record has the identity of its content, or none if it is of before the identities.
RecordFields == {"kind", "tags", "content", "ref", "identity", "created", "updated", "read"}
Identified(record) ==
  DOMAIN record = RecordFields /\ record.identity \in {NoIdentity, PersistentIdentity(record.content)}

ASSUME PlanAssumption ==
  \A plan \in Plans :
    /\ \A p \in Procs : /\ plan.ops[p] \in Seq(Range(plan.ops[p]))
                        /\ \A i \in DOMAIN plan.ops[p] : OperationLegal(plan.ops[p][i])
    /\ IsFiniteSet(plan.edge)
    /\ \A e \in plan.edge : e.rel = "contains" /\ e.from # Root("filesystem_memories") =>
          e.to[1] \notin {"fs", "root"}
    /\ \A i \in DOMAIN plan.node : i[1] = "fs" =>
          /\ Identified(plan.node[i])
          /\ \E e \in plan.edge : e.rel = "contains" /\ e.from = Root("filesystem_memories") /\ e.to = i

------------------------------------------------------------------------------
(* One query of a process.                                                   *)

Idle(ops) == [ops |-> ops, busy |-> FALSE, script |-> <<>>, reg |-> <<>>, seen |-> {}]

GraphInit ==
  \E plan \in Plans :
    /\ roots = plan.roots /\ node = plan.node /\ edge = plan.edge
    /\ proc = [p \in Procs |-> Idle(plan.ops[p])]
    /\ over = {} /\ lost = {}

At(p, q) == proc[p].busy /\ proc[p].script # <<>> /\ Head(proc[p].script).q = q

Query(p) == Head(proc[p].script)

Val(p, v) == IF v \in DOMAIN proc[p].reg THEN proc[p].reg[v] ELSE v

Found(p) == IF Reg("found") \in DOMAIN proc[p].reg THEN proc[p].reg[Reg("found")] ELSE {}

Assigned(f, key, value) == [k \in DOMAIN f \cup {key} |-> IF k = key THEN value ELSE f[k]]

\* The query is done, and these come before what the operation has left.
Then(p, more) == proc' = [proc EXCEPT ![p].script = more \o Tail(@)]

Keep(p, name, value, more) ==
  proc' = [proc EXCEPT ![p].script = more \o Tail(@),
                       ![p].reg = Assigned(@, name, value)]

\* An exception: the operation is over and leaves what it wrote.
Raise(p) ==
  /\ proc' = [proc EXCEPT ![p] = Idle(Tail(proc[p].ops))]
  /\ lost' = lost \cup {Head(proc[p].ops).name}

SameGraph == UNCHANGED <<roots, node, edge>>
SameLog == UNCHANGED <<over, lost>>

BeginOperation(p) ==
  /\ ~proc[p].busy /\ proc[p].ops # <<>>
  /\ proc' = [proc EXCEPT ![p].busy = TRUE, ![p].script = Head(proc[p].ops).script,
                          ![p].reg = <<>>, ![p].seen = {o.name : o \in over}]
  /\ SameGraph /\ SameLog

EndOperation(p) ==
  /\ proc[p].busy /\ proc[p].script = <<>>
  /\ over' = over \cup {[name |-> Head(proc[p].ops).name, script |-> Head(proc[p].ops).script,
                         seen |-> proc[p].seen, found |-> Found(p)]}
  /\ proc' = [proc EXCEPT ![p] = Idle(Tail(proc[p].ops))]
  /\ SameGraph /\ UNCHANGED lost

CutShort(p) ==
  /\ proc[p].busy /\ Head(proc[p].ops).cut /\ Cardinality(lost) < MaxFaults
  /\ Raise(p) /\ SameGraph /\ UNCHANGED over

UpsertRoot(p) ==
  /\ At(p, "upsert")
  /\ roots' = roots \cup {Query(p).root}
  /\ Then(p, <<>>) /\ UNCHANGED <<node, edge>> /\ SameLog

EnsureUnder(p) ==
  /\ At(p, "ensure")
  /\ IF Val(p, Query(p).id) \in Under(Query(p).root)
       THEN Then(p, <<>>) /\ UNCHANGED lost
       ELSE Raise(p)
  /\ SameGraph /\ UNCHANGED over

\* An id that no record has had; the last one made is never a deleted one here.
NewId == <<"node", 1 + Max({0} \cup {i[2] : i \in {j \in DOMAIN node : j[1] = "node"}})>>

CreateNode(p) ==
  /\ At(p, "create")
  /\ node' = Assigned(node, NewId, [Query(p).record EXCEPT !.ref = Val(p, Query(p).ref)])
  /\ Keep(p, Query(p).into, NewId, <<>>)
  /\ UNCHANGED <<roots, edge>> /\ SameLog

RelateNodes(p) ==
  /\ At(p, "relate")
  /\ edge' = edge \cup {Edge(Query(p).rel, Val(p, Query(p).from), Val(p, Query(p).to), Query(p).pos)}
  /\ Then(p, <<>>) /\ UNCHANGED <<roots, node>> /\ SameLog

\* ORDER BY position DESC LIMIT 1: one more than the greatest.
LastPosition(rel, from) ==
  LET es == {e \in edge : e.rel = rel /\ e.from = from}
  IN IF es = {} THEN 0 ELSE 1 + (CHOOSE e \in es : \A f \in es : f.pos <= e.pos).pos

ReadPosition(p) ==
  /\ At(p, "position")
  /\ Keep(p, Reg("position"), LastPosition(Query(p).rel, Val(p, Query(p).from)), <<>>)
  /\ SameGraph /\ SameLog

Touched(id) == IF id \in DOMAIN node THEN [node EXCEPT ![id].updated = 1] ELSE node

RelateAtPosition(p) ==
  LET from == Val(p, Query(p).from) IN
  /\ At(p, "relate_next")
  /\ edge' = edge \cup {Edge(Query(p).rel, from, Val(p, Query(p).to), proc[p].reg[Reg("position")])}
  /\ node' = IF Query(p).touch THEN Touched(from) ELSE node
  /\ Then(p, <<>>) /\ UNCHANGED roots /\ SameLog

TouchNode(p) ==
  /\ At(p, "touch")
  /\ node' = Touched(Val(p, Query(p).id))
  /\ Then(p, <<>>) /\ UNCHANGED <<roots, edge>> /\ SameLog

\* read_at moves; what the operation goes on with is what it selected.
MarkRead(p) ==
  /\ At(p, "mark")
  /\ node' = IF Query(p).id \in DOMAIN node THEN [node EXCEPT ![Query(p).id].read = 1] ELSE node
  /\ Then(p, <<>>) /\ UNCHANGED <<roots, edge>> /\ SameLog

UpdateNode(p) ==
  LET id == Query(p).id IN
  /\ At(p, "update")
  /\ IF id \in DOMAIN node
       THEN /\ node' = [node EXCEPT ![id].tags = Query(p).tags, ![id].content = Query(p).content,
                                    ![id].ref = Val(p, Query(p).ref), ![id].updated = 1]
            /\ Then(p, <<>>) /\ UNCHANGED lost
       ELSE Raise(p) /\ UNCHANGED node
  /\ UNCHANGED <<roots, edge, over>>

\* The task leaves its old providers and joins the new one in one query.
Reprovide(p) ==
  /\ At(p, "reprovide")
  /\ edge' = {e \in edge : ~(e.rel = "provides_task" /\ e.to = Query(p).id)}
               \cup {Edge("provides_task", Val(p, Query(p).provider), Query(p).id, 0)}
  /\ Then(p, <<>>) /\ UNCHANGED <<roots, node>> /\ SameLog

\* A node that is not there answers the request with an error.
SelectNode(p) ==
  /\ At(p, "select")
  /\ IF Query(p).id \in DOMAIN node THEN Then(p, <<>>) /\ UNCHANGED lost ELSE Raise(p)
  /\ SameGraph /\ UNCHANGED over

UnlinkNode(p) ==
  /\ At(p, "unlink")
  /\ edge' = {e \in edge : e.rel # Query(p).rel \/ Query(p).id \notin {e.from, e.to}}
  /\ Then(p, <<>>) /\ UNCHANGED <<roots, node>> /\ SameLog

RemoveNode(p) ==
  /\ At(p, "remove")
  /\ IF Query(p).id \in DOMAIN node THEN Then(p, <<>>) /\ UNCHANGED lost ELSE Raise(p)
  /\ node' = Restrict(node, DOMAIN node \ {Query(p).id})
  /\ UNCHANGED <<roots, edge, over>>

------------------------------------------------------------------------------
(* Reading.                                                                  *)

Select(p) ==
  LET ids == {i \in Under(Query(p).root) : BuildMemoryNodeWhere(node[i], Query(p).where)} IN
  /\ At(p, "search")
  /\ Keep(p, Reg("found"), ids, MarkRecords(ids))
  /\ SameGraph /\ SameLog

SelectOne(p) ==
  LET ids == {Val(p, Query(p).id)} \cap Under(Query(p).root) IN
  /\ At(p, "get")
  /\ Keep(p, Reg("found"), ids, MarkRecords(ids))
  /\ SameGraph /\ SameLog

SelectOut(p) ==
  LET ids == Out(Query(p).rel, Val(p, Query(p).from)) \cap DOMAIN node IN
  /\ At(p, "out")
  /\ Keep(p, Reg("found"), ids, MarkRecords(ids))
  /\ SameGraph /\ SameLog

\* The relations, then each message; one that is gone by then is left out.
SelectMessages(p) ==
  LET ids == Ordered("has_message", Val(p, Query(p).from)) IN
  /\ At(p, "messages")
  /\ Keep(p, Reg("found"), {}, [i \in DOMAIN ids |-> Message(ids[i])])
  /\ SameGraph /\ SameLog

SelectMessage(p) ==
  LET ids == {Query(p).id} \cap DOMAIN node IN
  /\ At(p, "message")
  /\ Keep(p, Reg("found"), Found(p) \cup ids, MarkRecords(ids))
  /\ SameGraph /\ SameLog

SelectHistory(p) ==
  LET ids == Ordered("history", Val(p, Query(p).from)) IN
  /\ At(p, "history")
  /\ Keep(p, Reg("records"), <<>>, [i \in DOMAIN ids |-> TaskHistoryNode(ids[i])])
  /\ SameGraph /\ SameLog

\* A node that is gone by now is left out.
SelectHistoryNode(p) ==
  LET id == Query(p).id IN
  /\ At(p, "history_node")
  /\ IF id \notin DOMAIN node THEN Then(p, <<>>)
     ELSE Keep(p, Reg("records"), Append(proc[p].reg[Reg("records")], [node |-> id, actions |-> <<>>]),
               <<ActionsForNode(id)>>)
  /\ SameGraph /\ SameLog

SelectActions(p) ==
  LET ids == Ordered("actions", Query(p).from) IN
  /\ At(p, "actions")
  /\ Then(p, [i \in DOMAIN ids |-> ActionForSessionAction(ids[i])])
  /\ SameGraph /\ SameLog

\* A session action without its action is left out, and so is an action that is gone.
SelectAction(p) ==
  LET ids == Out("action", Query(p).from) IN
  /\ At(p, "action")
  /\ Then(p, IF ids = {} THEN <<>> ELSE <<ActionRecord(CHOOSE i \in ids : TRUE)>>)
  /\ SameGraph /\ SameLog

SelectActionRecord(p) ==
  LET got == proc[p].reg[Reg("records")] IN
  /\ At(p, "action_record")
  /\ Keep(p, Reg("records"),
          IF Query(p).id \notin DOMAIN node THEN got
          ELSE [got EXCEPT ![Len(got)].actions = Append(@, Query(p).id)], <<>>)
  /\ SameGraph /\ SameLog

CheckRoot(p) ==
  /\ At(p, "root")
  /\ IF Query(p).name \in roots THEN Then(p, <<>>) /\ UNCHANGED lost ELSE Raise(p)
  /\ SameGraph /\ UNCHANGED over

CheckSeeded(p) ==
  /\ At(p, "seeded")
  /\ IF Under(Query(p).name) # {} THEN Then(p, <<>>) /\ UNCHANGED lost ELSE Raise(p)
  /\ SameGraph /\ UNCHANGED over

CheckExists(p) ==
  /\ At(p, "exists")
  /\ IF Query(p).id \in Under(Query(p).root) THEN Then(p, <<>>) /\ UNCHANGED lost ELSE Raise(p)
  /\ SameGraph /\ UNCHANGED over

CheckAttached(p) ==
  /\ At(p, "attached")
  /\ IF Query(p).id \in Out("has_conversation", Query(p).from) THEN Then(p, <<>>) /\ UNCHANGED lost
     ELSE Raise(p)
  /\ SameGraph /\ UNCHANGED over

\* All tasks, read; without a task the providers are not asked for.
SelectCatalog(p) ==
  LET ids == Under("tasks") IN
  /\ At(p, "catalog")
  /\ Keep(p, Reg("found"), ids,
          MarkRecords(ids) \o IF ids = {} THEN <<>> ELSE <<[q |-> "models", tasks |-> {node[i].ref : i \in ids}]>>)
  /\ SameGraph /\ SameLog

\* The providers, read; a task whose provider is not among them raises at the end.
SelectModels(p) ==
  LET ids == Under("providers") IN
  /\ At(p, "models")
  /\ Then(p, MarkRecords(ids) \o <<[q |-> "match", tasks |-> Query(p).tasks, providers |-> ids]>>)
  /\ SameGraph /\ SameLog

TaskModelId(p) ==
  /\ At(p, "match")
  /\ IF Query(p).tasks \subseteq Query(p).providers THEN Then(p, <<>>) /\ UNCHANGED lost ELSE Raise(p)
  /\ SameGraph /\ UNCHANGED over

------------------------------------------------------------------------------
(* Filesystem memories.                                                      *)

PublishFilesystemMemory(p) ==
  LET m == Query(p).memory  id == FilesystemId(m) IN
  /\ At(p, "publish")
  /\ IF IdentityConflicts(id, m) THEN UNCHANGED <<node, edge>>
     ELSE /\ node' = Assigned(node, id, PublishedRecord(id, m))
          /\ edge' = edge \cup {Edge("contains", Root("filesystem_memories"), id, 0)}
  /\ Then(p, <<>>) /\ UNCHANGED roots /\ SameLog

ReadBack(p) ==
  LET m == Query(p).memory  id == FilesystemId(m) IN
  /\ At(p, "read_back")
  /\ IF id \in DOMAIN node /\ PersistentIdentity(node[id].content) = PersistentIdentity(m)
       THEN Keep(p, Reg("found"), {id}, <<>>) /\ UNCHANGED lost
       ELSE Raise(p)
  /\ SameGraph /\ UNCHANGED over

------------------------------------------------------------------------------
(* Seeding.                                                                  *)
\* Mutant: only the tags are compared.
TagsDiffer(id, p) == node[id].tags # p.tags

Differs(id, p) == node[id].content # p.content \/ node[id].tags # p.tags

\* The providers whose name contains the name, read; the one with this name and key
\* is brought up to date, or one is created.
SeedProvider(p) ==
  LET new == Query(p).provider
      ids == {i \in Under("providers") :
                /\ new.content.model_id = node[i].content.model_id
                /\ new.content.surface = node[i].content.surface
                /\ new.content.name \subseteq node[i].content.name
                /\ new.content.effort # {} => new.content.effort = node[i].content.effort}
      same == {i \in ids : /\ node[i].content.name = new.content.name
                           /\ node[i].content.effort = new.content.effort}
      one == CHOOSE i \in same : TRUE
  IN
  /\ At(p, "seed_provider")
  /\ Then(p, MarkRecords(ids)
               \o IF same = {} THEN CreateProvider(new, Reg("provider"))
                  ELSE IF Differs(one, new) THEN UpdateProvider(one, new) ELSE <<>>)
  /\ SameGraph /\ SameLog

PruneRemovedProviders(p) ==
  LET ids == {i \in Under("providers") : /\ "opencode-go" \in node[i].tags
                                         /\ ProviderKey(node[i].content) \notin AllowedProviderKeys}
  IN
  /\ At(p, "prune")
  /\ Then(p, [i \in 1..Cardinality(ids) |-> [q |-> "delete", id |-> SetToSeq(ids)[i]]])
  /\ SameGraph /\ SameLog

DeleteProvider(p) ==
  LET id == Query(p).id IN
  /\ At(p, "delete")
  /\ edge' = {e \in edge : ~(e.rel = "contains" /\ e.to = id) /\ ~(e.rel = "provides_task" /\ e.from = id)}
  /\ node' = Restrict(node, DOMAIN node \ {id})
  /\ Then(p, <<>>) /\ UNCHANGED roots /\ SameLog

SeedMagic(p) ==
  LET same == {i \in Under("providers") : ProviderKey(node[i].content) = ProviderKey(MagicProvider.content)}
      one == CHOOSE i \in same : TRUE
  IN
  /\ At(p, "seed_magic")
  /\ Then(p, IF same = {} THEN CreateProvider(MagicProvider, Reg("provider"))
             ELSE IF Differs(one, MagicProvider) THEN UpdateProvider(one, MagicProvider) ELSE <<>>)
  /\ SameGraph /\ SameLog

ProviderOf(d) == <<"provider", d.model, d.effort>>

Seeded(d) ==
  {i \in Under("providers") :
     /\ d.model = "magic" => MagicProvider.tags \subseteq node[i].tags
     /\ d.model # "magic" => DirectTags \cup {d.model} \subseteq node[i].tags
     /\ node[i].content.model_id = {d.model} /\ node[i].content.effort = d.effort}

LookUpProvider(p) ==
  LET d == Query(p).task IN
  /\ At(p, "provider_for")
  /\ IF ProviderOf(d) \in DOMAIN proc[p].reg THEN Then(p, <<>>) /\ UNCHANGED lost
     ELSE IF Seeded(d) = {} THEN Raise(p)
     ELSE Keep(p, ProviderOf(d), CHOOSE i \in Seeded(d) : TRUE, <<>>) /\ UNCHANGED lost
  /\ SameGraph /\ UNCHANGED over

\* Created, or updated where its content, provider or tags are not as defined.
SeedTask(p) ==
  LET d == Query(p).task
      provider == Val(p, ProviderOf(d))
      same == {i \in Under("tasks") : node[i].content.name = d.content.name}
      one == CHOOSE i \in same : TRUE
  IN
  /\ At(p, "find_task")
  /\ Then(p, IF same = {} THEN CreateTask(d, provider)
             ELSE IF Differs(one, d) \/ node[one].ref # provider THEN UpdateTask(one, d, provider)
             ELSE <<>>)
  /\ SameGraph /\ SameLog

------------------------------------------------------------------------------
(* Retrieval.                                                                *)

Hits(ids, fields, how) == {i \in ids : CandidateMatches(node[i], fields, how.hints, how.breadth)}

\* What is returned is marked read.
Return(p, ids) == Keep(p, Reg("found"), Found(p) \cup ids, MarkRecords(ids))

FindCatalog(p) ==
  /\ At(p, "find_catalog")
  /\ Return(p, Hits(Under("tasks"), {"name", "text"}, Query(p)))
  /\ SameGraph /\ SameLog

FindSessions(p) ==
  LET ids == SetToSeq(Under("sessions"))
      hits == Hits(Under("sessions"), {"name"}, Query(p))
  IN
  /\ At(p, "find_sessions")
  /\ Then(p, [i \in DOMAIN ids |-> SessionContext(ids[i], ids[i] \in hits, Query(p))])
  /\ SameGraph /\ SameLog

FindConversations(p) ==
  LET ids == Out("has_conversation", Query(p).from)
      hits == Hits(ids, {"name"}, Query(p))
      order == SetToSeq(ids)
  IN
  /\ At(p, "find_conversations")
  /\ Then(p, [i \in DOMAIN order |-> ConversationContext(order[i], order[i] \in hits, Query(p))]
               \o SessionRest(Query(p)))
  /\ SameGraph /\ SameLog
\* Mutant: the conversation is returned only when it matches itself.
FindMessagesAlone(p) ==
  LET conversation == Query(p).from
      ids == Range(Ordered("has_message", conversation))
      all == IF Hits(ids, {"role", "content"}, Query(p)) = {} THEN {} ELSE ids
  IN
  /\ At(p, "find_messages")
  /\ Return(p, all \cup IF Query(p).hit THEN {conversation} ELSE {})
  /\ SameGraph /\ SameLog

\* One message that matches returns them all, and the conversation.
FindMessages(p) ==
  LET conversation == Query(p).from
      ids == Range(Ordered("has_message", conversation))
      all == IF Hits(ids, {"role", "content"}, Query(p)) = {} THEN {} ELSE ids
  IN
  /\ At(p, "find_messages")
  /\ Return(p, all \cup IF Query(p).hit \/ all # {} THEN {conversation} ELSE {})
  /\ SameGraph /\ SameLog

FindMemories(p) ==
  /\ At(p, "find_memories")
  /\ Return(p, Hits(Out("has_session_memory", Query(p).from), {"title"}, Query(p)))
  /\ SameGraph /\ SameLog

OwnMemories(p) ==
  /\ At(p, "own_memories")
  /\ Return(p, Out("has_session_memory", Query(p).from))
  /\ SameGraph /\ SameLog

\* A session is returned when it matches or something of it does.
SettleSession(p) ==
  LET id == Query(p).id
      below == Out("has_conversation", id) \cup Out("has_session_memory", id)
  IN
  /\ At(p, "settle_session")
  /\ Return(p, IF Query(p).hit \/ below \cap Found(p) # {} THEN {id} ELSE {})
  /\ SameGraph /\ SameLog

Step(p) ==
  \/ BeginOperation(p) \/ EndOperation(p) \/ CutShort(p)
  \/ UpsertRoot(p) \/ EnsureUnder(p) \/ CreateNode(p) \/ RelateNodes(p) \/ ReadPosition(p)
  \/ RelateAtPosition(p) \/ TouchNode(p) \/ MarkRead(p) \/ UpdateNode(p) \/ Reprovide(p)
  \/ SelectNode(p) \/ UnlinkNode(p) \/ RemoveNode(p)
  \/ Select(p) \/ SelectOne(p) \/ SelectOut(p) \/ SelectMessages(p) \/ SelectMessage(p)
  \/ SelectHistory(p) \/ SelectHistoryNode(p) \/ SelectActions(p) \/ SelectAction(p)
  \/ SelectActionRecord(p)
  \/ CheckRoot(p) \/ CheckSeeded(p) \/ CheckExists(p) \/ CheckAttached(p)
  \/ SelectCatalog(p) \/ SelectModels(p) \/ TaskModelId(p)
  \/ PublishFilesystemMemory(p) \/ ReadBack(p)
  \/ SeedProvider(p) \/ PruneRemovedProviders(p) \/ DeleteProvider(p) \/ SeedMagic(p)
  \/ LookUpProvider(p) \/ SeedTask(p)
  \/ FindCatalog(p) \/ FindSessions(p) \/ FindConversations(p) \/ FindMessages(p)
  \/ FindMemories(p) \/ OwnMemories(p) \/ SettleSession(p)

GraphNext == \E p \in Procs : Step(p)

GraphSpec == GraphInit /\ [][GraphNext]_graphVars

------------------------------------------------------------------------------
(* Properties.                                                               *)

Relations == Range(MemoryRelations)

\* Roots, nodes and relations are of the schema; a relation ends at a node that
\* exists, unless that is a provider the seeding has removed.
GraphTypeOK ==
  /\ roots \subseteq Range(ReadyRoots) \cup {"filesystem_memories"}
  /\ \A e \in edge : e.rel \in Relations /\ e.pos \in Nat /\ e.to \in DOMAIN node
  /\ \A e \in edge : e.rel = "contains" <=> e.from[1] = "root"
  /\ \A i \in DOMAIN node : node[i].read \in {Never, 0, 1}

Position(i) == (CHOOSE e \in edge : e.rel = "has_message" /\ e.to = i).pos

MessageOf(name) == {i \in DOMAIN node : node[i].kind = "message" /\ node[i].content.content = {name[2]}}

Linked(name) == {i \in MessageOf(name) : \E e \in edge : e.rel = "has_message" /\ e.to = i}

\* Writers of one conversation may get the same position, but a message whose
\* add_message returned before that of another began comes before it.
CausalOrder ==
  \A a, b \in {o \in over : o.name[1] = "add"} : a.name \in b.seen =>
    \A i \in Linked(a.name), j \in Linked(b.name) : Position(i) < Position(j)

\* A node that a task history leads to has all its actions in a row, and each of
\* them its one action, wherever appending it or an action was cut short.
HistoryWhole ==
  \A n \in {e.to : e \in {f \in edge : f.rel = "history"}} :
    LET es == {e \in edge : e.rel = "actions" /\ e.from = n} IN
    /\ Cardinality(es) = NodeActions
    /\ {e.pos : e \in es} = 0..NodeActions - 1
    /\ \A e \in es : Cardinality(Out("action", e.to)) = 1

\* A message whose add_message returned before a read of its conversation began is
\* in what the read returns.
ReadsWhole ==
  \A r \in {o \in over : o.name[1] = "read"} :
    \A n \in r.seen : n[1] = "add" => MessageOf(n) \subseteq r.found

\* After a deletion returned the node is gone, and nothing is linked to it but what
\* an operation links that began before: what the node had is unlinked, and what
\* begins later does not find it.  A deletion that is cut short may leave the node
\* without its relations; nothing is said of it.
DeletedApart ==
  \A d \in {o \in over : o.name[1] = "delete"} :
    LET id == <<"node", d.name[2]>> IN
    /\ id \notin DOMAIN node
    /\ \A e \in edge : id \in {e.from, e.to} =>
         /\ \A n \in d.seen : n[1] = "add" => e.to \notin MessageOf(n)
         /\ \A a \in over : a.name[1] = "add" /\ d.name \in a.seen => e.to \notin MessageOf(a.name)
         /\ \A p \in Procs : proc[p].busy /\ Head(proc[p].ops).name[1] = "add" /\ d.name \in proc[p].seen =>
              e.to \notin MessageOf(Head(proc[p].ops).name)

\* Conversations and task histories keep their order and their pieces, whatever
\* other processes write and wherever an operation is cut short.
HistorySound == GraphTypeOK /\ CausalOrder /\ ReadsWhole /\ HistoryWhole /\ DeletedApart

\* A publication that returned stays: its record is under the root and has the
\* identity that was published, whatever else claims the same record id.
PublishedStays ==
  \A o \in {r \in over : r.name[1] = "publish"} :
    LET m == Head(o.script).memory IN
    /\ o.found = {FilesystemId(m)} /\ o.found \subseteq Under("filesystem_memories")
    /\ PersistentIdentity(node[FilesystemId(m)].content) = PersistentIdentity(m)

Seeding == \E p \in Procs : proc[p].busy /\ Head(proc[p].ops).name[1] = "seed"

ProvidersOf(task) == {e.from : e \in {f \in edge : f.rel = "provides_task" /\ f.to = task}}

\* When a seed has returned, every core task is there once, with the content and the
\* tags that are defined and a provider that was seeded for it, and every provider of the
\* inventory is there once under its name, as described; no other model's is, whatever
\* an earlier seed that was cut short left behind.  The relation provides_task is
\* written after the task, and a later seed that finds the task as defined does not look
\* at it: it is that of the task's provider if no seed was cut short, else it may be
\* missing or an earlier provider's for ever, but it is never two.
SeedComplete ==
  \A o \in {r \in over : r.name[1] = "seed"} :
    ~Seeding /\ (\A n \in lost : n[1] = "seed" => n[2] < o.name[2]) =>
      /\ \A d \in Range(CoreTasks) :
           \E i \in Under("tasks") :
             /\ {j \in Under("tasks") : node[j].content.name = d.content.name} = {i}
             /\ node[i].content = d.content /\ node[i].tags = d.tags /\ node[i].ref \in Seeded(d)
             /\ Cardinality(ProvidersOf(i)) <= 1
             /\ (\A n \in lost : n[1] # "seed") => ProvidersOf(i) = {node[i].ref}
      /\ \A new \in Range(ModelInventory) \cup {MagicProvider} :
           \E i \in Under("providers") :
             /\ {j \in Under("providers") : /\ node[j].content.name = new.content.name
                                            /\ ProviderKey(node[j].content) = ProviderKey(new.content)} = {i}
             /\ node[i].content = new.content /\ node[i].tags = new.tags
      /\ \A i \in Under("providers") : "opencode-go" \in node[i].tags =>
           ProviderKey(node[i].content) \in AllowedProviderKeys

\* The session whose own memories a retrieval returns apart.
OwnSession(o) == {x.from : x \in {y \in Range(o.script) : y.q = "own_memories"}}

\* The retrieval returns connected pieces, all marked read: a message with its
\* conversation, a conversation with its session, a memory with its session unless that
\* is the current one, whose memories are returned apart; and it marks nothing that it
\* does not return.
RetrievalClosed ==
  /\ \A o \in {r \in over : r.name[1] = "search"} : \A i \in o.found : node[i].read = 1
  /\ \A o \in {r \in over : r.name[1] = "retrieve"} :
    /\ \A i \in o.found : node[i].read = 1
    /\ \A e \in edge : e.to \in o.found /\ e.rel \in {"has_message", "has_conversation"} =>
         e.from \in o.found
    /\ \A e \in edge : e.to \in o.found /\ e.rel = "has_session_memory" =>
         e.from \in o.found \cup OwnSession(o)
    /\ lost = {} => \A i \in DOMAIN node : node[i].read = 1 => i \in o.found
=============================================================================
