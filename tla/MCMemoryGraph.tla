---- MODULE MCMemoryGraph ----
EXTENDS MemoryGraph
CONSTANTS p, q

Id(n) == <<"node", n>>
Op(kind, n, script) == [name |-> <<kind, n>>, script |-> script, cut |-> TRUE]
Sure(kind, n, script) == [Op(kind, n, script) EXCEPT !.cut = FALSE]
Old(r) == [r EXCEPT !.created = 0, !.updated = 0]
AllRoots == Range(ReadyRoots) \cup {"filesystem_memories"}
Holds(name, n) == Edge("contains", Root(name), Id(n), 0)
Plan(r, n, e, forP, forQ) ==
  [roots |-> r, node |-> n, edge |-> e, ops |-> (p :> forP) @@ (q :> forQ)]

\* A session 1 with a conversation 2; another session 3 with a memory 4; a catalog.
Talk == << Old(Record("session", {"voice"}, [name |-> {"x"}], NoId, NoIdentity)),
           Old(Record("conversation", {"voice"}, [name |-> {"x"}], NoId, NoIdentity)),
           Old(Record("session", {"voice"}, [name |-> {"y"}], NoId, NoIdentity)),
           Old(Record("session_memory", {"t"}, [title |-> {"y"}], NoId, NoIdentity)),
           Old(Record("provider", {}, MagicProvider.content, NoId, NoIdentity)),
           Old(Record("task", {}, [name |-> {"k1"}, text |-> {}], Id(5), NoIdentity)) >>
TalkNode == [i \in {Id(n) : n \in 1..6} |-> Talk[i[2]]]
TalkEdge == {Holds("sessions", 1), Holds("conversations", 2), Holds("sessions", 3),
             Holds("session_memories", 4), Holds("providers", 5), Holds("tasks", 6), Edge("has_conversation", Id(1), Id(2), 0),
             Edge("has_session_memory", Id(3), Id(4), 0)}

Say(text) == Op("add", text, AddMessage(Id(2), "human", {text}))

Conversation ==
  Plan(AllRoots, TalkNode, TalkEdge, <<Say("a"), Say("b"), Op("read", 1, MessagesFor(Id(2)))>>,
       <<Say("c"), Op("validate", 1, ValidateVoiceMemoryContext(Id(1), Id(2))), Say("d")>>)

Everything == [tags |-> NoTags, strings |-> NoStrings, fields |-> {}, contains |-> <<>>, equals |-> <<>>]
Hints == [tags |-> TagSearch({"t"}, {}, {"human"}), strings |-> StringSearch({"b", "k1"}, {})]
Since(n) == [created |-> n, updated |-> n, read |-> 0]
Request(n) == [hints |-> Hints, depths |-> [past_conversation_context |-> Since(n), task_catalog |-> Since(0)]]

Searching ==
  {Plan(AllRoots, TalkNode, TalkEdge,
        <<Op("retrieve", 1, Retrieve(Request(n), Id(s)))>>,
        <<Op("add", "b", AddMessage(Id(2), "agent", {"b"})), Say("a"),
          Op("memory", 1, CreateSessionMemory(Id(1), {"t"}, {"z"}))>>) : n \in {0, 1}, s \in {1, 3}}

History ==
  Plan(AllRoots, (Id(1) :> Record("history", {}, <<>>, NoId, NoIdentity)), {},
       <<Op("act", 1, CreateHistory(Reg("h")) \o RecordAction("a", Reg("a")) \o RecordAction("b", Reg("b"))
                        \o AppendNode(Reg("h"), <<Reg("a"), Reg("b")>>)
                        \o RecordAction("c", Reg("c")) \o AppendNode(Id(1), <<Reg("c"), Reg("b")>>))>>,
       <<Op("records", 1, Records(Id(1))), Op("records", 2, Records(Id(1)))>>)

Here(spelling) == <<"here", spelling>>
Legacy == Old(Record("filesystem", {}, DirectoryMemory(Here("raw"), "old"), NoId, NoIdentity))
Files ==
  {Plan(AllRoots, FilesystemId(DirectoryMemory(Here("raw"), "")) :> Legacy,
        {Edge("contains", Root("filesystem_memories"), FilesystemId(DirectoryMemory(Here("raw"), "")), 0)},
        <<Op("publish", 1, Publish(DirectoryMemory(Here(spelling), "new"))),
          Op("publish", 2, Publish(CheckpointMemory(Here("raw"), "m", {}))),
          Op("get", 1, GetFilesystemMemory(FilesystemId(DirectoryMemory(Here("raw"), ""))))>>,
        <<Op("publish", 3, Publish(CheckpointMemory(Here("raw"), "m", {"base"}))),
          Op("publish", 4, Publish(DirectoryMemory(Here("raw"), "new")))>>) : spelling \in {"raw", "other"}}

MCInventory == <<"k1">>
MCEfforts == [k \in {"k1"} |-> <<"high">>]
Definition(name, model, effort) ==
  [tags |-> {name}, content |-> [name |-> {name}, text |-> {model}], model |-> model, effort |-> effort]
MCCoreTasks == <<Definition("answer", "k1", {"high"}), Definition("rest", "magic", {})>>
\* A database of an older inventory: a removed provider, one described otherwise.
OldProvider(model, effort) ==
  LET r == DirectProvider(model, effort)
  IN Old(Record("provider", r.tags, [r.content EXCEPT !.description = {"old"}], NoId, NoIdentity))
Renamed == [OldProvider("k1", {}) EXCEPT !.content.name = @ \cup {"old"}]
\* A core task of another provider, and a task of the user whose provider goes.
OldTask(name, provider) ==
  Old(Record("task", {name}, [name |-> {name}, text |-> {"k0"}], Id(provider), NoIdentity))
SeedNodes == <<OldProvider("k0", {}), OldProvider("k1", {}), OldTask("answer", 2), OldTask("own", 1), Renamed>>
SeedNode == [i \in {Id(n) : n \in 1..5} |-> SeedNodes[i[2]]]
SeedEdge == {Holds("providers", 1), Holds("providers", 2), Holds("providers", 5),
             Holds("tasks", 3), Holds("tasks", 4),
             Edge("provides_task", Id(2), Id(3), 0), Edge("provides_task", Id(1), Id(4), 0)}
Seed ==
  Plan(AllRoots, SeedNode, SeedEdge,
       <<Op("seed", 1, EnsureCoreTasks), Op("seed", 2, EnsureCoreTasks), Op("tasks", 1, TasksFor(Id(2)))>>,
       <<Op("catalog", 1, AvailableTasks)>>)

\* Providers have ids 1 to 4, tasks 5 and 6, then session, conversation, preference.
Where(tags, contains, equals) ==
  [Everything EXCEPT !.tags = TagSearch({}, tags, {}), !.contains = contains, !.equals = equals]
Searches ==
  << Sure("search", 1, SearchProviders(Where({"opencode-go"}, <<>>, [model_id |-> {{"k1"}}, effort |-> {{}}]))),
     Sure("search", 2, SearchTasks(Where({}, [name |-> {"rest", ""}], <<>>))),
     Sure("search", 3, SearchSessions(Where({"voice"}, <<>>, <<>>))),
     Sure("search", 4, SearchConversations(Where({"text"}, <<>>, <<>>))),
     Sure("search", 5, SearchSessionMemories(Everything)),
     Sure("search", 6, SearchContext("user_preferences", [Everything EXCEPT !.strings = StringSearch({"z"}, {}), !.fields = {"title"}])),
     Sure("search", 7, GetProvider(Id(4))), Sure("search", 8, GetTask(Id(6))), Sure("search", 9, GetSession(Id(7))),
     Sure("search", 10, ConversationsFor(Id(7))), Sure("search", 11, MemoriesFor(Id(7))) >>
Start ==
  Plan({}, <<>>, {},
       <<Op("roots", 1, EnsureRoots), Sure("seed", 1, EnsureCoreTasks),
         Op("voice", 1, EnsureVoiceMemoryContext),
         Sure("prefer", 1, CreateContextMemory("user_preferences", {"t"}, {"z"}))>> \o Searches,
       <<Op("ready", 1, RequireTaskCatalog)>>)

\* The browser edits and deletes the conversation while messages are added.
Browsing ==
  Plan(AllRoots, TalkNode, TalkEdge,
       <<Sure("edit", 1, EditNode(Id(2), {"text"}, [name |-> {"z"}])), Op("delete", 2, DeleteNode(Id(2))),
         Sure("delete", 2, DeleteNode(Id(2)))>>,
       <<Say("a"), Say("b"), Say("c")>>)

\* The browser deletes a message and a node of a history that are being read.
ReadNodes == << Talk[1], Talk[2], Old(Record("message", {"human"}, [role |-> {"human"}, content |-> {"m"}], NoId, NoIdentity)),
                Old(Record("history", {}, <<>>, NoId, NoIdentity)), Old(Record("history_node", {}, <<>>, NoId, NoIdentity)) >>
             \o [i \in 1..4 |-> Old(Record(IF i < 3 THEN "session_action" ELSE "action", {}, <<>>, NoId, NoIdentity))]
Reading ==
  Plan(AllRoots, [i \in {Id(n) : n \in 1..9} |-> ReadNodes[i[2]]],
       {Holds("sessions", 1), Holds("conversations", 2), Edge("has_conversation", Id(1), Id(2), 0),
        Edge("has_message", Id(2), Id(3), 0), Edge("history", Id(4), Id(5), 0),
        Edge("actions", Id(5), Id(6), 0), Edge("actions", Id(5), Id(7), 1),
        Edge("action", Id(6), Id(8), 0), Edge("action", Id(7), Id(9), 0)},
       <<Sure("delete", 3, DeleteNode(Id(3))), Sure("delete", 5, DeleteNode(Id(5)))>>,
       <<Sure("read", 1, MessagesFor(Id(2))), Sure("records", 1, Records(Id(4)))>>)

MCPlans == {Conversation, History, Seed, Start, Browsing, Reading} \cup Searching \cup Files
====
