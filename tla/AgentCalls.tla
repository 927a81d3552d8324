------------------------------ MODULE AgentCalls ------------------------------
(***************************************************************************)
(* The calls of a turn that reach a model or the database, and the debug   *)
(* dumps written beside them:                                              *)
(*   - the database each component opens when it first needs it, and who   *)
(*     closes it (action_history.py, memory_retrieval.py, task_choice.py,  *)
(*     task_execution.py, voice_turn_context.py, turn_side_effects.py);    *)
(*   - the provider and client of a call (provider_clients.py);            *)
(*   - the prompt layers of a run (prompt_layer_debug.py, the layers of    *)
(*     voice_prompt_debug.py, voice_turn_debug.py, task_review_debug.py,   *)
(*     voice_turn_flow.py) and the dump of a task (task_execution_debug.py)*)
(*                                                                         *)
(* The operators are functions of what the outside does: which calls raise *)
(* and which files cannot be written.                                      *)
(***************************************************************************)
EXTENDS Integers, Sequences, FiniteSets, SequencesExt

-------------------------------------------------------------------------------
(* Database handles.  A component holds a handle or 0; the handles that are  *)
(* open are a set; what a caller passes in is handle 1.                      *)

Components == {"summarizer", "retrieval", "choice", "execution", "flow"}

Component(given) == [handle |-> IF given THEN 1 ELSE 0, owns |-> ~given]

NewHandle(open) == CHOOSE n \in 1..Cardinality(open) + 1 : n \notin open

(* w is [open, comps]; a component opens a database at its first call.       *)
GetDatabase(w, c) ==
  IF w.comps[c].handle # 0 THEN w
  ELSE LET h == NewHandle(w.open)
       IN [open |-> w.open \cup {h}, comps |-> [w.comps EXCEPT ![c].handle = h]]

(* The planner of task executions closes what it holds, its own or not.      *)
Closes(w, c) == w.comps[c].handle # 0 /\ (c = "execution" \/ w.comps[c].owns)


CloseComponent(w, c) ==
  IF ~Closes(w, c) THEN w
  ELSE [open |-> w.open \ {w.comps[c].handle}, comps |-> [w.comps EXCEPT ![c].handle = 0]]

(* TurnSideEffects.close, in this order; a close that raises ends it.         *)
SideEffectsOrder == <<"retrieval", "execution", "flow">>

CloseSideEffects(w, raises) ==
  LET bad == {i \in 1..3 : SideEffectsOrder[i] = raises /\ Closes(w, SideEffectsOrder[i])}
      n   == IF bad = {} THEN 3 ELSE (CHOOSE i \in bad : TRUE) - 1
  IN FoldLeft(LAMBDA v, i : CloseComponent(v, SideEffectsOrder[i]), w, [i \in 1..n |-> i])

(* A turn: the calls of its components, then the close of its side effects;   *)
(* the summarizer lives for one call and is closed after it.                  *)
TurnUse(w, c) ==
  IF c = "summarizer" THEN CloseComponent(GetDatabase(w, c), c) ELSE GetDatabase(w, c)

TurnDatabases(given, uses, raises) ==
  LET w0 == [open |-> IF given = {} THEN {} ELSE {1}, comps |-> [c \in Components |-> Component(c \in given)]]
  IN CloseSideEffects(FoldLeft(TurnUse, w0, uses), raises)

-------------------------------------------------------------------------------
(* The client of a call.                                                     *)

NoClient == "none"

(* A surface with an effort names a client of its own.                       *)
ProviderClient(p) == IF p.effort = NoClient THEN <<p.surface>> ELSE <<p.surface, "Reasoning", p.effort>>

IsMagic(p) == p.surface = "magic"

(* _summary_client: the name given, else the provider of the selected task.   *)
SummaryClient(name, task) ==
  CASE name # NoClient                            -> <<name>>
    [] name = NoClient /\ ~task.exists            -> <<"raise">>
    [] name = NoClient /\ task.exists /\ ~task.provided -> <<"raise">>
    [] OTHER                                      -> ProviderClient(task.provider)

(* execute_task: the magic provider answers nothing without a model.          *)
ExecutionClient(task) ==
  CASE ~task.exists \/ ~task.provided             -> <<"raise">>
    [] task.exists /\ task.provided /\ IsMagic(task.provider) -> <<"magic">>
    [] OTHER                                      -> ProviderClient(task.provider)

-------------------------------------------------------------------------------
(* Prompt layers.  A run is [on, id, layers]: layers is its index in memory,  *)
(* a sequence of [key, text], where text stands for what a file says; dirs is *)
(* what the directories hold: the files of the runs and of "latest" as        *)
(* [run, key, text], and for each run the index on disk, a set of at most one *)
(* listing.                                                                   *)

NoRun == [on |-> FALSE, id |-> 0, layers |-> <<>>]

Before(a, b) == a.key[1] < b.key[1] \/ (a.key[1] = b.key[1] /\ a.key[2] <= b.key[2])

Place(layers, e) ==
  SelectSeq(layers, LAMBDA l : Before(l, e)) \o <<e>> \o SelectSeq(layers, LAMBDA l : ~Before(l, e))

(* _upsert_layer_index: one entry for an order and a name, kept sorted.       *)
UpsertLayerIndex(layers, e) == Place(SelectSeq(layers, LAMBDA l : l.key # e.key), e)

(* _write_index: a write that fails is ignored, and what was there stays.     *)
WriteIndex(dirs, run, ok) == IF ok THEN [dirs EXCEPT !.index[run.id] = {run.layers}] ELSE dirs

(* begin: off by the environment, none when its directory cannot be made;     *)
(* what "latest" held is deleted.                                             *)
BeginRun(dirs, id, enabled, makes, ok) ==
  IF ~enabled \/ ~makes THEN [run |-> NoRun, dirs |-> dirs]
  ELSE LET run == [on |-> TRUE, id |-> id, layers |-> <<>>]
       IN [run |-> run, dirs |-> WriteIndex([dirs EXCEPT !.latest = {}], run, ok)]

(* write_layer: nothing is listed when the file of the run cannot be written; *)
(* a file of "latest" and the index may fail by themselves.                   *)
WriteLayer(run, dirs, key, text, runOk, latestOk, indexOk) ==
  LET file  == [run |-> run.id, key |-> key, text |-> text]
      keep(s) == {f \in s : f.run # run.id \/ f.key # key}
      over(s) == {f \in s : f.key # key}
      next  == [run EXCEPT !.layers = UpsertLayerIndex(@, [key |-> key, text |-> text])]
      wrote == [dirs EXCEPT !.files = keep(@) \cup {file},
                            !.latest = IF latestOk THEN over(@) \cup {file} ELSE @]
  IN IF ~run.on \/ ~runOk THEN [run |-> run, dirs |-> dirs]
     ELSE [run |-> next, dirs |-> WriteIndex(wrote, next, indexOk)]

(* The layers of a turn, in the order they are written.  Names are numbered   *)
(* as their files are.                                                        *)
ChooseTaskLayer     == <<1, 2>>
UnderstandingLayers == <<<<0, 1>>, ChooseTaskLayer, <<2, 3>>, <<3, 4>>>>
ContinuationLayers  == <<<<4, 5>>, <<5, 6>>, <<6, 7>>>>
PerformTaskLayer    == <<7, 8>>
SummariseLayer      == <<8, 9>>
CheckLayer          == 10
ReplyLayer          == 11

(* dump_task_reviews: a review, and the failure of the same attempt after it.  *)
TaskReviewLayers(reviews, failures) ==
  FoldLeft(LAMBDA acc, r :
             LET n == 9 + Len(acc)
             IN acc \o <<<<n, CheckLayer>>>>
                    \o (IF r \in failures THEN <<<<n + 1, ReplyLayer>>>> ELSE <<>>),
           <<>>, reviews)

(* A pass of the flow: the choice to do nothing writes one layer; a task      *)
(* writes those of its planning and two for each attempt, always the same.    *)
PassLayers(attempts) ==
  IF attempts = 0 THEN <<ChooseTaskLayer>>
  ELSE UnderstandingLayers \o ContinuationLayers
         \o FlattenSeq([i \in 1..attempts |-> <<PerformTaskLayer, SummariseLayer>>])

(* A turn: its passes, then the reviews of all its attempts.                  *)
TurnLayers(passes, failures) ==
  LET n == FoldLeft(LAMBDA sum, a : sum + a, 0, passes)
  IN FlattenSeq([i \in DOMAIN passes |-> PassLayers(passes[i])])
       \o TaskReviewLayers([i \in 1..n |-> i], failures)

(* Two turns write their layers as they come.  A script is a sequence of      *)
(* [turn, key, text, runOk, latestOk, indexOk]; both turns began before it.    *)
NoDirs == [files |-> {}, latest |-> {}, index |-> [t \in 1..2 |-> {}]]

ScriptStep(s, e) ==
  LET r == WriteLayer(s.runs[e.turn], s.dirs, e.key, e.text, e.runOk, e.latestOk, e.indexOk)
  IN [runs |-> [s.runs EXCEPT ![e.turn] = r.run], dirs |-> r.dirs]

RunLayers(makes, indexed, script) ==
  LET b1 == BeginRun(NoDirs, 1, TRUE, makes[1], indexed)
      b2 == BeginRun(b1.dirs, 2, TRUE, makes[2], indexed)
  IN FoldLeft(ScriptStep, [runs |-> <<b1.run, b2.run>>, dirs |-> b2.dirs], script)

-------------------------------------------------------------------------------
(* One call of a model and its dumps.                                         *)

(* summarize, check, execute_task: the request is built first when a dump     *)
(* wants to show it, and that may raise; writing the dump lets nothing out.   *)
CallOutcome(call) ==
  IF call.debug /\ ~call.builds THEN "raise" ELSE IF call.answers THEN "ok" ELSE "raise"

(* _run_understanding, _run_continuation, run_voice_turn build no request.     *)
FlowOutcome(call) == IF call.answers THEN "ok" ELSE "raise"

(* TaskExecutionDebugDump: started, then the request, then how it ended.       *)
DumpStates(enabled, promptOk, magic, builds, answers) ==
  CASE ~enabled \/ ~promptOk -> <<>>
    [] enabled /\ promptOk /\ magic -> <<"started", "ok">>
    [] enabled /\ promptOk /\ ~magic /\ ~builds -> <<"started">>
    [] OTHER -> <<"started", "request", IF answers THEN "ok" ELSE "error">>

-------------------------------------------------------------------------------

(* Whatever a turn calls, the database it was given stays open.  Those its  *)
(* components opened are closed with it, but a close that raises leaves its *)
(* own database and those of the components after it open for good          *)
(* (TurnSideEffects.close and the components' own).                         *)
DatabasesClosed(given, scripts) ==
  \A g \in given, uses \in scripts, raises \in {0} \cup DOMAIN SideEffectsOrder :
    LET opened == {i \in DOMAIN SideEffectsOrder :
                     SideEffectsOrder[i] \in Range(uses) \ g}
        left   == IF raises \in opened THEN {i \in opened : i >= raises} ELSE {}
        open   == TurnDatabases(g, uses, IF raises = 0 THEN "none" ELSE SideEffectsOrder[raises]).open
    IN /\ g # {} => 1 \in open
       /\ Cardinality(open) = Cardinality(left) + (IF g = {} THEN 0 ELSE 1)

(* A run lists the layers whose files it holds, each once, in order and with *)
(* what was written last; the index on disk is the list as it was when it    *)
(* could last be written; "latest" has nothing its runs do not have, also    *)
(* when two turns share it (write_layer, _upsert_layer_index, _write_index). *)
IndexHonest(scripts) ==
  \A script \in scripts, first \in BOOLEAN, indexed \in BOOLEAN :
    LET s == RunLayers(<<first, TRUE>>, indexed, script)
    IN /\ s.dirs.latest \subseteq s.dirs.files
       /\ \A t \in 1..2 :
            LET ls == s.runs[t].layers
                fs == {f \in s.dirs.files : f.run = t}
                shown == {i \in DOMAIN script : script[i].turn = t /\ script[i].runOk /\ script[i].indexOk}
                last  == CHOOSE i \in shown : \A j \in shown : j <= i
            IN /\ fs = {[run |-> t, key |-> ls[i].key, text |-> ls[i].text] : i \in DOMAIN ls}
               /\ \A i, j \in DOMAIN ls : i < j => ls[i].key # ls[j].key /\ Before(ls[i], ls[j])
               /\ s.dirs.index[t] =
                    IF ~s.runs[t].on THEN {}
                    ELSE IF shown # {}
                      THEN {RunLayers(<<first, TRUE>>, indexed, SubSeq(script, 1, last)).runs[t].layers}
                      ELSE IF indexed THEN {<<>>} ELSE {}

(* Every review of a turn has a file of its own, however many attempts were  *)
(* reviewed.  The other layers keep one file for the whole turn: of the task *)
(* and its summary the last attempt stands, of the planning the last pass    *)
(* that planned, and beside it the last choice, which may be of a later pass *)
(* that did nothing.  But for that choice the files are numbered in the      *)
(* order they were written (the orders of voice_prompt_debug.py and its      *)
(* neighbours, task_execution.py, dump_task_reviews).                        *)
LayersApart(turns) ==
  \A passes \in turns :
    LET n == FoldLeft(LAMBDA sum, a : sum + a, 0, passes)
    IN \A failures \in SUBSET (1..n) :
         LET ls    == TurnLayers(passes, failures)
             write(i) == [turn |-> 1, key |-> ls[i], text |-> i, runOk |-> TRUE, latestOk |-> TRUE, indexOk |-> TRUE]
             files == RunLayers(<<TRUE, FALSE>>, TRUE, [i \in DOMAIN ls |-> write(i)]).dirs.files
             reviews == n + Cardinality(failures)
             perform == {i \in DOMAIN ls : ls[i] = PerformTaskLayer}
         IN /\ \A i \in DOMAIN ls : i > Len(ls) - reviews => \E f \in files : f.text = i
            /\ n > 0 => /\ Cardinality(files) = 9 + reviews
                        /\ \E f \in files : f.text \in perform /\ \A i \in perform : i <= f.text
            /\ \A f, g \in files : f # g => f.key[1] # g.key[1]
            /\ \A f, g \in files :
                 f.key # ChooseTaskLayer /\ g.key # ChooseTaskLayer /\ f.key[1] < g.key[1] => f.text < g.text

(* A task is executed and summarised by the same client, and neither has    *)
(* one where the other has none; only the magic provider needs no model     *)
(* (_summary_client, execute_task).                                         *)
ClientsAgree(tasks) ==
  \A t \in tasks :
    /\ ExecutionClient(t) # <<"magic">> => ExecutionClient(t) = SummaryClient(NoClient, t)
    /\ ExecutionClient(t) = <<"raise">> <=> SummaryClient(NoClient, t) = <<"raise">>

(* A dump changes what a call returns in one case only: its request cannot  *)
(* be built.  Otherwise it says how the call ended.                         *)
DumpsHarmless ==
  \A call \in [debug : BOOLEAN, builds : BOOLEAN, writes : BOOLEAN, answers : BOOLEAN] :
    /\ CallOutcome(call) # FlowOutcome(call) => call.debug /\ ~call.builds
    /\ \A magic \in BOOLEAN :
         LET d == DumpStates(call.debug, call.writes, magic, call.builds, call.answers)
         IN d # <<>> /\ Last(d) \in {"ok", "error"} =>
              (Last(d) = "ok" <=> magic \/ CallOutcome([call EXCEPT !.debug = TRUE]) = "ok")
===============================================================================
