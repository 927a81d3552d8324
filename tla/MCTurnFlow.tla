----------------------------- MODULE MCTurnFlow -----------------------------
(* Two turns; beside them the calls, contexts and results of any turn.      *)
EXTENDS TurnFlow, MachineContext, PromptContext, AgentCalls, TurnResults, BenchmarkMatrix
CONSTANTS t1, t2
\* A conversation is resumed in which "c" was said.  The first turn does nothing
\* up to three times; the second says the same, another word, or the old one, plans
\* a task, proposes the memory and may fail.
Resumed == <<Msg("human", <<"c">>, 1)>>
MCTexts == [t \in Turns |-> IF t = t1 THEN {<<"a">>}
                           ELSE {<<"a">>, <<"b", "", "b">>, <<"c">>}]
MCCycles == [t \in Turns |-> IF t = t1 THEN 3 ELSE 1]
MCAttempts == [t \in Turns |-> IF t = t1 THEN 0 ELSE 1]
MCCandidates == [t \in Turns |-> IF t = t1 THEN {} ELSE {<<"m">>}]
MCReturns == [t \in Turns |->
  {<<>>, <<"agent_thought", "conversation_mode_off">>,
   <<"agent_reply", "session_memory">>}]

\* The machine: calls of its provider, answers of the services, screens.
ProviderScripts == BoundedSeq({"start", "wait", "context"}, 5)
ServiceAnswers  == UNION {[1..n -> Answers \X Answers] : n \in 1..2}
Screens == {<<Geometry(0, 0, 2, 1)>>, <<Geometry(0, 0, 2, 1), Geometry(2, 0, 2, 1)>>,
            <<Geometry(0, 0, 2, 1), Geometry(0, 0, 2, 1), Geometry(2, 0, 0, 0)>>}
Hosts ==
  [system : {"Windows", "Darwin", "Linux"}, screeninfo : BOOLEAN, appkit : BOOLEAN, sway : BOOLEAN,
   xrandr : BOOLEAN, tk : BOOLEAN, screens : Screens, mode : [found : BOOLEAN, w : {0, 3}, h : {1}]]

\* The memories: a node, two messages, a conversation that matched or not.
Stored(i, read) == [id |-> i, tags |-> {"t"}, at |-> i, read |-> read, content |-> [text |-> i]]
Talks == [conversation : {Stored(2, Never)}, matched : BOOLEAN,
          messages : {<<>>, <<Stored(3, "read"), Stored(4, Never)>>}, matched_message_ids : {<<>>, <<4>>}]
Memories ==
  [tasks : {<<>>, <<Stored(1, "read")>>},
   sessions : {<<>>} \cup {<<[session |-> Stored(7, Never), matched |-> FALSE,
                             conversations |-> cs, session_memories |-> <<Stored(8, "read")>>]>> :
                             cs \in BoundedSeq(Talks, 2)},
   current : {<<Stored(9, Never)>>}]
TaskNode(i, provider) == [id |-> i, content |-> [provider_id |-> provider]]
ProviderNode(i) == [id |-> i, content |-> [model_id |-> <<"model", i>>]]
Databases ==
  [tasks : {<<TaskNode(1, a), TaskNode(2, b)>> : a \in 1..2, b \in 1..3},
   providers : {<<>>, <<ProviderNode(1)>>, <<ProviderNode(1), ProviderNode(2)>>}]

\* The calls of a turn and the files of two runs.
Uses == BoundedSeq({"summarizer", "retrieval", "execution", "flow"}, 5)
Writes ==
  BoundedSeq({e \in [turn : 1..2, key : {<<1, 2>>, <<2, 1>>}, text : {"ok", "error"},
                      runOk : BOOLEAN, latestOk : {TRUE}, indexOk : BOOLEAN] : e.runOk \/ e.indexOk}, 3)
ModelTasks ==
  [exists : BOOLEAN, provided : BOOLEAN,
   provider : [surface : {"magic", "openai"}, effort : {NoClient, "low"}]]
\* The passes of a turn, each with its attempts; a pass without one does nothing.
Passes == BoundedSeq(0..2, 3)

\* Two providers of the inventory and one outside it; two cases.
Benches ==
  {[providers |-> <<[id |-> 1, model |-> "m", efforts |-> {"low"}], [id |-> 2, model |-> "n", efforts |-> {"any"}],
                    [id |-> 3, model |-> "", efforts |-> {}]>>,
    cases  |-> <<[id |-> "a", stage |-> s, task |-> TRUE, known |-> k], [id |-> "b", stage |-> "none", task |-> t, known |-> TRUE]>>,
    probe  |-> [x \in {1, 2} \X {"low", "high"} |-> IF x[2] = "low" THEN pr ELSE "ok"],
    answer |-> [x \in {1, 2} \X {"low", "high"} \X {"a", "b"} \X (1..2) |-> IF x[3] = "a" THEN an ELSE "right"],
    fails  |-> [i \in 1..2 |-> i = 1]] :
     s \in {"none", "choice", "hints"}, k \in BOOLEAN, t \in BOOLEAN,
     pr \in {"ok", "bad", "raise"}, an \in {"right", "wrong", "raise"}}
BenchConfigs ==
  [runs : 1..2, warmups : {2}, efforts : {<<>>, <<"high">>}, candidates : {<<"low", "high">>},
   providers : {{}, {2}, {3}}, cases : {{}, {"a"}, {"c"}}, model : {"m"}]

CallsRight ==
  /\ FetchedOnce(ProviderScripts) /\ LocationFound(ServiceAnswers) /\ ScreensCounted(Hosts)
  /\ GraphRoundTrips(Memories) /\ LayersBuild /\ CatalogueWhole(Databases)
  /\ DatabasesClosed({{}, {"retrieval"}, {"flow"}, {"retrieval", "flow"}}, Uses)
  /\ MatrixComplete(Benches, BenchConfigs)
  /\ IndexHonest(Writes) /\ LayersApart(Passes) /\ ClientsAgree(ModelTasks) /\ DumpsHarmless


\* Captures of a turn, and turns whose stages end one after the other.
Captures == [mode : {"wake", "continuous"}, phrase : {"none", "wake_command", "conversation_on"},
             utterance : BOOLEAN, switched : BOOLEAN]
Times == {<<1, 2, 2, 3, 3, 4, 4>>, <<0, 0, 1, 2, 2, 2, 5>>, <<1, 1, 2, -1, -1, -1, 3>>}
Outcomes ==
  {[routed |-> r, trigger |-> g, noise |-> n, choiceEnabled |-> e, noAction |-> a,
    understood |-> s[1], retrieved |-> s[2], continued |-> s[3], executed |-> s[4],
    dispatched |-> s[5], summarised |-> s[6], end |-> s[7]] :
     r \in {"", "words"}, g \in {"none", "wake_command", "conversation_on"},
     n \in BOOLEAN, e \in BOOLEAN, a \in BOOLEAN, s \in Times}
ResultsRight == StagesInOrder(Captures, Outcomes, {0, 2}) /\ SwitchesNeverAct(Captures, Outcomes)

(* The stages a turn reports are in the order they ran, and a spotted mode  *)
(* switch never reaches the agent (turn_results.py, turn_processor.py).     *)
ResultsSound == Init => ResultsRight
=============================================================================
