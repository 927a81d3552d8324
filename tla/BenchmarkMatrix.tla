---------------------------- MODULE BenchmarkMatrix ----------------------------
(***************************************************************************)
(* The benchmarks of reframe_agent_host/benchmarks: which providers and    *)
(* cases a run takes, which reasoning efforts of a provider it finds, the  *)
(* rows of the matrix provider x effort x case x repetition, and the       *)
(* counts that are reported.  One row that raises must cost no other row.  *)
(*                                                                         *)
(* A provider is [id, model, efforts]: model "" is none of the inventory,  *)
(* efforts those the inventory lists for it ({"any"} where it lists none). *)
(* The answers of the models are external: `probe` maps provider and       *)
(* effort to "ok", "bad" (400, bad request) or "raise"; `answer` maps      *)
(* provider, effort, item and repetition to "right", "wrong" or "raise".   *)
(***************************************************************************)
EXTENDS Integers, Sequences, FiniteSets, SequencesExt

Snapshots == {"control_flow", "memory_relevance", "task_prompt"}
OneModel  == {"control_flow", "conversation_evaluation", "task_choice"}
BenchmarkKinds == Snapshots \cup OneModel

Picked(items, wanted) == SelectSeq(items, LAMBDA i : wanted = {} \/ i.id \in wanted)

Ids(items) == {items[i].id : i \in DOMAIN items}

(* An id that is not there refuses the whole run: the answer is a set with one *)
(* sequence, or the empty set.                                                *)
PickedOrRefused(items, wanted) ==
  IF wanted \subseteq Ids(items) THEN {Picked(items, wanted)} ELSE {}

(* direct_model_providers: those of the inventory; stored in surface order.   *)
DirectModelProviders(stored, wanted) ==
  PickedOrRefused(SelectSeq(stored, LAMBDA p : p.model # ""), wanted)

SelectCases(cases, wanted) == PickedOrRefused(cases, wanted)

(* Without configured ids only the providers of the benchmark's model.        *)
ModelProviders(kind, providers, config) ==
  IF kind \notin OneModel \/ config.providers # {} THEN providers
  ELSE SelectSeq(providers, LAMBDA p : p.model = config.model)

(* A case becomes a snapshot before any model is measured.  A case is          *)
(* [id, stage, task, known]: stage says where building it failed, task whether *)
(* the task it chose is the expected one, known whether that task is stored.   *)
ControlFlowSnapshot(case) ==
  [id |-> case.id, error |-> case.stage \in {"choice", "hints"},
   task |-> case.stage # "choice" /\ case.task]

MemoryRelevanceSnapshot(case) == [id |-> case.id, error |-> FALSE, task |-> case.task]

TaskPromptSnapshot(case) ==
  [id |-> case.id, error |-> case.stage # "none", task |-> case.stage = "none"]

Items(kind, cases) ==
  [i \in DOMAIN cases |->
     CASE kind = "control_flow"     -> ControlFlowSnapshot(cases[i])
       [] kind = "memory_relevance" -> MemoryRelevanceSnapshot(cases[i])
       [] kind = "task_prompt"      -> TaskPromptSnapshot(cases[i])
       [] OTHER                     -> [id |-> cases[i].id, error |-> FALSE, task |-> FALSE]]

Usable(items) == SelectSeq(items, LAMBDA i : ~i.error)

-------------------------------------------------------------------------------

EffortCandidates(p, candidates) ==
  SelectSeq(candidates, LAMBDA e : "any" \in p.efforts \/ e \in p.efforts)

UnsupportedEffort(outcome) == outcome = "bad"

(* discover_efforts: configured efforts are taken as they are; without a       *)
(* usable item none is; otherwise one probe decides, and only a bad request    *)
(* decides against.                                                            *)
DiscoverEfforts(p, items, config, probe) ==
  CASE config.efforts # <<>> -> config.efforts
    [] config.efforts = <<>> /\ Usable(items) = <<>> -> <<>>
    [] config.efforts = <<>> /\ Usable(items) # <<>> ->
         SelectSeq(EffortCandidates(p, config.candidates),
                   LAMBDA e : ~UnsupportedEffort(probe[p.id, e]))

(* The row of one case: a failed snapshot is a row too, and so is a call that  *)
(* raises.  The task of a control flow row is the snapshot's.                  *)
RunSearchDepthCase(item, outcome) ==
  CASE item.error                          -> [error |-> TRUE, correct |-> item.task]
    [] ~item.error /\ outcome = "raise"    -> [error |-> TRUE, correct |-> FALSE]
    [] ~item.error /\ outcome # "raise"    -> [error |-> FALSE, correct |-> item.task]

RunMemoryRelevanceCase(item, outcome) ==
  [error |-> item.error \/ outcome = "raise", correct |-> ~item.error /\ outcome = "right"]

RunTaskPromptCase(item, outcome) ==
  [error |-> item.error \/ outcome = "raise", correct |-> ~item.error /\ outcome = "right"]

RunTaskChoiceCase(item, outcome) == [error |-> outcome = "raise", correct |-> outcome = "right"]

RunConversationCase(item, outcome) == [error |-> outcome = "raise", correct |-> FALSE]

RunCase(kind, item, outcome) ==
  CASE kind = "control_flow"            -> RunSearchDepthCase(item, outcome)
    [] kind = "memory_relevance"        -> RunMemoryRelevanceCase(item, outcome)
    [] kind = "task_prompt"             -> RunTaskPromptCase(item, outcome)
    [] kind = "task_choice"             -> RunTaskChoiceCase(item, outcome)
    [] kind = "conversation_evaluation" -> RunConversationCase(item, outcome)

(* warmup: the first usable item, errors counted; without cases the lookup of   *)
(* the first one raises and is counted, without usable snapshots nothing runs.  *)
WarmupErrors(kind, items, config, fails) ==
  CASE Usable(items) = <<>> -> IF kind \in Snapshots THEN 0 ELSE config.warmups
    [] Usable(items) # <<>> -> Cardinality({i \in 1..config.warmups : fails[i]})

CountRows(rows, field) == Len(SelectSeq(rows, LAMBDA x : x[field]))

(* benchmark_provider: every item, every repetition, in that order.            *)
BenchmarkProvider(kind, p, effort, items, config, answer, fails) ==
  LET rows == FlattenSeq([i \in DOMAIN items |-> [r \in 1..config.runs |->
                [provider |-> p.id, effort |-> effort, case |-> items[i].id, run |-> r]
                  @@ RunCase(kind, items[i], answer[p.id, effort, items[i].id, r])]])
  IN [provider |-> p.id, effort |-> effort, rows |-> rows,
      total    |-> Len(items) * config.runs,
      errors   |-> CountRows(rows, "error"),
      correct  |-> IF kind = "conversation_evaluation" THEN 0 ELSE CountRows(rows, "correct"),
      warmups  |-> WarmupErrors(kind, items, config, fails)]

(* _provider_matrix: provider after provider, each with the efforts found.     *)
ProviderMatrix(kind, providers, items, config, world) ==
  FlattenSeq([i \in DOMAIN providers |->
    LET efforts == DiscoverEfforts(providers[i], items, config, world.probe)
    IN [j \in DOMAIN efforts |->
          BenchmarkProvider(kind, providers[i], efforts[j], items, config, world.answer, world.fails)]])

(* _expected_task_ids: a task choice run needs every expected task.             *)
ExpectedTasksKnown(kind, cases) ==
  kind = "task_choice" => \A i \in DOMAIN cases : cases[i].known

BenchmarkSummary(results) ==
  [runs    |-> Len(results),
   total   |-> FoldLeft(LAMBDA n, r : n + r.total, 0, results),
   errors  |-> FoldLeft(LAMBDA n, r : n + r.errors, 0, results),
   correct |-> FoldLeft(LAMBDA n, r : n + r.correct, 0, results)]

(* run_..._benchmark: what is refused is refused before a model is called.      *)
RunBenchmark(kind, world, config) ==
  {[results |-> ProviderMatrix(kind, chosen[1], Items(kind, chosen[2]), config, world)] :
     chosen \in {c \in {ModelProviders(kind, ps, config) : ps \in DirectModelProviders(world.providers, config.providers)}
                       \X SelectCases(world.cases, config.cases) :
                  c[1] # <<>> /\ ExpectedTasksKnown(kind, c[2])}}

-------------------------------------------------------------------------------

Cell(x) == <<x.provider, x.effort, x.case, x.run>>

(* Every provider, effort, case and repetition has exactly one row, whatever *)
(* raised; the counts of the summary are those of the rows; and an answer is *)
(* right or an error, never both, but for a control flow case whose snapshot *)
(* failed after its task was chosen (model_matrix.py, runner.py).            *)
MatrixComplete(worlds, configs) ==
  \A kind \in BenchmarkKinds, w \in worlds, c \in configs :
    \A b \in RunBenchmark(kind, w, c) :
      LET sum   == BenchmarkSummary(b.results)
          rows  == FlattenSeq([i \in DOMAIN b.results |-> b.results[i].rows])
          cells == {Cell(rows[i]) : i \in DOMAIN rows}
      IN /\ Cardinality(cells) = Len(rows) /\ Len(rows) = sum.total
         /\ \A i \in DOMAIN b.results : \A k \in Ids(Picked(w.cases, c.cases)), r \in 1..c.runs :
              <<b.results[i].provider, b.results[i].effort, k, r>> \in cells
         /\ sum.errors = CountRows(rows, "error")
         /\ kind # "control_flow" => sum.errors + sum.correct <= sum.total
         /\ \A i \in DOMAIN b.results : c.efforts = <<>> =>
              w.probe[b.results[i].provider, b.results[i].effort] # "bad"
===============================================================================
