----------------------- MODULE CheckpointPublication -----------------------
(***************************************************************************)
(* From a committed checkpoint to a filesystem memory in the graph: the    *)
(* transactional outbox of the workspace daemon, and the host commands     *)
(* that drain it (agent-host workspace/coordinator.py and                  *)
(* publication_service.py). Hosts are processes of the command line tool:  *)
(* several may run at once, and each may be killed anywhere.               *)
(*                                                                         *)
(* A call to the daemon or to the graph database is one step. It may fail  *)
(* before it takes effect, or take effect and have its answer lost: that a *)
(* daemon call takes effect at most once is WorkspaceRequests' promise.    *)
(* A memory id is a digest of the store and the manifest, so a manifest    *)
(* stands for its own node.                                                *)
(***************************************************************************)
EXTENDS Naturals

CONSTANTS Hosts,         \* processes of the command line tool
          MaxManifests,  \* bound: checkpoints committed
          MaxFaults,     \* bound: failed calls and killed hosts
          Pruning        \* whether the daemon may restart past the retention period

ASSUME PublicationAssumption == MaxManifests \in Nat /\ MaxFaults \in Nat /\ Pruning \in BOOLEAN

Manifests == 1..MaxManifests

VARIABLES
  outbox,   \* table checkpoint_publications: outbox[m], "none" before the commit
  head,     \* head_manifest of the session, 0 if there is none
  commits,  \* how many checkpoints were committed; they are numbered as they come
  graph,    \* the checkpoint memories that exist in the graph
  pc,       \* where each host is
  todo,     \* the publications a host has read and not dealt with
  mine,     \* the manifest the host's own command is about, 0 if none
  report,   \* how the last command of each host ended
  faults    \* faults so far

publicationVars == <<outbox, head, commits, graph, pc, todo, mine, report, faults>>

durable == <<outbox, head, commits, graph>>

States == {"none", "pending", "published", "pruned"}
Places == {"idle", "reconcile", "publish", "complete", "command",
           "find", "publish own", "complete own", "publish head"}
Reports == {"none", "published", "commit failed", "remains pending", "continued", "failed"}

PublicationInit ==
  /\ outbox = [m \in Manifests |-> "none"] /\ head = 0 /\ commits = 0 /\ graph = {}
  /\ pc = [h \in Hosts |-> "idle"] /\ todo = [h \in Hosts |-> {}]
  /\ mine = [h \in Hosts |-> 0] /\ report = [h \in Hosts |-> "none"] /\ faults = 0

-----------------------------------------------------------------------------
(* How a call ends. *)

Goto(h, place) == pc' = [pc EXCEPT ![h] = place]
Fault == faults < MaxFaults /\ faults' = faults + 1

EndCommand(h, how) ==
  /\ Goto(h, "idle")
  /\ report' = [report EXCEPT ![h] = how]
  /\ todo' = [todo EXCEPT ![h] = {}]

(* pending_checkpoint_publications, which a host works off oldest first. *)
PendingOutbox == {m \in Manifests : outbox[m] = "pending"}
Oldest(h, m) == m \in todo[h] /\ \A n \in todo[h] : m <= n

(* mark_checkpoint_publication_published, with check_completed_publication: *)
(* completing twice is fine, completing a row that was pruned is an error.  *)
CanComplete(m) == outbox[m] \in {"pending", "published"}
Completed(m) == outbox' = [outbox EXCEPT ![m] = "published"]

(* publish_checkpoint: one graph transaction that creates the node or finds *)
(* it there.                                                                *)
Published(m) == graph' = graph \cup {m}

-----------------------------------------------------------------------------
(* run_workspace_async: first reconcile what earlier commands left behind. *)

StartHost(h) ==
  /\ pc[h] = "idle" /\ Goto(h, "reconcile")
  /\ mine' = [mine EXCEPT ![h] = 0]
  /\ report' = [report EXCEPT ![h] = "none"]
  /\ UNCHANGED <<durable, todo, faults>>

(* Mutant: nothing is reconciled. *)
ReadOutboxSkips(h) ==
  /\ pc[h] = "reconcile"
  /\ Goto(h, "command")
  /\ UNCHANGED <<durable, todo, mine, report, faults>>

ReadOutbox(h) ==
  /\ pc[h] = "reconcile"
  /\ todo' = [todo EXCEPT ![h] = PendingOutbox]
  /\ Goto(h, IF PendingOutbox = {} THEN "command" ELSE "publish")
  /\ UNCHANGED <<durable, mine, report, faults>>

(* reconcile is not strict: it logs a failure and goes on. *)
ReadOutboxFails(h) ==
  /\ pc[h] = "reconcile" /\ Fault
  /\ Goto(h, "command")
  /\ UNCHANGED <<durable, todo, mine, report>>

NextPublication(h, m) ==
  /\ todo' = [todo EXCEPT ![h] = @ \ {m}]
  /\ Goto(h, IF todo[h] # {m} THEN "publish" ELSE "command")

(* Mutant: the row is completed before the node is published. *)
PublishGraphLater(h) ==
  /\ pc[h] = "publish"
  /\ Goto(h, "complete")
  /\ UNCHANGED <<durable, todo, mine, report, faults>>

PublishGraph(h) ==
  /\ pc[h] = "publish"
  /\ \E m \in Manifests : Oldest(h, m) /\ Published(m)
  /\ Goto(h, "complete")
  /\ UNCHANGED <<outbox, head, commits, todo, mine, report, faults>>

PublishGraphFails(h) ==
  /\ pc[h] = "publish" /\ Fault
  /\ \E m \in Manifests :
       /\ Oldest(h, m) /\ NextPublication(h, m)
       /\ Published(m) \/ UNCHANGED graph
  /\ UNCHANGED <<outbox, head, commits, mine, report>>

(* complete_checkpoint_publication, after the node exists. *)
CompletePublication(h) ==
  /\ pc[h] = "complete"
  /\ \E m \in Manifests :
       /\ Oldest(h, m) /\ NextPublication(h, m)
       /\ IF CanComplete(m) THEN Completed(m) ELSE UNCHANGED outbox
  /\ UNCHANGED <<head, commits, graph, mine, report, faults>>

CompletePublicationFails(h) ==
  /\ pc[h] = "complete" /\ Fault
  /\ \E m \in Manifests :
       /\ Oldest(h, m) /\ NextPublication(h, m)
       /\ (CanComplete(m) /\ Completed(m)) \/ UNCHANGED outbox
  /\ UNCHANGED <<head, commits, graph, mine, report>>

-----------------------------------------------------------------------------
(* WorkspaceCoordinator.checkpoint *)

(* Mutant: the manifest is committed and the outbox row is left to later. *)
CommitWithoutOutbox(m) ==
  /\ head' = m /\ commits' = m
  /\ UNCHANGED outbox

(* commit_checkpoint: manifest, head and outbox row in one transaction. *)
CommitTransaction(m) ==
  /\ outbox' = [outbox EXCEPT ![m] = "pending"]
  /\ head' = m /\ commits' = m

NextManifest == {m \in Manifests : m = commits + 1}

Commit(h) ==
  /\ pc[h] = "command"
  /\ \E m \in NextManifest :
       CommitTransaction(m) /\ mine' = [mine EXCEPT ![h] = m]
  /\ Goto(h, "find")
  /\ UNCHANGED <<graph, todo, report, faults>>

CommitFails(h) ==
  /\ pc[h] = "command" /\ Fault
  /\ (\E m \in NextManifest : CommitTransaction(m)) \/ UNCHANGED <<outbox, head, commits>>
  /\ EndCommand(h, "commit failed")
  /\ UNCHANGED <<graph, mine>>

(* publish_manifest reads the outbox again and looks for its own row. *)
FindOwn(h) ==
  /\ pc[h] = "find"
  /\ IF mine[h] \in PendingOutbox
     THEN Goto(h, "publish own") /\ UNCHANGED <<report, todo>>
     ELSE EndCommand(h, "remains pending")
  /\ UNCHANGED <<durable, mine, faults>>

FindOwnFails(h) ==
  /\ pc[h] = "find" /\ Fault
  /\ EndCommand(h, "remains pending")
  /\ UNCHANGED <<durable, mine>>

PublishOwn(h) ==
  /\ pc[h] = "publish own"
  /\ Published(mine[h]) /\ Goto(h, "complete own")
  /\ UNCHANGED <<outbox, head, commits, todo, mine, report, faults>>

PublishOwnFails(h) ==
  /\ pc[h] = "publish own" /\ Fault
  /\ Published(mine[h]) \/ UNCHANGED graph
  /\ EndCommand(h, "remains pending")
  /\ UNCHANGED <<outbox, head, commits, mine>>

(* Mutant: the answer of complete_checkpoint_publication is not looked at. *)
CompleteOwnUnchecked(h) ==
  /\ pc[h] = "complete own"
  /\ (CanComplete(mine[h]) /\ Completed(mine[h])) \/ UNCHANGED outbox
  /\ EndCommand(h, "published")
  /\ UNCHANGED <<head, commits, graph, mine, faults>>

CompleteOwn(h) ==
  /\ pc[h] = "complete own"
  /\ IF CanComplete(mine[h])
     THEN Completed(mine[h]) /\ EndCommand(h, "published")
     ELSE UNCHANGED outbox /\ EndCommand(h, "remains pending")
  /\ UNCHANGED <<head, commits, graph, mine, faults>>

CompleteOwnFails(h) ==
  /\ pc[h] = "complete own" /\ Fault
  /\ (CanComplete(mine[h]) /\ Completed(mine[h])) \/ UNCHANGED outbox
  /\ EndCommand(h, "remains pending")
  /\ UNCHANGED <<head, commits, graph, mine>>

-----------------------------------------------------------------------------
(* create_session with --continue, and every other command. *)

(* _continue_target reads the head manifest of the session. *)
Continue(h) ==
  /\ pc[h] = "command" /\ head # 0
  /\ mine' = [mine EXCEPT ![h] = head]
  /\ Goto(h, "publish head")
  /\ UNCHANGED <<durable, todo, report, faults>>

(* publish_external: the node is published, the outbox is not touched. *)
PublishHead(h) ==
  /\ pc[h] = "publish head"
  /\ Published(mine[h])
  /\ EndCommand(h, "continued")
  /\ UNCHANGED <<outbox, head, commits, mine, faults>>

PublishHeadFails(h) ==
  /\ pc[h] = "publish head" /\ Fault
  /\ Published(mine[h]) \/ UNCHANGED graph
  /\ EndCommand(h, "failed")
  /\ UNCHANGED <<outbox, head, commits, mine>>

OtherCommand(h) ==
  /\ pc[h] = "command"
  /\ EndCommand(h, "none")
  /\ UNCHANGED <<durable, mine, faults>>

Kill(h) ==
  /\ pc[h] # "idle" /\ Fault
  /\ EndCommand(h, "none")
  /\ UNCHANGED <<durable, mine>>

(* prune_protocol_history, at a daemon restart thirty days later. *)
SettledRow(m) == outbox[m] = "published"

Prune ==
  /\ Pruning
  /\ \E m \in Manifests :
       SettledRow(m) /\ outbox' = [outbox EXCEPT ![m] = "pruned"]
  /\ UNCHANGED <<head, commits, graph, pc, todo, mine, report, faults>>

HostStep(h) ==
  \/ ReadOutbox(h) \/ PublishGraph(h) \/ CompletePublication(h)
  \/ Commit(h) \/ FindOwn(h) \/ PublishOwn(h) \/ CompleteOwn(h)
  \/ Continue(h) \/ PublishHead(h) \/ OtherCommand(h)

HostFault(h) ==
  \/ ReadOutboxFails(h) \/ PublishGraphFails(h) \/ CompletePublicationFails(h)
  \/ CommitFails(h) \/ FindOwnFails(h) \/ PublishOwnFails(h) \/ CompleteOwnFails(h)
  \/ PublishHeadFails(h) \/ Kill(h)

PublicationNext == Prune \/ \E h \in Hosts : StartHost(h) \/ HostStep(h) \/ HostFault(h)

PublicationSpec == PublicationInit /\ [][PublicationNext]_publicationVars

(* A host runs its command to the end, and the user keeps giving commands. *)
PublicationFairSpec ==
  /\ PublicationSpec
  /\ \A h \in Hosts : WF_publicationVars(StartHost(h)) /\ WF_publicationVars(HostStep(h))

-----------------------------------------------------------------------------
(* Properties *)

(* The states of the outbox, the graph and the hosts; a host that is in the *)
(* loop of reconcile has a publication left to deal with.                   *)
PublicationTypeOK ==
  /\ outbox \in [Manifests -> States] /\ head \in 0..MaxManifests
  /\ commits \in 0..MaxManifests /\ graph \subseteq Manifests
  /\ pc \in [Hosts -> Places] /\ todo \in [Hosts -> SUBSET Manifests]
  /\ mine \in [Hosts -> 0..MaxManifests] /\ report \in [Hosts -> Reports]
  /\ faults \in 0..MaxFaults
  /\ \A h \in Hosts :
       /\ (pc[h] \in {"publish", "complete"}) => todo[h] # {}
       /\ (pc[h] \in {"find", "publish own", "complete own", "publish head"}) => mine[h] # 0

Committed == {m \in Manifests : m <= commits}

(* A committed checkpoint is never lost: its publication waits in the       *)
(* outbox or its memory is in the graph, whichever host or call failed      *)
(* (store/checkpoints.rs insert_publication_outbox, retention.rs).          *)
NothingLost == \A m \in Committed : outbox[m] = "pending" \/ m \in graph

(* The outbox never claims a memory the graph does not have: _publish_outbox *)
(* completes a row only after the node was read back.                       *)
PublishedIsInGraph == \A m \in Manifests : outbox[m] \in {"published", "pruned"} => m \in graph

(* A host that reports its checkpoint as published has both the node in the *)
(* graph and the row settled: no later command publishes it again.          *)
ReportHolds ==
  \A h \in Hosts : report[h] = "published" =>
    mine[h] \in graph /\ outbox[mine[h]] \in {"published", "pruned"}

(* Every pending publication is eventually settled by some later command,   *)
(* as long as commands are given and faults end (reconcile).                *)
OutboxDrains == \A m \in Manifests : outbox[m] = "pending" ~> outbox[m] # "pending"
=============================================================================
