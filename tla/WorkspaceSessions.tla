------------------------- MODULE WorkspaceSessions -------------------------
(***************************************************************************)
(* The sessions of the workspace daemon on Linux and macOS: creation,      *)
(* mounting, edits through FUSE, status, checkpoint, close, destroy and    *)
(* shutdown (daemon/operations.rs, daemon/lifecycle.rs, session/, store/)  *)
(* across crashes and restarts. The rows of SQLite, the directories, the   *)
(* blobs and the kernel's mounts survive a crash; the resident trees and   *)
(* the providers do not.                                                   *)
(*                                                                         *)
(* The daemon handles one request at a time; between two steps of a        *)
(* handler it may crash, and agents may edit mounted sessions. A tree is   *)
(* flat: paths are files, and a content stands for its hash and its blob.  *)
(***************************************************************************)
EXTENDS Naturals, Sequences

CONSTANTS Sessions,      \* session ids
          Paths,         \* normalized paths
          Contents,      \* file contents
          MemoryFiles,   \* the tree of the directory memory, Absent where it has none
          Policies,      \* the scratch rules a client may ask for, as sets of paths
          MaxManifests,  \* bound: checkpoints committed
          MaxCrashes,    \* bound: crashes and shutdowns of the daemon
          Faults         \* subset of {"create", "cleanup", "load", "mount", "unmount",
                         \*   "dies", "remove", "store", "refresh"}

Absent == "absent"
Tomb   == "tombstone"
Empty  == [p \in Paths |-> Absent]

ASSUME SessionsAssumption ==
  /\ Absent \notin Contents /\ Tomb \notin Contents
  /\ MemoryFiles \in [Paths -> Contents \cup {Absent}]
  /\ Policies \subseteq SUBSET Paths
  /\ MaxManifests \in Nat /\ MaxCrashes \in Nat

VARIABLES
  row,        \* table workspaces: "none", "active" or "closed"
  dir,        \* whether sessions/<id>/worktree exists
  base,       \* table baselines: a content, Tomb, or Absent if there is no row
  scratch,    \* table workspace_scratch
  journal,    \* table journal_events: "create", "write", "delete", or "none"
  head,       \* head_manifest, 0 if there is none
  manifests,  \* tables manifests and manifest_entries, in commit order
  blobs,      \* the contents in the blob store
  stale,      \* sessions whose mount the kernel kept when the daemon died
  resident,   \* Daemon.residents
  mount,      \* Daemon.mounts: "none", "live", or "dead" once its FUSE loop ended
  busy,       \* what is left of the request in progress
  up,         \* the daemon runs
  crashes     \* crashes and shutdowns so far

vars == <<row, dir, base, scratch, journal, head, manifests, blobs, stale,
          resident, mount, busy, up, crashes>>

sqlite == <<row, base, scratch, head, manifests>>

NoResident == [loaded |-> FALSE]
Idle == [op |-> "idle"]
Clean == [p \in Paths |-> "none"]

Init ==
  /\ row = [s \in Sessions |-> "none"] /\ dir = [s \in Sessions |-> FALSE]
  /\ base = [s \in Sessions |-> Empty] /\ scratch = [s \in Sessions |-> {}]
  /\ journal = [s \in Sessions |-> Clean] /\ head = [s \in Sessions |-> 0]
  /\ manifests = <<>> /\ blobs = {} /\ stale = {}
  /\ resident = [s \in Sessions |-> NoResident] /\ mount = [s \in Sessions |-> "none"]
  /\ busy = Idle /\ up = TRUE /\ crashes = 0

-----------------------------------------------------------------------------
(* Trees, and what changed in them. *)

(* load_cached drops the tombstones of the baseline. *)
Loaded(b) == [p \in Paths |-> IF b[p] = Tomb THEN Absent ELSE b[p]]

LoadResident(s) ==
  [loaded |-> TRUE, files |-> Loaded(base[s]), base |-> Loaded(base[s]),
   dirty |-> {}, scratch |-> scratch[s]]

(* The tree the session has: the resident one, or what a mount would load. *)
Tree(s) == IF resident[s].loaded THEN resident[s].files ELSE Loaded(base[s])

(* What makes a path's new state differ from the baseline's. *)
Kind(old, new) ==
  IF new = old THEN "none"
  ELSE IF new = Absent THEN "delete"
  ELSE IF old = Absent THEN "create" ELSE "write"

(* collect_changes looks at the dirty paths only, and forgets the ones that *)
(* turn out not to differ.                                                  *)
Changes(r) == [p \in Paths |-> IF p \in r.dirty THEN Kind(r.base[p], r.files[p]) ELSE "none"]
Cleaned(r) == [r EXCEPT !.dirty = {p \in @ : Changes(r)[p] # "none"}]

(* sync_resident_journal *)
SyncJournal(s) ==
  IF resident[s].loaded
  THEN /\ journal' = [journal EXCEPT ![s] = Changes(resident[s])]
       /\ resident' = [resident EXCEPT ![s] = Cleaned(@)]
  ELSE UNCHANGED <<journal, resident>>

(* scan_changes finds an empty mountpoint: on Unix every path of the        *)
(* baseline that is not there has been deleted.                             *)
ScannedChanges(s) ==
  [p \in Paths |-> IF base[s][p] \in {Absent, Tomb} THEN "none" ELSE "delete"]

Ready == up /\ busy = Idle
EndRequest == busy' = Idle

-----------------------------------------------------------------------------
(* create_with_sources_impl and the CreateWorkspace operation *)

(* build_baseline: later sources override earlier ones, scratch is left out. *)
Overlay(lower, upper) == [p \in Paths |-> IF upper[p] = Absent THEN lower[p] ELSE upper[p]]
Memories == {MemoryFiles} \cup {manifests[m] : m \in 1..Len(manifests)}
Sources == {Empty} \cup Memories \cup {Overlay(a, b) : a, b \in Memories}
Baseline(source, rules) == [p \in Paths |-> IF p \in rules THEN Absent ELSE source[p]]

CreateDirectory(s) ==
  /\ Ready /\ row[s] = "none" /\ ~dir[s]
  /\ dir' = [dir EXCEPT ![s] = TRUE]
  /\ \E source \in Sources, rules \in Policies :
       busy' = [op |-> "insert", of |-> s, base |-> Baseline(source, rules), rules |-> rules]
  /\ UNCHANGED <<sqlite, journal, blobs, stale, resident, mount, up, crashes>>

(* The id is taken, or a crashed creation has left its directory behind. *)
CreateRefused(s) == Ready /\ (row[s] # "none" \/ dir[s]) /\ UNCHANGED vars

CreateTransaction ==
  LET s == busy.of IN
  /\ up /\ busy.op = "insert"
  /\ row' = [row EXCEPT ![s] = "active"]
  /\ base' = [base EXCEPT ![s] = busy.base]
  /\ scratch' = [scratch EXCEPT ![s] = busy.rules]
  /\ busy' = [op |-> "load", of |-> s]
  /\ UNCHANGED <<dir, journal, head, manifests, blobs, stale, resident, mount, up, crashes>>

(* WorktreeGuard::cleanup, which may fail in turn. *)
CreateFails ==
  LET s == busy.of IN
  /\ up /\ busy.op = "insert" /\ "create" \in Faults
  /\ \/ dir' = [dir EXCEPT ![s] = FALSE]
     \/ "cleanup" \in Faults /\ UNCHANGED dir
  /\ EndRequest
  /\ UNCHANGED <<sqlite, journal, blobs, stale, resident, mount, up, crashes>>

(* A resident that cannot be loaded yet is only logged. *)
LoadCreated ==
  LET s == busy.of IN
  /\ up /\ busy.op = "load"
  /\ \/ resident' = [resident EXCEPT ![s] = LoadResident(s)]
     \/ "load" \in Faults /\ UNCHANGED resident
  /\ EndRequest
  /\ UNCHANGED <<sqlite, dir, journal, blobs, stale, mount, up, crashes>>

-----------------------------------------------------------------------------
(* ApplyPolicy *)

ApplyPolicy(s, rules) ==
  /\ Ready /\ row[s] = "active" /\ mount[s] = "none"
  /\ scratch' = [scratch EXCEPT ![s] = rules]
  /\ IF resident[s].loaded
     THEN resident' = [resident EXCEPT ![s].scratch = rules]
     ELSE UNCHANGED resident
  /\ UNCHANGED <<row, dir, base, journal, head, manifests, blobs, stale, mount, busy, up, crashes>>

(* The resident was taken out of the map, and refresh_policy failed. *)
RefreshFails(s, rules) ==
  /\ Ready /\ row[s] = "active" /\ mount[s] = "none" /\ "refresh" \in Faults
  /\ resident[s].loaded
  /\ scratch' = [scratch EXCEPT ![s] = rules]
  /\ resident' = [resident EXCEPT ![s] = NoResident]
  /\ UNCHANGED <<row, dir, base, journal, head, manifests, blobs, stale, mount, busy, up, crashes>>

-----------------------------------------------------------------------------
(* Daemon::mount and Daemon::unmount *)

(* A live mount is answered as it is; a dead one is taken down first. *)
CanMount(s) == Ready /\ row[s] = "active" /\ mount[s] # "live"

Resident(s) == IF resident[s].loaded THEN resident[s] ELSE LoadResident(s)

Mount(s) ==
  /\ CanMount(s) /\ s \notin stale
  /\ resident' = [resident EXCEPT ![s] = Resident(s)]
  /\ mount' = [mount EXCEPT ![s] = "live"]
  /\ UNCHANGED <<sqlite, dir, journal, blobs, stale, busy, up, crashes>>

(* The dead provider cannot be unmounted; the content cannot be loaded; or  *)
(* FUSE cannot mount, as on a mountpoint that a dead daemon left behind.    *)
MountFails(s) ==
  /\ CanMount(s)
  /\ \/ mount[s] = "dead" /\ "unmount" \in Faults /\ UNCHANGED <<mount, resident>>
     \/ /\ ~resident[s].loaded /\ "load" \in Faults
        /\ mount' = [mount EXCEPT ![s] = "none"] /\ UNCHANGED resident
     \/ /\ "mount" \in Faults \/ s \in stale
        /\ mount' = [mount EXCEPT ![s] = "none"]
        /\ resident' = [resident EXCEPT ![s] = Resident(s)]
  /\ UNCHANGED <<sqlite, dir, journal, blobs, stale, busy, up, crashes>>

(* The journal is synced, then the provider is stopped: edits may come in   *)
(* between.                                                                 *)
UnmountSyncs(s) ==
  /\ Ready /\ mount[s] # "none"
  /\ SyncJournal(s)
  /\ busy' = [op |-> "unmount", of |-> s, then |-> "reply"]
  /\ UNCHANGED <<sqlite, dir, blobs, stale, mount, up, crashes>>

AfterUnmount == busy' = IF busy.then = "shutdown" THEN [op |-> "shutdown"] ELSE Idle

UnmountStops ==
  /\ up /\ busy.op = "unmount"
  /\ mount' = [mount EXCEPT ![busy.of] = "none"]
  /\ AfterUnmount
  /\ UNCHANGED <<sqlite, dir, journal, blobs, stale, resident, up, crashes>>

(* retain_until_unmounted keeps the provider, also when a shutdown asked:   *)
(* alive if the kernel refused, dead if only its scratch tree is left.      *)
UnmountFails ==
  /\ up /\ busy.op = "unmount" /\ "unmount" \in Faults
  /\ mount' = [mount EXCEPT ![busy.of] = "dead"] \/ UNCHANGED mount
  /\ EndRequest
  /\ UNCHANGED <<sqlite, dir, journal, blobs, stale, resident, up, crashes>>

(* Somebody else unmounts: the FUSE loop of the provider ends. *)
ProviderDies(s) ==
  /\ up /\ mount[s] = "live" /\ "dies" \in Faults
  /\ mount' = [mount EXCEPT ![s] = "dead"]
  /\ UNCHANGED <<sqlite, dir, journal, blobs, stale, resident, busy, up, crashes>>

-----------------------------------------------------------------------------
(* Edits of an agent, through FUSE callbacks that run beside the daemon.    *)
(* Scratch paths go to native disk and leave no trace here.                 *)

Editable(s, p) == up /\ mount[s] = "live" /\ p \notin resident[s].scratch

Edited(s, files, dirty) ==
  /\ resident' = [resident EXCEPT ![s].files = files, ![s].dirty = dirty]
  /\ UNCHANGED <<sqlite, dir, journal, blobs, stale, mount, busy, up, crashes>>

(* Mutant: a rename marks its destination only. *)
RenamedDirtyAtDestination(dirty, p, q) == dirty \cup {q}

RenamedDirty(dirty, p, q) == dirty \cup {p, q}

Write(s, p, c) ==
  /\ Editable(s, p)
  /\ Edited(s, [resident[s].files EXCEPT ![p] = c], resident[s].dirty \cup {p})

(* remove_path: a file the baseline does not have leaves no trace. *)
Remove(s, p) ==
  /\ Editable(s, p) /\ resident[s].files[p] # Absent
  /\ Edited(s, [resident[s].files EXCEPT ![p] = Absent],
            IF resident[s].base[p] # Absent THEN resident[s].dirty \cup {p}
                                            ELSE resident[s].dirty \ {p})

Rename(s, p, q) ==
  LET f == resident[s].files IN
  /\ Editable(s, p) /\ Editable(s, q) /\ p # q /\ f[p] # Absent
  /\ Edited(s, [f EXCEPT ![p] = Absent, ![q] = f[p]], RenamedDirty(resident[s].dirty, p, q))

-----------------------------------------------------------------------------
(* GetChangeJournal and GetWorkspaceStatus *)

Status(s) ==
  /\ Ready /\ row[s] # "none"
  /\ IF resident[s].loaded
     THEN SyncJournal(s)
     ELSE /\ dir[s] /\ s \notin stale
          /\ journal' = [journal EXCEPT ![s] = ScannedChanges(s)]
          /\ UNCHANGED resident
  /\ UNCHANGED <<sqlite, dir, blobs, stale, mount, busy, up, crashes>>

-----------------------------------------------------------------------------
(* CommitCheckpoint: checkpoint_with_reader, mark_checkpointed *)

(* Every selected path is in the journal and none of them is scratch. A     *)
(* client that asks for all of nothing may commit an empty selection.       *)
Selectable(s, selected) ==
  /\ \A p \in selected : journal'[s][p] # "none" /\ p \notin scratch[s]
  /\ selected = {} => journal'[s] = Clean

(* Mutant: the journal of the last status is taken for the current one. *)
CheckpointBeginsUnsynced(s) ==
  /\ Ready /\ row[s] = "active" /\ mount[s] = "none" /\ Len(manifests) < MaxManifests
  /\ UNCHANGED <<journal, resident>>
  /\ \E selected \in SUBSET Paths :
       IF Selectable(s, selected)
       THEN busy' = [op |-> "persist", of |-> s, selected |-> selected, left |-> selected]
       ELSE EndRequest
  /\ UNCHANGED <<sqlite, dir, blobs, stale, mount, up, crashes>>

(* The journal is synced whatever comes of the request. *)
CheckpointBegins(s) ==
  /\ Len(manifests) < MaxManifests
  /\ Ready /\ row[s] = "active" /\ mount[s] = "none"
  /\ SyncJournal(s)
  /\ \E selected \in SUBSET Paths :
       IF Selectable(s, selected)
       THEN busy' = [op |-> "persist", of |-> s, selected |-> selected, left |-> selected]
       ELSE EndRequest
  /\ UNCHANGED <<sqlite, dir, blobs, stale, mount, up, crashes>>

(* One selected file after the other is read and its blob made durable.     *)
(* Without a resident it would be read from the mountpoint, which is empty. *)
PersistBlob ==
  /\ up /\ busy.op = "persist"
  /\ \E p \in busy.left :
       /\ \/ journal[busy.of][p] = "delete" /\ UNCHANGED blobs
          \/ /\ journal[busy.of][p] # "delete" /\ resident[busy.of].loaded
             /\ blobs' = blobs \cup {resident[busy.of].files[p]}
       /\ busy' = [busy EXCEPT !.left = @ \ {p}]
  /\ UNCHANGED <<sqlite, dir, journal, stale, resident, mount, up, crashes>>

PersistFails ==
  /\ up /\ busy.op = "persist"
  /\ \/ "store" \in Faults
     \/ \E p \in busy.left : journal[busy.of][p] # "delete" /\ ~resident[busy.of].loaded
  /\ EndRequest
  /\ UNCHANGED <<sqlite, dir, journal, blobs, stale, resident, mount, up, crashes>>

(* retained_parent and apply_selected_changes *)
Parent(s) == IF head[s] = 0 THEN Empty ELSE manifests[head[s]]

Retained(s, selected) ==
  [p \in Paths |-> IF p \notin selected THEN Parent(s)[p]
                   ELSE IF journal[s][p] = "delete" THEN Tomb ELSE Tree(s)[p]]

AllPersisted == busy.left = {}

(* update_baseline *)
NewBaseline(s, selected) ==
  [p \in Paths |-> IF p \in selected THEN Retained(s, selected)[p] ELSE base[s][p]]

(* The transaction of commit_checkpoint. *)
CommitCheckpoint ==
  LET s == busy.of
      new == Retained(s, busy.selected)
  IN
  /\ up /\ busy.op = "persist" /\ AllPersisted
  /\ manifests' = Append(manifests, new)
  /\ head' = [head EXCEPT ![s] = Len(manifests) + 1]
  /\ base' = [base EXCEPT ![s] = NewBaseline(s, busy.selected)]
  /\ journal' = [journal EXCEPT ![s] =
                   [p \in Paths |-> IF p \in busy.selected THEN "none" ELSE @[p]]]
  /\ busy' = IF resident[s].loaded
             THEN [op |-> "mark", of |-> s, selected |-> busy.selected] ELSE Idle
  /\ UNCHANGED <<row, dir, scratch, blobs, stale, resident, mount, up, crashes>>

Marked(r, selected) ==
  [r EXCEPT !.dirty = @ \ selected,
            !.base = [p \in Paths |-> IF p \in selected THEN r.files[p] ELSE @[p]]]

MarkCheckpointed ==
  LET s == busy.of IN
  /\ up /\ busy.op = "mark"
  /\ resident' = [resident EXCEPT ![s] = Marked(@, busy.selected)]
  /\ EndRequest
  /\ UNCHANGED <<sqlite, dir, journal, blobs, stale, mount, up, crashes>>

-----------------------------------------------------------------------------
(* CloseWorkspace, DestroyEphemeralWorkspace, Shutdown *)

CanClose(s) == Ready /\ row[s] # "none" /\ mount[s] = "none"

Close(s) ==
  /\ CanClose(s)
  /\ row' = [row EXCEPT ![s] = "closed"]
  /\ resident' = [resident EXCEPT ![s] = NoResident]
  /\ UNCHANGED <<dir, base, scratch, journal, head, manifests, blobs, stale, mount, busy, up, crashes>>

(* destroy_ephemeral closes the row first ... *)
DestroyCloses(s) ==
  /\ CanClose(s)
  /\ row' = [row EXCEPT ![s] = "closed"]
  /\ busy' = [op |-> "remove", of |-> s]
  /\ UNCHANGED <<dir, base, scratch, journal, head, manifests, blobs, stale, resident, mount, up, crashes>>

(* ... then removes the directory, and only then lets the resident go. *)
DestroyRemoves ==
  LET s == busy.of IN
  /\ up /\ busy.op = "remove" /\ s \notin stale
  /\ dir' = [dir EXCEPT ![s] = FALSE]
  /\ resident' = [resident EXCEPT ![s] = NoResident]
  /\ EndRequest
  /\ UNCHANGED <<sqlite, journal, blobs, stale, mount, up, crashes>>

DestroyFails ==
  /\ up /\ busy.op = "remove" /\ ("remove" \in Faults \/ busy.of \in stale)
  /\ EndRequest
  /\ UNCHANGED <<sqlite, dir, journal, blobs, stale, resident, mount, up, crashes>>

Shutdown ==
  /\ Ready /\ crashes < MaxCrashes
  /\ busy' = [op |-> "shutdown"]
  /\ UNCHANGED <<sqlite, dir, journal, blobs, stale, resident, mount, up, crashes>>

ShutdownUnmounts(s) ==
  /\ up /\ busy.op = "shutdown" /\ mount[s] # "none"
  /\ SyncJournal(s)
  /\ busy' = [op |-> "unmount", of |-> s, then |-> "shutdown"]
  /\ UNCHANGED <<sqlite, dir, blobs, stale, mount, up, crashes>>

(* The process ends, and with it whatever it only had in memory. *)
Stop ==
  /\ up' = FALSE /\ busy' = Idle /\ crashes' = crashes + 1
  /\ resident' = [s \in Sessions |-> NoResident]
  /\ mount' = [s \in Sessions |-> "none"]

ShutdownEnds ==
  /\ up /\ busy.op = "shutdown" /\ \A s \in Sessions : mount[s] = "none"
  /\ Stop
  /\ UNCHANGED <<sqlite, dir, journal, blobs, stale>>

Crash ==
  /\ up /\ crashes < MaxCrashes
  /\ Stop
  /\ stale' = stale \cup {s \in Sessions : mount[s] = "live"}
  /\ UNCHANGED <<sqlite, dir, journal, blobs>>

(* The next client launches the daemon again. *)
Start ==
  /\ ~up /\ up' = TRUE
  /\ UNCHANGED <<sqlite, dir, journal, blobs, stale, resident, mount, busy, crashes>>

(* Somebody runs fusermount -u on what the dead daemon left. *)
ClearStale(s) ==
  /\ s \in stale /\ stale' = stale \ {s}
  /\ UNCHANGED <<sqlite, dir, journal, blobs, resident, mount, busy, up, crashes>>

Request(s) ==
  \/ CreateDirectory(s) \/ CreateRefused(s) \/ Mount(s) \/ MountFails(s) \/ UnmountSyncs(s) \/ Status(s)
  \/ CheckpointBegins(s) \/ Close(s) \/ DestroyCloses(s) \/ ShutdownUnmounts(s)
  \/ \E rules \in Policies : ApplyPolicy(s, rules) \/ RefreshFails(s, rules)

Continue ==
  \/ CreateTransaction \/ CreateFails \/ LoadCreated \/ UnmountStops \/ UnmountFails
  \/ PersistBlob \/ PersistFails \/ CommitCheckpoint \/ MarkCheckpointed
  \/ DestroyRemoves \/ DestroyFails \/ Shutdown \/ ShutdownEnds \/ Crash \/ Start

Edit(s) ==
  \E p \in Paths : Remove(s, p) \/ (\E c \in Contents : Write(s, p, c))
                     \/ \E q \in Paths : Rename(s, p, q)

Next == Continue \/ \E s \in Sessions : Request(s) \/ Edit(s) \/ ProviderDies(s) \/ ClearStale(s)

Spec == Init /\ [][Next]_vars

-----------------------------------------------------------------------------
(* Properties *)

Records == Contents \cup {Absent, Tomb}
Residents == [loaded : {TRUE}, files : [Paths -> Contents \cup {Absent}],
              base : [Paths -> Contents \cup {Absent}],
              dirty : SUBSET Paths, scratch : SUBSET Paths]

(* The rows, trees and mounts have their types; a resident tree never holds *)
(* a tombstone (load_cached, mark_checkpointed).                            *)
TypeOK ==
  /\ row \in [Sessions -> {"none", "active", "closed"}] /\ dir \in [Sessions -> BOOLEAN]
  /\ base \in [Sessions -> [Paths -> Records]] /\ scratch \in [Sessions -> SUBSET Paths]
  /\ journal \in [Sessions -> [Paths -> {"none", "create", "write", "delete"}]]
  /\ \A m \in 1..Len(manifests) : manifests[m] \in [Paths -> Records]
  /\ head \in [Sessions -> 0..Len(manifests)] /\ Len(manifests) <= MaxManifests
  /\ blobs \subseteq Contents /\ stale \subseteq Sessions
  /\ \A s \in Sessions : resident[s] = NoResident \/ resident[s] \in Residents
  /\ mount \in [Sessions -> {"none", "live", "dead"}]
  /\ busy.op \in {"idle", "insert", "load", "unmount", "persist", "mark", "remove", "shutdown"}
  /\ up \in BOOLEAN /\ crashes \in 0..MaxCrashes

(* No active row points at missing files, whatever crashes: the comment of  *)
(* destroy_ephemeral, and the order of create_with_sources_impl.            *)
ActiveHasWorktree == \A s \in Sessions : row[s] = "active" => dir[s]

(* Every content that a manifest retains is in the blob store, also when    *)
(* the daemon dies in between: checkpoint_with_reader persists the files    *)
(* before commit_checkpoint advances the head.                              *)
HeadsAreWhole ==
  \A m \in 1..Len(manifests), p \in Paths : manifests[m][p] \in Contents => manifests[m][p] \in blobs

(* After a restart a session loads what its last checkpoint retained:       *)
(* commit_checkpoint moves the baseline along with the head.                *)
BaselineHoldsHead ==
  \A s \in Sessions, p \in Paths : Parent(s)[p] # Absent => base[s][p] = Parent(s)[p]

(* The dirty set misses nothing: what a sync of the journal would record is *)
(* exactly the difference between the durable baseline and the tree the     *)
(* agent sees (mutations.rs, state.rs, mark_checkpointed).                  *)
NoLostChange ==
  \A s \in Sessions :
    resident[s].loaded /\ ~(busy.op = "mark" /\ busy.of = s) =>
      Changes(resident[s]) = [p \in Paths |-> Kind(Loaded(base[s])[p], resident[s].files[p])]

Committed(s) == head'[s] # head[s]
NewHead(s) == manifests'[head'[s]]

(* A checkpoint leaves the scratch paths of the session as its parent had   *)
(* them ("scratch paths can never be checkpointed", checkpoint.rs).         *)
ScratchIsNotRetained ==
  [][\A s \in Sessions : Committed(s) =>
       \A p \in scratch[s] : NewHead(s)[p] = Parent(s)[p]]_vars

RetainsTree(s) ==
  \A p \in Paths :
    \/ NewHead(s)[p] = Parent(s)[p]
    \/ NewHead(s)[p] = IF Tree(s)[p] = Absent THEN Tomb ELSE Tree(s)[p]

(* With a resident tree, a checkpoint retains of each path what the parent  *)
(* had or what the session has at that moment.                              *)
ResidentCheckpointExact ==
  [][\A s \in Sessions : Committed(s) /\ resident[s].loaded => RetainsTree(s)]_vars

(* The tree of a session changes through its mount only: uncheckpointed     *)
(* edits outlive unmounts, failed requests and policies for as long as the  *)
(* tree is resident ("resident session state remains available to later CLI *)
(* calls").  A refresh that fails drops the tree, and the edits with it.    *)
EditsKept ==
  [][\A s \in Sessions :
       resident[s].loaded /\ resident'[s].loaded /\ mount[s] # "live" /\ up' /\ row'[s] = "active" =>
         Tree(s)' = Tree(s)]_vars

(* Heads, baselines and trees agree: the parts are stated above.            *)
TreesAgree == TypeOK /\ HeadsAreWhole /\ BaselineHoldsHead /\ NoLostChange /\ ActiveHasWorktree

(* What a step may never do to a session's files.                           *)
FilesKept == ScratchIsNotRetained /\ ResidentCheckpointExact /\ EditsKept
=============================================================================
