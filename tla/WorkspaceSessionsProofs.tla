----------------------- MODULE WorkspaceSessionsProofs -----------------------
(***************************************************************************)
(* Proofs about WorkspaceSessions, for every set of sessions, paths and    *)
(* contents, every policy and fault, and a crash between any two steps.    *)
(*                                                                         *)
(* TreesAlwaysAgree and FilesAreKept rest on one inductive invariant,      *)
(* SessionsInv. Beside the parts of TreesAgree it says what a request in   *)
(* progress may rely on: the rows and mounts it found when it began        *)
(* (Underway), the journal a checkpoint selects from and the blobs it has  *)
(* persisted (Persisting), and the distance between the durable baseline   *)
(* and the tree's own from the commit to mark_checkpointed (Marking).      *)
(***************************************************************************)
EXTENDS WorkspaceSessions, TLAPS

-----------------------------------------------------------------------------
(* The inductive invariant *)

(* The request in progress, by what is left of it. *)
Requests ==
  {Idle, [op |-> "shutdown"]}
    \cup [op : {"insert"}, of : Sessions, base : [Paths -> Records], rules : SUBSET Paths]
    \cup [op : {"load", "remove"}, of : Sessions]
    \cup [op : {"unmount"}, of : Sessions, then : {"reply", "shutdown"}]
    \cup [op : {"persist"}, of : Sessions, selected : SUBSET Paths, left : SUBSET Paths]
    \cup [op : {"mark"}, of : Sessions, selected : SUBSET Paths]

(* What TypeOK says of rows, directories, policies and mounts. *)
RowsTyped ==
  /\ row \in [Sessions -> {"none", "active", "closed"}] /\ dir \in [Sessions -> BOOLEAN]
  /\ scratch \in [Sessions -> SUBSET Paths] /\ stale \subseteq Sessions
  /\ mount \in [Sessions -> {"none", "live", "dead"}] /\ up \in BOOLEAN /\ crashes \in 0..MaxCrashes

(* Every tree, every manifest and the request have their shape. *)
TreesTyped == resident \in [Sessions -> Residents \cup {NoResident}]

Shapes ==
  /\ TreesTyped
  /\ manifests \in Seq([Paths -> Records])
  /\ busy \in Requests

(* A session without a row has nothing; a mounted one has a resident tree. *)
RowsFirst ==
  \A s \in Sessions :
    /\ row[s] = "none" => head[s] = 0 /\ ~resident[s].loaded
    /\ mount[s] # "none" => resident[s].loaded

(* What the request in progress found when it began still holds. *)
Underway ==
  /\ busy.op = "insert" => row[busy.of] = "none" /\ dir[busy.of]
  /\ busy.op = "load" => row[busy.of] = "active" /\ ~resident[busy.of].loaded
  /\ busy.op = "unmount" => mount[busy.of] # "none"
  /\ busy.op = "remove" => row[busy.of] = "closed" /\ mount[busy.of] = "none"
  /\ busy.op \in {"persist", "mark"} => row[busy.of] = "active" /\ mount[busy.of] = "none"
  /\ busy.op = "mark" => resident[busy.of].loaded
  /\ busy.op = "persist" => Len(manifests) < MaxManifests
  /\ busy.op = "shutdown" \/ (busy.op = "unmount" /\ busy.then = "shutdown") => crashes < MaxCrashes

(* A checkpoint that is being persisted: the journal is that of the tree,   *)
(* what is selected is in it and not scratch, and what was persisted is in  *)
(* the blob store.                                                          *)
Persisting ==
  busy.op = "persist" =>
    /\ busy.left \subseteq busy.selected
    /\ \A p \in busy.selected : journal[busy.of][p] # "none" /\ p \notin scratch[busy.of]
    /\ resident[busy.of].loaded =>
         \A p \in Paths : journal[busy.of][p] = Changes(resident[busy.of])[p]
    /\ \A p \in busy.selected \ busy.left :
         \/ journal[busy.of][p] = "delete"
         \/ resident[busy.of].loaded /\ resident[busy.of].files[p] \in blobs

(* Between the commit and mark_checkpointed the durable baseline is ahead   *)
(* of the tree's own, by what was selected.                                 *)
Marking ==
  busy.op = "mark" =>
    \A p \in Paths :
      Loaded(base[busy.of])[p] = IF p \in busy.selected THEN resident[busy.of].files[p]
                                                        ELSE resident[busy.of].base[p]

(* A path that is not dirty is as in the tree's baseline, which is the      *)
(* durable one.                                                             *)
Covered(s) ==
  resident[s].loaded =>
    /\ \A p \in Paths \ resident[s].dirty : resident[s].files[p] = resident[s].base[p]
    /\ ~(busy.op = "mark" /\ busy.of = s) =>
         \A p \in Paths : resident[s].base[p] = Loaded(base[s])[p]

DirtyCovers == \A s \in Sessions : Covered(s)

SessionsInv ==
  /\ TypeOK /\ Shapes /\ RowsFirst /\ Underway /\ Persisting /\ Marking /\ DirtyCovers
  /\ ActiveHasWorktree /\ HeadsAreWhole /\ BaselineHoldsHead

-----------------------------------------------------------------------------
(* The operators of the model *)

(* A tree as collect_changes leaves it differs in its dirty set only. *)
LEMMA CleanedFacts ==
  ASSUME NEW r \in Residents
  PROVE  /\ Cleaned(r) \in Residents /\ Cleaned(r).loaded /\ Cleaned(r).files = r.files
         /\ Cleaned(r).base = r.base /\ Cleaned(r).scratch = r.scratch
         /\ Cleaned(r).dirty = {p \in r.dirty : Kind(r.base[p], r.files[p]) # "none"}
<1>1. \A p \in r.dirty : Changes(r)[p] = Kind(r.base[p], r.files[p])
  BY DEF Changes, Residents
<1>2. Cleaned(r) = [r EXCEPT !.dirty = {p \in r.dirty : Changes(r)[p] # "none"}]
  BY DEF Cleaned
<1>3. {p \in r.dirty : Changes(r)[p] # "none"} = {p \in r.dirty : Kind(r.base[p], r.files[p]) # "none"}
  BY <1>1
<1> QED
  BY <1>2, <1>3 DEF Residents

(* A change recorded is a difference, and collecting twice finds the same. *)
LEMMA ChangesFacts ==
  ASSUME NEW r \in Residents
  PROVE  /\ Changes(r) \in [Paths -> {"none", "create", "write", "delete"}]
         /\ \A p \in Paths : /\ Changes(r)[p] = "delete" => r.files[p] = Absent
                             /\ Changes(r)[p] \notin {"none", "delete"} => r.files[p] \in Contents
         /\ Changes(Cleaned(r)) = Changes(r)
<1>1. \A p \in Paths : Changes(r)[p] = IF p \in r.dirty THEN Kind(r.base[p], r.files[p]) ELSE "none"
  BY DEF Changes
<1>2. Changes(Cleaned(r)) = Changes(r)
  BY CleanedFacts DEF Changes
<1>3. \A p \in Paths : r.files[p] \in Contents \cup {Absent}
  BY DEF Residents
<1>4. Changes(r) \in [Paths -> {"none", "create", "write", "delete"}]
  BY DEF Changes, Kind
<1> QED
  BY <1>1, <1>2, <1>3, <1>4 DEF Kind

(* sync_resident_journal: the journal becomes what the tree has changed. *)
LEMMA SyncFacts ==
  ASSUME Shapes, TypeOK, NEW s \in Sessions, SyncJournal(s)
  PROVE  /\ TreesTyped'
         /\ \A t \in Sessions :
              /\ resident'[t].loaded = resident[t].loaded
              /\ t # s \/ ~resident[t].loaded => resident'[t] = resident[t] /\ journal'[t] = journal[t]
              /\ t = s /\ resident[t].loaded => /\ resident'[t] = Cleaned(resident[t])
                                                /\ journal'[t] = Changes(resident[t])
         /\ journal' \in [Sessions -> [Paths -> {"none", "create", "write", "delete"}]]
<1>1. CASE resident[s].loaded
  <2>1. resident[s] \in Residents
    BY <1>1 DEF Shapes, TreesTyped, NoResident
  <2>2. /\ resident' = [resident EXCEPT ![s] = Cleaned(resident[s])]
        /\ journal' = [journal EXCEPT ![s] = Changes(resident[s])]
    BY <1>1 DEF SyncJournal
  <2>3. Cleaned(resident[s]) \in Residents /\ Cleaned(resident[s]).loaded
    BY <2>1, CleanedFacts
  <2>4. Changes(resident[s]) \in [Paths -> {"none", "create", "write", "delete"}]
    BY <2>1, ChangesFacts
  <2>5. resident[s].loaded = TRUE /\ Cleaned(resident[s]).loaded = TRUE
    BY <2>1, <2>3 DEF Residents
  <2> QED
    BY <1>1, <2>2, <2>3, <2>4, <2>5 DEF Shapes, TreesTyped, TypeOK
<1>2. CASE ~resident[s].loaded
  BY <1>2 DEF SyncJournal, Shapes, TreesTyped, TypeOK
<1> QED
  BY <1>1, <1>2

(* load_cached: a loaded tree is its baseline, and holds no tombstone. *)
LEMMA LoadedFacts ==
  ASSUME TypeOK, NEW s \in Sessions
  PROVE  /\ LoadResident(s) \in Residents /\ LoadResident(s).loaded = TRUE
         /\ LoadResident(s).files = Loaded(base[s]) /\ LoadResident(s).base = Loaded(base[s])
         /\ LoadResident(s).dirty = {} /\ LoadResident(s).scratch = scratch[s]
<1>1. Loaded(base[s]) \in [Paths -> Contents \cup {Absent}]
  BY DEF TypeOK, Loaded, Records
<1>2. scratch[s] \in SUBSET Paths
  BY DEF TypeOK
<1> QED
  BY <1>1, <1>2 DEF LoadResident, Residents

(* mark_checkpointed: the selected paths are the tree's baseline now. *)
LEMMA MarkedFacts ==
  ASSUME NEW r \in Residents, NEW selected
  PROVE  /\ Marked(r, selected) \in Residents /\ Marked(r, selected).loaded = TRUE
         /\ Marked(r, selected).files = r.files /\ Marked(r, selected).scratch = r.scratch
         /\ Marked(r, selected).dirty = r.dirty \ selected
<1> DEFINE b == [p \in Paths |-> IF p \in selected THEN r.files[p] ELSE r.base[p]]
<1>1. b \in [Paths -> Contents \cup {Absent}]
  BY DEF Residents
<1>2. Marked(r, selected) = [r EXCEPT !.dirty = r.dirty \ selected, !.base = b]
  BY DEF Marked
<1> HIDE DEF b
<1> QED
  BY <1>1, <1>2 DEF Residents, b

(* The baseline of a tree after mark_checkpointed. *)
LEMMA MarkedBase ==
  ASSUME NEW r \in Residents, NEW selected, NEW p \in Paths
  PROVE  Marked(r, selected).base[p] = IF p \in selected THEN r.files[p] ELSE r.base[p]
BY DEF Marked, Residents

(* A tree that is loaded is one. *)
LEMMA LoadedTree ==
  ASSUME Shapes, NEW s \in Sessions
  PROVE  /\ resident[s].loaded \in BOOLEAN
         /\ resident[s].loaded => resident[s] \in Residents /\ resident[s].loaded = TRUE
         /\ ~resident[s].loaded => resident[s] = NoResident
<1>1. CASE resident[s] \in Residents
  <2>1. resident[s].loaded = TRUE
    BY <1>1 DEF Residents
  <2> QED
    BY <1>1, <2>1
<1>2. CASE resident[s] = NoResident
  <2>1. resident[s].loaded = FALSE
    BY <1>2 DEF NoResident
  <2> QED
    BY <1>2, <2>1
<1> QED
  BY <1>1, <1>2 DEF Shapes, TreesTyped

(* One session's tree is replaced. *)
LEMMA PutFacts ==
  ASSUME Shapes, NEW s \in Sessions, NEW r \in Residents \cup {NoResident},
         resident' = [resident EXCEPT ![s] = r]
  PROVE  /\ TreesTyped'
         /\ resident'[s] = r /\ \A t \in Sessions : t # s => resident'[t] = resident[t]
BY DEF Shapes, TreesTyped

(* An edit changes the files and the dirty set of one tree. *)
LEMMA EditedFacts ==
  ASSUME Shapes, NEW s \in Sessions, NEW files \in [Paths -> Contents \cup {Absent}],
         NEW dirty \in SUBSET Paths, resident[s].loaded, Edited(s, files, dirty)
  PROVE  /\ TreesTyped'
         /\ \A t \in Sessions : t # s => resident'[t] = resident[t]
         /\ resident'[s] \in Residents /\ resident'[s].loaded = TRUE
         /\ resident'[s].files = files /\ resident'[s].dirty = dirty
         /\ resident'[s].base = resident[s].base /\ resident'[s].scratch = resident[s].scratch
<1>1. resident[s] \in Residents
  BY LoadedTree
<1> DEFINE e == [resident[s] EXCEPT !.files = files, !.dirty = dirty]
<1>2. resident' = [resident EXCEPT ![s] = e]
  BY DEF Edited
<1>3. /\ e \in Residents /\ e.loaded = TRUE /\ e.files = files /\ e.dirty = dirty
      /\ e.base = resident[s].base /\ e.scratch = resident[s].scratch
  BY <1>1 DEF Residents
<1> HIDE DEF e
<1> QED
  BY <1>2, <1>3, PutFacts

(* The rules of a tree are replaced. *)
LEMMA PolicyFacts ==
  ASSUME Shapes, NEW s \in Sessions, NEW rules \in SUBSET Paths, resident[s].loaded,
         resident' = [resident EXCEPT ![s].scratch = rules]
  PROVE  /\ TreesTyped'
         /\ \A t \in Sessions : t # s => resident'[t] = resident[t]
         /\ resident'[s] \in Residents /\ resident'[s].loaded = TRUE
         /\ resident'[s].files = resident[s].files /\ resident'[s].dirty = resident[s].dirty
         /\ resident'[s].base = resident[s].base /\ resident'[s].scratch = rules
<1>1. resident[s] \in Residents
  BY LoadedTree
<1> DEFINE e == [resident[s] EXCEPT !.scratch = rules]
<1>2. resident' = [resident EXCEPT ![s] = e]
  OBVIOUS
<1>3. /\ e \in Residents /\ e.loaded = TRUE /\ e.files = resident[s].files
      /\ e.dirty = resident[s].dirty /\ e.base = resident[s].base /\ e.scratch = rules
  BY <1>1 DEF Residents
<1> HIDE DEF e
<1> QED
  BY <1>2, <1>3, PutFacts

(* The session and the selection of the request in progress. *)
LEMMA RequestFacts ==
  ASSUME Shapes
  PROVE  /\ busy.op \notin {"idle", "shutdown"} => busy.of \in Sessions
         /\ busy.op = "insert" => busy.base \in [Paths -> Records] /\ busy.rules \in SUBSET Paths
         /\ busy.op = "persist" => busy.selected \in SUBSET Paths /\ busy.left \in SUBSET Paths
         /\ busy.op = "mark" => busy.selected \in SUBSET Paths
BY DEF Shapes, Requests, Idle

(* Every source of a new session is a tree of records. *)
LEMMA SourceTyped ==
  ASSUME TypeOK, NEW source \in Sources
  PROVE  source \in [Paths -> Records]
<1>1. \A m \in Memories : m \in [Paths -> Records]
  BY SessionsAssumption DEF Memories, TypeOK, Records
<1>2. Empty \in [Paths -> Records]
  BY DEF Empty, Records
<1>3. \A a \in Memories, b \in Memories : Overlay(a, b) \in [Paths -> Records]
  BY <1>1 DEF Overlay
<1> QED
  BY <1>1, <1>2, <1>3 DEF Sources

-----------------------------------------------------------------------------
(* Each step preserves each part. *)

(* Which steps change what. *)
LEMMA Frame ==
  ASSUME Next
  PROVE  /\ ~CommitCheckpoint => UNCHANGED <<manifests, head>>
         /\ ~CommitCheckpoint /\ ~CreateTransaction => base' = base
         /\ ~PersistBlob => blobs' = blobs
         /\ (~CommitCheckpoint /\ \A s \in Sessions : ~SyncJournal(s) /\ ~Status(s)) => journal' = journal
<1>1. ASSUME Continue
      PROVE  /\ ~CommitCheckpoint => UNCHANGED <<manifests, head, journal>>
             /\ ~CommitCheckpoint /\ ~CreateTransaction => base' = base
             /\ ~PersistBlob => blobs' = blobs
  BY <1>1
  DEF Continue, CreateTransaction, CreateFails, LoadCreated, UnmountStops, UnmountFails,
      PersistBlob, PersistFails, CommitCheckpoint, MarkCheckpointed, DestroyRemoves, DestroyFails,
      Shutdown, ShutdownEnds, Crash, Start, sqlite
<1>2. ASSUME NEW s \in Sessions, Request(s)
      PROVE  /\ UNCHANGED <<manifests, head, base, blobs>>
             /\ ~SyncJournal(s) /\ ~Status(s) => journal' = journal
  BY <1>2
  DEF Request, CreateDirectory, CreateRefused, Mount, MountFails, UnmountSyncs, Status,
      CheckpointBegins, Close, DestroyCloses, ShutdownUnmounts, ApplyPolicy, RefreshFails,
      sqlite, vars
<1>3. ASSUME NEW s \in Sessions, Edit(s) \/ ProviderDies(s) \/ ClearStale(s)
      PROVE  UNCHANGED <<manifests, head, base, blobs, journal>>
  BY <1>3 DEF Edit, Remove, Write, Rename, Edited, ProviderDies, ClearStale, sqlite
<1> QED
  BY <1>1, <1>2, <1>3 DEF Next

(* An edit through FUSE: one tree changes, and marks every path it differs  *)
(* at; of a path that was as in the baseline it may clear the mark only     *)
(* where it puts the baseline's state back.                                 *)
LEMMA EditStep ==
  ASSUME Shapes, RowsFirst, NEW s \in Sessions, Edit(s)
  PROVE  /\ mount[s] = "live" /\ resident[s] \in Residents /\ resident[s].loaded
         /\ \E files \in [Paths -> Contents \cup {Absent}], dirty \in SUBSET Paths :
              /\ Edited(s, files, dirty)
              /\ \A p \in Paths \ dirty : (files[p] = resident[s].files[p] /\ p \notin resident[s].dirty)
                                            \/ files[p] = resident[s].base[p]
         /\ TreesTyped' /\ UNCHANGED <<sqlite, dir, journal, blobs, stale, mount, busy, up, crashes>>
<1> DEFINE r == resident[s]
           Marks(files, dirty) ==
             \A p \in Paths \ dirty : (files[p] = r.files[p] /\ p \notin r.dirty) \/ files[p] = r.base[p]
<1>1. mount[s] = "live" /\ resident[s].loaded /\ r \in Residents
  BY LoadedTree DEF Edit, Remove, Write, Rename, Editable, RowsFirst
<1>2. r.files \in [Paths -> Contents \cup {Absent}] /\ r.dirty \in SUBSET Paths
  BY <1>1 DEF Residents
<1>3. \E files \in [Paths -> Contents \cup {Absent}], dirty \in SUBSET Paths :
        Edited(s, files, dirty) /\ Marks(files, dirty)
  <2>1. ASSUME NEW p \in Paths, Remove(s, p)
        PROVE  \E files \in [Paths -> Contents \cup {Absent}], dirty \in SUBSET Paths :
                 Edited(s, files, dirty) /\ Marks(files, dirty)
    <3> DEFINE files == [r.files EXCEPT ![p] = Absent]
               dirty == IF r.base[p] # Absent THEN r.dirty \cup {p} ELSE r.dirty \ {p}
    <3>1. Edited(s, files, dirty)
      BY <2>1 DEF Remove
    <3>2. files \in [Paths -> Contents \cup {Absent}] /\ dirty \in SUBSET Paths
      BY <1>2
    <3>3. Marks(files, dirty)
      BY <1>2
    <3> HIDE DEF files, dirty, Marks
    <3> QED
      BY <3>1, <3>2, <3>3
  <2>2. ASSUME NEW p \in Paths, NEW c \in Contents, Write(s, p, c)
        PROVE  \E files \in [Paths -> Contents \cup {Absent}], dirty \in SUBSET Paths :
                 Edited(s, files, dirty) /\ Marks(files, dirty)
    <3> DEFINE files == [r.files EXCEPT ![p] = c]
               dirty == r.dirty \cup {p}
    <3>1. Edited(s, files, dirty)
      BY <2>2 DEF Write
    <3>2. files \in [Paths -> Contents \cup {Absent}] /\ dirty \in SUBSET Paths
      BY <1>2
    <3>3. Marks(files, dirty)
      BY <1>2
    <3> HIDE DEF files, dirty, Marks
    <3> QED
      BY <3>1, <3>2, <3>3
  <2>3. ASSUME NEW p \in Paths, NEW q \in Paths, Rename(s, p, q)
        PROVE  \E files \in [Paths -> Contents \cup {Absent}], dirty \in SUBSET Paths :
                 Edited(s, files, dirty) /\ Marks(files, dirty)
    <3> DEFINE files == [r.files EXCEPT ![p] = Absent, ![q] = r.files[p]]
               dirty == r.dirty \cup {p, q}
    <3>1. Edited(s, files, dirty)
      BY <2>3 DEF Rename, RenamedDirty
    <3>2. files \in [Paths -> Contents \cup {Absent}] /\ dirty \in SUBSET Paths
      BY <1>2
    <3>3. Marks(files, dirty)
      BY <1>2
    <3> HIDE DEF files, dirty, Marks
    <3> QED
      BY <3>1, <3>2, <3>3
  <2> QED
    BY <2>1, <2>2, <2>3 DEF Edit
<1>4. PICK files \in [Paths -> Contents \cup {Absent}], dirty \in SUBSET Paths : Edited(s, files, dirty)
  BY <1>3
<1>5. TreesTyped'
  BY <1>1, <1>4, EditedFacts DEF TreesTyped
<1> QED
  BY <1>1, <1>3, <1>4, <1>5 DEF Edited

(* The trees keep their shape. *)
LEMMA TreesStep ==
  ASSUME TypeOK, Shapes, RowsFirst, Underway, Next
  PROVE  TreesTyped'
<1> USE SessionsAssumption DEF TreesTyped, sqlite
<1>1. TreesTyped
  BY DEF Shapes
<1>2. ASSUME \/ CreateTransaction \/ CreateFails \/ UnmountStops \/ UnmountFails \/ PersistBlob
             \/ PersistFails \/ CommitCheckpoint \/ DestroyFails \/ Shutdown \/ Start
      PROVE  TreesTyped'
  BY <1>1, <1>2
  DEF CreateTransaction, CreateFails, UnmountStops, UnmountFails, PersistBlob, PersistFails,
      CommitCheckpoint, DestroyFails, Shutdown, Start
<1>3. ASSUME NEW s \in Sessions,
             \/ CreateDirectory(s) \/ CreateRefused(s) \/ DestroyCloses(s) \/ ProviderDies(s)
             \/ ClearStale(s)
      PROVE  TreesTyped'
  BY <1>1, <1>3
  DEF CreateDirectory, CreateRefused, DestroyCloses, ProviderDies, ClearStale, vars
<1>4. ASSUME NEW s \in Sessions, resident' = [resident EXCEPT ![s] = NoResident]
      PROVE  TreesTyped'
  BY <1>4, PutFacts
<1>5. CASE ShutdownEnds \/ Crash
  BY <1>5 DEF ShutdownEnds, Crash, Stop
<1>6. ASSUME NEW s \in Sessions, resident' = [resident EXCEPT ![s] = LoadResident(s)]
      PROVE  TreesTyped'
  BY <1>6, LoadedFacts, PutFacts
<1>7. CASE LoadCreated
  <2>1. busy.of \in Sessions
    BY <1>7, RequestFacts DEF LoadCreated
  <2> QED
    BY <1>1, <1>6, <1>7, <2>1 DEF LoadCreated
<1>8. CASE MarkCheckpointed
  <2>1. busy.of \in Sessions /\ resident[busy.of].loaded
    BY <1>8, RequestFacts DEF MarkCheckpointed, Underway
  <2>2. Marked(resident[busy.of], busy.selected) \in Residents
    BY <2>1, LoadedTree, MarkedFacts
  <2> QED
    BY <1>8, <2>1, <2>2, PutFacts DEF MarkCheckpointed
<1>9. CASE DestroyRemoves
  <2>1. busy.of \in Sessions
    BY <1>9, RequestFacts DEF DestroyRemoves
  <2> QED
    BY <1>4, <1>9, <2>1 DEF DestroyRemoves
<1>10. ASSUME NEW s \in Sessions, Mount(s) \/ MountFails(s)
       PROVE  TreesTyped'
  <2>1. Resident(s) \in Residents
    BY LoadedTree, LoadedFacts DEF Resident
  <2> QED
    BY <1>1, <1>10, <2>1, PutFacts DEF Mount, MountFails
<1>11. ASSUME NEW s \in Sessions,
              \/ UnmountSyncs(s) \/ Status(s) \/ CheckpointBegins(s) \/ ShutdownUnmounts(s)
       PROVE  TreesTyped'
  BY <1>1, <1>11, SyncFacts DEF UnmountSyncs, Status, CheckpointBegins, ShutdownUnmounts
<1>12. ASSUME NEW s \in Sessions, NEW rules \in Policies, ApplyPolicy(s, rules)
       PROVE  TreesTyped'
  BY <1>1, <1>12, PolicyFacts DEF ApplyPolicy
<1>13. ASSUME NEW s \in Sessions, Edit(s)
       PROVE  TreesTyped'
  BY <1>13, EditStep
<1> QED
  BY <1>2, <1>3, <1>4, <1>5, <1>7, <1>8, <1>9, <1>10, <1>11, <1>12, <1>13
  DEF Next, Continue, Request, Close, RefreshFails

(* What remains of a request keeps its shape. *)
LEMMA BusyStep ==
  ASSUME TypeOK, Shapes, Next
  PROVE  busy' \in Requests
<1> USE SessionsAssumption
<1>1. Idle \in Requests /\ [op |-> "shutdown"] \in Requests /\ busy \in Requests
  BY DEF Requests, Shapes
<1>2. ASSUME NEW s \in Sessions
      PROVE  /\ \A b \in [Paths -> Records], r \in SUBSET Paths :
                  [op |-> "insert", of |-> s, base |-> b, rules |-> r] \in Requests
             /\ [op |-> "load", of |-> s] \in Requests /\ [op |-> "remove", of |-> s] \in Requests
             /\ \A t \in {"reply", "shutdown"} : [op |-> "unmount", of |-> s, then |-> t] \in Requests
             /\ \A a \in SUBSET Paths, b \in SUBSET Paths :
                  [op |-> "persist", of |-> s, selected |-> a, left |-> b] \in Requests
             /\ \A a \in SUBSET Paths : [op |-> "mark", of |-> s, selected |-> a] \in Requests
  BY DEF Requests
<1>3. CASE Continue
  <2>1. CASE CreateTransaction
    BY <1>2, <2>1, RequestFacts DEF CreateTransaction
  <2>2. CASE UnmountStops
    BY <1>1, <2>2 DEF UnmountStops, AfterUnmount
  <2>3. CASE PersistBlob
    <3>1. PICK p \in busy.left : busy' = [busy EXCEPT !.left = @ \ {p}]
      BY <2>3 DEF PersistBlob
    <3>2. busy \in [op : {"persist"}, of : Sessions, selected : SUBSET Paths, left : SUBSET Paths]
      BY <2>3 DEF PersistBlob, Shapes, Requests, Idle
    <3>3. busy' \in [op : {"persist"}, of : Sessions, selected : SUBSET Paths, left : SUBSET Paths]
      BY <3>1, <3>2
    <3> QED
      BY <3>3 DEF Requests
  <2>4. CASE CommitCheckpoint
    BY <1>1, <1>2, <2>4, RequestFacts DEF CommitCheckpoint
  <2>5. CASE Shutdown \/ Start
    BY <1>1, <2>5 DEF Shutdown, Start
  <2>6. CASE \/ CreateFails \/ LoadCreated \/ UnmountFails \/ PersistFails \/ MarkCheckpointed
             \/ DestroyRemoves \/ DestroyFails \/ ShutdownEnds \/ Crash
    BY <1>1, <2>6
    DEF CreateFails, LoadCreated, UnmountFails, PersistFails, MarkCheckpointed, DestroyRemoves,
        DestroyFails, ShutdownEnds, Crash, Stop, EndRequest
  <2> QED
    BY <1>3, <2>1, <2>2, <2>3, <2>4, <2>5, <2>6 DEF Continue
<1>4. ASSUME NEW s \in Sessions, Request(s) \/ Edit(s) \/ ProviderDies(s) \/ ClearStale(s)
      PROVE  busy' \in Requests
  <2>1. CASE CreateDirectory(s)
    <3>1. PICK source \in Sources, rules \in Policies :
            busy' = [op |-> "insert", of |-> s, base |-> Baseline(source, rules), rules |-> rules]
      BY <2>1 DEF CreateDirectory
    <3>2. Baseline(source, rules) \in [Paths -> Records]
      BY SourceTyped DEF Baseline, Records
    <3> QED
      BY <1>2, <3>1, <3>2
  <2>2. CASE CheckpointBegins(s)
    <3>1. PICK selected \in SUBSET Paths :
            \/ busy' = [op |-> "persist", of |-> s, selected |-> selected, left |-> selected]
            \/ busy' = Idle
      BY <2>2 DEF CheckpointBegins, EndRequest
    <3>2. [op |-> "persist", of |-> s, selected |-> selected, left |-> selected] \in Requests
      BY <1>2
    <3> QED
      BY <1>1, <3>1, <3>2
  <2>3. CASE UnmountSyncs(s) \/ DestroyCloses(s) \/ ShutdownUnmounts(s)
    BY <1>2, <2>3 DEF UnmountSyncs, DestroyCloses, ShutdownUnmounts
  <2>4. CASE \/ CreateRefused(s) \/ Mount(s) \/ MountFails(s) \/ Status(s) \/ Close(s)
             \/ ProviderDies(s) \/ ClearStale(s)
             \/ \E rules \in Policies : ApplyPolicy(s, rules) \/ RefreshFails(s, rules)
    BY <1>1, <2>4
    DEF CreateRefused, Mount, MountFails, Status, Close, ProviderDies, ClearStale, ApplyPolicy,
        RefreshFails, vars
  <2>5. CASE Edit(s)
    BY <1>1, <2>5 DEF Edit, Remove, Write, Rename, Edited
  <2> QED
    BY <1>4, <2>1, <2>2, <2>3, <2>4, <2>5 DEF Request
<1> QED
  BY <1>3, <1>4 DEF Next

(* The tree a checkpoint retains, and the baseline it moves to. *)
LEMMA RetainedFacts ==
  ASSUME TypeOK, Shapes, NEW s \in Sessions, NEW selected
  PROVE  /\ Parent(s) \in [Paths -> Records] /\ Tree(s) \in [Paths -> Contents \cup {Absent}]
         /\ Retained(s, selected) \in [Paths -> Records]
         /\ NewBaseline(s, selected) \in [Paths -> Records]
         /\ \A p \in Paths :
              /\ Retained(s, selected)[p] =
                   IF p \notin selected THEN Parent(s)[p]
                   ELSE IF journal[s][p] = "delete" THEN Tomb ELSE Tree(s)[p]
              /\ NewBaseline(s, selected)[p] =
                   IF p \in selected THEN Retained(s, selected)[p] ELSE base[s][p]
<1>1. Parent(s) \in [Paths -> Records]
  <2>1. head[s] \in 0..Len(manifests) /\ Len(manifests) \in Nat
    BY DEF TypeOK, Shapes
  <2>2. head[s] # 0 => head[s] \in 1..Len(manifests)
    BY <2>1
  <2>3. Empty \in [Paths -> Records]
    BY DEF Empty, Records
  <2> QED
    BY <2>2, <2>3 DEF Parent, TypeOK
<1>2. Tree(s) \in [Paths -> Contents \cup {Absent}]
  <2>1. CASE resident[s].loaded
    BY <2>1, LoadedTree DEF Tree, Residents
  <2>2. CASE ~resident[s].loaded
    BY <2>2 DEF Tree, Loaded, TypeOK, Records
  <2> QED
    BY <2>1, <2>2
<1>3. Retained(s, selected) \in [Paths -> Records]
  BY <1>1, <1>2 DEF Retained, Records
<1>4. base[s] \in [Paths -> Records]
  BY DEF TypeOK
<1>5. NewBaseline(s, selected) \in [Paths -> Records]
  BY <1>3, <1>4 DEF NewBaseline
<1> QED
  BY <1>1, <1>2, <1>3, <1>5 DEF Retained, NewBaseline

(* One manifest more. *)
LEMMA AppendFacts ==
  ASSUME Shapes, NEW t \in [Paths -> Records], manifests' = Append(manifests, t)
  PROVE  /\ manifests' \in Seq([Paths -> Records]) /\ Len(manifests) \in Nat
         /\ Len(manifests') = Len(manifests) + 1 /\ manifests'[Len(manifests) + 1] = t
         /\ \A m \in 1..Len(manifests) : manifests'[m] = manifests[m]
BY DEF Shapes

(* Every step keeps the shapes. *)
LEMMA ShapesStep ==
  ASSUME TypeOK, Shapes, RowsFirst, Underway, Next
  PROVE  Shapes'
<1>1. manifests' \in Seq([Paths -> Records])
  <2>1. CASE CommitCheckpoint
    <3>1. busy.of \in Sessions /\ manifests' = Append(manifests, Retained(busy.of, busy.selected))
      BY <2>1, RequestFacts DEF CommitCheckpoint
    <3>2. Retained(busy.of, busy.selected) \in [Paths -> Records]
      BY <3>1, RetainedFacts
    <3> QED
      BY <3>1, <3>2, AppendFacts
  <2>2. CASE ~CommitCheckpoint
    BY <2>2, Frame DEF Shapes
  <2> QED
    BY <2>1, <2>2
<1> QED
  BY <1>1, TreesStep, BusyStep DEF Shapes

(* Rows, directories, policies, stale mounts and providers keep their types. *)
LEMMA RowsStep ==
  ASSUME TypeOK, Shapes, Underway, Next
  PROVE  RowsTyped'
<1> USE SessionsAssumption DEF sqlite
<1>1. RowsTyped
  BY DEF TypeOK, RowsTyped
<1>2. CASE CreateTransaction
  <2>1. busy.of \in Sessions /\ busy.rules \in SUBSET Paths
    BY <1>2, RequestFacts DEF CreateTransaction
  <2> QED
    BY <1>1, <1>2, <2>1 DEF CreateTransaction, RowsTyped
<1>3. CASE CreateFails \/ DestroyRemoves
  BY <1>1, <1>3, RequestFacts DEF CreateFails, DestroyRemoves, RowsTyped
<1>4. CASE UnmountStops \/ UnmountFails
  BY <1>1, <1>4, RequestFacts DEF UnmountStops, UnmountFails, RowsTyped
<1>5. CASE ShutdownEnds \/ Crash
  <2>1. crashes < MaxCrashes /\ crashes' = crashes + 1 /\ crashes \in Nat
    BY <1>1, <1>5 DEF ShutdownEnds, Crash, Stop, Underway, RowsTyped
  <2>2. crashes' \in 0..MaxCrashes
    BY <2>1
  <2>3. mount' \in [Sessions -> {"none", "live", "dead"}] /\ up' = FALSE
    BY <1>5 DEF ShutdownEnds, Crash, Stop
  <2>4. UNCHANGED <<row, dir, scratch>> /\ stale' \subseteq Sessions
    BY <1>1, <1>5 DEF ShutdownEnds, Crash, RowsTyped
  <2> QED
    BY <1>1, <2>2, <2>3, <2>4 DEF RowsTyped
<1>7. CASE \/ LoadCreated \/ PersistBlob \/ PersistFails \/ CommitCheckpoint \/ MarkCheckpointed
           \/ DestroyFails \/ Shutdown \/ Start
  BY <1>1, <1>7
  DEF LoadCreated, PersistBlob, PersistFails, CommitCheckpoint, MarkCheckpointed, DestroyFails,
      Shutdown, Start, RowsTyped
<1>6. ASSUME NEW s \in Sessions, CreateDirectory(s) \/ Close(s) \/ DestroyCloses(s)
      PROVE  RowsTyped'
  BY <1>1, <1>6 DEF CreateDirectory, Close, DestroyCloses, RowsTyped
<1>8. ASSUME NEW s \in Sessions,
             \/ Mount(s) \/ MountFails(s) \/ ProviderDies(s) \/ ClearStale(s)
             \/ \E rules \in Policies : ApplyPolicy(s, rules) \/ RefreshFails(s, rules)
      PROVE  RowsTyped'
  <2>1. CASE Mount(s) \/ MountFails(s) \/ ProviderDies(s)
    <3>1. mount' = mount \/ \E m \in {"none", "live", "dead"} : mount' = [mount EXCEPT ![s] = m]
      BY <2>1 DEF Mount, MountFails, ProviderDies
    <3>2. UNCHANGED <<row, dir, scratch, stale, up, crashes>>
      BY <2>1 DEF Mount, MountFails, ProviderDies
    <3> QED
      BY <1>1, <3>1, <3>2 DEF RowsTyped
  <2>2. CASE ClearStale(s)
    BY <1>1, <2>2 DEF ClearStale, RowsTyped
  <2>3. ASSUME NEW rules \in Policies, ApplyPolicy(s, rules) \/ RefreshFails(s, rules)
        PROVE  RowsTyped'
    <3>1. scratch' = [scratch EXCEPT ![s] = rules] /\ UNCHANGED <<row, dir, stale, mount, up, crashes>>
      BY <2>3 DEF ApplyPolicy, RefreshFails
    <3>2. rules \in SUBSET Paths
      OBVIOUS
    <3> QED
      BY <1>1, <3>1, <3>2 DEF RowsTyped
  <2> QED
    BY <1>8, <2>1, <2>2, <2>3
<1>9. ASSUME NEW s \in Sessions,
             \/ CreateRefused(s) \/ UnmountSyncs(s) \/ Status(s) \/ CheckpointBegins(s)
             \/ ShutdownUnmounts(s) \/ Edit(s)
      PROVE  RowsTyped'
  BY <1>1, <1>9
  DEF CreateRefused, UnmountSyncs, Status, CheckpointBegins, ShutdownUnmounts, Edit, Remove,
      Write, Rename, Edited, vars, RowsTyped
<1> QED
  BY <1>2, <1>3, <1>4, <1>5, <1>6, <1>7, <1>8, <1>9 DEF Next, Continue, Request

(* What a checkpoint persists is the content of a file. *)
LEMMA PersistFacts ==
  ASSUME TypeOK, Shapes, Persisting, PersistBlob
  PROVE  /\ busy.of \in Sessions
         /\ \E p \in busy.left :
              /\ p \in Paths
              /\ \/ journal[busy.of][p] = "delete" /\ blobs' = blobs
                 \/ /\ resident[busy.of].loaded /\ resident[busy.of].files[p] \in Contents
                    /\ blobs' = blobs \cup {resident[busy.of].files[p]}
              /\ busy' = [busy EXCEPT !.left = @ \ {p}]
<1>1. busy.op = "persist" /\ busy.of \in Sessions /\ busy.left \in SUBSET Paths
  BY RequestFacts DEF PersistBlob
<1>2. PICK p \in busy.left :
        /\ \/ journal[busy.of][p] = "delete" /\ blobs' = blobs
           \/ /\ journal[busy.of][p] # "delete" /\ resident[busy.of].loaded
              /\ blobs' = blobs \cup {resident[busy.of].files[p]}
        /\ busy' = [busy EXCEPT !.left = @ \ {p}]
  BY DEF PersistBlob
<1>3. p \in Paths /\ journal[busy.of][p] # "none"
  BY <1>1, <1>2 DEF Persisting
<1>4. CASE journal[busy.of][p] # "delete" /\ resident[busy.of].loaded
  <2>1. resident[busy.of] \in Residents /\ journal[busy.of][p] = Changes(resident[busy.of])[p]
    BY <1>1, <1>3, <1>4, LoadedTree DEF Persisting
  <2>2. resident[busy.of].files[p] \in Contents
    BY <1>3, <1>4, <2>1, ChangesFacts
  <2> QED
    BY <1>1, <1>2, <1>3, <1>4, <2>2
<1> QED
  BY <1>1, <1>2, <1>3, <1>4

(* Every step keeps the types. *)
LEMMA TypeStep ==
  ASSUME TypeOK, Shapes, Underway, Persisting, Next, Shapes'
  PROVE  TypeOK'
<1> USE SessionsAssumption
<1>1. RowsTyped'
  BY RowsStep
<1>2. base' \in [Sessions -> [Paths -> Records]]
  <2>1. CASE CreateTransaction
    BY <2>1, RequestFacts DEF CreateTransaction, TypeOK
  <2>2. CASE CommitCheckpoint
    BY <2>2, RequestFacts, RetainedFacts DEF CommitCheckpoint, TypeOK
  <2> QED
    BY <2>1, <2>2, Frame DEF TypeOK
<1>3. journal' \in [Sessions -> [Paths -> {"none", "create", "write", "delete"}]]
  <2>1. CASE CommitCheckpoint
    <3>1. busy.of \in Sessions /\ journal[busy.of] \in [Paths -> {"none", "create", "write", "delete"}]
      BY <2>1, RequestFacts DEF CommitCheckpoint, TypeOK
    <3> QED
      BY <2>1, <3>1 DEF CommitCheckpoint, TypeOK
  <2>2. ASSUME NEW s \in Sessions, SyncJournal(s)
        PROVE  journal' \in [Sessions -> [Paths -> {"none", "create", "write", "delete"}]]
    BY <2>2, SyncFacts
  <2>3. ASSUME NEW s \in Sessions, Status(s)
        PROVE  journal' \in [Sessions -> [Paths -> {"none", "create", "write", "delete"}]]
    <3>1. ScannedChanges(s) \in [Paths -> {"none", "create", "write", "delete"}]
      BY DEF ScannedChanges
    <3> QED
      BY <2>2, <2>3, <3>1 DEF Status, TypeOK
  <2> QED
    BY <2>1, <2>2, <2>3, Frame DEF TypeOK
<1>4. head' \in [Sessions -> 0..Len(manifests')] /\ Len(manifests') <= MaxManifests
  <2>1. CASE CommitCheckpoint
    <3>1. /\ busy.of \in Sessions /\ manifests' = Append(manifests, Retained(busy.of, busy.selected))
          /\ head' = [head EXCEPT ![busy.of] = Len(manifests) + 1] /\ Len(manifests) < MaxManifests
      BY <2>1, RequestFacts DEF CommitCheckpoint, Underway
    <3>2. Len(manifests) \in Nat /\ Len(manifests') = Len(manifests) + 1
      BY <3>1, RetainedFacts, AppendFacts
    <3> QED
      BY <3>1, <3>2 DEF TypeOK
  <2> QED
    BY <2>1, Frame DEF TypeOK
<1>5. blobs' \subseteq Contents
  <2>1. CASE PersistBlob
    BY <2>1, PersistFacts DEF TypeOK
  <2> QED
    BY <2>1, Frame DEF TypeOK
<1>6. \A m \in 1..Len(manifests') : manifests'[m] \in [Paths -> Records]
  BY DEF Shapes
<1>7. \A s \in Sessions : resident'[s] = NoResident \/ resident'[s] \in Residents
  BY DEF Shapes, TreesTyped
<1>8. busy'.op \in {"idle", "insert", "load", "unmount", "persist", "mark", "remove", "shutdown"}
  BY DEF Shapes, Requests, Idle
<1> QED
  BY <1>1, <1>2, <1>3, <1>4, <1>5, <1>6, <1>7, <1>8 DEF TypeOK, RowsTyped

(* Only these steps change a row or a directory. *)
LEMMA WorktreeStep ==
  ASSUME TypeOK, Shapes, Underway, ActiveHasWorktree, Next
  PROVE  ActiveHasWorktree'
<1> USE DEF ActiveHasWorktree, sqlite
<1>1. CASE CreateTransaction
  BY <1>1, RequestFacts DEF CreateTransaction, Underway, TypeOK
<1>2. CASE CreateFails \/ DestroyRemoves
  BY <1>2, RequestFacts DEF CreateFails, DestroyRemoves, Underway, TypeOK
<1>3. CASE \/ LoadCreated \/ UnmountStops \/ UnmountFails \/ PersistBlob \/ PersistFails
           \/ CommitCheckpoint \/ MarkCheckpointed \/ DestroyFails \/ Shutdown \/ ShutdownEnds
           \/ Crash \/ Start
  BY <1>3
  DEF LoadCreated, UnmountStops, UnmountFails, PersistBlob, PersistFails, CommitCheckpoint,
      MarkCheckpointed, DestroyFails, Shutdown, ShutdownEnds, Crash, Start
<1>4. ASSUME NEW s \in Sessions, CreateDirectory(s) \/ Close(s) \/ DestroyCloses(s)
      PROVE  ActiveHasWorktree'
  BY <1>4 DEF CreateDirectory, Close, DestroyCloses, TypeOK
<1>5. ASSUME NEW s \in Sessions,
             \/ CreateRefused(s) \/ Mount(s) \/ MountFails(s) \/ UnmountSyncs(s) \/ Status(s)
             \/ CheckpointBegins(s) \/ ShutdownUnmounts(s) \/ ProviderDies(s) \/ ClearStale(s)
             \/ Edit(s) \/ \E rules \in Policies : ApplyPolicy(s, rules) \/ RefreshFails(s, rules)
      PROVE  ActiveHasWorktree'
  BY <1>5
  DEF CreateRefused, Mount, MountFails, UnmountSyncs, Status, CheckpointBegins, ShutdownUnmounts,
      ProviderDies, ClearStale, Edit, Remove, Write, Rename, Edited, ApplyPolicy, RefreshFails, vars
<1> QED
  BY <1>1, <1>2, <1>3, <1>4, <1>5 DEF Next, Continue, Request

(* Requests follow one another, and edits need a mount. *)
LEMMA RowsUnderwayStep ==
  ASSUME TypeOK, Shapes, RowsFirst, Underway, Next
  PROVE  RowsFirst' /\ Underway'
<1> USE SessionsAssumption DEF RowsFirst, Underway, TypeOK, NoResident, Idle, sqlite
<1>1. CASE CreateTransaction
  BY <1>1, RequestFacts DEF CreateTransaction
<1>2. CASE CreateFails \/ PersistFails \/ DestroyFails
  BY <1>2 DEF CreateFails, PersistFails, DestroyFails, EndRequest
<1>3. CASE LoadCreated
  <2>1. /\ busy.of \in Sessions /\ busy.op = "load" /\ busy' = Idle
        /\ UNCHANGED <<row, head, mount>>
    BY <1>3, RequestFacts DEF LoadCreated, EndRequest
  <2>2. \A t \in Sessions : resident'[t].loaded = resident[t].loaded \/ (t = busy.of /\ resident'[t].loaded)
    BY <1>3, <2>1, LoadedFacts DEF LoadCreated, Shapes, TreesTyped
  <2> QED
    BY <2>1, <2>2
<1>4. CASE UnmountStops \/ UnmountFails
  BY <1>4, RequestFacts DEF UnmountStops, UnmountFails, AfterUnmount, EndRequest
<1>5. CASE PersistBlob
  <2>1. busy \in [op : {"persist"}, of : Sessions, selected : SUBSET Paths, left : SUBSET Paths]
    BY <1>5 DEF PersistBlob, Shapes, Requests
  <2>2. PICK p \in busy.left : busy' = [busy EXCEPT !.left = @ \ {p}]
    BY <1>5 DEF PersistBlob
  <2>3. busy'.op = "persist" /\ busy'.of = busy.of /\ busy.op = "persist"
    BY <2>1, <2>2
  <2> QED
    BY <1>5, <2>3 DEF PersistBlob
<1>6. CASE CommitCheckpoint
  <2>1. /\ busy.of \in Sessions /\ busy.op = "persist" /\ UNCHANGED <<row, resident, mount>>
        /\ \A t \in Sessions : t # busy.of => head'[t] = head[t]
        /\ \/ busy' = Idle
           \/ resident[busy.of].loaded /\ busy' = [op |-> "mark", of |-> busy.of, selected |-> busy.selected]
    BY <1>6, RequestFacts DEF CommitCheckpoint
  <2> QED
    BY <2>1
<1>7. CASE MarkCheckpointed
  <2>1. /\ busy.of \in Sessions /\ busy.op = "mark" /\ resident[busy.of].loaded /\ busy' = Idle
        /\ UNCHANGED <<row, head, mount>>
    BY <1>7, RequestFacts DEF MarkCheckpointed, EndRequest
  <2>2. resident[busy.of] \in Residents /\ resident[busy.of].loaded = TRUE
    BY <2>1, LoadedTree
  <2>3. \A t \in Sessions : resident'[t].loaded = resident[t].loaded
    BY <1>7, <2>1, <2>2, MarkedFacts DEF MarkCheckpointed, Shapes, TreesTyped
  <2> QED
    BY <2>1, <2>3
<1>8. CASE DestroyRemoves
  BY <1>8, RequestFacts DEF DestroyRemoves, EndRequest, Shapes, TreesTyped
<1>9. CASE Shutdown \/ Start
  BY <1>9 DEF Shutdown, Start, Ready
<1>10. CASE ShutdownEnds \/ Crash
  BY <1>10 DEF ShutdownEnds, Crash, Stop
<1>11. ASSUME NEW s \in Sessions,
              \/ CreateDirectory(s) \/ CreateRefused(s) \/ Close(s) \/ DestroyCloses(s)
       PROVE  RowsFirst' /\ Underway'
  BY <1>11 DEF CreateDirectory, CreateRefused, Close, DestroyCloses, CanClose, Ready, vars, Shapes, TreesTyped
<1>12. ASSUME NEW s \in Sessions, Mount(s) \/ MountFails(s)
       PROVE  RowsFirst' /\ Underway'
  <2>1. busy = Idle /\ busy' = Idle /\ row[s] = "active" /\ UNCHANGED <<row, head>>
    BY <1>12 DEF Mount, MountFails, CanMount, Ready
  <2>2. Resident(s).loaded
    BY LoadedFacts DEF Resident
  <2>3. /\ \A t \in Sessions : t # s => resident'[t] = resident[t] /\ mount'[t] = mount[t]
        /\ mount'[s] # "none" => resident'[s].loaded
    BY <1>12, <2>2 DEF Mount, MountFails, CanMount, Shapes, TreesTyped
  <2> QED
    BY <2>1, <2>3
<1>13. ASSUME NEW s \in Sessions,
              \/ UnmountSyncs(s) \/ Status(s) \/ CheckpointBegins(s) \/ ShutdownUnmounts(s)
       PROVE  RowsFirst' /\ Underway'
  <2>1. UNCHANGED <<row, head, mount, manifests, crashes>>
    BY <1>13 DEF UnmountSyncs, Status, CheckpointBegins, ShutdownUnmounts
  <2>2. \A t \in Sessions : resident'[t].loaded = resident[t].loaded
    BY <1>13, SyncFacts DEF UnmountSyncs, Status, CheckpointBegins, ShutdownUnmounts
  <2>3. \/ busy' = Idle
        \/ busy' = [op |-> "unmount", of |-> s, then |-> "reply"] /\ mount[s] # "none"
        \/ /\ busy' = [op |-> "unmount", of |-> s, then |-> "shutdown"] /\ mount[s] # "none"
           /\ busy.op = "shutdown"
        \/ \E a : /\ busy' = [op |-> "persist", of |-> s, selected |-> a, left |-> a]
                  /\ row[s] = "active" /\ mount[s] = "none" /\ Len(manifests) < MaxManifests
    BY <1>13 DEF UnmountSyncs, Status, CheckpointBegins, ShutdownUnmounts, Ready, EndRequest
  <2>4. RowsFirst'
    BY <2>1, <2>2
  <2>5. ASSUME busy' = Idle PROVE Underway'
    BY <2>5
  <2>6. ASSUME NEW then, busy' = [op |-> "unmount", of |-> s, then |-> then], mount[s] # "none",
               then = "shutdown" => busy.op = "shutdown"
        PROVE  Underway'
    BY <2>1, <2>6
  <2>7. ASSUME NEW a, busy' = [op |-> "persist", of |-> s, selected |-> a, left |-> a],
               row[s] = "active", mount[s] = "none", Len(manifests) < MaxManifests
        PROVE  Underway'
    BY <2>1, <2>7
  <2> QED
    BY <2>3, <2>4, <2>5, <2>6, <2>7
<1>14. ASSUME NEW s \in Sessions, NEW rules \in Policies, ApplyPolicy(s, rules) \/ RefreshFails(s, rules)
       PROVE  RowsFirst' /\ Underway'
  <2>1. /\ busy = Idle /\ busy' = Idle /\ row[s] = "active" /\ mount[s] = "none"
        /\ UNCHANGED <<row, head, mount>>
    BY <1>14 DEF ApplyPolicy, RefreshFails, Ready
  <2>2. \A t \in Sessions : t # s => resident'[t] = resident[t]
    BY <1>14, PolicyFacts DEF ApplyPolicy, RefreshFails, Shapes, TreesTyped
  <2> QED
    BY <2>1, <2>2
<1>15. ASSUME NEW s \in Sessions, ProviderDies(s) \/ ClearStale(s)
       PROVE  RowsFirst' /\ Underway'
  BY <1>15, RequestFacts DEF ProviderDies, ClearStale
<1>16. ASSUME NEW s \in Sessions, Edit(s)
       PROVE  RowsFirst' /\ Underway'
  <2>1. resident[s].loaded /\ UNCHANGED <<sqlite, dir, journal, blobs, stale, mount, busy, up, crashes>>
    BY <1>16, EditStep
  <2>2. PICK files \in [Paths -> Contents \cup {Absent}], dirty \in SUBSET Paths : Edited(s, files, dirty)
    BY <1>16, EditStep
  <2>3. resident'[s].loaded /\ \A t \in Sessions : t # s => resident'[t] = resident[t]
    BY <2>1, <2>2, EditedFacts
  <2> QED
    BY <2>1, <2>3, RequestFacts
<1> QED
  BY <1>1, <1>2, <1>3, <1>4, <1>5, <1>6, <1>7, <1>8, <1>9, <1>10, <1>11, <1>12, <1>13, <1>14, <1>15, <1>16
  DEF Next, Continue, Request

(* While a checkpoint is under way the daemon does nothing else, and no edit *)
(* reaches its session.                                                     *)
LEMMA CheckpointAlone ==
  ASSUME TypeOK, Shapes, RowsFirst, Underway, Next, busy'.op \in {"persist", "mark"}
  PROVE  \/ CommitCheckpoint
         \/ \E s \in Sessions : CheckpointBegins(s)
         \/ PersistBlob
         \/ /\ busy' = busy /\ busy.of \in Sessions
            /\ UNCHANGED <<journal, base, scratch, blobs>> /\ resident'[busy.of] = resident[busy.of]
<1> DEFINE Apart == /\ busy' = busy /\ busy.of \in Sessions
                    /\ UNCHANGED <<journal, base, scratch, blobs>>
                    /\ resident'[busy.of] = resident[busy.of]
<1>1. ASSUME Continue, ~CommitCheckpoint, ~PersistBlob
      PROVE  Apart
  <2>1. CASE Start
    <3>1. UNCHANGED <<journal, base, scratch, blobs, resident, busy>>
      BY <2>1 DEF Start, sqlite
    <3> QED
      BY <3>1, RequestFacts
  <2>2. CASE ~Start
    BY <1>1, <2>2
    DEF Continue, CreateTransaction, CreateFails, LoadCreated, UnmountStops, UnmountFails,
        PersistFails, MarkCheckpointed, DestroyRemoves, DestroyFails, Shutdown, ShutdownEnds,
        Crash, Stop, EndRequest, AfterUnmount, Idle
  <2> QED
    BY <2>1, <2>2
<1>2. ASSUME NEW s \in Sessions, Request(s), ~CheckpointBegins(s)
      PROVE  FALSE
  BY <1>2
  DEF Request, CreateDirectory, CreateRefused, Mount, MountFails, CanMount, UnmountSyncs, Status,
      Close, CanClose, DestroyCloses, ShutdownUnmounts, ApplyPolicy, RefreshFails, Ready, Idle, vars
<1>3. ASSUME NEW s \in Sessions, Edit(s)
      PROVE  Apart
  <2>1. /\ mount[s] = "live" /\ resident[s].loaded
        /\ UNCHANGED <<sqlite, dir, journal, blobs, stale, mount, busy, up, crashes>>
    BY <1>3, EditStep
  <2>2. busy' = busy /\ busy.of \in Sessions /\ busy.of # s
    BY <2>1, RequestFacts DEF Underway
  <2>3. PICK files \in [Paths -> Contents \cup {Absent}], dirty \in SUBSET Paths : Edited(s, files, dirty)
    BY <1>3, EditStep
  <2>4. resident'[busy.of] = resident[busy.of]
    BY <2>1, <2>2, <2>3, EditedFacts
  <2> QED
    BY <2>1, <2>2, <2>4 DEF sqlite
<1>4. ASSUME NEW s \in Sessions, ProviderDies(s) \/ ClearStale(s)
      PROVE  Apart
  <2>1. UNCHANGED <<journal, base, scratch, blobs, resident, busy>>
    BY <1>4 DEF ProviderDies, ClearStale, sqlite
  <2> QED
    BY <2>1, RequestFacts
<1> QED
  BY <1>1, <1>2, <1>3, <1>4 DEF Next

(* What a checkpoint selects is what the synced journal has of the tree. *)
LEMMA PersistingStep ==
  ASSUME TypeOK, Shapes, RowsFirst, Underway, Persisting, Next
  PROVE  Persisting'
<1> SUFFICES ASSUME busy'.op = "persist" PROVE Persisting'
  BY DEF Persisting
<1>1. ~CommitCheckpoint
  BY DEF CommitCheckpoint, Idle
<1>2. ASSUME NEW s \in Sessions, CheckpointBegins(s)
      PROVE  Persisting'
  <2>1. PICK selected \in SUBSET Paths :
          /\ \A p \in selected : journal'[s][p] # "none" /\ p \notin scratch[s]
          /\ busy' = [op |-> "persist", of |-> s, selected |-> selected, left |-> selected]
    BY <1>2 DEF CheckpointBegins, Selectable, EndRequest, Idle
  <2>2. SyncJournal(s) /\ scratch' = scratch
    BY <1>2 DEF CheckpointBegins, sqlite
  <2>3. /\ resident'[s].loaded = resident[s].loaded
        /\ resident[s].loaded => /\ resident'[s] = Cleaned(resident[s])
                                 /\ journal'[s] = Changes(resident[s])
    BY <2>2, SyncFacts
  <2>4. resident'[s].loaded => journal'[s] = Changes(resident'[s])
    BY <2>3, LoadedTree, ChangesFacts
  <2>5. busy'.of = s /\ busy'.selected = selected /\ busy'.left = selected
    BY <2>1
  <2> QED
    BY <2>1, <2>2, <2>4, <2>5 DEF Persisting, Changes
<1>3. CASE PersistBlob
  <2>1. PICK p \in busy.left :
          /\ \/ journal[busy.of][p] = "delete"
             \/ resident[busy.of].loaded /\ resident[busy.of].files[p] \in blobs'
          /\ busy' = [busy EXCEPT !.left = @ \ {p}]
    BY <1>3 DEF PersistBlob
  <2>2. /\ busy.op = "persist" /\ blobs \subseteq blobs' /\ UNCHANGED <<journal, scratch, resident>>
    BY <1>3 DEF PersistBlob, sqlite
  <2>3. busy \in [op : {"persist"}, of : Sessions, selected : SUBSET Paths, left : SUBSET Paths]
    BY <2>2 DEF Shapes, Requests, Idle
  <2>4. busy'.of = busy.of /\ busy'.selected = busy.selected /\ busy'.left = busy.left \ {p}
    BY <2>1, <2>3
  <2> QED
    BY <2>1, <2>2, <2>4 DEF Persisting, Changes
<1>4. CASE /\ busy' = busy /\ busy.of \in Sessions
           /\ UNCHANGED <<journal, base, scratch, blobs>> /\ resident'[busy.of] = resident[busy.of]
  BY <1>4 DEF Persisting, Changes
<1> QED
  BY <1>1, <1>2, <1>3, <1>4, CheckpointAlone

(* The durable baseline that a commit leaves is the tree's own, moved by what *)
(* was selected.                                                            *)
LEMMA MarkingStep ==
  ASSUME TypeOK, Shapes, RowsFirst, Underway, Persisting, Marking, DirtyCovers, Next
  PROVE  Marking'
<1> USE SessionsAssumption
<1> SUFFICES ASSUME busy'.op = "mark" PROVE Marking'
  BY DEF Marking
<1>1. CASE CommitCheckpoint
  <2> DEFINE s == busy.of
             b == NewBaseline(s, busy.selected)
  <2>1. /\ s \in Sessions /\ busy.op = "persist" /\ busy.selected \in SUBSET Paths
        /\ base' = [base EXCEPT ![s] = b] /\ resident' = resident /\ resident[s].loaded
        /\ busy' = [op |-> "mark", of |-> s, selected |-> busy.selected]
    BY <1>1, RequestFacts DEF CommitCheckpoint, Idle
  <2>2. base'[s] = b /\ busy'.of = s /\ busy'.selected = busy.selected
    BY <2>1 DEF TypeOK
  <2>3. resident[s] \in Residents /\ Tree(s) = resident[s].files
    BY <2>1, LoadedTree DEF Tree
  <2>4. ASSUME NEW p \in Paths
        PROVE  Loaded(b)[p] = IF p \in busy.selected THEN resident[s].files[p] ELSE resident[s].base[p]
    <3>1. resident[s].base[p] = Loaded(base[s])[p]
      BY <2>1 DEF DirtyCovers, Covered
    <3>2. CASE p \notin busy.selected
      BY <2>1, <3>1, <3>2, RetainedFacts DEF Loaded
    <3>3. CASE p \in busy.selected
      <4>1. b[p] = IF journal[s][p] = "delete" THEN Tomb ELSE resident[s].files[p]
        BY <2>1, <2>3, <3>3, RetainedFacts
      <4>2. journal[s][p] = Changes(resident[s])[p]
        BY <2>1 DEF Persisting
      <4>3. journal[s][p] = "delete" => resident[s].files[p] = Absent
        BY <2>3, <4>2, ChangesFacts
      <4>4. resident[s].files[p] # Tomb
        BY <2>3 DEF Residents, Absent, Tomb
      <4> QED
        BY <3>3, <4>1, <4>3, <4>4 DEF Loaded
    <3> QED
      BY <3>2, <3>3
  <2> HIDE DEF b, s
  <2>5. \A p \in Paths : Loaded(base'[s])[p] =
          IF p \in busy.selected THEN resident[s].files[p] ELSE resident[s].base[p]
    BY <2>2, <2>4
  <2> QED
    BY <2>1, <2>2, <2>5 DEF Marking, Loaded
<1>2. ~PersistBlob /\ \A s \in Sessions : ~CheckpointBegins(s)
  <2>1. ~PersistBlob
    <3> SUFFICES ASSUME PersistBlob PROVE FALSE
      OBVIOUS
    <3>1. busy \in [op : {"persist"}, of : Sessions, selected : SUBSET Paths, left : SUBSET Paths]
      BY DEF PersistBlob, Shapes, Requests, Idle
    <3>2. PICK p \in busy.left : busy' = [busy EXCEPT !.left = @ \ {p}]
      BY DEF PersistBlob
    <3> QED
      BY <3>1, <3>2
  <2>2. \A s \in Sessions : ~CheckpointBegins(s)
    BY DEF CheckpointBegins, EndRequest, Idle
  <2> QED
    BY <2>1, <2>2
<1>3. CASE /\ busy' = busy /\ busy.of \in Sessions
           /\ UNCHANGED <<journal, base, scratch, blobs>> /\ resident'[busy.of] = resident[busy.of]
  BY <1>3 DEF Marking, Loaded
<1> QED
  BY <1>1, <1>2, <1>3, CheckpointAlone

(* Every step that changes a tree marks what it changes. *)
LEMMA DirtyCoversStep ==
  ASSUME TypeOK, Shapes, RowsFirst, Underway, Persisting, Marking, DirtyCovers, Next
  PROVE  DirtyCovers'
<1> USE SessionsAssumption DEF sqlite
<1> SUFFICES ASSUME NEW t \in Sessions PROVE Covered(t)'
  BY DEF DirtyCovers
<1>0. Covered(t)
  BY DEF DirtyCovers
<1>1. ASSUME resident'[t] = resident[t], base'[t] = base[t],
             busy.op = "mark" /\ busy.of = t => busy' = busy
      PROVE  Covered(t)'
  BY <1>0, <1>1 DEF Covered, Loaded
<1>2. ASSUME resident'[t] = NoResident
      PROVE  Covered(t)'
  BY <1>2 DEF Covered, NoResident
<1>3. ASSUME resident'[t] = LoadResident(t), base' = base
      PROVE  Covered(t)'
  <2>1. /\ resident'[t].files = Loaded(base[t]) /\ resident'[t].base = Loaded(base[t])
        /\ Loaded(base[t])' = Loaded(base[t])
    BY <1>3, LoadedFacts DEF Loaded
  <2> QED
    BY <1>3, <2>1 DEF Covered
<1>4. CASE \/ CreateFails \/ UnmountStops \/ UnmountFails \/ PersistBlob \/ PersistFails
           \/ DestroyFails \/ Shutdown \/ Start
  BY <1>1, <1>4
  DEF CreateFails, UnmountStops, UnmountFails, PersistBlob, PersistFails, DestroyFails, Shutdown,
      Start, Ready, Idle
<1>5. CASE CreateTransaction
  <2>1. /\ busy.of \in Sessions /\ ~resident[busy.of].loaded /\ resident' = resident
        /\ busy.op = "insert" /\ (t # busy.of => base'[t] = base[t])
    BY <1>5, RequestFacts DEF CreateTransaction, Underway, RowsFirst, TypeOK
  <2>2. CASE t = busy.of
    BY <2>1, <2>2 DEF Covered
  <2> QED
    BY <1>1, <2>1, <2>2
<1>6. CASE LoadCreated
  <2>1. busy.of \in Sessions /\ busy.op = "load" /\ base' = base
    BY <1>6, RequestFacts DEF LoadCreated
  <2>2. resident'[t] = resident[t] \/ (t = busy.of /\ resident'[t] = LoadResident(t))
    BY <1>6, <2>1 DEF LoadCreated, Shapes, TreesTyped
  <2> QED
    BY <1>1, <1>3, <2>1, <2>2
<1>7. CASE CommitCheckpoint
  <2>1. /\ busy.of \in Sessions /\ busy.op = "persist" /\ resident' = resident
        /\ t # busy.of => base'[t] = base[t]
        /\ resident[busy.of].loaded => busy'.op = "mark" /\ busy'.of = busy.of
    BY <1>7, RequestFacts DEF CommitCheckpoint, TypeOK
  <2>2. CASE t = busy.of
    BY <1>0, <2>1, <2>2 DEF Covered
  <2> QED
    BY <1>1, <2>1, <2>2
<1>8. CASE MarkCheckpointed
  <2> DEFINE s == busy.of
  <2>1. /\ s \in Sessions /\ busy.op = "mark" /\ resident[s].loaded /\ base' = base
        /\ resident' = [resident EXCEPT ![s] = Marked(resident[s], busy.selected)]
    BY <1>8, RequestFacts DEF MarkCheckpointed, Underway
  <2>2. CASE t = s
    <3>1. resident[s] \in Residents /\ resident'[t] = Marked(resident[s], busy.selected)
      BY <2>1, <2>2, LoadedTree DEF Shapes, TreesTyped
    <3>2. /\ resident'[t].files = resident[s].files /\ resident'[t].dirty = resident[s].dirty \ busy.selected
          /\ \A p \in Paths : resident'[t].base[p] =
               IF p \in busy.selected THEN resident[s].files[p] ELSE resident[s].base[p]
      <4> DEFINE r == resident[s]
                 m == Marked(r, busy.selected)
      <4>1. r \in Residents
        BY <3>1
      <4>2. m.files = r.files /\ m.dirty = r.dirty \ busy.selected
        BY <4>1, MarkedFacts
      <4>3. \A p \in Paths : m.base[p] = IF p \in busy.selected THEN r.files[p] ELSE r.base[p]
        BY <4>1, MarkedBase
      <4>4. resident'[t] = m
        BY <3>1
      <4> HIDE DEF m
      <4> QED
        BY <4>2, <4>3, <4>4
    <3>3. \A p \in Paths : Loaded(base[s])[p] =
            IF p \in busy.selected THEN resident[s].files[p] ELSE resident[s].base[p]
      BY <2>1 DEF Marking
    <3>4. \A p \in Paths \ resident[s].dirty : resident[s].files[p] = resident[s].base[p]
      BY <1>0, <2>1, <2>2 DEF Covered
    <3>5. \A p \in Paths \ resident'[t].dirty : resident'[t].files[p] = resident'[t].base[p]
      BY <3>2, <3>4
    <3>6. \A p \in Paths : resident'[t].base[p] = Loaded(base'[t])[p]
      BY <2>1, <2>2, <3>2, <3>3
    <3> QED
      BY <3>5, <3>6 DEF Covered, Loaded
  <2>3. CASE t # s
    <3>1. resident'[t] = resident[t]
      BY <2>1, <2>3 DEF Shapes, TreesTyped
    <3> QED
      BY <1>1, <2>1, <2>3, <3>1
  <2> QED
    BY <2>2, <2>3
<1>9. CASE DestroyRemoves
  <2>1. busy.of \in Sessions /\ busy.op = "remove" /\ base' = base
    BY <1>9, RequestFacts DEF DestroyRemoves
  <2>2. resident'[t] = resident[t] \/ resident'[t] = NoResident
    BY <1>9, <2>1 DEF DestroyRemoves, Shapes, TreesTyped
  <2> QED
    BY <1>1, <1>2, <2>1, <2>2
<1>10. CASE ShutdownEnds \/ Crash
  BY <1>2, <1>10 DEF ShutdownEnds, Crash, Stop
<1>11. ASSUME NEW s \in Sessions,
              \/ CreateDirectory(s) \/ CreateRefused(s) \/ DestroyCloses(s) \/ ProviderDies(s)
              \/ ClearStale(s)
       PROVE  Covered(t)'
  BY <1>1, <1>11
  DEF CreateDirectory, CreateRefused, DestroyCloses, CanClose, ProviderDies, ClearStale, Ready,
      Idle, vars
<1>12. ASSUME NEW s \in Sessions, Mount(s) \/ MountFails(s)
       PROVE  Covered(t)'
  <2>1. base' = base /\ busy' = busy
    BY <1>12 DEF Mount, MountFails
  <2>2. resident'[t] = resident[t] \/ (t = s /\ resident'[t] = Resident(s))
    BY <1>12 DEF Mount, MountFails, Shapes, TreesTyped
  <2>3. resident'[t] = resident[t] \/ resident'[t] = LoadResident(t)
    BY <2>2 DEF Resident
  <2> QED
    BY <1>1, <1>3, <2>1, <2>3
<1>13. ASSUME NEW s \in Sessions, base' = base, busy.op # "mark", SyncJournal(s)
       PROVE  Covered(t)'
  <2>1. CASE t = s /\ resident[t].loaded
    <3>1. resident[t] \in Residents /\ resident'[t] = Cleaned(resident[t])
      BY <1>13, <2>1, LoadedTree, SyncFacts
    <3>2. /\ resident'[t].files = resident[t].files /\ resident'[t].base = resident[t].base
          /\ resident'[t].dirty =
               {p \in resident[t].dirty : Kind(resident[t].base[p], resident[t].files[p]) # "none"}
      BY <3>1, CleanedFacts
    <3>3. \A p \in Paths \ resident'[t].dirty : resident'[t].files[p] = resident'[t].base[p]
      BY <1>0, <2>1, <3>2 DEF Covered, Kind
    <3>4. \A p \in Paths : resident'[t].base[p] = Loaded(base'[t])[p]
      BY <1>0, <1>13, <2>1, <3>2 DEF Covered
    <3> QED
      BY <3>3, <3>4 DEF Covered, Loaded
  <2>2. CASE t # s \/ ~resident[t].loaded
    BY <1>1, <1>13, <2>2, SyncFacts
  <2> QED
    BY <2>1, <2>2
<1>14. ASSUME NEW s \in Sessions,
              \/ UnmountSyncs(s) \/ Status(s) \/ CheckpointBegins(s) \/ ShutdownUnmounts(s)
       PROVE  Covered(t)'
  <2>1. base' = base /\ busy.op # "mark"
    BY <1>14 DEF UnmountSyncs, Status, CheckpointBegins, ShutdownUnmounts, Ready, Idle
  <2>2. SyncJournal(s) \/ resident' = resident
    BY <1>14 DEF UnmountSyncs, Status, CheckpointBegins, ShutdownUnmounts
  <2> QED
    BY <1>1, <1>13, <2>1, <2>2
<1>15. ASSUME NEW s \in Sessions, NEW rules \in Policies, ApplyPolicy(s, rules)
       PROVE  Covered(t)'
  <2>1. base' = base /\ busy' = busy
    BY <1>15 DEF ApplyPolicy
  <2>2. CASE t = s /\ resident[s].loaded
    <3>1. /\ resident'[t].files = resident[t].files /\ resident'[t].base = resident[t].base
          /\ resident'[t].dirty = resident[t].dirty
      BY <1>15, <2>2, PolicyFacts DEF ApplyPolicy
    <3> QED
      BY <1>0, <2>1, <2>2, <3>1 DEF Covered, Loaded
  <2>3. CASE t # s \/ ~resident[s].loaded
    <3>1. resident'[t] = resident[t]
      BY <1>15, <2>3, PolicyFacts DEF ApplyPolicy
    <3> QED
      BY <1>1, <2>1, <3>1
  <2> QED
    BY <2>2, <2>3
<1>16. ASSUME NEW s \in Sessions,
              Close(s) \/ \E rules \in Policies : RefreshFails(s, rules)
       PROVE  Covered(t)'
  <2>1. base' = base /\ busy' = busy /\ resident' = [resident EXCEPT ![s] = NoResident]
    BY <1>16 DEF Close, RefreshFails
  <2>2. resident'[t] = resident[t] \/ resident'[t] = NoResident
    BY <2>1 DEF Shapes, TreesTyped
  <2> QED
    BY <1>1, <1>2, <2>1, <2>2
<1>17. ASSUME NEW s \in Sessions, Edit(s)
       PROVE  Covered(t)'
  <2>1. base' = base /\ busy' = busy /\ resident[s].loaded
    BY <1>17, EditStep
  <2>2. PICK files \in [Paths -> Contents \cup {Absent}], dirty \in SUBSET Paths :
          /\ Edited(s, files, dirty)
          /\ \A p \in Paths \ dirty : (files[p] = resident[s].files[p] /\ p \notin resident[s].dirty)
                                        \/ files[p] = resident[s].base[p]
    BY <1>17, EditStep
  <2>3. CASE t = s
    <3>1. resident'[t].files = files /\ resident'[t].base = resident[t].base /\ resident'[t].dirty = dirty
      BY <2>1, <2>2, <2>3, EditedFacts
    <3>2. \A p \in Paths \ resident'[t].dirty : resident'[t].files[p] = resident'[t].base[p]
      BY <1>0, <2>1, <2>2, <2>3, <3>1 DEF Covered
    <3> QED
      BY <1>0, <2>1, <2>3, <3>1, <3>2 DEF Covered, Loaded
  <2>4. CASE t # s
    <3>1. resident'[t] = resident[t]
      BY <2>1, <2>2, <2>4, EditedFacts
    <3> QED
      BY <1>1, <2>1, <3>1
  <2> QED
    BY <2>3, <2>4
<1> QED
  BY <1>4, <1>5, <1>6, <1>7, <1>8, <1>9, <1>10, <1>11, <1>12, <1>14, <1>15, <1>16, <1>17
  DEF Next, Continue, Request

(* A checkpoint commits when every selected file is in the blob store. *)
LEMMA HeadsStep ==
  ASSUME TypeOK, Shapes, Persisting, HeadsAreWhole, Next
  PROVE  HeadsAreWhole'
<1> USE SessionsAssumption
<1>1. CASE CommitCheckpoint
  <2> DEFINE s == busy.of
             new == Retained(s, busy.selected)
  <2>1. /\ s \in Sessions /\ manifests' = Append(manifests, new) /\ blobs' = blobs
        /\ busy.op = "persist" /\ busy.left = {} /\ busy.selected \in SUBSET Paths
    BY <1>1, RequestFacts DEF CommitCheckpoint, AllPersisted
  <2>2. ASSUME NEW p \in Paths, new[p] \in Contents
        PROVE  new[p] \in blobs
    <3>1. CASE p \notin busy.selected
      <4>1. new[p] = Parent(s)[p]
        BY <2>1, <3>1, RetainedFacts
      <4>2. head[s] # 0 /\ Parent(s) = manifests[head[s]]
        BY <2>2, <4>1 DEF Parent, Empty
      <4>3. head[s] \in 1..Len(manifests)
        BY <2>1, <4>2 DEF TypeOK, Shapes
      <4> QED
        BY <2>2, <4>1, <4>2, <4>3 DEF HeadsAreWhole
    <3>2. CASE p \in busy.selected
      <4>1. journal[s][p] # "delete" /\ new[p] = Tree(s)[p]
        BY <2>1, <2>2, <3>2, RetainedFacts
      <4>2. resident[s].loaded /\ resident[s].files[p] \in blobs
        BY <2>1, <3>2, <4>1 DEF Persisting
      <4> QED
        BY <4>1, <4>2 DEF Tree
    <3> QED
      BY <3>1, <3>2
  <2>3. new \in [Paths -> Records]
    BY <2>1, RetainedFacts
  <2> HIDE DEF new, s
  <2>4. /\ Len(manifests) \in Nat /\ Len(manifests') = Len(manifests) + 1
        /\ manifests'[Len(manifests) + 1] = new
        /\ \A m \in 1..Len(manifests) : manifests'[m] = manifests[m]
    BY <2>1, <2>3, AppendFacts
  <2>5. \A m \in 1..Len(manifests') : m \in 1..Len(manifests) \/ m = Len(manifests) + 1
    BY <2>4
  <2> QED
    BY <2>1, <2>2, <2>4, <2>5 DEF HeadsAreWhole
<1>2. CASE ~CommitCheckpoint
  <2>1. blobs \subseteq blobs'
    BY Frame DEF PersistBlob
  <2> QED
    BY <1>2, <2>1, Frame DEF HeadsAreWhole
<1> QED
  BY <1>1, <1>2

(* The baseline moves along with the head. *)
LEMMA BaselineStep ==
  ASSUME TypeOK, Shapes, RowsFirst, Underway, BaselineHoldsHead, Next
  PROVE  BaselineHoldsHead'
<1>1. CASE CommitCheckpoint
  <2> DEFINE s == busy.of
             new == Retained(s, busy.selected)
  <2>1. /\ s \in Sessions /\ manifests' = Append(manifests, new)
        /\ head' = [head EXCEPT ![s] = Len(manifests) + 1]
        /\ base' = [base EXCEPT ![s] = NewBaseline(s, busy.selected)]
    BY <1>1, RequestFacts DEF CommitCheckpoint
  <2>2. /\ new \in [Paths -> Records]
        /\ \A p \in Paths : /\ p \notin busy.selected => new[p] = Parent(s)[p]
                            /\ NewBaseline(s, busy.selected)[p] =
                                 IF p \in busy.selected THEN new[p] ELSE base[s][p]
    BY <2>1, RetainedFacts
  <2> HIDE DEF new, s
  <2>3. /\ Len(manifests) \in Nat /\ manifests'[Len(manifests) + 1] = new
        /\ \A m \in 1..Len(manifests) : manifests'[m] = manifests[m]
    BY <2>1, <2>2, AppendFacts
  <2>4. ASSUME NEW t \in Sessions, NEW p \in Paths
        PROVE  Parent(t)'[p] # Absent => base'[t][p] = Parent(t)'[p]
    <3>1. CASE t = s
      <4>1. head'[t] = Len(manifests) + 1 /\ base'[t] = NewBaseline(s, busy.selected)
        BY <2>1, <3>1 DEF TypeOK
      <4>2. Parent(t)' = new
        BY <2>3, <4>1 DEF Parent
      <4> QED
        BY <2>1, <2>2, <4>1, <4>2 DEF BaselineHoldsHead
    <3>2. CASE t # s
      <4>1. head'[t] = head[t] /\ base'[t] = base[t] /\ (head[t] # 0 => head[t] \in 1..Len(manifests))
        BY <2>1, <2>3, <3>2 DEF TypeOK
      <4>2. Parent(t)' = Parent(t)
        BY <2>3, <4>1 DEF Parent
      <4> QED
        BY <4>1, <4>2 DEF BaselineHoldsHead
    <3> QED
      BY <3>1, <3>2
  <2> QED
    BY <2>4 DEF BaselineHoldsHead
<1>2. CASE CreateTransaction
  <2>1. /\ busy.of \in Sessions /\ head[busy.of] = 0 /\ UNCHANGED <<head, manifests>>
        /\ \A t \in Sessions : t # busy.of => base'[t] = base[t]
    BY <1>2, RequestFacts DEF CreateTransaction, Underway, RowsFirst, TypeOK
  <2>2. \A t \in Sessions : Parent(t)' = Parent(t)
    BY <2>1 DEF Parent
  <2>3. \A p \in Paths : Parent(busy.of)[p] = Absent
    BY <2>1 DEF Parent, Empty
  <2>4. ASSUME NEW t \in Sessions, NEW p \in Paths
        PROVE  Parent(t)'[p] # Absent => base'[t][p] = Parent(t)'[p]
    BY <2>1, <2>2, <2>3 DEF BaselineHoldsHead
  <2> QED
    BY <2>4 DEF BaselineHoldsHead
<1>3. CASE ~CommitCheckpoint /\ ~CreateTransaction
  BY <1>3, Frame DEF BaselineHoldsHead, Parent
<1> QED
  BY <1>1, <1>2, <1>3

-----------------------------------------------------------------------------
(* The invariant, and what follows from it. *)

(* The invariant holds initially. *)
LEMMA InitInv == Init => SessionsInv
<1> SUFFICES ASSUME Init PROVE SessionsInv
  OBVIOUS
<1> USE SessionsAssumption DEF Init
<1>1. manifests \in Seq([Paths -> Records]) /\ Len(manifests) = 0
  OBVIOUS
<1>2. Shapes
  BY <1>1 DEF Shapes, TreesTyped, Requests
<1>3. base \in [Sessions -> [Paths -> Records]] /\ head \in [Sessions -> 0..Len(manifests)]
  BY <1>1 DEF Empty, Records
<1>4. TypeOK
  BY <1>1, <1>3 DEF TypeOK, Clean, Idle
<1>5. RowsFirst /\ Underway /\ Persisting /\ Marking /\ DirtyCovers /\ ActiveHasWorktree
  BY DEF RowsFirst, Underway, Persisting, Marking, DirtyCovers, Covered, ActiveHasWorktree, NoResident, Idle
<1>6. HeadsAreWhole
  BY <1>1 DEF HeadsAreWhole
<1>7. BaselineHoldsHead
  BY DEF BaselineHoldsHead, Parent, Empty
<1> QED
  BY <1>2, <1>4, <1>5, <1>6, <1>7 DEF SessionsInv

(* Every step preserves the invariant. *)
LEMMA NextInv == SessionsInv /\ [Next]_vars => SessionsInv'
<1> SUFFICES ASSUME SessionsInv, [Next]_vars PROVE SessionsInv'
  OBVIOUS
<1>1. CASE Next
  <2>1. /\ TypeOK /\ Shapes /\ RowsFirst /\ Underway /\ Persisting /\ Marking /\ DirtyCovers
        /\ ActiveHasWorktree /\ HeadsAreWhole /\ BaselineHoldsHead
    BY DEF SessionsInv
  <2>2. Shapes'
    BY <1>1, <2>1, ShapesStep
  <2>3. TypeOK'
    BY <1>1, <2>1, <2>2, TypeStep
  <2>4. RowsFirst' /\ Underway'
    BY <1>1, <2>1, RowsUnderwayStep
  <2>5. Persisting' /\ Marking' /\ DirtyCovers'
    BY <1>1, <2>1, PersistingStep, MarkingStep, DirtyCoversStep
  <2>6. ActiveHasWorktree' /\ HeadsAreWhole' /\ BaselineHoldsHead'
    BY <1>1, <2>1, WorktreeStep, HeadsStep, BaselineStep
  <2> QED
    BY <2>2, <2>3, <2>4, <2>5, <2>6 DEF SessionsInv
<1>2. CASE UNCHANGED vars
  <2> USE <1>2 DEF vars
  <2>1. TypeOK' /\ Shapes'
    BY DEF SessionsInv, TypeOK, Shapes, TreesTyped
  <2>2. RowsFirst' /\ Underway' /\ ActiveHasWorktree'
    BY DEF SessionsInv, RowsFirst, Underway, ActiveHasWorktree
  <2>3. Persisting'
    BY DEF SessionsInv, Persisting, Changes
  <2>4. Marking' /\ DirtyCovers'
    BY DEF SessionsInv, Marking, DirtyCovers, Covered, Loaded
  <2>5. HeadsAreWhole' /\ BaselineHoldsHead'
    BY DEF SessionsInv, HeadsAreWhole, BaselineHoldsHead, Parent
  <2> QED
    BY <2>1, <2>2, <2>3, <2>4, <2>5 DEF SessionsInv
<1> QED
  BY <1>1, <1>2

(* The invariant holds always. *)
LEMMA SessionsInvHolds == Spec => []SessionsInv
BY InitInv, NextInv, PTL DEF Spec

(* A path outside the dirty set is as in the baseline, so that the changes  *)
(* collect_changes finds are all there are.                                 *)
LEMMA NothingLost == SessionsInv => NoLostChange
<1> SUFFICES ASSUME SessionsInv, NEW s \in Sessions, resident[s].loaded,
                    ~(busy.op = "mark" /\ busy.of = s)
             PROVE  Changes(resident[s]) =
                      [p \in Paths |-> Kind(Loaded(base[s])[p], resident[s].files[p])]
  BY DEF NoLostChange
<1>1. Covered(s)
  BY DEF SessionsInv, DirtyCovers
<1>2. \A p \in Paths : Changes(resident[s])[p] = Kind(Loaded(base[s])[p], resident[s].files[p])
  BY <1>1 DEF Covered, Changes, Kind
<1>3. Changes(resident[s]) = [p \in Paths |-> Changes(resident[s])[p]]
  BY DEF Changes
<1> QED
  BY <1>2, <1>3

(* Whatever sessions, paths, contents and policies there are, and whenever  *)
(* the daemon dies: every manifest's contents are in the blob store, the    *)
(* durable baseline holds what the head retains, the dirty set of a tree    *)
(* misses no change, and an active session has its worktree.                *)
THEOREM TreesAlwaysAgree == Spec => []TreesAgree
<1>1. SessionsInv => TreesAgree
  BY NothingLost DEF SessionsInv, TreesAgree
<1> QED
  BY <1>1, SessionsInvHolds, PTL

-----------------------------------------------------------------------------
(* What a step may do to a session's files. *)

(* A head that moves is the manifest of the checkpoint under way. *)
LEMMA NewHeadFacts ==
  ASSUME SessionsInv, Next, NEW s \in Sessions, Committed(s)
  PROVE  /\ CommitCheckpoint /\ s = busy.of /\ busy.op = "persist" /\ busy.selected \in SUBSET Paths
         /\ NewHead(s) = Retained(s, busy.selected)
<1> USE DEF SessionsInv
<1>1. CommitCheckpoint
  BY Frame DEF Committed
<1>2. /\ busy.of \in Sessions /\ busy.op = "persist" /\ busy.selected \in SUBSET Paths
      /\ head' = [head EXCEPT ![busy.of] = Len(manifests) + 1]
      /\ manifests' = Append(manifests, Retained(busy.of, busy.selected))
  BY <1>1, RequestFacts DEF CommitCheckpoint
<1>3. s = busy.of /\ head'[s] = Len(manifests) + 1
  BY <1>2 DEF Committed, TypeOK
<1>4. Retained(s, busy.selected) \in [Paths -> Records]
  BY RetainedFacts
<1>5. manifests'[Len(manifests) + 1] = Retained(s, busy.selected)
  BY <1>2, <1>3, <1>4, AppendFacts
<1> QED
  BY <1>1, <1>2, <1>3, <1>5 DEF NewHead

(* A step that is no edit leaves a loaded tree its files. *)
LEMMA TreesKept ==
  ASSUME SessionsInv, Next, NEW t \in Sessions, resident[t].loaded, resident'[t].loaded,
         mount[t] # "live"
  PROVE  resident'[t].files = resident[t].files
<1> USE DEF sqlite
<1>0. TypeOK /\ Shapes /\ RowsFirst /\ Underway
  BY DEF SessionsInv
<1>1. CASE \/ CreateTransaction \/ CreateFails \/ UnmountStops \/ UnmountFails \/ PersistBlob
           \/ PersistFails \/ CommitCheckpoint \/ DestroyFails \/ Shutdown \/ Start
  BY <1>1
  DEF CreateTransaction, CreateFails, UnmountStops, UnmountFails, PersistBlob, PersistFails,
      CommitCheckpoint, DestroyFails, Shutdown, Start
<1>2. CASE LoadCreated
  <2>1. busy.of \in Sessions /\ busy.of # t
    BY <1>0, <1>2, RequestFacts DEF LoadCreated, Underway
  <2> QED
    BY <1>0, <1>2, <2>1 DEF LoadCreated, Shapes, TreesTyped
<1>3. CASE MarkCheckpointed
  <2>1. busy.of \in Sessions
    BY <1>0, <1>3, RequestFacts DEF MarkCheckpointed
  <2>2. resident[t] \in Residents
    BY <1>0, LoadedTree
  <2>3. resident'[t] = resident[t] \/ resident'[t] = Marked(resident[t], busy.selected)
    BY <1>0, <1>3, <2>1 DEF MarkCheckpointed, Shapes, TreesTyped
  <2>4. Marked(resident[t], busy.selected).files = resident[t].files
    BY <2>2, MarkedFacts
  <2> QED
    BY <2>3, <2>4
<1>4. CASE DestroyRemoves
  <2>1. busy.of \in Sessions
    BY <1>0, <1>4, RequestFacts DEF DestroyRemoves
  <2> QED
    BY <1>0, <1>4, <2>1 DEF DestroyRemoves, NoResident, Shapes, TreesTyped
<1>5. CASE ShutdownEnds \/ Crash
  BY <1>5 DEF ShutdownEnds, Crash, Stop, NoResident
<1>6. ASSUME NEW s \in Sessions,
             \/ CreateDirectory(s) \/ CreateRefused(s) \/ DestroyCloses(s) \/ ProviderDies(s)
             \/ ClearStale(s)
      PROVE  resident'[t].files = resident[t].files
  BY <1>6 DEF CreateDirectory, CreateRefused, DestroyCloses, ProviderDies, ClearStale, vars
<1>7. ASSUME NEW s \in Sessions, Mount(s) \/ MountFails(s)
      PROVE  resident'[t].files = resident[t].files
  BY <1>0, <1>7 DEF Mount, MountFails, Resident, Shapes, TreesTyped
<1>8. ASSUME NEW s \in Sessions, SyncJournal(s)
      PROVE  resident'[t].files = resident[t].files
  BY <1>0, <1>8, SyncFacts, LoadedTree, CleanedFacts
<1>9. ASSUME NEW s \in Sessions,
             \/ UnmountSyncs(s) \/ Status(s) \/ CheckpointBegins(s) \/ ShutdownUnmounts(s)
      PROVE  resident'[t].files = resident[t].files
  BY <1>8, <1>9 DEF UnmountSyncs, Status, CheckpointBegins, ShutdownUnmounts
<1>10. ASSUME NEW s \in Sessions, NEW rules \in Policies, ApplyPolicy(s, rules)
       PROVE  resident'[t].files = resident[t].files
  <2>1. rules \in SUBSET Paths
    BY SessionsAssumption
  <2> QED
    BY <1>0, <1>10, <2>1, PolicyFacts DEF ApplyPolicy
<1>11. ASSUME NEW s \in Sessions,
              Close(s) \/ \E rules \in Policies : RefreshFails(s, rules)
       PROVE  resident'[t].files = resident[t].files
  BY <1>0, <1>11 DEF Close, RefreshFails, NoResident, Shapes, TreesTyped
<1>12. ASSUME NEW s \in Sessions, Edit(s)
       PROVE  resident'[t].files = resident[t].files
  <2>1. mount[s] = "live" /\ resident[s].loaded
    BY <1>0, <1>12, EditStep
  <2>2. PICK files \in [Paths -> Contents \cup {Absent}], dirty \in SUBSET Paths : Edited(s, files, dirty)
    BY <1>0, <1>12, EditStep
  <2> QED
    BY <1>0, <2>1, <2>2, EditedFacts
<1> QED
  BY <1>1, <1>2, <1>3, <1>4, <1>5, <1>6, <1>7, <1>9, <1>10, <1>11, <1>12
  DEF Next, Continue, Request

(* The three action properties, for one step. *)
LEMMA FilesStep ==
  ASSUME SessionsInv, Next
  PROVE  /\ \A s \in Sessions : Committed(s) => \A p \in scratch[s] : NewHead(s)[p] = Parent(s)[p]
         /\ \A s \in Sessions : Committed(s) /\ resident[s].loaded => RetainsTree(s)
         /\ \A s \in Sessions :
              resident[s].loaded /\ resident'[s].loaded /\ mount[s] # "live" /\ up' /\ row'[s] = "active" =>
                Tree(s)' = Tree(s)
<1>0. TypeOK /\ Shapes /\ Persisting
  BY DEF SessionsInv
<1>1. ASSUME NEW s \in Sessions, Committed(s), NEW p \in scratch[s]
      PROVE  NewHead(s)[p] = Parent(s)[p]
  <2>1. s = busy.of /\ busy.op = "persist" /\ NewHead(s) = Retained(s, busy.selected)
    BY <1>1, NewHeadFacts
  <2>2. p \in Paths /\ p \notin busy.selected
    BY <1>0, <2>1 DEF Persisting, TypeOK
  <2> QED
    BY <1>0, <2>1, <2>2, RetainedFacts
<1>2. ASSUME NEW s \in Sessions, Committed(s), resident[s].loaded
      PROVE  RetainsTree(s)
  <2>1. /\ s = busy.of /\ busy.op = "persist" /\ busy.selected \in SUBSET Paths
        /\ NewHead(s) = Retained(s, busy.selected)
    BY <1>2, NewHeadFacts
  <2>2. resident[s] \in Residents /\ Tree(s) = resident[s].files
    BY <1>0, <1>2, LoadedTree DEF Tree
  <2>3. ASSUME NEW p \in Paths, p \in busy.selected
        PROVE  NewHead(s)[p] = IF Tree(s)[p] = Absent THEN Tomb ELSE Tree(s)[p]
    <3>1. journal[s][p] # "none" /\ journal[s][p] = Changes(resident[s])[p]
      BY <1>0, <1>2, <2>1, <2>3 DEF Persisting
    <3>2. /\ journal[s][p] = "delete" => Tree(s)[p] = Absent
          /\ journal[s][p] # "delete" => Tree(s)[p] \in Contents
      BY <2>2, <3>1, ChangesFacts
    <3>3. NewHead(s)[p] = IF journal[s][p] = "delete" THEN Tomb ELSE Tree(s)[p]
      BY <1>0, <2>1, <2>3, RetainedFacts
    <3> QED
      BY <3>2, <3>3, SessionsAssumption
  <2>4. ASSUME NEW p \in Paths, p \notin busy.selected
        PROVE  NewHead(s)[p] = Parent(s)[p]
    BY <1>0, <2>1, <2>4, RetainedFacts
  <2> QED
    BY <2>3, <2>4 DEF RetainsTree
<1>3. ASSUME NEW s \in Sessions, resident[s].loaded, resident'[s].loaded, mount[s] # "live"
      PROVE  Tree(s)' = Tree(s)
  BY <1>3, TreesKept DEF Tree
<1> QED
  BY <1>1, <1>2, <1>3

(* Whatever sessions, paths, contents and policies there are: a checkpoint  *)
(* leaves the scratch paths as its parent had them and retains, of a        *)
(* resident tree, what the session has at that moment; and the files of a   *)
(* loaded tree change through its mount only.                               *)
THEOREM FilesAreKept == Spec => FilesKept
<1>1. SessionsInv /\ [Next]_vars =>
        /\ [\A s \in Sessions : Committed(s) =>
              \A p \in scratch[s] : NewHead(s)[p] = Parent(s)[p]]_vars
        /\ [\A s \in Sessions : Committed(s) /\ resident[s].loaded => RetainsTree(s)]_vars
        /\ [\A s \in Sessions :
              resident[s].loaded /\ resident'[s].loaded /\ mount[s] # "live" /\ up' /\ row'[s] = "active" =>
                Tree(s)' = Tree(s)]_vars
  BY FilesStep
<1> QED
  BY <1>1, SessionsInvHolds, PTL
  DEF Spec, FilesKept, ScratchIsNotRetained, ResidentCheckpointExact, EditsKept
=============================================================================
