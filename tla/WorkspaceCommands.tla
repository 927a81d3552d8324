-------------------------- MODULE WorkspaceCommands --------------------------
(***************************************************************************)
(* The workspace commands of the Agent Host (commands/workspace.py and the *)
(* coordinator under workspace/): each host process runs one command, a    *)
(* script of local steps and daemon calls with the code's finally blocks,  *)
(* over a daemon that it may have to launch, that other hosts share, and   *)
(* that may die.  Several hosts interleave at every await.                 *)
(*                                                                         *)
(* A daemon call is one request of WorkspaceRequests: at most one effect   *)
(* per key, an answer, a refusal or a lost answer.  The publication of a   *)
(* checkpoint is CheckpointPublication's and is one step here.             *)
(***************************************************************************)
EXTENDS Naturals, Sequences, FiniteSets, SequencesExt

CONSTANTS Hosts,            \* host processes
          Commands,         \* Commands[h]: the commands host h may be given
          SessionBound,     \* bound: sessions of the store
          RequestAttempts,  \* _REQUEST_ATTEMPTS
          FaultBound        \* bound: faults of a behaviour

Sessions == 1..SessionBound
None     == "none"
Old      == "old"           \* a daemon that was running before
Procs    == Hosts \cup {Old}

AllCommands == {"create", "prefetched", "continue", "status", "checkpoint", "close",
                "destroy", "exec", "memory", "shortcut"}

ASSUME CommandsAssumption ==
  /\ Commands \in [Hosts -> SUBSET AllCommands] /\ None \notin Procs /\ Old \notin Hosts
  /\ SessionBound \in Nat /\ RequestAttempts \in Nat \ {0} /\ FaultBound \in Nat

VARIABLES
  host,      \* host[h]: the process that runs a command
  alive,     \* daemon processes that run
  listener,  \* the one that owns the endpoint
  foreign,   \* daemons that speak another protocol version
  row,       \* state of every session
  head,      \* sessions with a checkpoint
  mounted,   \* sessions the listening daemon has mounted
  late,      \* process-local calls that were given up and may still run
  faults,    \* faults so far
  gone,      \* history: sessions that were mounted by a daemon that ended
  unsure     \* history: sessions of a mount, prefetch or unmount without a good answer

store == <<row, head>>
vars  == <<host, alive, listener, foreign, row, head, mounted, late, faults, gone, unsure>>

Steps == {"hello", "reconcile", "list", "publish_head", "plan", "create", "mount", "prefetch",
          "unmount", "status", "commit", "publish", "close", "destroy", "spawn", "wait",
          "open", "query", "close_database", "close_daemon", "shortcut"}

(* Operations of the daemon, and those with process-local idempotency.      *)
DaemonSteps  == {"hello", "reconcile", "list", "create", "mount", "prefetch", "unmount",
                 "status", "commit", "close", "destroy"}
LocalSteps   == {"mount", "prefetch", "unmount"}
DurableSteps == {"create", "commit", "close", "destroy"}

(* Steps of finally blocks: an exception does not skip them.                *)
FinallySteps == {"unmount", "close_database", "close_daemon"}

Places == {"idle", "ready", "connect", "wait", "call", "start_failed"}
Outs   == {None, "ok", "error", "unknown", "interrupted", "killed"}

Fresh == [cmd |-> None, todo |-> <<>>, at |-> "idle", attempt |-> 0, conn |-> None,
          sess |-> 0, ran |-> FALSE, started |-> FALSE, cut |-> FALSE, child |-> FALSE, db |-> FALSE, out |-> None]

Init ==
  /\ host = [h \in Hosts |-> Fresh]
  /\ listener \in {None, Old}
  /\ alive = {listener} \ {None}
  /\ foreign \in {{}, IF listener = Old THEN {Old} ELSE Hosts}
  /\ row \in {[s \in Sessions |-> IF s = 1 THEN x ELSE None] : x \in {None, "active"}}
  /\ head \in SUBSET {s \in Sessions : row[s] # None}
  /\ mounted = {} /\ late = {} /\ faults = 0 /\ gone = {} /\ unsure = {}

-----------------------------------------------------------------------------
(* The script of a command.                                                 *)

Now(h)    == Head(host[h].todo)
Ready(h, step) == host[h].at = "ready" /\ host[h].todo # <<>> /\ Now(h) = step
Fault     == faults < FaultBound /\ faults' = faults + 1

Put(h, r) == host' = [host EXCEPT ![h] = r]

(* The finally blocks among the steps that are left, the inner one first.   *)
Finally(steps) ==
  (IF Contains(steps, "unmount") THEN <<"unmount">> ELSE <<>>)
    \o CASE Contains(steps, "close_database") -> <<"close_database">>
         [] Contains(steps, "close_daemon")   -> <<"close_daemon">>
         [] OTHER                             -> <<>>

(* The step succeeded and made the host r: more runs next, in front of what *)
(* was left.  After a cancellation the thread's result is dropped and only  *)
(* finally blocks run.                                                      *)
Done(h, more, r) ==
  Put(h, [r EXCEPT !.todo = IF r.cut THEN Finally(Tail(r.todo)) ELSE more \o Tail(r.todo),
                   !.at = "ready", !.conn = None, !.ran = FALSE])

(* The step raised: the armed finally blocks run, the error is reported.    *)
Raised(h, code, r) ==
  Put(h, [r EXCEPT !.todo = Finally(Tail(r.todo)), !.at = "ready", !.conn = None, !.ran = FALSE,
                   !.out = IF r.cut THEN "interrupted" ELSE code])

(* The session a command asks for, or the latest of the list.               *)
NeedsActive == {"checkpoint", "close", "exec"}
Selects     == NeedsActive \cup {"status", "destroy"}

SessionScript(cmd) ==
  CASE cmd \in {"create", "prefetched"} -> <<"plan", "create">>
    [] cmd = "continue"   -> <<"list", "publish_head", "plan", "create">>
    [] cmd = "status"     -> <<"list", "status">>
    [] cmd = "checkpoint" -> <<"list", "commit", "publish">>
    [] cmd = "close"      -> <<"list", "close">>
    [] cmd = "destroy"    -> <<"list", "destroy">>
    [] cmd = "exec"       -> <<"list", "mount">>

MemoryScript == <<"open", "query", "close_database">>

Script(cmd) ==
  CASE cmd = "memory"   -> MemoryScript
    [] cmd = "shortcut" -> <<"shortcut">>
    [] OTHER            -> <<"hello">>

(* run_workspace: a session may be named, then no list is asked for.        *)
Run(h, cmd, s) ==
  /\ host[h] = Fresh /\ (s # 0 => cmd \in Selects \cup {"continue"})
  /\ Put(h, [Fresh EXCEPT !.cmd = cmd, !.todo = Script(cmd), !.at = "ready", !.sess = s])
  /\ UNCHANGED <<gone, alive, listener, foreign, store, mounted, late, faults, unsure>>

Finish(h) ==
  /\ host[h].at = "ready" /\ host[h].todo = <<>>
  /\ Put(h, [host[h] EXCEPT !.at = "idle", !.out = IF host[h].out # None THEN host[h].out
                                                    ELSE IF host[h].cut THEN "interrupted" ELSE "ok"])
  /\ UNCHANGED <<gone, alive, listener, foreign, store, mounted, late, faults, unsure>>

-----------------------------------------------------------------------------
(* WorkspaceDaemon: connection and launch.                                  *)

Dies(p) ==
  /\ alive' = alive \ {p}
  /\ listener' = IF listener = p THEN None ELSE listener
  /\ mounted' = IF listener = p THEN {} ELSE mounted
  /\ late' = IF listener = p THEN {} ELSE late
  /\ gone' = IF listener = p THEN gone \cup mounted ELSE gone

(* start opens a connection of its own, attempt 0, before hello's request.  *)
Call(h) ==
  /\ host[h].at = "ready" /\ host[h].todo # <<>> /\ Now(h) \in DaemonSteps
  /\ ~(Now(h) = "list" /\ host[h].sess # 0 /\ host[h].cmd \in Selects)
  /\ IF listener # None THEN Put(h, [host[h] EXCEPT !.at = "call", !.conn = listener, !.attempt = 1])
     ELSE Put(h, [host[h] EXCEPT !.at = "connect", !.attempt = IF Now(h) = "hello" THEN 0 ELSE 1])
  /\ UNCHANGED <<gone, alive, listener, foreign, store, mounted, late, faults, unsure>>

(* select_session returns the session that was asked for.                   *)
SkipList(h) ==
  /\ Ready(h, "list") /\ host[h].sess # 0 /\ host[h].cmd \in Selects
  /\ Done(h, <<>>, host[h])
  /\ UNCHANGED <<gone, alive, listener, foreign, store, mounted, late, faults, unsure>>

Connected(h) == Put(h, [host[h] EXCEPT !.conn = listener, !.at = "call",
                                        !.attempt = IF host[h].attempt = 0 THEN 1 ELSE @])

EnsureConnection(h) ==
  /\ host[h].at \in {"connect", "wait"} /\ listener # None
  /\ Connected(h)
  /\ UNCHANGED <<gone, alive, listener, foreign, store, mounted, late, faults, unsure>>

LaunchService(h) ==
  /\ host[h].at = "connect" /\ listener = None
  /\ alive' = alive \cup {h} /\ Put(h, [host[h] EXCEPT !.at = "wait"])
  /\ UNCHANGED <<gone, listener, foreign, store, mounted, late, faults, unsure>>

(* _terminate_failed_launch: the daemon this host launched, if it runs.     *)
(* That the system lets it be neither terminated nor killed is left out.    *)
TerminateFailedLaunch(h) ==
  IF h \in alive THEN Dies(h) ELSE UNCHANGED <<alive, listener, mounted, late, gone>>

(* A call raises; start catches what hello raises.                          *)
Failed(h, code, r) ==
  IF Now(h) = "hello" THEN Put(h, [r EXCEPT !.at = "start_failed", !.conn = None]) ELSE Raised(h, code, r)

StartFails(h) ==
  /\ host[h].at = "start_failed"
  /\ Raised(h, "error", host[h]) /\ TerminateFailedLaunch(h)
  /\ UNCHANGED <<foreign, store, faults, unsure>>

(* reconcile swallows what its calls raise.                                 *)
CallRaises(h, code, r) == IF Now(h) = "reconcile" THEN Done(h, <<>>, r) ELSE Failed(h, code, r)

Attempts(step) == IF step \in LocalSteps THEN 1 ELSE RequestAttempts

(* The attempt is over; the last one ends the call.                         *)
AttemptEnds(h, r) ==
  CASE host[h].attempt \in 1 .. Attempts(Now(h)) - 1 ->
         Put(h, [r EXCEPT !.at = "connect", !.conn = None, !.attempt = @ + 1])
    [] OTHER -> CallRaises(h, IF Now(h) \in LocalSteps THEN "unknown" ELSE "error", r)

(* No executable is found: an error at once.  It cannot be run: an OSError, *)
(* which a request takes for a transport error and tries again.             *)
LaunchFails(h) ==
  /\ host[h].at = "connect" /\ listener = None /\ h \notin alive /\ Fault
  /\ CallRaises(h, "error", host[h]) \/ AttemptEnds(h, host[h])
  /\ UNCHANGED <<gone, alive, listener, foreign, store, mounted, late, unsure>>

Unsure(h) == unsure' = IF Now(h) \in LocalSteps THEN unsure \cup {host[h].sess} ELSE unsure

(* Mutant: the retry has no deadline once the daemon it waits for is gone. *)
WaitGoesOn(h) ==
  /\ host[h].at = "wait" /\ listener = None /\ Fault
  /\ AttemptEnds(h, host[h])
  /\ TerminateFailedLaunch(h)
  /\ UNCHANGED <<foreign, store, unsure>>

(* _connect_with_retry gives up: nothing listens within the startup timeout *)
(* (10 s), and the launch is terminated.                                    *)
WaitEnds(h) ==
  /\ host[h].at = "wait" /\ listener = None
  /\ \/ alive = {} /\ UNCHANGED faults
     \/ Fault
  /\ AttemptEnds(h, host[h])
  /\ TerminateFailedLaunch(h)
  /\ UNCHANGED <<foreign, store, unsure>>

(* The endpoint has one owner; a second daemon that was launched exits.     *)
DaemonListens(p) ==
  /\ p \in alive /\ listener # p
  /\ IF listener = None THEN listener' = p /\ UNCHANGED alive
     ELSE alive' = alive \ {p} /\ UNCHANGED listener
  /\ UNCHANGED <<gone, host, foreign, store, mounted, late, faults, unsure>>

DaemonDies(p) ==
  /\ p \in alive /\ Fault /\ Dies(p)
  /\ UNCHANGED <<host, foreign, store, unsure>>

-----------------------------------------------------------------------------
(* What the daemon does with a call.                                        *)

Known      == {s \in Sessions : row[s] # None}
NewSession == {s \in Sessions : s = Cardinality(Known) + 1}
Latest     == CHOOSE s \in Known : \A t \in Known : t <= s

Accepts(step, s) ==
  CASE step = "mount"    -> row[s] = "active"
    [] step = "prefetch" -> s \in mounted
    [] step = "unmount"  -> row[s] # None
    [] step = "commit"   -> row[s] = "active" /\ s \notin mounted
    [] step \in {"close", "destroy"} -> row[s] # None /\ s \notin mounted
    [] step = "create"   -> NewSession # {}
    [] step = "status"   -> row[s] # None
    [] OTHER             -> TRUE

Effect(step, s) ==
  /\ row' = CASE step = "create" -> [t \in Sessions |-> IF t \in NewSession THEN "active" ELSE row[t]]
              [] step \in {"close", "destroy"} -> [row EXCEPT ![s] = "closed"]
              [] OTHER -> row
  /\ head' = IF step = "commit" THEN head \cup {s} ELSE head
  /\ mounted' = CASE step = "mount"   -> mounted \cup {s}
                  [] step = "unmount" -> mounted \ {s}
                  [] OTHER            -> mounted

AtCall(h)  == host[h].at = "call" /\ host[h].conn = listener

(* _validate_hello: the identity, protocol version, frame limit,            *)
(* capabilities and operation metadata are those of the host.               *)
HelloValid(p) == p \notin foreign

(* Mutant: the tree stays mounted when the command cannot be started. *)
AfterMountUnguarded(h) ==
  IF host[h].cmd = "exec" THEN <<"spawn", "wait">> ELSE <<"prefetch", "unmount">>

(* The try block opens after the mount: its finally unmounts.               *)
AfterMount(h) ==
  IF host[h].cmd = "exec" THEN <<"spawn", "wait", "unmount">> ELSE <<"prefetch", "unmount">>

(* What follows a call that succeeded: the coordinator's next steps.        *)
Answered(h) ==
  CASE Now(h) = "hello"  -> Done(h, <<"reconcile">> \o SessionScript(host[h].cmd) \o <<"close_daemon">>,
                                 [host[h] EXCEPT !.started = TRUE])
    [] Now(h) = "create" -> Done(h, IF host[h].cmd = "prefetched" THEN <<"mount">> ELSE <<>>,
                                 [host[h] EXCEPT !.sess = IF host[h].ran THEN @ ELSE Cardinality(Known) + 1])
    [] Now(h) = "mount"  -> Done(h, AfterMount(h), host[h])
    [] OTHER             -> Done(h, <<>>, host[h])

(* list_workspaces, then latest_summary or summary_for.                     *)
Chosen(h) == IF host[h].sess # 0 THEN host[h].sess ELSE Latest

ListAnswer(h) ==
  IF Known = {} \/ Chosen(h) \notin Known
     \/ (host[h].cmd \in NeedsActive /\ row[Chosen(h)] # "active")
     \/ (host[h].cmd = "continue" /\ Chosen(h) \notin head)
  THEN Raised(h, "error", host[h])
  ELSE Done(h, <<>>, [host[h] EXCEPT !.sess = IF host[h].cmd = "continue" THEN 0 ELSE Chosen(h)])

(* One request is served.  A retry whose first attempt ran is answered from *)
(* its key.                                                                 *)
Serves(h) ==
  /\ AtCall(h) /\ Now(h) # "hello"
  /\ host[h].ran \/ Accepts(Now(h), host[h].sess)
  /\ IF host[h].ran THEN UNCHANGED <<row, head, mounted>> ELSE Effect(Now(h), host[h].sess)
  /\ UNCHANGED <<gone, alive, listener, foreign, late>>

Serve(h) == Serves(h) /\ Now(h) # "list" /\ Answered(h) /\ UNCHANGED <<faults, unsure>>

(* It is served, and its answer is not a valid one: another request's, or a *)
(* result of another shape.  A mount that is answered so is never undone.   *)
InvalidResult(h) ==
  /\ Serves(h) /\ Fault /\ CallRaises(h, "error", host[h])
  /\ unsure' = IF Now(h) = "mount" THEN unsure \cup {host[h].sess} ELSE unsure

ServeList(h) ==
  /\ AtCall(h) /\ Now(h) = "list" /\ ListAnswer(h)
  /\ UNCHANGED <<gone, alive, listener, foreign, store, mounted, late, faults, unsure>>

(* The daemon refuses: a WorkspaceRemoteError, no effect.                   *)
Refuse(h) ==
  /\ AtCall(h) /\ Now(h) \notin {"hello", "list"}
  /\ ~host[h].ran
  /\ \/ ~Accepts(Now(h), host[h].sess) /\ UNCHANGED faults
     \/ Fault
  /\ CallRaises(h, "error", host[h])
  /\ unsure' = IF Now(h) = "unmount" THEN unsure \cup {host[h].sess} ELSE unsure
  /\ UNCHANGED <<gone, alive, listener, foreign, store, mounted, late>>

(* hello is validated: another protocol version fails the start.            *)
Hello(h) ==
  /\ AtCall(h) /\ Now(h) = "hello"
  /\ IF HelloValid(listener) THEN Answered(h) ELSE Failed(h, "error", host[h])
  /\ UNCHANGED <<gone, alive, listener, foreign, store, mounted, late, faults, unsure>>

(* The answer is lost: the daemon died, or did not answer within 10 s.  A   *)
(* durable call may have run; a process-local one may still run later.      *)
Lost(h, ran) ==
  AttemptEnds(h, [host[h] EXCEPT !.ran = ran,
                                 !.sess = IF ran /\ Now(h) = "create" /\ ~host[h].ran
                                          THEN Cardinality(Known) + 1 ELSE @])

CallBroken(h) ==
  /\ host[h].at = "call" /\ host[h].conn # listener
  /\ Lost(h, host[h].ran) /\ Unsure(h)
  /\ UNCHANGED <<gone, alive, listener, foreign, store, mounted, late, faults>>

CallTimesOut(h) ==
  /\ AtCall(h) /\ Fault /\ Unsure(h)
  /\ \/ /\ Now(h) \in DurableSteps /\ ~host[h].ran /\ Accepts(Now(h), host[h].sess)
        /\ Lost(h, TRUE) /\ Effect(Now(h), host[h].sess) /\ UNCHANGED late
     \/ /\ Now(h) \in LocalSteps /\ Lost(h, FALSE)
        /\ late' = late \cup {<<Now(h), host[h].sess>>} /\ UNCHANGED <<row, head, mounted>>
     \/ Lost(h, host[h].ran) /\ UNCHANGED <<row, head, mounted, late>>
  /\ UNCHANGED <<gone, alive, listener, foreign>>

(* The daemon gets to a call nobody waits for.                              *)
ServeLate(c) ==
  /\ c \in late /\ listener # None
  /\ late' = late \ {c}
  /\ IF Accepts(c[1], c[2]) THEN Effect(c[1], c[2]) ELSE UNCHANGED <<row, head, mounted>>
  /\ UNCHANGED <<gone, host, alive, listener, foreign, faults, unsure>>

-----------------------------------------------------------------------------
(* Local steps.                                                             *)

Locally(h, step, r) ==
  /\ Ready(h, step) /\ Done(h, <<>>, r)
  /\ UNCHANGED <<gone, alive, listener, foreign, store, mounted, late, faults, unsure>>

(* resolve_plan: the plan's sources, see WorkspacePlan.                     *)
ResolvePlan(h) == Locally(h, "plan", host[h])

(* publish_external of the head that is continued; publish_manifest of the  *)
(* checkpoint that was committed, see CheckpointPublication.                *)
PublishExternal(h) == Locally(h, "publish_head", host[h])
PublishManifest(h) == Locally(h, "publish", host[h])

(* A memory command: the database, the schema, the root and the query.      *)
OpenDatabase(h)    == Locally(h, "open", [host[h] EXCEPT !.db = TRUE])
QueryMemories(h)   == Locally(h, "query", host[h])
CreateShortcut(h)  == Locally(h, "shortcut", host[h])
Spawn(h)           == Locally(h, "spawn", [host[h] EXCEPT !.child = TRUE])

LocalStep(h) ==
  \/ ResolvePlan(h) \/ PublishExternal(h) \/ PublishManifest(h) \/ OpenDatabase(h)
  \/ QueryMemories(h) \/ CreateShortcut(h) \/ Spawn(h)

LocalWork == {"plan", "publish_head", "publish", "open", "query", "spawn", "shortcut"}

(* A step fails, or what comes before its call: the selection of what to    *)
(* commit, the check that there is a command to run in the mount.  The      *)
(* database of a factory that raised was never opened.                      *)
LocalStepFails(h) ==
  /\ \/ \E step \in LocalWork : Ready(h, step)
     \/ Ready(h, "commit") \/ (Ready(h, "mount") /\ host[h].cmd = "exec")
  /\ Fault
  /\ IF Now(h) = "open" THEN Put(h, [host[h] EXCEPT !.todo = <<>>, !.out = "error"]) ELSE Raised(h, "error", host[h])
  /\ UNCHANGED <<gone, alive, listener, foreign, store, mounted, late, unsure>>

(* Mutant: a cancelled command is terminated but not waited for. *)
ChildAbandoned(h) ==
  /\ Ready(h, "wait") /\ host[h].child
  /\ Done(h, <<>>, [host[h] EXCEPT !.child = host[h].cut])
  /\ UNCHANGED <<gone, alive, listener, foreign, store, mounted, late, faults, unsure>>

(* The command ends, by itself or terminated by a cancellation.  Nothing    *)
(* makes it: process.wait() has no timeout, before or after terminate().    *)
ChildExits(h) ==
  /\ Ready(h, "wait") /\ host[h].child
  /\ Done(h, <<>>, [host[h] EXCEPT !.child = FALSE])
  /\ UNCHANGED <<gone, alive, listener, foreign, store, mounted, late, faults, unsure>>

CloseDatabase(h) == Locally(h, "close_database", [host[h] EXCEPT !.db = FALSE])
CloseDaemon(h)   == Locally(h, "close_daemon", host[h])

(* Ctrl-C cancels the command at an await: the call in progress runs on in  *)
(* its thread, holding the request lock, and only finally blocks follow.    *)
Interrupt(h) ==
  /\ host[h].at # "idle" /\ host[h].todo # <<>> /\ ~host[h].cut /\ Now(h) \notin FinallySteps
  /\ Fault
  /\ Put(h, [host[h] EXCEPT !.cut = TRUE, !.out = "interrupted"])
  /\ unsure' = IF host[h].at # "ready" /\ Now(h) = "mount" THEN unsure \cup {host[h].sess} ELSE unsure
  /\ UNCHANGED <<gone, alive, listener, foreign, store, mounted, late>>

(* A cancelled step that had not begun does not begin.                      *)
CutStep(h) ==
  /\ host[h].cut /\ host[h].at = "ready" /\ host[h].todo # <<>>
  /\ Now(h) \notin FinallySteps \cup {"wait"}
  /\ Done(h, <<>>, host[h])
  /\ UNCHANGED <<gone, alive, listener, foreign, store, mounted, late, faults, unsure>>

(* The host process is killed.                                              *)
Kill(h) ==
  /\ host[h].at # "idle" /\ Fault
  /\ Put(h, [Fresh EXCEPT !.cmd = host[h].cmd, !.sess = host[h].sess, !.out = "killed"])
  /\ unsure' = unsure \cup {host[h].sess}
  /\ UNCHANGED <<gone, alive, listener, foreign, store, mounted, late>>

-----------------------------------------------------------------------------
HostStep(h) ==
  \/ (~host[h].cut /\ (Call(h) \/ SkipList(h) \/ LocalStep(h)))
  \/ (host[h].cut /\ Ready(h, "unmount") /\ Call(h)) \/ CutStep(h)
  \/ EnsureConnection(h) \/ LaunchService(h) \/ WaitEnds(h)
  \/ Serve(h) \/ ServeList(h) \/ Refuse(h) \/ Hello(h) \/ StartFails(h) \/ CallBroken(h)
  \/ CloseDatabase(h) \/ CloseDaemon(h) \/ Finish(h)

HostFault(h) ==
  LaunchFails(h) \/ CallTimesOut(h) \/ InvalidResult(h) \/ LocalStepFails(h) \/ Interrupt(h) \/ Kill(h)

Next ==
  \/ \E h \in Hosts : HostStep(h) \/ ChildExits(h) \/ HostFault(h) \/ \E cmd \in Commands[h], s \in Known \cup {0} : Run(h, cmd, s)
  \/ \E p \in Procs : DaemonListens(p) \/ DaemonDies(p)
  \/ \E c \in late : ServeLate(c)

Spec == Init /\ [][Next]_vars

(* Host processes and daemons keep running: a connection, a launch and an   *)
(* answer are waited for with a timeout.  The child of a host is not        *)
(* waited for so, and nothing is assumed of it.                             *)
FairSpec == Spec /\ \A h \in Hosts : WF_vars(HostStep(h)) /\ WF_vars(DaemonListens(h))

-----------------------------------------------------------------------------
(* Properties.                                                              *)

Ended(h) == host[h].at = "idle" /\ host[h].out # None

(* A host is between its mount and its unmount. *)
Inside(h, s) ==
  /\ host[h].sess = s
  /\ \/ Contains(host[h].todo, "unmount")
     \/ host[h].todo # <<>> /\ Now(h) = "mount"

TypeOK ==
  /\ \A h \in Hosts :
       /\ host[h].at \in Places /\ host[h].out \in Outs /\ host[h].sess \in 0..SessionBound + 1
       /\ Range(host[h].todo) \subseteq Steps
       /\ host[h].attempt \in 0..RequestAttempts /\ host[h].conn \in Procs \cup {None}
       /\ (host[h].conn # None) = (host[h].at = "call")
  /\ alive \subseteq Procs /\ listener \in alive \cup {None}
  /\ row \in [Sessions -> {None, "active", "closed"}] /\ head \subseteq Known
  /\ mounted \subseteq Known /\ (mounted # {} => listener # None)

(* A session stays mounted only while a command is using it, unless the     *)
(* answer to its mount, prefetch or unmount was lost or invalid, the        *)
(* unmount was refused, the mount was interrupted or the host was killed:   *)
(* run_in_workspace and _prefetch_session unmount in a finally block, also  *)
(* when the command cannot be started.                                      *)
MountsReleased ==
  \A s \in mounted : s \in unsure \/ \E h \in Hosts : Inside(h, s)

(* The commands that mount a session and unmount it when they end.          *)
Mounts == {"exec", "prefetched"}

(* A command runs in a tree that is mounted, unless the daemon went away or *)
(* another host used the same session and unmounted it first.               *)
RunsMounted ==
  \A h \in Hosts :
    host[h].child =>
      \/ host[h].sess \in mounted \cup unsure \cup gone
      \/ \E g \in Hosts \ {h} : host[g].cmd \in Mounts /\ host[g].sess = host[h].sess

(* A command that ended, and was not killed, holds nothing: its process and *)
(* its database are closed, and a start that failed terminated the daemon   *)
(* it had launched (WorkspaceDaemon.start), whichever step of it failed.    *)
NothingLeftBehind ==
  \A h \in Hosts :
    Ended(h) /\ host[h].out # "killed" =>
      /\ ~host[h].child /\ ~host[h].db
      /\ host[h].out = "error" /\ ~host[h].started => h \notin alive

(* Whatever fails in a command, of its steps or of its daemon, it leaves     *)
(* neither a mount nor a process nor a database behind.                      *)
CommandsSound == TypeOK /\ MountsReleased /\ NothingLeftBehind

(* Every command ends, whatever it meets: a daemon that dies, an endpoint   *)
(* that never opens, a call that is not answered.  Only the program that a  *)
(* session runs can hold it, and once that has exited the command ends.     *)
CommandsEnd ==
  \A h \in Hosts : host[h].at # "idle" ~> host[h].at = "idle" \/ host[h].child
=============================================================================
