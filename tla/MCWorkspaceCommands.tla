------------------------- MODULE MCWorkspaceCommands -------------------------
(* Two hosts over one store: one runs any command, the other one runs a      *)
(* program in a session at the same time.  Beside them every short plan,     *)
(* frame and stream.                                                         *)
EXTENDS WorkspaceCommands, WorkspacePlan

MCHosts == {"a", "b"}

MCCommands == [h \in MCHosts |-> IF h = "a" THEN AllCommands ELSE {"exec"}]

\* Three memories, with any bases of at most two, one of them perhaps unfit.
Memory(bases, kind, available) == [bases |-> bases, kind |-> kind, available |-> available, tags |-> {}]
Fit(bs) == [i \in 1..3 |-> Memory(bs[i], "checkpoint", TRUE)]
Bases == {<<>>, <<1>>, <<2>>, <<3>>, <<1, 3>>, <<3, 2>>, <<4>>}
MemoryGraphs ==
  UNION {{Fit(bs), [Fit(bs) EXCEPT ![2].available = FALSE], [Fit(bs) EXCEPT ![3].kind = "note"]} :
           bs \in [1..3 -> Bases]}
Plans == {<<1>>, <<2, 1>>, <<3, 2>>, <<1, 1>>, <<5>>}

\* The last payload is above the limit; a stream is closed after its last cut.
Payloads == {<<>>, <<1>>, <<0, 1>>, <<1, 0, 1>>, <<1, 1, 1, 1>>}
Takes    == BoundedSeq({1, 9}, 4)
Cuts     == BoundedSeq({1, 2, 9}, 4)

PlanRight ==
  /\ SourcesInOrder(MemoryGraphs, Plans) /\ FramesWhole(Payloads, Takes, Cuts)
  /\ NothingDangles /\ ShortcutSafe

(* A plan projects every memory after the ones it is based on, a frame is   *)
(* read whole or not at all, a pipe call that timed out leaves nothing to   *)
(* the kernel, and a shortcut takes the place of nothing but a link, except *)
(* on Windows (planning.py, transport.py, windows_pipe.py, shortcuts.py).   *)
PlanSound == Init => PlanRight
=============================================================================
