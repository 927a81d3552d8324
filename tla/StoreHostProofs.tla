--------------------------- MODULE StoreHostProofs ---------------------------
(***************************************************************************)
(* HostSound for any number of connections, requests and faults, any       *)
(* limits, and any interleaving of handlers, drivers, writers, cleanups    *)
(* and shutdown.                                                           *)
(*                                                                         *)
(* The invariant HostInv follows a session through the table: it is closed *)
(* before it is taken out (ClosedFirst), and whoever takes it out has yet  *)
(* to sweep its guests (GuestsSwept); and it follows a connection through  *)
(* its end: when its cleanup runs its handlers are joined and its writer   *)
(* has stopped (DriversFit), so nothing can be inserted behind the back of *)
(* close_owner (OwnerGone).                                                *)
(***************************************************************************)
EXTENDS StoreHost, FiniteSetTheorems, TLAPS

\* Places of a handler, of an OpenStore before its session exists, and of a
\* request that has its session.
Before == {"unsent", "new", "gate"}
Routed == {"found", "close", "remove", "sweep", "waiting"}

\* What a handler is doing fits the request it handles.
HandlersFit ==
    \A r \in Requests :
      /\ pc[r] \in {"gate", "sending"} => KindOf[r] = "open"
      /\ pc[r] \in Routed => KindOf[r] # "open"
      /\ pc[r] \in Routed \ {"found"} => KindOf[r] = "close"

\* A session is told once it was sent; a request names a session that was told,
\* and is routed to it only on the connection that owns it.
TargetsFit ==
    \A r \in Requests :
      /\ pc[r] = "unsent" => target[r] = None
      /\ KindOf[r] = "open" => target[r] \in {None, r}
      /\ KindOf[r] = "open" /\ pc[r] \in Before \cup {"sending"} => target[r] = None
      /\ KindOf[r] # "open" /\ pc[r] # "unsent" => target[r] \in Told
      /\ pc[r] \in Routed => ConnOf[target[r]] = ConnOf[r]
      /\ r \in Calls /\ guest[r] # "none" =>
           target[r] \in Told /\ ConnOf[target[r]] = ConnOf[r] /\ pc[r] # "unsent"

\* A session that is not there yet is neither in the table nor closed, nor
\* collected by anyone.
NotYetOpen ==
    \A s \in Opens : pc[s] \in Before =>
      /\ s \notin sessions /\ ~closed[s]
      /\ \A x \in Connections \cup {None} : s \notin collected[x]

\* A session leaves the table only closed, and is closed before it is swept.
ClosedFirst ==
    /\ \A s \in Opens : target[s] = s \/ pc[s] = "sending" => s \in sessions \/ closed[s]
    /\ \A r \in Closes : pc[r] \in {"remove", "sweep", "waiting"} => closed[target[r]]
    /\ \A c \in Connections : collected[c] \subseteq Owned(c)
    /\ \A c \in Connections : cleanup[c] \in {"swept", "waiting", "done"} =>
                                \A s \in collected[c] : closed[s]
    /\ shut \in {"sweep", "waiting", "returned"} => \A s \in collected[None] : closed[s]
    /\ shut \in {"close", "sweep", "waiting", "returned"} => shuttingDown

\* A handler or a cleanup that took the session out has yet to sweep it.
Sweeping(s) ==
    \/ \E r \in Closes : target[r] = s /\ pc[r] \in {"remove", "sweep"}
    \/ \E c \in Connections : s \in collected[c] /\ cleanup[c] = "swept"

\* Shutdown removes what it has swept, so it strands no guest either, even
\* when the future of serve is dropped between two of its steps.
GuestsSwept ==
    \A r \in Calls : guest[r] = "running" =>
      /\ target[r] \in sessions \/ Sweeping(target[r])
      /\ shut = "waiting" => target[r] \notin collected[None]

\* How far a connection has come.
DriversFit ==
    \A c \in Connections :
      /\ cleanup[c] \in {"spawned", "swept", "waiting", "done"} =>
           driver[c] \in {"cleaning", "ended", "cancelled"}
      /\ driver[c] \in {"cleaning", "ended"} => writer[c] = "stopped"
      /\ driver[c] \in {"flushing", "cleaning", "ended"} =>
           \A r \in Requests : ConnOf[r] = c => pc[r] \in {"unsent", "joined"}
      /\ driver[c] = "listening" => \A r \in Requests : ConnOf[r] = c => pc[r] = "unsent"

\* A cleanup whose driver waited for the handlers leaves nothing in the table.
OwnerGone ==
    \A c \in Connections :
      cleanup[c] \in {"swept", "waiting", "done"} /\ driver[c] # "cancelled" =>
        \A s \in sessions : ConnOf[s] # c

\* SessionsSurvive, from the moment the session is in the table.
SessionsLast ==
    \A s \in Opens : target[s] = s \/ pc[s] = "sending" =>
      \/ s \in sessions /\ ~closed[s]
      \/ shuttingDown
      \/ driver[ConnOf[s]] # "loop"
      \/ \E r \in Closes : target[r] = s /\ ConnOf[r] = ConnOf[s]

HostInv ==
    /\ TypeOK /\ HandlersFit /\ TargetsFit /\ NotYetOpen /\ ClosedFirst
    /\ GuestsSwept /\ DriversFit /\ OwnerGone /\ SessionsLast

\* The kinds partition the requests.
LEMMA KindFacts ==
    /\ Opens \subseteq Requests /\ Calls \subseteq Requests /\ Closes \subseteq Requests
    /\ \A r \in Requests :
         /\ KindOf[r] = "open" <=> r \in Opens
         /\ KindOf[r] = "call" <=> r \in Calls
         /\ KindOf[r] = "close" <=> r \in Closes
         /\ KindOf[r] \in {"open", "call", "close"}
         /\ ConnOf[r] \in Connections
    /\ None \notin Requests \cup Connections
<1>1. /\ ConnOf \in [Requests -> Connections] /\ KindOf \in [Requests -> {"open", "call", "close"}]
      /\ None \notin Requests \cup Connections
  BY HostAssumption
<1> QED
  BY <1>1 DEF Opens, Calls, Closes

\* A handler keeps to the path of its kind of request.
LEMMA HandlersFitStep ==
    ASSUME TypeOK, HandlersFit, Next
    PROVE  HandlersFit'
<1> USE KindFacts DEF HandlersFit, Routed, TypeOK, Over
<1>1. ASSUME NEW c \in Connections, Accept(c) \/ PeerCloses(c) \/ ReadFails(c) \/ WriterFails(c) \/
  SeesShutdown(c) \/ Fail(c) \/ StopWriter(c) \/ SpawnCleanup(c) \/ EndConnection(c) \/
  WriterDrains(c) \/ WriterStops(c) PROVE HandlersFit'
  BY <1>1 DEF Accept, handlerVars, hostVars, runtimeVars, PeerCloses, Break, ReadFails, Broken,
    AbortAll, WriterFails, SeesShutdown, Fail, StopWriter, SpawnCleanup, EndConnection,
    WriterDrains, WriterStops
<1>2. ASSUME NEW c \in Connections, NEW r \in Requests, NEW s \in Opens \cup {None}, Read(c, r, s)
  PROVE HandlersFit'
  BY <1>2 DEF Read, Goto, connVars, hostVars, runtimeVars
<1>3. ASSUME NEW r \in Calls, GuestEnds(r) \/ GuestStops(r) PROVE HandlersFit'
  BY <1>3 DEF GuestEnds, connVars, handlerVars, hostVars, runtimeVars, GuestStops
<1>4. ASSUME RequestShutdown \/ ListenerFails \/ Serve PROVE HandlersFit'
  BY <1>4 DEF RequestShutdown, connVars, handlerVars, runtimeVars, ListenerFails, Serve
<1>5. ASSUME CancelServe PROVE HandlersFit'
  BY <1>5 DEF CancelServe, runtimeVars
<1>6. ASSUME NEW r \in Requests, OpenCheck(r) PROVE HandlersFit'
  BY <1>6 DEF OpenCheck, Goto, connVars, hostVars, runtimeVars
<1>7. ASSUME NEW r \in Requests, OpenInsert(r) PROVE HandlersFit'
  BY <1>7 DEF OpenInsert, Goto, connVars, hostVars
<1>8. ASSUME NEW r \in Requests, OpenAnswered(r) PROVE HandlersFit'
  BY <1>8 DEF OpenAnswered, Goto, connVars, hostVars, runtimeVars
<1>9. ASSUME NEW r \in Requests, OpenUnanswered(r) PROVE HandlersFit'
  BY <1>9 DEF OpenUnanswered, RollBack, Goto, connVars, hostVars
<1>10. ASSUME NEW r \in Requests, FindSession(r) PROVE HandlersFit'
  BY <1>10 DEF FindSession, Goto, connVars, hostVars, runtimeVars
<1>11. ASSUME NEW r \in Requests, StartGuest(r) PROVE HandlersFit'
  BY <1>11 DEF StartGuest, Goto, connVars, hostVars, runtimeVars
<1>12. ASSUME NEW r \in Requests, BeginClose(r) PROVE HandlersFit'
  BY <1>12 DEF BeginClose, Goto, connVars, hostVars, runtimeVars
<1>13. ASSUME NEW r \in Requests, CloseSession(r) PROVE HandlersFit'
  BY <1>13 DEF CloseSession, Goto, connVars, hostVars
<1>14. ASSUME NEW r \in Requests, RemoveSession(r) PROVE HandlersFit'
  BY <1>14 DEF RemoveSession, Goto, connVars, hostVars
<1>15. ASSUME NEW r \in Requests, SweepSession(r) PROVE HandlersFit'
  BY <1>15 DEF SweepSession, CancelGuests, Goto, connVars, hostVars, runtimeVars
<1>16. ASSUME NEW r \in Requests, SessionSwept(r) PROVE HandlersFit'
  BY <1>16 DEF SessionSwept, Goto, connVars, hostVars, runtimeVars
<1>17. ASSUME NEW r \in Requests, Answer(r) PROVE HandlersFit'
  BY <1>17 DEF Answer, Goto, connVars, hostVars, runtimeVars
<1>18. ASSUME NEW r \in Requests, Die(r) PROVE HandlersFit'
  BY <1>18 DEF Die, RollBack, Goto, connVars, hostVars
<1>19. ASSUME NEW c \in Connections, NEW r \in Requests, JoinNext(c, r) PROVE HandlersFit'
  BY <1>19 DEF JoinNext, Broken, AbortAll, Goto, hostVars, runtimeVars
<1>20. ASSUME NEW c \in Connections, CloseOwner(c) \/ CancelOwned(c) \/ OwnerClosed(c) PROVE
  HandlersFit'
  BY <1>20 DEF CloseOwner, handlerVars, hostVars, CancelOwned, CancelGuests, runtimeVars,
    OwnerClosed
<1>21. ASSUME Collect \/ CloseCollected \/ CancelCollected \/ RemoveCollected PROVE HandlersFit'
  BY <1>21 DEF Collect, connVars, handlerVars, CloseCollected, CancelCollected, CancelGuests,
    runtimeVars, RemoveCollected
<1> QED
  BY <1>1, <1>2, <1>3, <1>4, <1>5, <1>6, <1>7, <1>8, <1>9, <1>10, <1>11, <1>12, <1>13, <1>14,
    <1>15, <1>16, <1>17, <1>18, <1>19, <1>20, <1>21 DEF Next, ClientStep, HandlerStep, DriverStep,
    WriterStep, CleanupStep, Shutdown

\* Sessions are told once, and requests routed to sessions of their connection.
LEMMA TargetsFitStep ==
    ASSUME TypeOK, HandlersFit, TargetsFit, Next
    PROVE  TargetsFit'
<1> USE KindFacts DEF TargetsFit, HandlersFit, Told, Before, Routed, TypeOK, Over
<1>1. ASSUME NEW c \in Connections, Accept(c) \/ PeerCloses(c) \/ ReadFails(c) \/ WriterFails(c) \/
  SeesShutdown(c) \/ Fail(c) \/ StopWriter(c) \/ SpawnCleanup(c) \/ EndConnection(c) \/
  WriterDrains(c) \/ WriterStops(c) PROVE TargetsFit'
  BY <1>1 DEF Accept, handlerVars, hostVars, runtimeVars, PeerCloses, Break, ReadFails, Broken,
    AbortAll, WriterFails, SeesShutdown, Fail, StopWriter, SpawnCleanup, EndConnection,
    WriterDrains, WriterStops
<1>2. ASSUME NEW c \in Connections, NEW r \in Requests, NEW s \in Opens \cup {None}, Read(c, r, s)
  PROVE TargetsFit'
  BY <1>2 DEF Read, Goto, connVars, hostVars, runtimeVars
<1>3. ASSUME NEW r \in Calls, GuestEnds(r) \/ GuestStops(r) PROVE TargetsFit'
  BY <1>3 DEF GuestEnds, connVars, handlerVars, hostVars, runtimeVars, GuestStops
<1>4. ASSUME RequestShutdown \/ ListenerFails \/ Serve PROVE TargetsFit'
  BY <1>4 DEF RequestShutdown, connVars, handlerVars, runtimeVars, ListenerFails, Serve
<1>5. ASSUME CancelServe PROVE TargetsFit'
  BY <1>5 DEF CancelServe, runtimeVars
<1>6. ASSUME NEW r \in Requests, OpenCheck(r) PROVE TargetsFit'
  BY <1>6 DEF OpenCheck, Goto, connVars, hostVars, runtimeVars
<1>7. ASSUME NEW r \in Requests, OpenInsert(r) PROVE TargetsFit'
  BY <1>7 DEF OpenInsert, Goto, connVars, hostVars
<1>8. ASSUME NEW r \in Requests, OpenAnswered(r) PROVE TargetsFit'
  BY <1>8 DEF OpenAnswered, Goto, connVars, hostVars, runtimeVars
<1>9. ASSUME NEW r \in Requests, OpenUnanswered(r) PROVE TargetsFit'
  BY <1>9 DEF OpenUnanswered, RollBack, Goto, connVars, hostVars
<1>10. ASSUME NEW r \in Requests, FindSession(r) PROVE TargetsFit'
  BY <1>10 DEF FindSession, Goto, connVars, hostVars, runtimeVars
<1>11. ASSUME NEW r \in Requests, StartGuest(r) PROVE TargetsFit'
  BY <1>11 DEF StartGuest, Goto, connVars, hostVars, runtimeVars
<1>12. ASSUME NEW r \in Requests, BeginClose(r) PROVE TargetsFit'
  BY <1>12 DEF BeginClose, Goto, connVars, hostVars, runtimeVars
<1>13. ASSUME NEW r \in Requests, CloseSession(r) PROVE TargetsFit'
  BY <1>13 DEF CloseSession, Goto, connVars, hostVars
<1>14. ASSUME NEW r \in Requests, RemoveSession(r) PROVE TargetsFit'
  BY <1>14 DEF RemoveSession, Goto, connVars, hostVars
<1>15. ASSUME NEW r \in Requests, SweepSession(r) PROVE TargetsFit'
  BY <1>15 DEF SweepSession, CancelGuests, Goto, connVars, hostVars, runtimeVars
<1>16. ASSUME NEW r \in Requests, SessionSwept(r) PROVE TargetsFit'
  BY <1>16 DEF SessionSwept, Goto, connVars, hostVars, runtimeVars
<1>17. ASSUME NEW r \in Requests, Answer(r) PROVE TargetsFit'
  BY <1>17 DEF Answer, Goto, connVars, hostVars, runtimeVars
<1>18. ASSUME NEW r \in Requests, Die(r) PROVE TargetsFit'
  BY <1>18 DEF Die, RollBack, Goto, connVars, hostVars
<1>19. ASSUME NEW c \in Connections, NEW r \in Requests, JoinNext(c, r) PROVE TargetsFit'
  BY <1>19 DEF JoinNext, Broken, AbortAll, Goto, hostVars, runtimeVars
<1>20. ASSUME NEW c \in Connections, CloseOwner(c) \/ OwnerClosed(c) PROVE TargetsFit'
  BY <1>20 DEF CloseOwner, handlerVars, hostVars, OwnerClosed, runtimeVars
<1>21. ASSUME NEW c \in Connections, CancelOwned(c) PROVE TargetsFit'
  BY <1>21 DEF CancelOwned, CancelGuests, handlerVars, hostVars, runtimeVars
<1>22. ASSUME Collect \/ CloseCollected \/ RemoveCollected PROVE TargetsFit'
  BY <1>22 DEF Collect, connVars, handlerVars, CloseCollected, RemoveCollected
<1>23. ASSUME CancelCollected PROVE TargetsFit'
  BY <1>23 DEF CancelCollected, CancelGuests, connVars, handlerVars, runtimeVars
<1> QED
  BY <1>1, <1>2, <1>3, <1>4, <1>5, <1>6, <1>7, <1>8, <1>9, <1>10, <1>11, <1>12, <1>13, <1>14,
    <1>15, <1>16, <1>17, <1>18, <1>19, <1>20, <1>21, <1>22, <1>23 DEF Next, ClientStep,
    HandlerStep, DriverStep, WriterStep, CleanupStep, Shutdown

\* Nothing is done to a session before open_store inserts it.
LEMMA NotYetOpenStep ==
    ASSUME TypeOK, HandlersFit, TargetsFit, NotYetOpen, Next
    PROVE  NotYetOpen'
<1> USE KindFacts DEF NotYetOpen, TargetsFit, HandlersFit, Told, Before, Routed, TypeOK, Over
<1>1. ASSUME NEW c \in Connections, Accept(c) \/ PeerCloses(c) \/ ReadFails(c) \/ WriterFails(c) \/
  SeesShutdown(c) \/ Fail(c) \/ StopWriter(c) \/ SpawnCleanup(c) \/ EndConnection(c) \/
  WriterDrains(c) \/ WriterStops(c) PROVE NotYetOpen'
  BY <1>1 DEF Accept, handlerVars, hostVars, runtimeVars, PeerCloses, Break, ReadFails, Broken,
    AbortAll, WriterFails, SeesShutdown, Fail, StopWriter, SpawnCleanup, EndConnection,
    WriterDrains, WriterStops
<1>2. ASSUME NEW c \in Connections, NEW r \in Requests, NEW s \in Opens \cup {None}, Read(c, r, s)
  PROVE NotYetOpen'
  BY <1>2 DEF Read, Goto, connVars, hostVars, runtimeVars
<1>3. ASSUME NEW r \in Calls, GuestEnds(r) \/ GuestStops(r) PROVE NotYetOpen'
  BY <1>3 DEF GuestEnds, connVars, handlerVars, hostVars, runtimeVars, GuestStops
<1>4. ASSUME RequestShutdown \/ ListenerFails \/ Serve PROVE NotYetOpen'
  BY <1>4 DEF RequestShutdown, connVars, handlerVars, runtimeVars, ListenerFails, Serve
<1>5. ASSUME CancelServe PROVE NotYetOpen'
  BY <1>5 DEF CancelServe, runtimeVars
<1>6. ASSUME NEW r \in Requests, OpenCheck(r) PROVE NotYetOpen'
  BY <1>6 DEF OpenCheck, Goto, connVars, hostVars, runtimeVars
<1>7. ASSUME NEW r \in Requests, OpenInsert(r) PROVE NotYetOpen'
  BY <1>7 DEF OpenInsert, Goto, connVars, hostVars
<1>8. ASSUME NEW r \in Requests, OpenAnswered(r) PROVE NotYetOpen'
  BY <1>8 DEF OpenAnswered, Goto, connVars, hostVars, runtimeVars
<1>9. ASSUME NEW r \in Requests, OpenUnanswered(r) PROVE NotYetOpen'
  BY <1>9 DEF OpenUnanswered, RollBack, Goto, connVars, hostVars
<1>10. ASSUME NEW r \in Requests, FindSession(r) PROVE NotYetOpen'
  BY <1>10 DEF FindSession, Goto, connVars, hostVars, runtimeVars
<1>11. ASSUME NEW r \in Requests, StartGuest(r) PROVE NotYetOpen'
  BY <1>11 DEF StartGuest, Goto, connVars, hostVars, runtimeVars
<1>12. ASSUME NEW r \in Requests, BeginClose(r) PROVE NotYetOpen'
  BY <1>12 DEF BeginClose, Goto, connVars, hostVars, runtimeVars
<1>13. ASSUME NEW r \in Requests, CloseSession(r) PROVE NotYetOpen'
  BY <1>13 DEF CloseSession, Goto, connVars, hostVars
<1>14. ASSUME NEW r \in Requests, RemoveSession(r) PROVE NotYetOpen'
  BY <1>14 DEF RemoveSession, Goto, connVars, hostVars
<1>15. ASSUME NEW r \in Requests, SweepSession(r) PROVE NotYetOpen'
  BY <1>15 DEF SweepSession, CancelGuests, Goto, connVars, hostVars, runtimeVars
<1>16. ASSUME NEW r \in Requests, SessionSwept(r) PROVE NotYetOpen'
  BY <1>16 DEF SessionSwept, Goto, connVars, hostVars, runtimeVars
<1>17. ASSUME NEW r \in Requests, Answer(r) PROVE NotYetOpen'
  BY <1>17 DEF Answer, Goto, connVars, hostVars, runtimeVars
<1>18. ASSUME NEW r \in Requests, Die(r) PROVE NotYetOpen'
  BY <1>18 DEF Die, RollBack, Goto, connVars, hostVars
<1>19. ASSUME NEW c \in Connections, NEW r \in Requests, JoinNext(c, r) PROVE NotYetOpen'
  BY <1>19 DEF JoinNext, Broken, AbortAll, Goto, hostVars, runtimeVars
<1>20. ASSUME NEW c \in Connections, CloseOwner(c) PROVE NotYetOpen'
  BY <1>20 DEF CloseOwner, handlerVars, hostVars
<1>21. ASSUME NEW c \in Connections, CancelOwned(c) PROVE NotYetOpen'
  BY <1>21 DEF CancelOwned, CancelGuests, handlerVars, hostVars, runtimeVars
<1>22. ASSUME NEW c \in Connections, OwnerClosed(c) PROVE NotYetOpen'
  BY <1>22 DEF OwnerClosed, handlerVars, hostVars, runtimeVars
<1>23. ASSUME Collect PROVE NotYetOpen'
  BY <1>23 DEF Collect, connVars, handlerVars
<1>24. ASSUME CloseCollected PROVE NotYetOpen'
  BY <1>24 DEF CloseCollected, connVars, handlerVars
<1>25. ASSUME CancelCollected PROVE NotYetOpen'
  BY <1>25 DEF CancelCollected, CancelGuests, connVars, handlerVars, runtimeVars
<1>26. ASSUME RemoveCollected PROVE NotYetOpen'
  BY <1>26 DEF RemoveCollected, connVars, handlerVars
<1> QED
  BY <1>1, <1>2, <1>3, <1>4, <1>5, <1>6, <1>7, <1>8, <1>9, <1>10, <1>11, <1>12, <1>13, <1>14,
    <1>15, <1>16, <1>17, <1>18, <1>19, <1>20, <1>21, <1>22, <1>23, <1>24, <1>25, <1>26 DEF Next,
    ClientStep, HandlerStep, DriverStep, WriterStep, CleanupStep, Shutdown

\* Whoever removes or sweeps a session has closed it.
LEMMA ClosedFirstStep ==
    ASSUME TypeOK, HandlersFit, TargetsFit, NotYetOpen, ClosedFirst, Next
    PROVE  ClosedFirst'
<1> USE KindFacts DEF ClosedFirst, NotYetOpen, TargetsFit, HandlersFit, Told, Owned, Before, Routed, TypeOK, Over
<1>1. ASSUME NEW c \in Connections, Accept(c) PROVE ClosedFirst'
  BY <1>1 DEF Accept, handlerVars, hostVars, runtimeVars
<1>2. ASSUME NEW c \in Connections, NEW r \in Requests, NEW s \in Opens \cup {None}, Read(c, r, s)
  PROVE ClosedFirst'
  BY <1>2 DEF Read, Goto, connVars, hostVars, runtimeVars
<1>3. ASSUME NEW c \in Connections, PeerCloses(c) \/ ReadFails(c) \/ WriterFails(c) \/
  SeesShutdown(c) \/ Fail(c) \/ StopWriter(c) \/ EndConnection(c) \/ WriterDrains(c) \/
  WriterStops(c) PROVE ClosedFirst'
  BY <1>3 DEF PeerCloses, Break, handlerVars, hostVars, runtimeVars, ReadFails, Broken, AbortAll,
    WriterFails, SeesShutdown, Fail, StopWriter, EndConnection, WriterDrains, WriterStops
<1>4. ASSUME NEW r \in Calls, GuestEnds(r) \/ GuestStops(r) PROVE ClosedFirst'
  BY <1>4 DEF GuestEnds, connVars, handlerVars, hostVars, runtimeVars, GuestStops
<1>5. ASSUME RequestShutdown \/ ListenerFails PROVE ClosedFirst'
  BY <1>5 DEF RequestShutdown, connVars, handlerVars, runtimeVars, ListenerFails
<1>6. ASSUME CancelServe PROVE ClosedFirst'
  BY <1>6 DEF CancelServe, runtimeVars
<1>7. ASSUME NEW r \in Requests, OpenCheck(r) PROVE ClosedFirst'
  BY <1>7 DEF OpenCheck, Goto, connVars, hostVars, runtimeVars
<1>8. ASSUME NEW r \in Requests, OpenInsert(r) PROVE ClosedFirst'
  BY <1>8 DEF OpenInsert, Goto, connVars, hostVars
<1>9. ASSUME NEW r \in Requests, OpenAnswered(r) PROVE ClosedFirst'
  BY <1>9 DEF OpenAnswered, Goto, connVars, hostVars, runtimeVars
<1>10. ASSUME NEW r \in Requests, OpenUnanswered(r) PROVE ClosedFirst'
  BY <1>10 DEF OpenUnanswered, RollBack, Goto, connVars, hostVars
<1>11. ASSUME NEW r \in Requests, FindSession(r) PROVE ClosedFirst'
  BY <1>11 DEF FindSession, Goto, connVars, hostVars, runtimeVars
<1>12. ASSUME NEW r \in Requests, StartGuest(r) PROVE ClosedFirst'
  BY <1>12 DEF StartGuest, Goto, connVars, hostVars, runtimeVars
<1>13. ASSUME NEW r \in Requests, BeginClose(r) PROVE ClosedFirst'
  BY <1>13 DEF BeginClose, Goto, connVars, hostVars, runtimeVars
<1>14. ASSUME NEW r \in Requests, CloseSession(r) PROVE ClosedFirst'
  BY <1>14 DEF CloseSession, Goto, connVars, hostVars
<1>15. ASSUME NEW r \in Requests, RemoveSession(r) PROVE ClosedFirst'
  BY <1>15 DEF RemoveSession, Goto, connVars, hostVars
<1>16. ASSUME NEW r \in Requests, SweepSession(r) PROVE ClosedFirst'
  BY <1>16 DEF SweepSession, CancelGuests, Goto, connVars, hostVars, runtimeVars
<1>17. ASSUME NEW r \in Requests, SessionSwept(r) PROVE ClosedFirst'
  BY <1>17 DEF SessionSwept, Goto, connVars, hostVars, runtimeVars
<1>18. ASSUME NEW r \in Requests, Answer(r) PROVE ClosedFirst'
  BY <1>18 DEF Answer, Goto, connVars, hostVars, runtimeVars
<1>19. ASSUME NEW r \in Requests, Die(r) PROVE ClosedFirst'
  BY <1>19 DEF Die, RollBack, Goto, connVars, hostVars
<1>20. ASSUME NEW c \in Connections, SpawnCleanup(c) PROVE ClosedFirst'
  BY <1>20 DEF SpawnCleanup, handlerVars, hostVars, runtimeVars
<1>21. ASSUME NEW c \in Connections, NEW r \in Requests, JoinNext(c, r) PROVE ClosedFirst'
  BY <1>21 DEF JoinNext, Broken, AbortAll, Goto, hostVars, runtimeVars
<1>22. ASSUME NEW c \in Connections, CloseOwner(c) PROVE ClosedFirst'
  <2>1. pc' = pc /\ target' = target /\ shut' = shut /\ shuttingDown' = shuttingDown
    BY <1>22 DEF CloseOwner, handlerVars, hostVars
  <2>2. closed' = [s \in Opens |-> closed[s] \/ s \in sessions \cap Owned(c)]
    BY <1>22 DEF CloseOwner
  <2>3. \A s \in Opens : closed'[s] <=> closed[s] \/ (s \in sessions /\ ConnOf[s] = c)
    BY <2>2, Zenon DEF Owned
  <2>4. \A s \in Opens : s \in sessions' <=> s \in sessions /\ ConnOf[s] # c
    BY <1>22 DEF CloseOwner
  <2>5. /\ \A d \in Connections \ {c} : collected'[d] = collected[d] /\ cleanup'[d] = cleanup[d]
        /\ collected'[None] = collected[None] /\ collected'[c] = sessions \cap Owned(c)
    BY <1>22 DEF CloseOwner
  <2> QED
    BY <2>1, <2>3, <2>4, <2>5
<1>23. ASSUME NEW c \in Connections, CancelOwned(c) PROVE ClosedFirst'
  BY <1>23 DEF CancelOwned, CancelGuests, handlerVars, hostVars, runtimeVars
<1>24. ASSUME NEW c \in Connections, OwnerClosed(c) PROVE ClosedFirst'
  BY <1>24 DEF OwnerClosed, handlerVars, hostVars, runtimeVars
<1>25. ASSUME Serve PROVE ClosedFirst'
  BY <1>25 DEF Serve, connVars, handlerVars, runtimeVars
<1>26. ASSUME Collect PROVE ClosedFirst'
  BY <1>26 DEF Collect, connVars, handlerVars
<1>27. ASSUME CloseCollected PROVE ClosedFirst'
  BY <1>27 DEF CloseCollected, connVars, handlerVars
<1>28. ASSUME CancelCollected PROVE ClosedFirst'
  BY <1>28 DEF CancelCollected, CancelGuests, connVars, handlerVars, runtimeVars
<1>29. ASSUME RemoveCollected PROVE ClosedFirst'
  BY <1>29 DEF RemoveCollected, connVars, handlerVars
<1> QED
  BY <1>1, <1>2, <1>3, <1>4, <1>5, <1>6, <1>7, <1>8, <1>9, <1>10, <1>11, <1>12, <1>13, <1>14,
    <1>15, <1>16, <1>17, <1>18, <1>19, <1>20, <1>21, <1>22, <1>23, <1>24, <1>25, <1>26, <1>27,
    <1>28, <1>29 DEF Next, ClientStep, HandlerStep, DriverStep, WriterStep, CleanupStep, Shutdown

\* No step leaves a guest running in a session nobody will sweep.
LEMMA GuestsSweptStep ==
    ASSUME TypeOK, HandlersFit, TargetsFit, NotYetOpen, ClosedFirst, DriversFit, GuestsSwept, Next
    PROVE  GuestsSwept'
<1> USE KindFacts DEF GuestsSwept, DriversFit, Sweeping, ClosedFirst, NotYetOpen, TargetsFit, HandlersFit, Told, Owned, Before, Routed, TypeOK, Over
<1>1. ASSUME NEW c \in Connections, Accept(c) PROVE GuestsSwept'
  BY <1>1 DEF Accept, handlerVars, hostVars, runtimeVars
<1>2. ASSUME NEW c \in Connections, NEW r \in Requests, NEW s \in Opens \cup {None}, Read(c, r, s)
  PROVE GuestsSwept'
  BY <1>2 DEF Read, Goto, connVars, hostVars, runtimeVars
<1>3. ASSUME NEW c \in Connections, PeerCloses(c) \/ ReadFails(c) \/ WriterFails(c) \/
  SeesShutdown(c) \/ Fail(c) \/ StopWriter(c) \/ EndConnection(c) \/ WriterDrains(c) \/
  WriterStops(c) PROVE GuestsSwept'
  BY <1>3 DEF PeerCloses, Break, handlerVars, hostVars, runtimeVars, ReadFails, Broken, AbortAll,
    WriterFails, SeesShutdown, Fail, StopWriter, EndConnection, WriterDrains, WriterStops
<1>4. ASSUME NEW r \in Calls, GuestEnds(r) \/ GuestStops(r) PROVE GuestsSwept'
  BY <1>4 DEF GuestEnds, connVars, handlerVars, hostVars, runtimeVars, GuestStops
<1>5. ASSUME RequestShutdown \/ ListenerFails PROVE GuestsSwept'
  BY <1>5 DEF RequestShutdown, connVars, handlerVars, runtimeVars, ListenerFails
<1>6. ASSUME CancelServe PROVE GuestsSwept'
  BY <1>6 DEF CancelServe, runtimeVars
<1>7. ASSUME NEW r \in Requests, OpenCheck(r) PROVE GuestsSwept'
  BY <1>7 DEF OpenCheck, Goto, connVars, hostVars, runtimeVars
<1>8. ASSUME NEW r \in Requests, OpenInsert(r) PROVE GuestsSwept'
  BY <1>8 DEF OpenInsert, Goto, connVars, hostVars
<1>9. ASSUME NEW r \in Requests, OpenAnswered(r) PROVE GuestsSwept'
  BY <1>9 DEF OpenAnswered, Goto, connVars, hostVars, runtimeVars
<1>10. ASSUME NEW r \in Requests, OpenUnanswered(r) PROVE GuestsSwept'
  BY <1>10 DEF OpenUnanswered, RollBack, Goto, connVars, hostVars
<1>11. ASSUME NEW r \in Requests, FindSession(r) PROVE GuestsSwept'
  BY <1>11 DEF FindSession, Goto, connVars, hostVars, runtimeVars
<1>12. ASSUME NEW r \in Requests, StartGuest(r) PROVE GuestsSwept'
  BY <1>12 DEF StartGuest, Goto, connVars, hostVars, runtimeVars
<1>13. ASSUME NEW r \in Requests, BeginClose(r) PROVE GuestsSwept'
  BY <1>13 DEF BeginClose, Goto, connVars, hostVars, runtimeVars
<1>14. ASSUME NEW r \in Requests, CloseSession(r) PROVE GuestsSwept'
  BY <1>14 DEF CloseSession, Goto, connVars, hostVars
<1>15. ASSUME NEW r \in Requests, RemoveSession(r) PROVE GuestsSwept'
  BY <1>15 DEF RemoveSession, Goto, connVars, hostVars
<1>16. ASSUME NEW r \in Requests, SweepSession(r) PROVE GuestsSwept'
  BY <1>16 DEF SweepSession, CancelGuests, Goto, connVars, hostVars, runtimeVars
<1>17. ASSUME NEW r \in Requests, SessionSwept(r) PROVE GuestsSwept'
  BY <1>17 DEF SessionSwept, Goto, connVars, hostVars, runtimeVars
<1>18. ASSUME NEW r \in Requests, Answer(r) PROVE GuestsSwept'
  BY <1>18 DEF Answer, Goto, connVars, hostVars, runtimeVars
<1>19. ASSUME NEW r \in Requests, Die(r) PROVE GuestsSwept'
  BY <1>19 DEF Die, RollBack, Goto, connVars, hostVars
<1>20. ASSUME NEW c \in Connections, SpawnCleanup(c) PROVE GuestsSwept'
  BY <1>20 DEF SpawnCleanup, handlerVars, hostVars, runtimeVars
<1>21. ASSUME NEW c \in Connections, NEW r \in Requests, JoinNext(c, r) PROVE GuestsSwept'
  BY <1>21 DEF JoinNext, Broken, AbortAll, Goto, hostVars, runtimeVars
<1>22. ASSUME NEW c \in Connections, CloseOwner(c) PROVE GuestsSwept'
  BY <1>22 DEF CloseOwner, handlerVars, hostVars
<1>23. ASSUME NEW c \in Connections, CancelOwned(c) PROVE GuestsSwept'
  BY <1>23 DEF CancelOwned, CancelGuests, handlerVars, hostVars, runtimeVars
<1>24. ASSUME NEW c \in Connections, OwnerClosed(c) PROVE GuestsSwept'
  BY <1>24 DEF OwnerClosed, handlerVars, hostVars, runtimeVars
<1>25. ASSUME Serve PROVE GuestsSwept'
  BY <1>25 DEF Serve, connVars, handlerVars, runtimeVars
<1>26. ASSUME Collect PROVE GuestsSwept'
  BY <1>26 DEF Collect, connVars, handlerVars
<1>27. ASSUME CloseCollected PROVE GuestsSwept'
  BY <1>27 DEF CloseCollected, connVars, handlerVars
<1>28. ASSUME CancelCollected PROVE GuestsSwept'
  BY <1>28 DEF CancelCollected, CancelGuests, connVars, handlerVars, runtimeVars
<1>29. ASSUME RemoveCollected PROVE GuestsSwept'
  BY <1>29 DEF RemoveCollected, connVars, handlerVars
<1> QED
  BY <1>1, <1>2, <1>3, <1>4, <1>5, <1>6, <1>7, <1>8, <1>9, <1>10, <1>11, <1>12, <1>13, <1>14,
    <1>15, <1>16, <1>17, <1>18, <1>19, <1>20, <1>21, <1>22, <1>23, <1>24, <1>25, <1>26, <1>27,
    <1>28, <1>29 DEF Next, ClientStep, HandlerStep, DriverStep, WriterStep, CleanupStep, Shutdown

\* Drivers, writers and cleanups keep in step.
LEMMA DriversFitStep ==
    ASSUME TypeOK, DriversFit, Next
    PROVE  DriversFit'
<1> USE KindFacts DEF DriversFit, InFlight, Running, TypeOK, Over
<1>1. ASSUME NEW c \in Connections, Accept(c) PROVE DriversFit'
  BY <1>1 DEF Accept, handlerVars, hostVars, runtimeVars
<1>2. ASSUME NEW c \in Connections, NEW r \in Requests, NEW s \in Opens \cup {None}, Read(c, r, s)
  PROVE DriversFit'
  BY <1>2 DEF Read, Goto, connVars, hostVars, runtimeVars
<1>3. ASSUME NEW c \in Connections, PeerCloses(c) PROVE DriversFit'
  BY <1>3 DEF PeerCloses, Break, handlerVars, hostVars, runtimeVars
<1>4. ASSUME NEW c \in Connections, ReadFails(c) PROVE DriversFit'
  BY <1>4 DEF ReadFails, Broken, AbortAll, hostVars, runtimeVars
<1>5. ASSUME NEW c \in Connections, WriterFails(c) PROVE DriversFit'
  BY <1>5 DEF WriterFails, handlerVars, hostVars, runtimeVars
<1>6. ASSUME NEW r \in Calls, GuestEnds(r) \/ GuestStops(r) PROVE DriversFit'
  BY <1>6 DEF GuestEnds, connVars, handlerVars, hostVars, runtimeVars, GuestStops
<1>7. ASSUME RequestShutdown \/ ListenerFails \/ Serve PROVE DriversFit'
  BY <1>7 DEF RequestShutdown, connVars, handlerVars, runtimeVars, ListenerFails, Serve
<1>8. ASSUME CancelServe PROVE DriversFit'
  BY <1>8 DEF CancelServe, runtimeVars
<1>9. ASSUME NEW r \in Requests, OpenCheck(r) PROVE DriversFit'
  BY <1>9 DEF OpenCheck, Goto, connVars, hostVars, runtimeVars
<1>10. ASSUME NEW r \in Requests, OpenInsert(r) PROVE DriversFit'
  BY <1>10 DEF OpenInsert, Goto, connVars, hostVars
<1>11. ASSUME NEW r \in Requests, OpenAnswered(r) PROVE DriversFit'
  BY <1>11 DEF OpenAnswered, Goto, connVars, hostVars, runtimeVars
<1>12. ASSUME NEW r \in Requests, OpenUnanswered(r) PROVE DriversFit'
  BY <1>12 DEF OpenUnanswered, RollBack, Goto, connVars, hostVars
<1>13. ASSUME NEW r \in Requests, FindSession(r) PROVE DriversFit'
  BY <1>13 DEF FindSession, Goto, connVars, hostVars, runtimeVars
<1>14. ASSUME NEW r \in Requests, StartGuest(r) PROVE DriversFit'
  BY <1>14 DEF StartGuest, Goto, connVars, hostVars, runtimeVars
<1>15. ASSUME NEW r \in Requests, BeginClose(r) PROVE DriversFit'
  BY <1>15 DEF BeginClose, Goto, connVars, hostVars, runtimeVars
<1>16. ASSUME NEW r \in Requests, CloseSession(r) PROVE DriversFit'
  BY <1>16 DEF CloseSession, Goto, connVars, hostVars
<1>17. ASSUME NEW r \in Requests, RemoveSession(r) PROVE DriversFit'
  BY <1>17 DEF RemoveSession, Goto, connVars, hostVars
<1>18. ASSUME NEW r \in Requests, SweepSession(r) PROVE DriversFit'
  BY <1>18 DEF SweepSession, CancelGuests, Goto, connVars, hostVars, runtimeVars
<1>19. ASSUME NEW r \in Requests, SessionSwept(r) PROVE DriversFit'
  BY <1>19 DEF SessionSwept, Goto, connVars, hostVars, runtimeVars
<1>20. ASSUME NEW r \in Requests, Answer(r) PROVE DriversFit'
  BY <1>20 DEF Answer, Goto, connVars, hostVars, runtimeVars
<1>21. ASSUME NEW r \in Requests, Die(r) PROVE DriversFit'
  BY <1>21 DEF Die, RollBack, Goto, connVars, hostVars
<1>22. ASSUME NEW c \in Connections, SeesShutdown(c) PROVE DriversFit'
  BY <1>22 DEF SeesShutdown, Break, handlerVars, hostVars, runtimeVars
<1>23. ASSUME NEW c \in Connections, Fail(c) PROVE DriversFit'
  BY <1>23 DEF Fail, Broken, AbortAll, hostVars, runtimeVars
<1>24. ASSUME NEW c \in Connections, StopWriter(c) PROVE DriversFit'
  BY <1>24 DEF StopWriter, handlerVars, hostVars, runtimeVars
<1>25. ASSUME NEW c \in Connections, SpawnCleanup(c) PROVE DriversFit'
  BY <1>25 DEF SpawnCleanup, handlerVars, hostVars, runtimeVars
<1>26. ASSUME NEW c \in Connections, EndConnection(c) PROVE DriversFit'
  BY <1>26 DEF EndConnection, handlerVars, hostVars, runtimeVars
<1>27. ASSUME NEW c \in Connections, NEW r \in Requests, JoinNext(c, r) PROVE DriversFit'
  BY <1>27 DEF JoinNext, Broken, AbortAll, Goto, hostVars, runtimeVars
<1>28. ASSUME NEW c \in Connections, WriterDrains(c) PROVE DriversFit'
  BY <1>28 DEF WriterDrains, handlerVars, hostVars, runtimeVars
<1>29. ASSUME NEW c \in Connections, WriterStops(c) PROVE DriversFit'
  BY <1>29 DEF WriterStops, handlerVars, hostVars, runtimeVars
<1>30. ASSUME NEW c \in Connections, CloseOwner(c) PROVE DriversFit'
  BY <1>30 DEF CloseOwner, handlerVars, hostVars
<1>31. ASSUME NEW c \in Connections, CancelOwned(c) PROVE DriversFit'
  BY <1>31 DEF CancelOwned, CancelGuests, handlerVars, hostVars, runtimeVars
<1>32. ASSUME NEW c \in Connections, OwnerClosed(c) PROVE DriversFit'
  BY <1>32 DEF OwnerClosed, handlerVars, hostVars, runtimeVars
<1>33. ASSUME Collect \/ CloseCollected \/ CancelCollected \/ RemoveCollected PROVE DriversFit'
  BY <1>33 DEF Collect, connVars, handlerVars, CloseCollected, CancelCollected, CancelGuests,
    runtimeVars, RemoveCollected
<1> QED
  BY <1>1, <1>2, <1>3, <1>4, <1>5, <1>6, <1>7, <1>8, <1>9, <1>10, <1>11, <1>12, <1>13, <1>14,
    <1>15, <1>16, <1>17, <1>18, <1>19, <1>20, <1>21, <1>22, <1>23, <1>24, <1>25, <1>26, <1>27,
    <1>28, <1>29, <1>30, <1>31, <1>32, <1>33 DEF Next, ClientStep, HandlerStep, DriverStep,
    WriterStep, CleanupStep, Shutdown

\* After close_owner no handler can insert a session of its connection.
LEMMA OwnerGoneStep ==
    ASSUME TypeOK, HandlersFit, DriversFit, OwnerGone, Next
    PROVE  OwnerGone'
<1> USE KindFacts DEF OwnerGone, DriversFit, HandlersFit, InFlight, Running, Owned, TypeOK, Over
<1>1. ASSUME NEW c \in Connections, Accept(c) PROVE OwnerGone'
  BY <1>1 DEF Accept, handlerVars, hostVars, runtimeVars
<1>2. ASSUME NEW c \in Connections, NEW r \in Requests, NEW s \in Opens \cup {None}, Read(c, r, s)
  PROVE OwnerGone'
  BY <1>2 DEF Read, Goto, connVars, hostVars, runtimeVars
<1>3. ASSUME NEW c \in Connections, PeerCloses(c) PROVE OwnerGone'
  BY <1>3 DEF PeerCloses, Break, handlerVars, hostVars, runtimeVars
<1>4. ASSUME NEW c \in Connections, ReadFails(c) PROVE OwnerGone'
  BY <1>4 DEF ReadFails, Broken, AbortAll, hostVars, runtimeVars
<1>5. ASSUME NEW c \in Connections, WriterFails(c) PROVE OwnerGone'
  BY <1>5 DEF WriterFails, handlerVars, hostVars, runtimeVars
<1>6. ASSUME NEW r \in Calls, GuestEnds(r) \/ GuestStops(r) PROVE OwnerGone'
  BY <1>6 DEF GuestEnds, connVars, handlerVars, hostVars, runtimeVars, GuestStops
<1>7. ASSUME RequestShutdown \/ ListenerFails \/ Serve PROVE OwnerGone'
  BY <1>7 DEF RequestShutdown, connVars, handlerVars, runtimeVars, ListenerFails, Serve
<1>8. ASSUME CancelServe PROVE OwnerGone'
  BY <1>8 DEF CancelServe, runtimeVars
<1>9. ASSUME NEW r \in Requests, OpenCheck(r) PROVE OwnerGone'
  BY <1>9 DEF OpenCheck, Goto, connVars, hostVars, runtimeVars
<1>10. ASSUME NEW r \in Requests, OpenInsert(r) PROVE OwnerGone'
  BY <1>10 DEF OpenInsert, Goto, connVars, hostVars
<1>11. ASSUME NEW r \in Requests, OpenAnswered(r) PROVE OwnerGone'
  BY <1>11 DEF OpenAnswered, Goto, connVars, hostVars, runtimeVars
<1>12. ASSUME NEW r \in Requests, OpenUnanswered(r) PROVE OwnerGone'
  BY <1>12 DEF OpenUnanswered, RollBack, Goto, connVars, hostVars
<1>13. ASSUME NEW r \in Requests, FindSession(r) PROVE OwnerGone'
  BY <1>13 DEF FindSession, Goto, connVars, hostVars, runtimeVars
<1>14. ASSUME NEW r \in Requests, StartGuest(r) PROVE OwnerGone'
  BY <1>14 DEF StartGuest, Goto, connVars, hostVars, runtimeVars
<1>15. ASSUME NEW r \in Requests, BeginClose(r) PROVE OwnerGone'
  BY <1>15 DEF BeginClose, Goto, connVars, hostVars, runtimeVars
<1>16. ASSUME NEW r \in Requests, CloseSession(r) PROVE OwnerGone'
  BY <1>16 DEF CloseSession, Goto, connVars, hostVars
<1>17. ASSUME NEW r \in Requests, RemoveSession(r) PROVE OwnerGone'
  BY <1>17 DEF RemoveSession, Goto, connVars, hostVars
<1>18. ASSUME NEW r \in Requests, SweepSession(r) PROVE OwnerGone'
  BY <1>18 DEF SweepSession, CancelGuests, Goto, connVars, hostVars, runtimeVars
<1>19. ASSUME NEW r \in Requests, SessionSwept(r) PROVE OwnerGone'
  BY <1>19 DEF SessionSwept, Goto, connVars, hostVars, runtimeVars
<1>20. ASSUME NEW r \in Requests, Answer(r) PROVE OwnerGone'
  BY <1>20 DEF Answer, Goto, connVars, hostVars, runtimeVars
<1>21. ASSUME NEW r \in Requests, Die(r) PROVE OwnerGone'
  BY <1>21 DEF Die, RollBack, Goto, connVars, hostVars
<1>22. ASSUME NEW c \in Connections, SeesShutdown(c) PROVE OwnerGone'
  BY <1>22 DEF SeesShutdown, Break, handlerVars, hostVars, runtimeVars
<1>23. ASSUME NEW c \in Connections, Fail(c) PROVE OwnerGone'
  BY <1>23 DEF Fail, Broken, AbortAll, hostVars, runtimeVars
<1>24. ASSUME NEW c \in Connections, StopWriter(c) PROVE OwnerGone'
  BY <1>24 DEF StopWriter, handlerVars, hostVars, runtimeVars
<1>25. ASSUME NEW c \in Connections, SpawnCleanup(c) PROVE OwnerGone'
  BY <1>25 DEF SpawnCleanup, handlerVars, hostVars, runtimeVars
<1>26. ASSUME NEW c \in Connections, EndConnection(c) PROVE OwnerGone'
  BY <1>26 DEF EndConnection, handlerVars, hostVars, runtimeVars
<1>27. ASSUME NEW c \in Connections, NEW r \in Requests, JoinNext(c, r) PROVE OwnerGone'
  BY <1>27 DEF JoinNext, Broken, AbortAll, Goto, hostVars, runtimeVars
<1>28. ASSUME NEW c \in Connections, WriterDrains(c) PROVE OwnerGone'
  BY <1>28 DEF WriterDrains, handlerVars, hostVars, runtimeVars
<1>29. ASSUME NEW c \in Connections, WriterStops(c) PROVE OwnerGone'
  BY <1>29 DEF WriterStops, handlerVars, hostVars, runtimeVars
<1>30. ASSUME NEW c \in Connections, CloseOwner(c) PROVE OwnerGone'
  BY <1>30 DEF CloseOwner, handlerVars, hostVars
<1>31. ASSUME NEW c \in Connections, CancelOwned(c) PROVE OwnerGone'
  BY <1>31 DEF CancelOwned, CancelGuests, handlerVars, hostVars, runtimeVars
<1>32. ASSUME NEW c \in Connections, OwnerClosed(c) PROVE OwnerGone'
  BY <1>32 DEF OwnerClosed, handlerVars, hostVars, runtimeVars
<1>33. ASSUME Collect PROVE OwnerGone'
  BY <1>33 DEF Collect, connVars, handlerVars
<1>34. ASSUME CloseCollected PROVE OwnerGone'
  BY <1>34 DEF CloseCollected, connVars, handlerVars
<1>35. ASSUME CancelCollected PROVE OwnerGone'
  BY <1>35 DEF CancelCollected, CancelGuests, connVars, handlerVars, runtimeVars
<1>36. ASSUME RemoveCollected PROVE OwnerGone'
  BY <1>36 DEF RemoveCollected, connVars, handlerVars
<1> QED
  BY <1>1, <1>2, <1>3, <1>4, <1>5, <1>6, <1>7, <1>8, <1>9, <1>10, <1>11, <1>12, <1>13, <1>14,
    <1>15, <1>16, <1>17, <1>18, <1>19, <1>20, <1>21, <1>22, <1>23, <1>24, <1>25, <1>26, <1>27,
    <1>28, <1>29, <1>30, <1>31, <1>32, <1>33, <1>34, <1>35, <1>36 DEF Next, ClientStep,
    HandlerStep, DriverStep, WriterStep, CleanupStep, Shutdown

\* Nobody else takes a session away.
LEMMA SessionsLastStep ==
    ASSUME TypeOK, HandlersFit, TargetsFit, NotYetOpen, ClosedFirst, DriversFit, SessionsLast, Next
    PROVE  SessionsLast'
<1> USE KindFacts DEF SessionsLast, ClosedFirst, NotYetOpen, DriversFit, TargetsFit, HandlersFit, Told, Owned, Before, Routed, TypeOK, Over
<1>1. ASSUME NEW c \in Connections, Accept(c) PROVE SessionsLast'
  BY <1>1 DEF Accept, handlerVars, hostVars, runtimeVars
<1>2. ASSUME NEW c \in Connections, NEW r \in Requests, NEW s \in Opens \cup {None}, Read(c, r, s)
  PROVE SessionsLast'
  BY <1>2 DEF Read, Goto, connVars, hostVars, runtimeVars
<1>3. ASSUME NEW c \in Connections, PeerCloses(c) PROVE SessionsLast'
  BY <1>3 DEF PeerCloses, Break, handlerVars, hostVars, runtimeVars
<1>4. ASSUME NEW c \in Connections, ReadFails(c) PROVE SessionsLast'
  BY <1>4 DEF ReadFails, Broken, AbortAll, hostVars, runtimeVars
<1>5. ASSUME NEW c \in Connections, WriterFails(c) PROVE SessionsLast'
  BY <1>5 DEF WriterFails, handlerVars, hostVars, runtimeVars
<1>6. ASSUME NEW r \in Calls, GuestEnds(r) \/ GuestStops(r) PROVE SessionsLast'
  BY <1>6 DEF GuestEnds, connVars, handlerVars, hostVars, runtimeVars, GuestStops
<1>7. ASSUME RequestShutdown \/ ListenerFails \/ Serve PROVE SessionsLast'
  BY <1>7 DEF RequestShutdown, connVars, handlerVars, runtimeVars, ListenerFails, Serve
<1>8. ASSUME CancelServe PROVE SessionsLast'
  BY <1>8 DEF CancelServe, runtimeVars
<1>9. ASSUME NEW r \in Requests, OpenCheck(r) PROVE SessionsLast'
  BY <1>9 DEF OpenCheck, Goto, connVars, hostVars, runtimeVars
<1>10. ASSUME NEW r \in Requests, OpenInsert(r) PROVE SessionsLast'
  BY <1>10 DEF OpenInsert, Goto, connVars, hostVars
<1>11. ASSUME NEW r \in Requests, OpenAnswered(r) PROVE SessionsLast'
  BY <1>11 DEF OpenAnswered, Goto, connVars, hostVars, runtimeVars
<1>12. ASSUME NEW r \in Requests, OpenUnanswered(r) PROVE SessionsLast'
  BY <1>12 DEF OpenUnanswered, RollBack, Goto, connVars, hostVars
<1>13. ASSUME NEW r \in Requests, FindSession(r) PROVE SessionsLast'
  BY <1>13 DEF FindSession, Goto, connVars, hostVars, runtimeVars
<1>14. ASSUME NEW r \in Requests, StartGuest(r) PROVE SessionsLast'
  BY <1>14 DEF StartGuest, Goto, connVars, hostVars, runtimeVars
<1>15. ASSUME NEW r \in Requests, BeginClose(r) PROVE SessionsLast'
  BY <1>15 DEF BeginClose, Goto, connVars, hostVars, runtimeVars
<1>16. ASSUME NEW r \in Requests, CloseSession(r) PROVE SessionsLast'
  BY <1>16 DEF CloseSession, Goto, connVars, hostVars
<1>17. ASSUME NEW r \in Requests, RemoveSession(r) PROVE SessionsLast'
  BY <1>17 DEF RemoveSession, Goto, connVars, hostVars
<1>18. ASSUME NEW r \in Requests, SweepSession(r) PROVE SessionsLast'
  BY <1>18 DEF SweepSession, CancelGuests, Goto, connVars, hostVars, runtimeVars
<1>19. ASSUME NEW r \in Requests, SessionSwept(r) PROVE SessionsLast'
  BY <1>19 DEF SessionSwept, Goto, connVars, hostVars, runtimeVars
<1>20. ASSUME NEW r \in Requests, Answer(r) PROVE SessionsLast'
  BY <1>20 DEF Answer, Goto, connVars, hostVars, runtimeVars
<1>21. ASSUME NEW r \in Requests, Die(r) PROVE SessionsLast'
  BY <1>21 DEF Die, RollBack, Goto, connVars, hostVars
<1>22. ASSUME NEW c \in Connections, SeesShutdown(c) PROVE SessionsLast'
  BY <1>22 DEF SeesShutdown, Break, handlerVars, hostVars, runtimeVars
<1>23. ASSUME NEW c \in Connections, Fail(c) PROVE SessionsLast'
  BY <1>23 DEF Fail, Broken, AbortAll, hostVars, runtimeVars
<1>24. ASSUME NEW c \in Connections, StopWriter(c) PROVE SessionsLast'
  BY <1>24 DEF StopWriter, handlerVars, hostVars, runtimeVars
<1>25. ASSUME NEW c \in Connections, SpawnCleanup(c) PROVE SessionsLast'
  BY <1>25 DEF SpawnCleanup, handlerVars, hostVars, runtimeVars
<1>26. ASSUME NEW c \in Connections, EndConnection(c) PROVE SessionsLast'
  BY <1>26 DEF EndConnection, handlerVars, hostVars, runtimeVars
<1>27. ASSUME NEW c \in Connections, NEW r \in Requests, JoinNext(c, r) PROVE SessionsLast'
  BY <1>27 DEF JoinNext, Broken, AbortAll, Goto, hostVars, runtimeVars
<1>28. ASSUME NEW c \in Connections, WriterDrains(c) PROVE SessionsLast'
  BY <1>28 DEF WriterDrains, handlerVars, hostVars, runtimeVars
<1>29. ASSUME NEW c \in Connections, WriterStops(c) PROVE SessionsLast'
  BY <1>29 DEF WriterStops, handlerVars, hostVars, runtimeVars
<1>30. ASSUME NEW c \in Connections, CloseOwner(c) PROVE SessionsLast'
  BY <1>30 DEF CloseOwner, handlerVars, hostVars
<1>31. ASSUME NEW c \in Connections, CancelOwned(c) PROVE SessionsLast'
  BY <1>31 DEF CancelOwned, CancelGuests, handlerVars, hostVars, runtimeVars
<1>32. ASSUME NEW c \in Connections, OwnerClosed(c) PROVE SessionsLast'
  BY <1>32 DEF OwnerClosed, handlerVars, hostVars, runtimeVars
<1>33. ASSUME Collect PROVE SessionsLast'
  BY <1>33 DEF Collect, connVars, handlerVars
<1>34. ASSUME CloseCollected PROVE SessionsLast'
  BY <1>34 DEF CloseCollected, connVars, handlerVars
<1>35. ASSUME CancelCollected PROVE SessionsLast'
  BY <1>35 DEF CancelCollected, CancelGuests, connVars, handlerVars, runtimeVars
<1>36. ASSUME RemoveCollected PROVE SessionsLast'
  BY <1>36 DEF RemoveCollected, connVars, handlerVars
<1> QED
  BY <1>1, <1>2, <1>3, <1>4, <1>5, <1>6, <1>7, <1>8, <1>9, <1>10, <1>11, <1>12, <1>13, <1>14,
    <1>15, <1>16, <1>17, <1>18, <1>19, <1>20, <1>21, <1>22, <1>23, <1>24, <1>25, <1>26, <1>27,
    <1>28, <1>29, <1>30, <1>31, <1>32, <1>33, <1>34, <1>35, <1>36 DEF Next, ClientStep,
    HandlerStep, DriverStep, WriterStep, CleanupStep, Shutdown

\* Only open_store inserts, and under the gate; everyone else removes.
LEMMA TableLimit ==
    ASSUME TypeOK, HandlersFit, Next
    PROVE  Cardinality(sessions') <= MaxSessions
<1> USE KindFacts
<1>1. IsFiniteSet(sessions) /\ MaxSessions \in Nat
  BY HostAssumption, FS_Subset DEF TypeOK
<1>2. ASSUME sessions' \subseteq sessions PROVE Cardinality(sessions') <= MaxSessions
  <2>1. IsFiniteSet(sessions') /\ Cardinality(sessions') <= Cardinality(sessions)
    BY <1>1, <1>2, FS_Subset
  <2>2. Cardinality(sessions) \in Nat /\ Cardinality(sessions') \in Nat
    BY <1>1, <2>1, FS_CardinalityType
  <2> QED
    BY <1>1, <2>1, <2>2 DEF TypeOK
<1>3. ASSUME NEW r \in Requests, OpenInsert(r) PROVE Cardinality(sessions') <= MaxSessions
  <2>1. CASE CanOpen
    <3>1. Cardinality(sessions) \in Nat /\ Cardinality(sessions) < MaxSessions
      BY <1>1, <2>1, FS_CardinalityType DEF CanOpen
    <3>2. sessions' = sessions \cup {r}
      BY <1>3, <2>1 DEF OpenInsert
    <3>3. Cardinality(sessions') \in {Cardinality(sessions), Cardinality(sessions) + 1}
      BY <1>1, <3>2, FS_AddElement
    <3> QED
      BY <1>1, <3>1, <3>3
  <2>2. CASE ~CanOpen
    BY <1>2, <1>3, <2>2 DEF OpenInsert
  <2> QED
    BY <2>1, <2>2
<1> QED
  BY <1>2, <1>3 DEF Next, ClientStep, HandlerStep, DriverStep, WriterStep, CleanupStep, Shutdown,
    Accept, Read, PeerCloses, ReadFails, WriterFails, GuestEnds, RequestShutdown, ListenerFails,
    CancelServe, OpenCheck, OpenAnswered, OpenUnanswered, RollBack, FindSession, StartGuest,
    BeginClose, CloseSession, RemoveSession, SweepSession, SessionSwept, Answer, Die, GuestStops,
    SeesShutdown, Break, Fail, StopWriter, SpawnCleanup, EndConnection, JoinNext, WriterDrains,
    WriterStops, CloseOwner, CancelOwned, OwnerClosed, Serve, Collect, CloseCollected,
    CancelCollected, RemoveCollected, runtimeVars

\* Types, and the limit of the session table.
LEMMA TypeStep ==
    ASSUME TypeOK, HandlersFit, TargetsFit, Next
    PROVE  TypeOK'
<1>0. Cardinality(sessions') <= MaxSessions
  BY TableLimit
<1> USE <1>0, KindFacts DEF TypeOK, HandlersFit, Routed, Over
<1>1. ASSUME NEW c \in Connections, Accept(c) PROVE TypeOK'
  BY <1>1 DEF Accept, handlerVars, hostVars, runtimeVars
<1>2. ASSUME NEW c \in Connections, NEW r \in Requests, NEW s \in Opens \cup {None}, Read(c, r, s)
  PROVE TypeOK'
  BY <1>2 DEF Read, Goto, connVars, hostVars, runtimeVars
<1>3. ASSUME NEW c \in Connections, PeerCloses(c) PROVE TypeOK'
  BY <1>3 DEF PeerCloses, Break, handlerVars, hostVars, runtimeVars
<1>4. ASSUME NEW c \in Connections, ReadFails(c) PROVE TypeOK'
  BY <1>4 DEF ReadFails, Broken, AbortAll, hostVars, runtimeVars
<1>5. ASSUME NEW c \in Connections, WriterFails(c) PROVE TypeOK'
  BY <1>5 DEF WriterFails, handlerVars, hostVars, runtimeVars
<1>6. ASSUME NEW r \in Calls, GuestEnds(r) PROVE TypeOK'
  BY <1>6 DEF GuestEnds, connVars, handlerVars, hostVars, runtimeVars
<1>7. ASSUME RequestShutdown PROVE TypeOK'
  BY <1>7 DEF RequestShutdown, connVars, handlerVars, runtimeVars
<1>8. ASSUME ListenerFails PROVE TypeOK'
  BY <1>8 DEF ListenerFails, connVars, handlerVars, runtimeVars
<1>9. ASSUME CancelServe PROVE TypeOK'
  BY <1>9 DEF CancelServe, runtimeVars
<1>10. ASSUME NEW r \in Requests, OpenCheck(r) PROVE TypeOK'
  BY <1>10 DEF OpenCheck, Goto, connVars, hostVars, runtimeVars
<1>11. ASSUME NEW r \in Requests, OpenInsert(r) PROVE TypeOK'
  BY <1>11 DEF OpenInsert, Goto, connVars, hostVars
<1>12. ASSUME NEW r \in Requests, OpenAnswered(r) PROVE TypeOK'
  BY <1>12 DEF OpenAnswered, Goto, connVars, hostVars, runtimeVars
<1>13. ASSUME NEW r \in Requests, OpenUnanswered(r) PROVE TypeOK'
  BY <1>13 DEF OpenUnanswered, RollBack, Goto, connVars, hostVars
<1>14. ASSUME NEW r \in Requests, FindSession(r) PROVE TypeOK'
  BY <1>14 DEF FindSession, Goto, connVars, hostVars, runtimeVars
<1>15. ASSUME NEW r \in Requests, StartGuest(r) PROVE TypeOK'
  BY <1>15 DEF StartGuest, Goto, connVars, hostVars, runtimeVars
<1>16. ASSUME NEW r \in Requests, BeginClose(r) PROVE TypeOK'
  BY <1>16 DEF BeginClose, Goto, connVars, hostVars, runtimeVars
<1>17. ASSUME NEW r \in Requests, CloseSession(r) PROVE TypeOK'
  BY <1>17 DEF CloseSession, Goto, connVars, hostVars
<1>18. ASSUME NEW r \in Requests, RemoveSession(r) PROVE TypeOK'
  BY <1>18 DEF RemoveSession, Goto, connVars, hostVars
<1>19. ASSUME NEW r \in Requests, SweepSession(r) PROVE TypeOK'
  BY <1>19 DEF SweepSession, CancelGuests, Goto, connVars, hostVars, runtimeVars
<1>20. ASSUME NEW r \in Requests, SessionSwept(r) PROVE TypeOK'
  BY <1>20 DEF SessionSwept, Goto, connVars, hostVars, runtimeVars
<1>21. ASSUME NEW r \in Requests, Answer(r) PROVE TypeOK'
  BY <1>21 DEF Answer, Goto, connVars, hostVars, runtimeVars
<1>22. ASSUME NEW r \in Requests, Die(r) PROVE TypeOK'
  <2>1. sessions' \subseteq Opens /\ closed' \in [Opens -> BOOLEAN]
    <3>1. \/ UNCHANGED <<sessions, closed>>
          \/ r \in Opens /\ RollBack(r)
      BY <1>22 DEF Die
    <3>2. CASE UNCHANGED <<sessions, closed>>
      BY <3>2
    <3>3. CASE r \in Opens /\ RollBack(r)
      BY <3>3 DEF RollBack
    <3> QED
      BY <3>1, <3>2, <3>3
  <2>2. pc' \in [Requests -> {"unsent", "new", "gate", "sending", "fault", "found", "close",
                             "remove", "sweep", "waiting", "reply"} \cup Over]
    BY <1>22 DEF Die, Goto
  <2> QED
    BY <1>22, <2>1, <2>2 DEF Die, connVars, hostVars
<1>23. ASSUME NEW r \in Calls, GuestStops(r) PROVE TypeOK'
  BY <1>23 DEF GuestStops, connVars, handlerVars, hostVars, runtimeVars
<1>24. ASSUME NEW c \in Connections, SeesShutdown(c) PROVE TypeOK'
  BY <1>24 DEF SeesShutdown, Break, handlerVars, hostVars, runtimeVars
<1>25. ASSUME NEW c \in Connections, Fail(c) PROVE TypeOK'
  BY <1>25 DEF Fail, Broken, AbortAll, hostVars, runtimeVars
<1>26. ASSUME NEW c \in Connections, StopWriter(c) PROVE TypeOK'
  BY <1>26 DEF StopWriter, handlerVars, hostVars, runtimeVars
<1>27. ASSUME NEW c \in Connections, SpawnCleanup(c) PROVE TypeOK'
  BY <1>27 DEF SpawnCleanup, handlerVars, hostVars, runtimeVars
<1>28. ASSUME NEW c \in Connections, EndConnection(c) PROVE TypeOK'
  BY <1>28 DEF EndConnection, handlerVars, hostVars, runtimeVars
<1>29. ASSUME NEW c \in Connections, NEW r \in Requests, JoinNext(c, r) PROVE TypeOK'
  <2>1. pc' \in [Requests -> {"unsent", "new", "gate", "sending", "fault", "found", "close",
                             "remove", "sweep", "waiting", "reply"} \cup Over]
    BY <1>29 DEF JoinNext, Goto
  <2>2. aborted' \in [Requests -> BOOLEAN]
    <3>1. aborted' = aborted \/ AbortAll(c)
      BY <1>29 DEF JoinNext, Broken
    <3>2. CASE aborted' = aborted
      BY <3>2
    <3>3. CASE AbortAll(c)
      BY <3>3 DEF AbortAll
    <3> QED
      BY <3>1, <3>2, <3>3
  <2>3. /\ driver' \in [Connections -> {"listening", "loop", "draining", "joining", "flushing",
                                         "cleaning", "ended", "cancelled"}]
        /\ end' \in [Connections -> {None, "PeerClosed", "Shutdown", "Error"}]
    BY <1>29 DEF JoinNext, Broken
  <2> QED
    BY <1>29, <2>1, <2>2, <2>3 DEF JoinNext, hostVars, runtimeVars
<1>30. ASSUME NEW c \in Connections, WriterDrains(c) PROVE TypeOK'
  BY <1>30 DEF WriterDrains, handlerVars, hostVars, runtimeVars
<1>31. ASSUME NEW c \in Connections, WriterStops(c) PROVE TypeOK'
  BY <1>31 DEF WriterStops, handlerVars, hostVars, runtimeVars
<1>32. ASSUME NEW c \in Connections, CloseOwner(c) PROVE TypeOK'
  BY <1>32 DEF CloseOwner, handlerVars, hostVars
<1>33. ASSUME NEW c \in Connections, CancelOwned(c) PROVE TypeOK'
  BY <1>33 DEF CancelOwned, CancelGuests, handlerVars, hostVars, runtimeVars
<1>34. ASSUME NEW c \in Connections, OwnerClosed(c) PROVE TypeOK'
  BY <1>34 DEF OwnerClosed, handlerVars, hostVars, runtimeVars
<1>35. ASSUME Serve PROVE TypeOK'
  BY <1>35 DEF Serve, connVars, handlerVars, runtimeVars
<1>36. ASSUME Collect PROVE TypeOK'
  BY <1>36 DEF Collect, connVars, handlerVars
<1>37. ASSUME CloseCollected PROVE TypeOK'
  BY <1>37 DEF CloseCollected, connVars, handlerVars
<1>38. ASSUME CancelCollected PROVE TypeOK'
  BY <1>38 DEF CancelCollected, CancelGuests, connVars, handlerVars, runtimeVars
<1>39. ASSUME RemoveCollected PROVE TypeOK'
  BY <1>39 DEF RemoveCollected, connVars, handlerVars
<1> QED
  BY <1>1, <1>2, <1>3, <1>4, <1>5, <1>6, <1>7, <1>8, <1>9, <1>10, <1>11, <1>12, <1>13, <1>14,
    <1>15, <1>16, <1>17, <1>18, <1>19, <1>20, <1>21, <1>22, <1>23, <1>24, <1>25, <1>26, <1>27,
    <1>28, <1>29, <1>30, <1>31, <1>32, <1>33, <1>34, <1>35, <1>36, <1>37, <1>38, <1>39 DEF Next,
    ClientStep, HandlerStep, DriverStep, WriterStep, CleanupStep, Shutdown

\* The invariant holds of a host that has just started.
LEMMA HostInvInit == Init => HostInv
<1> SUFFICES ASSUME Init PROVE HostInv
  OBVIOUS
<1> USE KindFacts, HostAssumption DEF Init
<1>1. Cardinality(sessions) <= MaxSessions
  BY FS_EmptySet
<1>2. TypeOK
  BY <1>1 DEF TypeOK
<1>3. HandlersFit /\ TargetsFit /\ NotYetOpen
  BY DEF HandlersFit, TargetsFit, NotYetOpen, Routed, Before, Told
<1>4. ClosedFirst /\ GuestsSwept /\ DriversFit /\ OwnerGone /\ SessionsLast
  BY DEF ClosedFirst, GuestsSwept, DriversFit, OwnerGone, SessionsLast
<1> QED
  BY <1>2, <1>3, <1>4 DEF HostInv

LEMMA HostInvNext == HostInv /\ [Next]_vars => HostInv'
<1> SUFFICES ASSUME HostInv, [Next]_vars PROVE HostInv'
  OBVIOUS
<1>1. CASE Next
  BY <1>1, TypeStep, HandlersFitStep, TargetsFitStep, NotYetOpenStep, ClosedFirstStep,
     GuestsSweptStep, DriversFitStep, OwnerGoneStep, SessionsLastStep DEF HostInv
<1>2. CASE UNCHANGED vars
  BY <1>2 DEF HostInv, TypeOK, HandlersFit, TargetsFit, Told, NotYetOpen, ClosedFirst, GuestsSwept,
    Sweeping, DriversFit, OwnerGone, SessionsLast, vars, hostVars, runtimeVars, handlerVars, connVars
<1> QED
  BY <1>1, <1>2

\* A guest of a connection whose cleanup is over does not run: its session
\* belongs to the connection, so it is gone, and nobody is left to sweep it.
LEMMA NoneRuns ==
    ASSUME HostInv, NEW c \in Connections, cleanup[c] = "done", driver[c] # "cancelled",
           NEW r \in Calls, ConnOf[r] = c
    PROVE  guest[r] # "running"
<1> SUFFICES ASSUME guest[r] = "running" PROVE FALSE
  OBVIOUS
<1> USE KindFacts
<1>1. target[r] \in Opens /\ ConnOf[target[r]] = c
  BY DEF HostInv, TargetsFit, Told
<1>2. target[r] \notin sessions
  BY <1>1 DEF HostInv, OwnerGone
<1>3. Sweeping(target[r])
  BY <1>2 DEF HostInv, GuestsSwept
<1>4. ASSUME NEW x \in Closes, target[x] = target[r], pc[x] \in {"remove", "sweep"} PROVE FALSE
  <2>1. ConnOf[x] = c
    BY <1>1, <1>4 DEF HostInv, TargetsFit, Routed
  <2>2. driver[c] \in {"cleaning", "ended"}
    BY DEF HostInv, DriversFit
  <2> QED
    BY <1>4, <2>1, <2>2 DEF HostInv, DriversFit
<1>5. ASSUME NEW d \in Connections, target[r] \in collected[d], cleanup[d] = "swept" PROVE FALSE
  BY <1>1, <1>5 DEF HostInv, ClosedFirst, Owned
<1> QED
  BY <1>3, <1>4, <1>5 DEF Sweeping

LEMMA InvImpliesSound == HostInv => HostSound
<1> SUFFICES ASSUME HostInv PROVE HostSound
  OBVIOUS
<1> USE KindFacts
<1>1. OwnerReleased
  <2> SUFFICES ASSUME NEW c \in Connections, cleanup[c] = "done", driver[c] # "cancelled"
               PROVE  /\ sessions \cap Owned(c) = {}
                      /\ \A r \in Calls : ConnOf[r] = c => guest[r] # "running"
    BY DEF OwnerReleased
  <2>1. sessions \cap Owned(c) = {}
    BY DEF HostInv, OwnerGone, Owned
  <2> QED
    BY <2>1, NoneRuns
<1>2. CleanupIsLast
  BY DEF HostInv, CleanupIsLast, DriversFit, Live, Over
<1>3. NoStrandedGuest
  BY DEF HostInv, NoStrandedGuest, GuestsSwept, Sweeping, SweepPending
<1>4. SessionsSurvive
  BY DEF HostInv, SessionsSurvive, SessionsLast, Told
<1> QED
  BY <1>1, <1>2, <1>3, <1>4 DEF HostSound, HostInv

\* A connection that was cleaned up leaves no session and no running guest,
\* its cleanup is its last act, whoever takes a session out of the table has
\* its guests cancelled, nobody takes away a session of somebody else's, and
\* the table keeps to its limit: for every host, whatever fails and whoever
\* goes first (connection_closed, close_owner, shutdown, Rollback).
THEOREM HostIsSound == Spec => []HostSound
<1>1. Init => HostInv
  BY HostInvInit
<1>2. HostInv /\ [Next]_vars => HostInv'
  BY HostInvNext
<1>3. HostInv => HostSound
  BY InvImpliesSound
<1> QED
  BY <1>1, <1>2, <1>3, PTL DEF Spec

=============================================================================
