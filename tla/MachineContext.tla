---------------------------- MODULE MachineContext ----------------------------
(***************************************************************************)
(* What a prompt is told about the machine: where it is                    *)
(* (agent_flow/geolocation.py), which monitors it has                      *)
(* (monitor_detection.py, windows_monitors.py) and the provider that loads *)
(* the slow part once, in a thread (machine_state.py).                     *)
(*                                                                         *)
(* What a service or a command answers is the input of these operators.    *)
(***************************************************************************)
EXTENDS Integers, Sequences, FiniteSets, SequencesExt

Missing == "none"

-------------------------------------------------------------------------------
(* Geolocation.  An answer of a service is "ok", "refused" (a payload that   *)
(* reports an error), "broken" (no JSON object) or "lost" (no answer).       *)

Answers == {"ok", "refused", "broken", "lost"}

FetchJson(a) == IF a \in {"ok", "refused"} THEN "payload" ELSE "raise"

FetchIpapi(a) == IF FetchJson(a) = "payload" /\ a # "refused" THEN "ipapi.co" ELSE Missing

FetchIpwho(a) == IF FetchJson(a) = "payload" /\ a # "refused" THEN "ipwho.is" ELSE Missing

(* Both services are asked in every attempt, with a pause between attempts; *)
(* the first location is taken.  answers[i] are those of attempt i.         *)
FetchIpGeolocation(answers) ==
  LET found == {i \in DOMAIN answers :
                  FetchIpapi(answers[i][1]) # Missing \/ FetchIpwho(answers[i][2]) # Missing}
      n     == CHOOSE i \in found : \A j \in found : i <= j
      first == FetchIpapi(answers[n][1])
  IN IF found = {}
     THEN [source |-> Missing, asked |-> 2 * Len(answers), slept |-> Len(answers) - 1]
     ELSE [source |-> IF first # Missing THEN first ELSE FetchIpwho(answers[n][2]),
           asked  |-> 2 * (n - 1) + (IF first # Missing THEN 1 ELSE 2),
           slept  |-> n - 1]

-------------------------------------------------------------------------------
(* MachineStateProvider.  The future is "none", "running", "done" or        *)
(* "failed"; state is what wait_until_ready took from it.                    *)

NewProvider == [future |-> "none", state |-> FALSE, fetches |-> 0, threads |-> 0]

Start(p) ==
  IF p.future # "none" \/ p.state THEN p
  ELSE [p EXCEPT !.future = "running", !.fetches = @ + 1, !.threads = @ + 1]

(* The future is settled by the fetch of its thread.                        *)
FetchEnds(p, ok) == IF p.future = "running" THEN [p EXCEPT !.future = IF ok THEN "done" ELSE "failed"] ELSE p

(* A wait that raises keeps the future, and so do the waits after it.        *)
WaitUntilReady(p, ok) ==
  IF p.state THEN p
  ELSE LET q == FetchEnds(Start(p), ok)
       IN [q EXCEPT !.state = q.future = "done", !.threads = 0]

ContextAvailable(p) == p.state

(* The prompts of a process without a provider say that there is none.       *)
MachineStateContext(hasProvider, p) ==
  CASE hasProvider /\ ContextAvailable(p)  -> "available"
    [] hasProvider /\ ~ContextAvailable(p) -> "raise"
    [] ~hasProvider                        -> "unavailable"

(* A call of the owner: what the provider becomes and what the call says.    *)
ProviderCall(p, call, ok) ==
  CASE call = "start"   -> Start(p)
    [] call = "wait"    -> WaitUntilReady(p, ok)
    [] call = "context" -> p

CallSucceeds(p, call, ok) ==
  CASE call = "start"   -> TRUE
    [] call = "wait"    -> WaitUntilReady(p, ok).state
    [] call = "context" -> MachineStateContext(TRUE, p) = "available"

ProviderRun(calls, ok) ==
  FoldLeft(LAMBDA acc, c : [p |-> ProviderCall(acc.p, c, ok),
                            said |-> Append(acc.said, CallSucceeds(acc.p, c, ok))],
           [p |-> NewProvider, said |-> <<>>], calls)

-------------------------------------------------------------------------------
(* Monitors.  A geometry is a place and a size; a detector yields a sequence *)
(* of them; one that raises or finds nothing, which the caller tells not     *)
(* apart, yields <<>>.                                                       *)

Geometry(x, y, w, h) == [x |-> x, y |-> y, w |-> w, h |-> h]

X11 == {"Linux", "FreeBSD", "OpenBSD"}

(* screeninfo: nothing where the package is missing.                         *)
ScreeninfoMonitors(m) == IF m.screeninfo THEN m.screens ELSE <<>>

(* The rectangle of the callback, and the display mode where it has a size.   *)
MonitorGeometryFromRect(r, res) ==
  IF res = <<>> THEN r ELSE Geometry(r.x, r.y, res[1], res[2])

DisplaySettingsResolution(mode) ==
  IF mode.found /\ mode.w > 0 /\ mode.h > 0 THEN <<mode.w, mode.h>> ELSE <<>>

WindowsMonitors(m) ==
  IF m.system # "Windows" THEN <<>>
  ELSE [i \in DOMAIN m.screens |->
          MonitorGeometryFromRect(m.screens[i], DisplaySettingsResolution(m.mode))]

(* system_profiler knows no places: every monitor is at the origin.           *)
SystemProfilerMonitors(m) ==
  [i \in DOMAIN m.screens |-> Geometry(0, 0, m.screens[i].w, m.screens[i].h)]

MacosMonitors(m) ==
  CASE m.system # "Darwin"              -> <<>>
    [] m.system = "Darwin" /\ m.appkit  -> m.screens
    [] OTHER                            -> SystemProfilerMonitors(m)

(* Commands of X11 and Wayland: absent ones raise, sway skips what is off.    *)
CommandMonitors(m, has) ==
  IF m.system \in X11 /\ has THEN m.screens ELSE <<>>

TkinterMonitor(m) == IF m.tk THEN <<Geometry(0, 0, m.screens[1].w, m.screens[1].h)>> ELSE <<>>

Detectors(m) ==
  <<ScreeninfoMonitors(m), WindowsMonitors(m), MacosMonitors(m),
    CommandMonitors(m, m.sway), CommandMonitors(m, m.xrandr), CommandMonitors(m, m.xrandr),
    TkinterMonitor(m)>>

(* The first detector that does not raise and finds something wins.           *)
DetectMonitorGeometries(m) ==
  LET ds   == Detectors(m)
      wins == {i \in DOMAIN ds : ds[i] # <<>>}
  IN IF wins = {} THEN <<>> ELSE ds[CHOOSE i \in wins : \A j \in wins : i <= j]

HasSize(g) == g.w > 0 /\ g.h > 0

DedupeMonitorGeometries(gs) ==
  FoldLeft(LAMBDA acc, g : IF HasSize(g) /\ ~Contains(acc, g) THEN Append(acc, g) ELSE acc, <<>>, gs)

MachineMonitors(m) ==
  LET gs == DedupeMonitorGeometries(DetectMonitorGeometries(m))
  IN [i \in DOMAIN gs |-> <<gs[i].w, gs[i].h>>]

-------------------------------------------------------------------------------

(* Whatever the owner calls, in whatever order: the location is fetched at  *)
(* most once, in one thread that is joined, and a prompt gets a context     *)
(* exactly when a wait before it returned (MachineStateProvider).           *)
FetchedOnce(scripts) ==
  \A calls \in scripts, ok \in BOOLEAN :
    LET r == ProviderRun(calls, ok)
    IN /\ r.p.fetches <= 1 /\ r.p.threads <= 1
       /\ \A i \in DOMAIN calls : calls[i] = "context" =>
            (r.said[i] <=> ok /\ \E j \in 1..i - 1 : calls[j] = "wait")

(* A location is found exactly when some service answers in some attempt,   *)
(* and the first that answers is the last that is asked                     *)
(* (fetch_ip_geolocation).                                                  *)
LocationFound(histories) ==
  \A h \in histories :
    LET r == FetchIpGeolocation(h)
    IN /\ r.source # Missing <=> \E i \in DOMAIN h, k \in 1..2 : h[i][k] = "ok"
       /\ r.asked <= 2 * Len(h) /\ r.slept < Len(h)
       /\ r.source # Missing => h[(r.asked + 1) \div 2][2 - (r.asked % 2)] = "ok"

Whole(m) == m.screeninfo \/ m.system = "Windows" \/ (m.system = "Darwin" /\ m.appkit)
              \/ (m.system \in X11 /\ (m.sway \/ m.xrandr))

(* Where a detector that knows places answers, every screen with a size is  *)
(* counted, and counted once (machine_monitors).                            *)
ScreensCounted(machines) ==
  \A m \in machines :
    Whole(m) /\ ~m.mode.found =>
      Len(MachineMonitors(m)) = Cardinality({g \in Range(m.screens) : HasSize(g)})
===============================================================================
