------------------------ MODULE WorkspaceCommandsProofs ------------------------
(***************************************************************************)
(* The commands of WorkspaceCommands are sound for every set of hosts,     *)
(* every bound and every fault budget.                                     *)
(*                                                                         *)
(* The invariant has two halves.  HostInv is about one host process: what  *)
(* is left of its script is a path through the coordinator's code, so that *)
(* every finally block that is armed is still in it, and what the process  *)
(* holds (a child, a database, a session, a request that ran) goes with    *)
(* the step it is at.  The rest relates the processes to the daemon: a     *)
(* mounted session has a host that will unmount it, a daemon whose start   *)
(* has not succeeded has a host that will terminate it.                    *)
(***************************************************************************)
EXTENDS WorkspaceCommands, SequenceTheorems, TLAPS

(* The steps that may follow one another in what is left of a script.       *)
Links ==
  {<<"reconcile", "plan">>, <<"reconcile", "list">>, <<"plan", "create">>,
   <<"create", "close_daemon">>, <<"list", "publish_head">>, <<"publish_head", "plan">>,
   <<"list", "status">>, <<"list", "commit">>, <<"list", "close">>, <<"list", "destroy">>,
   <<"list", "mount">>, <<"commit", "publish">>, <<"status", "close_daemon">>,
   <<"publish", "close_daemon">>, <<"close", "close_daemon">>, <<"destroy", "close_daemon">>,
   <<"mount", "close_daemon">>, <<"unmount", "close_daemon">>, <<"spawn", "wait">>,
   <<"wait", "unmount">>, <<"prefetch", "unmount">>, <<"open", "query">>,
   <<"query", "close_database">>}

Linked(a, b) == <<a, b>> \in Links

(* The steps that end a script.                                             *)
Ends == {"hello", "shortcut", "close_daemon", "close_database"}

Chain(s) ==
  /\ s \in Seq(Steps)
  /\ \A i \in 1..Len(s) : i < Len(s) => Linked(s[i], s[i + 1])

Path(s) == Chain(s) /\ (s # <<>> => s[Len(s)] \in Ends)

(* The steps a command may have left.                                       *)
StartSteps == {"hello", "reconcile", "close_daemon"}
StepsOf(cmd) ==
  CASE cmd = "create"     -> StartSteps \cup {"plan", "create"}
    [] cmd = "prefetched" -> StartSteps \cup {"plan", "create", "mount", "prefetch", "unmount"}
    [] cmd = "continue"   -> StartSteps \cup {"list", "publish_head", "plan", "create"}
    [] cmd = "status"     -> StartSteps \cup {"list", "status"}
    [] cmd = "checkpoint" -> StartSteps \cup {"list", "commit", "publish"}
    [] cmd = "close"      -> StartSteps \cup {"list", "close"}
    [] cmd = "destroy"    -> StartSteps \cup {"list", "destroy"}
    [] cmd = "exec"       -> StartSteps \cup {"list", "mount", "spawn", "wait", "unmount"}
    [] cmd = "memory"     -> {"open", "query", "close_database"}
    [] cmd = "shortcut"   -> {"shortcut"}
    [] OTHER              -> {}

(* The steps of a session, those of a command that needs no daemon, and     *)
(* those before a session is created.                                       *)
SessionSteps == {"mount", "prefetch", "unmount", "status", "commit", "publish", "close",
                 "destroy", "spawn", "wait"}
Offline      == {"open", "query", "close_database", "shortcut"}
BeforeCreate == {"hello", "reconcile", "plan", "create"}
Calling      == {"connect", "wait", "call"}

HostType ==
  [cmd : AllCommands \cup {None}, todo : Seq(Steps), at : Places, attempt : 0..RequestAttempts,
   conn : Procs \cup {None}, sess : 0..SessionBound, ran : BOOLEAN, started : BOOLEAN,
   cut : BOOLEAN, child : BOOLEAN, db : BOOLEAN, out : Outs]

At(q, S) == q.todo # <<>> /\ Head(q.todo) \in S

Scripted(q) == Path(q.todo) /\ q.todo \in Seq(StepsOf(q.cmd))

Placed(q) ==
  /\ (q.conn # None) = (q.at = "call")
  /\ q.at = "idle" => q.todo = <<>>
  /\ q.at \in Calling => At(q, DaemonSteps)
  /\ q.at = "start_failed" => At(q, {"hello"})
  /\ q.out = "killed" => q.at = "idle"

Holds(q) ==
  /\ q.ran => At(q, DurableSteps)
  /\ q.todo # <<>> /\ ~q.started => At(q, {"hello"} \cup Offline)
  /\ At(q, SessionSteps) => q.sess # 0
  /\ q.child => At(q, {"wait"})
  /\ q.db => At(q, {"query", "close_database"})
  /\ q.cmd = "prefetched" /\ ~q.ran /\ At(q, BeforeCreate) => q.sess = 0
  /\ q.ran /\ At(q, {"create"}) => q.sess # 0

HostInv(q) == q \in HostType /\ Scripted(q) /\ Placed(q) /\ Holds(q)

(* The daemon and the store.                                                *)
DaemonInv ==
  /\ alive \subseteq Procs /\ listener \in alive \cup {None}
  /\ row \in [Sessions -> {None, "active", "closed"}]
  /\ head \subseteq Known /\ mounted \subseteq Known
  /\ mounted # {} => listener # None

(* A call that was given up is one of an unsure session.                    *)
LateInv == \A c \in late : c \in LocalSteps \X Sessions /\ c[2] \in unsure

(* The host will unmount s.                                                 *)
Unmounts(q, s) == q.sess = s /\ Contains(q.todo, "unmount")

MountedInv == \A s \in mounted : s \in unsure \/ \E h \in Hosts : Unmounts(host[h], s)

(* A mount whose command was cancelled while it was being called.           *)
CutMount(q) == q.cut /\ q.at \in Calling /\ At(q, {"mount"})
CutInv == \A h \in Hosts : CutMount(host[h]) => host[h].sess \in unsure

(* A daemon that was launched by a start that has not succeeded.            *)
Starting(q) == q.out = "killed" \/ (q.at \in Calling \cup {"start_failed"} /\ At(q, {"hello"}))
LaunchInv == \A h \in Hosts : h \in alive /\ ~host[h].started => Starting(host[h])

(* A host whose command runs in its session, or is about to.                *)
RunInv ==
  \A h \in Hosts :
    At(host[h], {"spawn", "wait"}) =>
      \/ host[h].sess \in mounted \cup unsure \cup gone
      \/ \E g \in Hosts \ {h} : host[g].cmd \in Mounts /\ host[g].sess = host[h].sess

HostsInv == host \in [Hosts -> HostType] /\ \A h \in Hosts : HostInv(host[h])

CommandsInv == HostsInv /\ DaemonInv /\ LateInv /\ MountedInv /\ CutInv /\ LaunchInv /\ RunInv

-----------------------------------------------------------------------------
(* What is left of a script.                                                *)

LEMMA SeqLength == \A s : s \in Seq(Steps) => Len(s) \in Nat /\ DOMAIN s = 1..Len(s)
PROOF OBVIOUS

(* The first step and the steps after it.                                   *)
LEMMA HeadTail ==
  ASSUME NEW s \in Seq(Steps), s # <<>>
  PROVE  /\ Head(s) = s[1] /\ Len(s) \in Nat /\ Len(s) >= 1 /\ Head(s) \in Steps
         /\ Tail(s) \in Seq(Steps) /\ Len(Tail(s)) = Len(s) - 1
         /\ \A i \in 1..Len(Tail(s)) : Tail(s)[i] = s[i + 1]
<1>1. Len(s) \in Nat /\ Len(s) >= 1
  BY EmptySeq, LenProperties
<1> QED
  BY <1>1, HeadTailProperties

LEMMA NonEmptyLength ==
  ASSUME NEW s \in Seq(Steps)
  PROVE  (s # <<>>) <=> (Len(s) >= 1)
  BY EmptySeq, LenProperties

(* The rest of a path is a path, and its first step follows the head.       *)
LEMMA PathTail ==
  ASSUME NEW s, Path(s), s # <<>>
  PROVE  /\ Path(Tail(s))
         /\ Tail(s) # <<>> => Linked(Head(s), Head(Tail(s)))
         /\ Tail(s) = <<>> => Head(s) \in Ends
         /\ \A i \in 1..Len(Tail(s)) : i + 1 \in 1..Len(s) /\ Tail(s)[i] = s[i + 1]
<1> DEFINE t == Tail(s)
<1>1. s \in Seq(Steps)
  BY DEF Path, Chain
<1>2. /\ Head(s) = s[1] /\ Len(s) \in Nat /\ Len(s) >= 1
      /\ t \in Seq(Steps) /\ Len(t) = Len(s) - 1
      /\ \A i \in 1..Len(t) : t[i] = s[i + 1]
  BY <1>1, HeadTail
<1>3. t # <<>> <=> Len(t) >= 1
  BY <1>2, NonEmptyLength
<1>4. t # <<>> => Head(t) = t[1]
  BY <1>2, HeadTail
<1> HIDE DEF t
<1>5. \A i \in 1..Len(t) : i < Len(t) => Linked(t[i], t[i + 1])
  BY <1>2 DEF Path, Chain
<1>6. t # <<>> => t[Len(t)] \in Ends
  BY <1>2, <1>3 DEF Path, Chain
<1>7. t # <<>> => Linked(Head(s), Head(t))
  BY <1>2, <1>3, <1>4 DEF Path, Chain
<1>8. t = <<>> => Head(s) \in Ends
  BY <1>2, <1>3 DEF Path, Chain
<1> QED
  BY <1>2, <1>5, <1>6, <1>7, <1>8 DEF t, Path, Chain

(* What follows each step.                                                  *)
LEMMA Successors ==
  ASSUME NEW a, NEW b, Linked(a, b)
  PROVE  /\ a \notin Ends /\ b \notin {"hello", "reconcile", "open", "shortcut", "spawn", "prefetch"}
         /\ a = "reconcile" => b \in {"plan", "list"}
         /\ a = "plan" => b = "create"
         /\ a = "list" => b \in {"publish_head", "status", "commit", "close", "destroy", "mount"}
         /\ a = "publish_head" => b = "plan"
         /\ a = "commit" => b = "publish"
         /\ a = "spawn" => b = "wait"
         /\ a \in {"wait", "prefetch"} => b = "unmount"
         /\ a = "open" => b = "query" 
         /\ a = "query" => b = "close_database"
         /\ a \in {"create", "status", "publish", "close", "destroy", "mount", "unmount"} => b = "close_daemon"
         /\ b = "unmount" => a \in {"wait", "prefetch"}
         /\ b = "wait" => a = "spawn"
         /\ b = "close_database" => a = "query"
         /\ b = "query" => a = "open"
  BY DEF Linked, Links, Ends

(* The end of a script is its last step.                                    *)
LEMMA EndIsLast ==
  ASSUME NEW s, Path(s), NEW i \in 1..Len(s), s[i] \in Ends
  PROVE  i = Len(s)
<1>1. Len(s) \in Nat
  BY SeqLength DEF Path, Chain
<1>2. i < Len(s) => Linked(s[i], s[i + 1])
  BY DEF Path, Chain
<1>3. i < Len(s) => s[i] \notin Ends
  BY <1>2, Successors
<1> QED
  BY <1>1, <1>3

(* An unmount is the last step but one, before the daemon is closed.        *)
LEMMA AfterUnmount ==
  ASSUME NEW s, Path(s), NEW i \in 1..Len(s), s[i] = "unmount"
  PROVE  i + 1 = Len(s) /\ s[i + 1] = "close_daemon"
<1>1. Len(s) \in Nat
  BY SeqLength DEF Path, Chain
<1>2. s # <<>>
  BY <1>1, NonEmptyLength DEF Path, Chain
<1>3. i # Len(s)
  BY <1>2 DEF Path, Chain, Ends
<1>4. Linked(s[i], s[i + 1]) /\ i + 1 \in 1..Len(s)
  BY <1>1, <1>3 DEF Path, Chain
<1>5. s[i + 1] = "close_daemon"
  BY <1>4, Successors
<1> QED
  BY <1>4, <1>5, EndIsLast DEF Ends

(* A script with an unmount in it is inside the mount's try block.          *)
LEMMA BeforeUnmount ==
  ASSUME NEW s, Path(s), Contains(s, "unmount")
  PROVE  s # <<>> /\ Head(s) \in {"prefetch", "spawn", "wait", "unmount"}
<1>1. s \in Seq(Steps) /\ Len(s) \in Nat
  BY SeqLength DEF Path, Chain
<1>2. PICK i \in 1..Len(s) : s[i] = "unmount"
  BY DEF Contains
<1>3. s # <<>> /\ Head(s) = s[1]
  BY <1>1, <1>2, NonEmptyLength, HeadTail
<1>4. ASSUME NEW j \in 1..Len(s), j > 1
      PROVE  j - 1 \in 1..Len(s) /\ Linked(s[j - 1], s[j])
  <2>1. j - 1 \in 1..Len(s) /\ j - 1 < Len(s) /\ (j - 1) + 1 = j
    BY <1>1, <1>4
  <2> QED
    BY <2>1 DEF Path, Chain
<1>5. i > 1 => s[i - 1] \in {"wait", "prefetch"} /\ i - 1 \in 1..Len(s)
  BY <1>2, <1>4, Successors
<1>6. ASSUME NEW j \in 1..Len(s), s[j] \in {"prefetch", "spawn"}
      PROVE  j = 1
  BY <1>1, <1>4, <1>6, Successors
<1>7. ASSUME NEW j \in 1..Len(s), s[j] = "wait", j # 1
      PROVE  j - 1 = 1 /\ s[j - 1] = "spawn"
  <2>1. j > 1
    BY <1>1, <1>7
  <2>2. j - 1 \in 1..Len(s) /\ s[j - 1] = "spawn"
    BY <1>4, <1>7, <2>1, Successors
  <2> QED
    BY <1>6, <2>2
<1>8. i = 1 \/ i > 1
  BY <1>1
<1>9. ASSUME i > 1
      PROVE  s[1] \in {"prefetch", "spawn", "wait"}
  <2>1. CASE s[i - 1] = "prefetch"
    BY <1>5, <1>6, <1>9, <2>1
  <2>2. CASE s[i - 1] = "wait"
    BY <1>5, <1>7, <1>9, <2>2
  <2> QED
    BY <1>5, <1>9, <2>1, <2>2
<1> QED
  BY <1>2, <1>3, <1>8, <1>9

(* Short sequences.                                                         *)
LEMMA Single ==
  ASSUME NEW S, NEW a \in S
  PROVE  <<a>> \in Seq(S) /\ Len(<<a>>) = 1 /\ <<a>>[1] = a /\ <<a>> # <<>> /\ Head(<<a>>) = a
  OBVIOUS

LEMMA Pair ==
  ASSUME NEW S, NEW a \in S, NEW b \in S
  PROVE  /\ <<a, b>> \in Seq(S) /\ Len(<<a, b>>) = 2 /\ <<a, b>>[1] = a /\ <<a, b>>[2] = b
         /\ <<a, b>> # <<>> /\ Head(<<a, b>>) = a
         /\ <<a>> \o <<b>> = <<a, b>>
<1>1. <<a, b>> \in Seq(S) /\ Len(<<a, b>>) = 2 /\ <<a, b>>[1] = a /\ <<a, b>>[2] = b
  OBVIOUS
<1>2. <<a>> \in Seq(S) /\ Len(<<a>>) = 1 /\ <<a>>[1] = a
  OBVIOUS
<1>3. <<b>> \in Seq(S) /\ Len(<<b>>) = 1 /\ <<b>>[1] = b
  OBVIOUS
<1> DEFINE u == <<a>> \o <<b>>
           v == <<a>>
           w == <<b>>
           z == <<a, b>>
<1>4. u \in Seq(S) /\ Len(u) = Len(v) + Len(w)
      /\ \A i \in 1 .. Len(v) + Len(w) : u[i] = IF i <= Len(v) THEN v[i] ELSE w[i - Len(v)]
  BY <1>2, <1>3, ConcatProperties
<1> HIDE DEF u, v, w
<1>5. /\ v \in Seq(S) /\ Len(v) = 1 /\ v[1] = a
      /\ w \in Seq(S) /\ Len(w) = 1 /\ w[1] = b
  BY <1>2, <1>3 DEF v, w
<1>6. u[1] = a /\ u[2] = b /\ Len(u) = 2
  BY <1>4, <1>5
<1> HIDE DEF z
<1>7. z \in Seq(S) /\ Len(z) = 2 /\ z[1] = a /\ z[2] = b
  BY <1>1 DEF z
<1>8. \A i \in 1..Len(u) : u[i] = z[i]
  BY <1>6, <1>7
<1>9. u = z
  BY <1>4, <1>6, <1>7, <1>8, SeqEqual
<1>10. z # <<>> /\ Head(z) = a
  BY <1>7 DEF z
<1> QED
  BY <1>1, <1>9, <1>10 DEF u, z

(* Two chains one after the other.                                          *)
LEMMA ChainJoin ==
  ASSUME NEW s, NEW t, Chain(s), Chain(t),
         s # <<>> /\ t # <<>> => Linked(s[Len(s)], t[1])
  PROVE  /\ Chain(s \o t)
         /\ s # <<>> => s \o t # <<>> /\ (s \o t)[1] = s[1]
         /\ t # <<>> => s \o t # <<>> /\ (s \o t)[Len(s \o t)] = t[Len(t)]
<1> DEFINE u == s \o t
<1>1. s \in Seq(Steps) /\ t \in Seq(Steps) /\ Len(s) \in Nat /\ Len(t) \in Nat
  BY SeqLength DEF Chain
<1>2. u \in Seq(Steps) /\ Len(u) = Len(s) + Len(t)
      /\ \A i \in 1 .. Len(s) + Len(t) : u[i] = IF i <= Len(s) THEN s[i] ELSE t[i - Len(s)]
  BY <1>1, ConcatProperties
<1>3. /\ s # <<>> <=> Len(s) >= 1
      /\ t # <<>> <=> Len(t) >= 1
      /\ u # <<>> <=> Len(u) >= 1
  BY <1>1, <1>2, NonEmptyLength
<1> HIDE DEF u
<1>4. ASSUME NEW i \in 1..Len(u), i < Len(u)
      PROVE  Linked(u[i], u[i + 1])
  <2>1. CASE i < Len(s)
    <3>1. i \in 1..Len(s) /\ u[i] = s[i] /\ u[i + 1] = s[i + 1]
      BY <1>1, <1>2, <2>1
    <3> QED
      BY <2>1, <3>1 DEF Chain
  <2>2. CASE i = Len(s)
    <3>1. u[i] = s[i] /\ u[i + 1] = t[1] /\ s # <<>> /\ t # <<>>
      BY <1>1, <1>2, <1>3, <1>4, <2>2
    <3> QED
      BY <2>2, <3>1
  <2>3. CASE i > Len(s)
    <3>1. /\ i - Len(s) \in 1..Len(t) /\ i - Len(s) < Len(t)
          /\ u[i] = t[i - Len(s)] /\ u[i + 1] = t[(i - Len(s)) + 1]
      BY <1>1, <1>2, <1>4, <2>3
    <3> QED
      BY <3>1 DEF Chain
  <2> QED
    BY <1>1, <1>2, <2>1, <2>2, <2>3
<1>5. s # <<>> => u # <<>> /\ u[1] = s[1]
  BY <1>1, <1>2, <1>3
<1>6. t # <<>> => u # <<>> /\ u[Len(u)] = t[Len(t)]
  BY <1>1, <1>2, <1>3
<1>7. Chain(u)
  BY <1>2, <1>4 DEF Chain
<1> QED
  BY <1>5, <1>6, <1>7 DEF u

LEMMA ShortPaths ==
  /\ Path(<<>>) /\ Path(<<"close_daemon">>) /\ Path(<<"close_database">>) /\ Path(<<"hello">>)
  /\ Path(<<"shortcut">>)
  /\ Path(<<"unmount", "close_daemon">>)
  /\ ~Contains(<<>>, "unmount") /\ ~Contains(<<"close_daemon">>, "unmount")
  /\ ~Contains(<<"close_database">>, "unmount") /\ ~Contains(<<"hello">>, "unmount")
  /\ ~Contains(<<"shortcut">>, "unmount") /\ Contains(<<"unmount", "close_daemon">>, "unmount")
<1>1. ASSUME NEW a \in Ends
      PROVE  Path(<<a>>) /\ (a # "unmount" => ~Contains(<<a>>, "unmount"))
  BY DEF Path, Chain, Ends, Steps, Contains
<1>2. Path(<<>>) /\ ~Contains(<<>>, "unmount")
  BY DEF Path, Chain, Contains
<1>3. Path(<<"unmount", "close_daemon">>) /\ Contains(<<"unmount", "close_daemon">>, "unmount")
  BY DEF Path, Chain, Ends, Steps, Contains, Linked, Links
<1> QED
  BY <1>1, <1>2, <1>3 DEF Ends

(* The finally blocks of a path.                                            *)
LEMMA FinallyPath ==
  ASSUME NEW s, Path(s)
  PROVE  /\ Finally(s) \in {<<>>, <<"close_daemon">>, <<"close_database">>, <<"unmount", "close_daemon">>}
         /\ Contains(s, "unmount") => Finally(s) = <<"unmount", "close_daemon">>
         /\ ~Contains(s, "unmount") => Finally(s) # <<"unmount", "close_daemon">>
         /\ Finally(s) = <<>> \/ Contains(s, "close_database") \/ Contains(s, "close_daemon")
         /\ Contains(s, "close_database") => Finally(s) = <<"close_database">>
         /\ Contains(s, "close_daemon") => Finally(s) \in {<<"close_daemon">>, <<"unmount", "close_daemon">>}
<1>1. s \in Seq(Steps) /\ Len(s) \in Nat
  BY SeqLength DEF Path, Chain
<1>2. ~(Contains(s, "close_database") /\ Contains(s, "close_daemon"))
  <2> SUFFICES ASSUME NEW i \in 1..Len(s), NEW j \in 1..Len(s), s[i] = "close_database", s[j] = "close_daemon"
               PROVE  FALSE
    BY DEF Contains
  <2>1. i = Len(s) /\ j = Len(s)
    BY EndIsLast DEF Ends
  <2> QED
    BY <2>1
<1>3. Contains(s, "unmount") => Contains(s, "close_daemon")
  <2> SUFFICES ASSUME NEW i \in 1..Len(s), s[i] = "unmount"
               PROVE  Contains(s, "close_daemon")
    BY DEF Contains
  <2>1. i + 1 = Len(s) /\ s[i + 1] = "close_daemon"
    BY AfterUnmount
  <2> QED
    BY <1>1, <2>1 DEF Contains
<1>4. CASE Contains(s, "unmount")
  <2>1. Contains(s, "close_daemon") /\ ~Contains(s, "close_database")
    BY <1>2, <1>3, <1>4
  <2>2. Finally(s) = <<"unmount">> \o <<"close_daemon">>
    BY <1>4, <2>1 DEF Finally
  <2>3. <<"unmount">> \o <<"close_daemon">> = <<"unmount", "close_daemon">>
    <3>1. "unmount" \in Steps /\ "close_daemon" \in Steps
      BY DEF Steps
    <3> QED
      BY <3>1, Pair
  <2> QED
    BY <1>4, <2>1, <2>2, <2>3
<1>5. CASE ~Contains(s, "unmount")
  <2> DEFINE u == CASE Contains(s, "close_database") -> <<"close_database">>
                    [] Contains(s, "close_daemon")   -> <<"close_daemon">>
                    [] OTHER                         -> <<>>
  <2>1. Finally(s) = <<>> \o u
    BY <1>5 DEF Finally
  <2>2. /\ Contains(s, "close_database") => u = <<"close_database">>
        /\ Contains(s, "close_daemon") => u = <<"close_daemon">>
        /\ ~Contains(s, "close_database") /\ ~Contains(s, "close_daemon") => u = <<>>
    BY <1>2
  <2> HIDE DEF u
  <2>3. u \in Seq(Steps)
    <3>1. "close_daemon" \in Steps /\ "close_database" \in Steps
      BY DEF Steps
    <3> QED
      BY <2>2, <3>1, Single, EmptySeq
  <2>4. Finally(s) = u
    BY <2>1, <2>3, ConcatEmptySeq
  <2>5. Len(<<"close_daemon">>) = 1 /\ Len(<<"unmount", "close_daemon">>) = 2 /\ Len(<<"close_database">>) = 1
        /\ <<>> # <<"unmount", "close_daemon">>
    OBVIOUS
  <2>6. u # <<"unmount", "close_daemon">>
    BY <1>2, <2>2, <2>5
  <2> QED
    BY <1>5, <2>2, <2>4, <2>6
<1> QED
  BY <1>4, <1>5

(* What the finally blocks keep of a path.                                  *)
LEMMA FinallyKeeps ==
  ASSUME NEW S, NEW s \in Seq(S), Path(s)
  PROVE  /\ Path(Finally(s)) /\ Finally(s) \in Seq(S)
         /\ Contains(Finally(s), "unmount") <=> Contains(s, "unmount")
         /\ Finally(s) # <<>> => Head(Finally(s)) \in FinallySteps
         /\ Finally(s) # <<>> /\ Head(Finally(s)) = "unmount" => Contains(s, "unmount")
<1>1. Path(Finally(s))
  BY FinallyPath, ShortPaths
<1>2. ASSUME NEW a, Contains(s, a)
      PROVE  a \in S
  <2>1. PICK i \in 1..Len(s) : s[i] = a
    BY <1>2 DEF Contains
  <2> QED
    BY <2>1, ElementOfSeq
<1>3. Contains(Finally(s), "unmount") <=> Contains(s, "unmount")
  BY FinallyPath, ShortPaths
<1>4. CASE Finally(s) = <<>>
  BY <1>1, <1>3, <1>4, EmptySeq
<1>5. CASE Finally(s) = <<"close_daemon">>
  <2>1. <<"close_daemon">> # <<>> /\ <<"close_daemon">> # <<"close_database">>
        /\ Head(<<"close_daemon">>) = "close_daemon"
    OBVIOUS
  <2>2. Contains(s, "close_daemon")
    BY <1>5, <2>1, FinallyPath
  <2>3. "close_daemon" \in S
    BY <1>2, <2>2
  <2> QED
    BY <1>1, <1>3, <1>5, <2>1, <2>3, Single DEF FinallySteps
<1>6. CASE Finally(s) = <<"close_database">>
  <2>1. <<"close_database">> # <<>> /\ <<"close_daemon">> # <<"close_database">>
        /\ <<"close_database">> # <<"unmount", "close_daemon">> /\ Head(<<"close_database">>) = "close_database"
    OBVIOUS
  <2>2. Contains(s, "close_database")
    BY <1>6, <2>1, FinallyPath
  <2>3. "close_database" \in S
    BY <1>2, <2>2
  <2> QED
    BY <1>1, <1>3, <1>6, <2>1, <2>3, Single DEF FinallySteps
<1>7. CASE Finally(s) = <<"unmount", "close_daemon">>
  <2>1. /\ <<"unmount", "close_daemon">> # <<>> /\ <<"unmount", "close_daemon">> # <<"close_database">>
        /\ Head(<<"unmount", "close_daemon">>) = "unmount"
    OBVIOUS
  <2>2. Contains(s, "close_daemon") /\ Contains(s, "unmount")
    BY <1>7, <2>1, FinallyPath
  <2>3. "close_daemon" \in S /\ "unmount" \in S
    BY <1>2, <2>2
  <2> QED
    BY <1>1, <1>3, <1>7, <2>1, <2>2, <2>3, Pair DEF FinallySteps
<1> QED
  BY <1>4, <1>5, <1>6, <1>7, FinallyPath

(* What is left after the head, run on or raised.                           *)
LEMMA Left ==
  ASSUME NEW S, NEW s \in Seq(S), Path(s), s # <<>>, NEW t \in {Tail(s), Finally(Tail(s))}
  PROVE  /\ Path(t) /\ t \in Seq(S)
         /\ Contains(t, "unmount") <=> Contains(s, "unmount") /\ Head(s) # "unmount"
         /\ t # <<>> => Head(t) \in FinallySteps \/ (t = Tail(s) /\ Linked(Head(s), Head(t)))
         /\ t # <<>> /\ Head(t) = "unmount" => Contains(s, "unmount")
         /\ Head(s) \in Ends => t = <<>>
         /\ Head(s) \in {"spawn", "open"} /\ t = Tail(s) => t # <<>> /\ Linked(Head(s), Head(t))
         /\ Head(s) = "query" => t # <<>> /\ Head(t) = "close_database"
<1> DEFINE u == Tail(s)
<1>1. /\ Path(u)
      /\ u # <<>> => Linked(Head(s), Head(u))
      /\ u = <<>> => Head(s) \in Ends
      /\ \A i \in 1..Len(u) : i + 1 \in 1..Len(s) /\ u[i] = s[i + 1]
  BY PathTail
<1>2. u \in Seq(S)
  BY HeadTailProperties
<1>3. s \in Seq(Steps) /\ u \in Seq(Steps) /\ Len(s) \in Nat /\ Len(u) \in Nat
  BY <1>1, SeqLength DEF Path, Chain
<1>4. Head(s) = s[1] /\ Len(u) = Len(s) - 1 /\ (u # <<>> => Head(u) = u[1]) /\ (u # <<>> <=> Len(u) >= 1)
  BY <1>3, HeadTail, NonEmptyLength
<1>5. Head(s) \in Ends => u = <<>>
  BY <1>1, Successors
<1> HIDE DEF u
<1>6. Contains(u, "unmount") <=> Contains(s, "unmount") /\ Head(s) # "unmount"
  <2>1. ASSUME Contains(u, "unmount")
        PROVE  Contains(s, "unmount") /\ Head(s) # "unmount"
    <3>1. PICK i \in 1..Len(u) : u[i] = "unmount"
      BY <2>1 DEF Contains
    <3>2. i + 1 \in 1..Len(s) /\ s[i + 1] = "unmount"
      BY <1>1, <3>1
    <3>3. ASSUME s[1] = "unmount"
          PROVE  FALSE
      <4>1. 1 \in 1..Len(s)
        BY <1>3, <3>2
      <4>2. 1 + 1 = Len(s)
        BY <3>3, <4>1, AfterUnmount
      <4>3. (i + 1) + 1 = Len(s)
        BY <3>2, AfterUnmount
      <4>4. i \in Nat /\ i >= 1
        BY <1>3
      <4>5. (i + 1) + 1 = 1 + 1
        BY <4>2, <4>3
      <4> QED
        BY <4>4, <4>5
    <3> QED
      BY <1>4, <3>2, <3>3 DEF Contains
  <2>2. ASSUME Contains(s, "unmount"), Head(s) # "unmount"
        PROVE  Contains(u, "unmount")
    <3>1. PICK i \in 1..Len(s) : s[i] = "unmount"
      BY <2>2 DEF Contains
    <3>2. i # 1
      BY <1>4, <2>2, <3>1
    <3>3. i - 1 \in 1..Len(u) /\ (i - 1) + 1 = i
      BY <1>3, <1>4, <3>1, <3>2
    <3>4. u[i - 1] = "unmount"
      BY <1>1, <3>1, <3>3
    <3> QED
      BY <3>3, <3>4 DEF Contains
  <2> QED
    BY <2>1, <2>2
<1>7. u # <<>> /\ Head(u) = "unmount" => Contains(s, "unmount")
  <2> SUFFICES ASSUME u # <<>>, u[1] = "unmount"
               PROVE  Contains(s, "unmount")
    BY <1>4
  <2>1. 1 \in 1..Len(u)
    BY <1>3, <1>4
  <2>2. 1 + 1 \in 1..Len(s) /\ s[1 + 1] = "unmount"
    BY <1>1, <2>1
  <2> QED
    BY <2>2 DEF Contains
<1>8. Head(s) \in {"spawn", "open", "query"} => u # <<>> /\ Linked(Head(s), Head(u))
  BY <1>1 DEF Ends
<1>9. Head(s) = "query" => u # <<>> /\ Head(u) = "close_database"
  BY <1>8, Successors
<1>10. CASE t = u
  BY <1>1, <1>2, <1>5, <1>6, <1>7, <1>8, <1>9, <1>10 DEF u
<1>11. CASE t = Finally(u)
  <2>1. /\ Path(t) /\ t \in Seq(S)
        /\ Contains(t, "unmount") <=> Contains(u, "unmount")
        /\ t # <<>> => Head(t) \in FinallySteps
        /\ t # <<>> /\ Head(t) = "unmount" => Contains(u, "unmount")
    BY <1>1, <1>2, <1>11, FinallyKeeps
  <2>2. Finally(<<>>) = <<>>
    <3>1. ~Contains(<<>>, "unmount") /\ ~Contains(<<>>, "close_database") /\ ~Contains(<<>>, "close_daemon")
      BY DEF Contains
    <3> QED
      BY <3>1, FinallyPath, ShortPaths
  <2>3. Head(s) \in Ends => t = <<>>
    BY <1>5, <1>11, <2>2
  <2>4. Head(s) = "query" => t # <<>> /\ Head(t) = "close_database"
    <3> SUFFICES ASSUME Head(s) = "query"
                 PROVE  t # <<>> /\ Head(t) = "close_database"
      OBVIOUS
    <3>1. 1 \in 1..Len(u) /\ u[1] = "close_database"
      BY <1>3, <1>4, <1>9
    <3>2. Contains(u, "close_database")
      BY <3>1 DEF Contains
    <3>3. t = <<"close_database">>
      BY <1>1, <1>11, <3>2, FinallyPath
    <3> QED
      BY <3>3
  <2>5. Head(s) \in {"spawn", "open"} /\ t = Tail(s) => t # <<>> /\ Linked(Head(s), Head(t))
    BY <1>8 DEF u
  <2> QED
    BY <1>6, <2>1, <2>3, <2>4, <2>5
<1> QED
  BY <1>10, <1>11 DEF u

-----------------------------------------------------------------------------
(* One step of one host.                                                    *)

(* The step that q was at is over and r goes on with what is left.          *)
MovesOn(q, r) ==
  /\ q.todo # <<>> /\ q.at # "idle"
  /\ r.todo \in {Tail(q.todo), Finally(Tail(q.todo))}
  /\ r.at = "ready" /\ r.conn = None /\ r.ran = FALSE /\ r.cmd = q.cmd
  /\ q.started => r.started
  /\ r.out # "killed"
  /\ r.child => Head(q.todo) = "spawn" /\ r.todo = Tail(q.todo)
  /\ r.db => \/ Head(q.todo) = "open" /\ r.todo = Tail(q.todo)
             \/ Head(q.todo) = "query"
  /\ r.sess = q.sess \/ Head(q.todo) \in {"list", "create"}
  /\ Head(q.todo) = "list" /\ r.todo # Finally(Tail(q.todo)) => r.sess # 0 \/ q.cmd = "continue"
  /\ q.cmd \in Mounts /\ q.sess # 0 => r.sess = q.sess

LEMMA HeadFacts ==
  ASSUME NEW q, HostInv(q), q.todo # <<>>
  PROVE  Head(q.todo) \in StepsOf(q.cmd) /\ Head(q.todo) \in Steps
<1>1. q.todo \in Seq(StepsOf(q.cmd)) /\ q.todo \in Seq(Steps)
  BY DEF HostInv, Scripted, Path, Chain
<1> QED
  BY <1>1, HeadTailProperties

(* Which commands have a step.                                              *)
LEMMA WhoseStep ==
  ASSUME NEW cmd \in AllCommands \cup {None}, NEW a, a \in StepsOf(cmd)
  PROVE  /\ a \in {"open", "query", "close_database"} => cmd = "memory"
         /\ a = "list" => cmd \notin {"create", "prefetched"}
         /\ a \in SessionSteps => cmd # "continue"
         /\ a \in {"mount", "prefetch", "unmount", "spawn", "wait"} => cmd \in Mounts
         /\ a = "create" => cmd \in {"create", "prefetched", "continue"}
         /\ a = "publish_head" => cmd = "continue"
         /\ a = "hello" => cmd \notin {"memory", "shortcut", None}
         /\ cmd = "memory" => a \in {"open", "query", "close_database"}
  BY DEF StepsOf, StartSteps, AllCommands, None, SessionSteps, Mounts

(* A host that moves on keeps its invariant.                                *)
LEMMA MovesOnInv ==
  ASSUME NEW q, HostInv(q), NEW r \in HostType, MovesOn(q, r)
  PROVE  /\ HostInv(r)
         /\ Contains(r.todo, "unmount") <=> Contains(q.todo, "unmount") /\ Head(q.todo) # "unmount"
         /\ At(r, {"spawn", "wait"}) => Head(q.todo) = "spawn" /\ r.sess = q.sess
<1> DEFINE s == q.todo
           t == r.todo
           S == StepsOf(q.cmd)
<1>1. /\ s # <<>> /\ Path(s) /\ s \in Seq(S) /\ q \in HostType
      /\ t \in {Tail(s), Finally(Tail(s))}
  BY DEF MovesOn, HostInv, Scripted
<1>2. Head(s) \in S /\ Head(s) \in Steps
  BY <1>1, HeadFacts
<1>3. /\ Path(t) /\ t \in Seq(S)
      /\ Contains(t, "unmount") <=> Contains(s, "unmount") /\ Head(s) # "unmount"
      /\ t # <<>> => Head(t) \in FinallySteps \/ (t = Tail(s) /\ Linked(Head(s), Head(t)))
      /\ t # <<>> /\ Head(t) = "unmount" => Contains(s, "unmount")
      /\ Head(s) \in Ends => t = <<>>
      /\ Head(s) \in {"spawn", "open"} /\ t = Tail(s) => t # <<>> /\ Linked(Head(s), Head(t))
      /\ Head(s) = "query" => t # <<>> /\ Head(t) = "close_database"
  BY <1>1, Left
<1>4. r.cmd = q.cmd /\ r.ran = FALSE
  BY DEF MovesOn
<1>5. Scripted(r)
  BY <1>3, <1>4 DEF Scripted
<1>6. q.cmd \in AllCommands \cup {None}
  BY <1>1 DEF HostType
<1>7. t # <<>> => Head(t) \in S
  BY <1>3, HeadTailProperties
<1>8. Placed(r)
  BY DEF MovesOn, Placed, Calling
<1> HIDE DEF s, t, S
<1>9. t # <<>> /\ Head(t) = "unmount" => Head(s) \in {"prefetch", "spawn", "wait", "unmount"}
  BY <1>1, <1>3, BeforeUnmount
<1>10. t # <<>> /\ ~r.started => Head(t) \in {"hello"} \cup Offline
  <2> SUFFICES ASSUME t # <<>>, ~r.started
               PROVE  Head(t) \in Offline
    OBVIOUS
  <2>1. ~q.started
    BY DEF MovesOn
  <2>2. Head(s) \in {"hello"} \cup Offline
    BY <1>1, <2>1 DEF HostInv, Holds, At, s
  <2>3. Head(s) \in {"open", "query", "close_database"}
    BY <1>3, <2>2 DEF Offline, Ends
  <2>4. q.cmd = "memory"
    BY <1>2, <1>6, <2>3, WhoseStep DEF S
  <2> QED
    BY <1>6, <1>7, <2>4, WhoseStep DEF S, Offline
<1>11. t # <<>> /\ Head(t) \in SessionSteps => r.sess # 0
  <2> SUFFICES ASSUME t # <<>>, Head(t) \in SessionSteps
               PROVE  r.sess # 0
    OBVIOUS
  <2>1. Head(s) \in SessionSteps => q.sess # 0
    BY <1>1 DEF HostInv, Holds, At, s
  <2>2. CASE Head(t) = "unmount"
    BY <1>9, <2>1, <2>2 DEF MovesOn, s, SessionSteps
  <2>3. CASE Head(t) # "unmount"
    <3>1. t = Tail(s) /\ Linked(Head(s), Head(t)) /\ Head(t) \notin FinallySteps
      BY <1>3, <2>3 DEF FinallySteps, SessionSteps
    <3>2. CASE Head(s) = "list"
      <4>1. t # Finally(Tail(s))
        <5>1. Path(Tail(s)) /\ Tail(s) \in Seq(Steps)
          BY <1>1, PathTail DEF Path, Chain
        <5> QED
          BY <3>1, <5>1, FinallyKeeps
      <4>2. q.cmd # "continue"
        BY <1>6, <1>7, WhoseStep DEF S
      <4> QED
        BY <3>2, <4>1, <4>2 DEF MovesOn, s, t
    <3>3. CASE Head(s) # "list"
      <4>1. Head(s) \in {"commit", "spawn", "wait", "prefetch"}
        BY <1>2, <3>1, <3>3 DEF Linked, Links, SessionSteps, FinallySteps
      <4> QED
        BY <2>1, <4>1 DEF MovesOn, s, SessionSteps
    <3> QED
      BY <3>2, <3>3
  <2> QED
    BY <2>2, <2>3
<1>12. r.child => t # <<>> /\ Head(t) = "wait"
  BY <1>3, Successors DEF MovesOn, s, t
<1>13. r.db => t # <<>> /\ Head(t) \in {"query", "close_database"}
  BY <1>3, Successors DEF MovesOn, s, t
<1>14. q.cmd = "prefetched" /\ t # <<>> /\ Head(t) \in BeforeCreate => r.sess = 0
  <2> SUFFICES ASSUME q.cmd = "prefetched", t # <<>>, Head(t) \in BeforeCreate
               PROVE  r.sess = 0
    OBVIOUS
  <2>1. Linked(Head(s), Head(t))
    BY <1>3 DEF FinallySteps, BeforeCreate
  <2>2. Head(s) \in {"reconcile", "plan", "publish_head"}
    BY <2>1 DEF Linked, Links, BeforeCreate
  <2>3. Head(s) \in {"reconcile", "plan"}
    BY <1>2, <1>6, <2>2, WhoseStep DEF S
  <2>4. q.ran \in BOOLEAN /\ ~q.ran
    BY <1>1, <2>3 DEF HostInv, Holds, At, DurableSteps, s, HostType
  <2>5. q.sess = 0
    BY <1>1, <2>3, <2>4 DEF HostInv, Holds, At, s, BeforeCreate
  <2> QED
    BY <2>3, <2>5 DEF MovesOn, s
<1>15. Holds(r)
  BY <1>4, <1>10, <1>11, <1>12, <1>13, <1>14 DEF Holds, At, t
<1>16. t # <<>> /\ Head(t) \in {"spawn", "wait"} => Head(s) = "spawn" /\ r.sess = q.sess
  <2> SUFFICES ASSUME t # <<>>, Head(t) \in {"spawn", "wait"}
               PROVE  Head(s) = "spawn" /\ r.sess = q.sess
    OBVIOUS
  <2>1. Linked(Head(s), Head(t))
    BY <1>3 DEF FinallySteps
  <2>2. Head(s) = "spawn"
    BY <2>1, Successors
  <2> QED
    BY <2>2 DEF MovesOn, s
<1> QED
  BY <1>3, <1>5, <1>8, <1>15, <1>16 DEF HostInv, At, s, t

-----------------------------------------------------------------------------
(* One step of one host and the daemon.                                     *)

(* What any step of a host h that becomes r has to respect.                 *)
LEMMA Moved ==
  ASSUME CommandsInv, NEW h \in Hosts, NEW r, HostInv(r), host' = [host EXCEPT ![h] = r],
         DaemonInv', LateInv',
         unsure \subseteq unsure', gone \subseteq gone', alive' \subseteq alive \cup {h},
         host[h].cmd \in Mounts /\ host[h].sess # 0 => r.cmd = host[h].cmd /\ r.sess = host[h].sess,
         \A s \in mounted' : s \in mounted \/ s \in unsure' \/ Unmounts(r, s),
         \A s \in mounted' : Unmounts(host[h], s) => s \in unsure' \/ Unmounts(r, s),
         \A s \in mounted : \/ s \in mounted' \cup gone'
                            \/ r.cmd \in Mounts /\ r.sess = s /\ ~At(host[h], {"spawn", "wait"}),
         CutMount(r) => r.sess \in unsure',
         h \in alive' /\ ~r.started => Starting(r),
         At(r, {"spawn", "wait"}) => \/ r.sess \in mounted'
                                     \/ At(host[h], {"spawn", "wait"}) /\ r.sess = host[h].sess
  PROVE  CommandsInv'
<1>1. /\ host \in [Hosts -> HostType] /\ \A g \in Hosts : HostInv(host[g])
      /\ MountedInv /\ CutInv /\ LaunchInv /\ RunInv
  BY DEF CommandsInv, HostsInv
<1>2. /\ host' \in [Hosts -> HostType] /\ host'[h] = r
      /\ \A g \in Hosts \ {h} : host'[g] = host[g]
  BY <1>1 DEF HostInv
<1>3. HostsInv'
  BY <1>1, <1>2 DEF HostsInv
<1>4. MountedInv'
  <2> SUFFICES ASSUME NEW s \in mounted', s \notin unsure'
               PROVE  \E g \in Hosts : Unmounts(host'[g], s)
    BY DEF MountedInv
  <2>1. CASE Unmounts(r, s)
    BY <1>2, <2>1
  <2>2. CASE ~Unmounts(r, s)
    <3>1. s \in mounted /\ s \notin unsure
      BY <2>2
    <3>2. PICK g \in Hosts : Unmounts(host[g], s)
      BY <1>1, <3>1 DEF MountedInv
    <3>3. g # h
      BY <2>2, <3>2
    <3> QED
      BY <1>2, <3>2, <3>3
  <2> QED
    BY <2>1, <2>2
<1>5. CutInv'
  <2> SUFFICES ASSUME NEW g \in Hosts, CutMount(host'[g])
               PROVE  host'[g].sess \in unsure'
    BY DEF CutInv
  <2>1. CASE g = h
    BY <1>2, <2>1
  <2>2. CASE g # h
    BY <1>1, <1>2, <2>2 DEF CutInv
  <2> QED
    BY <2>1, <2>2
<1>6. LaunchInv'
  <2> SUFFICES ASSUME NEW g \in Hosts, g \in alive', ~host'[g].started
               PROVE  Starting(host'[g])
    BY DEF LaunchInv
  <2>1. CASE g = h
    BY <1>2, <2>1
  <2>2. CASE g # h
    BY <1>1, <1>2, <2>2 DEF LaunchInv
  <2> QED
    BY <2>1, <2>2
<1>7. RunInv'
  <2> SUFFICES ASSUME NEW g \in Hosts, At(host'[g], {"spawn", "wait"}),
                      host'[g].sess \notin mounted' \cup unsure' \cup gone'
               PROVE  \E k \in Hosts \ {g} : host'[k].cmd \in Mounts /\ host'[k].sess = host'[g].sess
    BY DEF RunInv
  <2>1. At(host[g], {"spawn", "wait"}) /\ host'[g].sess = host[g].sess
    <3>1. CASE g = h
      BY <1>2, <3>1
    <3>2. CASE g # h
      BY <1>2, <3>2
    <3> QED
      BY <3>1, <3>2
  <2>2. host[g].sess # 0
    BY <1>1, <2>1 DEF HostInv, Holds, At, SessionSteps
  <2>3. CASE host[g].sess \in mounted
    <3>1. r.cmd \in Mounts /\ r.sess = host[g].sess /\ ~At(host[h], {"spawn", "wait"})
      BY <2>1, <2>3
    <3>2. h # g
      BY <2>1, <3>1
    <3> QED
      BY <1>2, <2>1, <3>1, <3>2
  <2>4. CASE host[g].sess \notin mounted
    <3>1. PICK k \in Hosts \ {g} : host[k].cmd \in Mounts /\ host[k].sess = host[g].sess
      BY <1>1, <2>1, <2>4 DEF RunInv
    <3>2. host'[k].cmd \in Mounts /\ host'[k].sess = host[k].sess
      BY <1>2, <2>2, <3>1
    <3> QED
      BY <2>1, <3>1, <3>2
  <2> QED
    BY <2>3, <2>4
<1> QED
  BY <1>3, <1>4, <1>5, <1>6, <1>7 DEF CommandsInv

(* Facts about a host in a state of the invariant.                          *)
LEMMA HostFacts ==
  ASSUME CommandsInv, NEW h \in Hosts
  PROVE  /\ HostInv(host[h]) /\ host[h] \in HostType
         /\ DOMAIN host = Hosts
         /\ h \in alive /\ ~host[h].started => Starting(host[h])
  BY DEF CommandsInv, HostsInv, HostInv, LaunchInv

(* The host's step is over.                                                 *)
LEMMA StepOver ==
  ASSUME CommandsInv, NEW h \in Hosts, NEW r \in HostType, host' = [host EXCEPT ![h] = r],
         MovesOn(host[h], r), DaemonInv', LateInv',
         unsure \subseteq unsure', gone \subseteq gone', alive' \subseteq alive,
         \A s \in mounted' : s \in mounted \/ s \in unsure',
         \A s \in mounted : s \in mounted' \cup gone' \/ (Head(host[h].todo) = "unmount" /\ host[h].sess = s),
         Head(host[h].todo) = "unmount" => host[h].sess \in unsure' \/ host[h].sess \notin mounted',
         Head(host[h].todo) = "hello" => host[h].at = "ready" \/ r.started \/ h \notin alive'
  PROVE  CommandsInv'
<1> DEFINE q == host[h]
<1>1. HostInv(q) /\ q.todo # <<>>
  BY HostFacts DEF MovesOn
<1>2. /\ HostInv(r)
      /\ Contains(r.todo, "unmount") <=> Contains(q.todo, "unmount") /\ Head(q.todo) # "unmount"
      /\ At(r, {"spawn", "wait"}) => Head(q.todo) = "spawn" /\ r.sess = q.sess
  BY <1>1, MovesOnInv
<1>3. /\ q.cmd \in Mounts /\ q.sess # 0 => r.cmd = q.cmd /\ r.sess = q.sess
      /\ r.sess = q.sess \/ Head(q.todo) \in {"list", "create"}
      /\ r.cmd = q.cmd /\ r.at = "ready" /\ q.at # "idle" /\ r.out # "killed" /\ (q.started => r.started)
  BY DEF MovesOn
<1>4. q.cmd \in AllCommands \cup {None} /\ Head(q.todo) \in StepsOf(q.cmd)
  BY <1>1, HeadFacts DEF HostInv, HostType
<1>5. ASSUME NEW s \in mounted', Unmounts(q, s), s \notin unsure'
      PROVE  Unmounts(r, s)
  <2>1. Path(q.todo) /\ Contains(q.todo, "unmount") /\ q.sess = s
    BY <1>1, <1>5 DEF Unmounts, HostInv, Scripted
  <2>2. Head(q.todo) \in {"prefetch", "spawn", "wait", "unmount"}
    BY <2>1, BeforeUnmount
  <2>3. Head(q.todo) # "unmount" /\ r.sess = q.sess
    BY <1>3, <1>5, <2>1, <2>2
  <2> QED
    BY <1>2, <2>1, <2>3 DEF Unmounts
<1>6. \A s \in mounted : \/ s \in mounted' \cup gone'
                         \/ r.cmd \in Mounts /\ r.sess = s /\ ~At(q, {"spawn", "wait"})
  <2> SUFFICES ASSUME NEW s \in mounted, Head(q.todo) = "unmount", q.sess = s
               PROVE  r.cmd \in Mounts /\ r.sess = s /\ ~At(q, {"spawn", "wait"})
    OBVIOUS
  <2> QED
    BY <1>3, <1>4, WhoseStep DEF At
<1>7. ~CutMount(r)
  BY <1>3 DEF CutMount, Calling
<1>8. h \in alive' /\ ~r.started => Starting(r)
  <2> SUFFICES ASSUME h \in alive', ~r.started
               PROVE  FALSE
    OBVIOUS
  <2>1. Starting(q)
    BY <1>3, HostFacts
  <2>2. q.out # "killed"
    BY <1>1, <1>3 DEF HostInv, Placed
  <2> QED
    BY <2>1, <2>2 DEF Starting, At, Calling
<1>9. At(r, {"spawn", "wait"}) => At(q, {"spawn", "wait"}) /\ r.sess = q.sess
  BY <1>1, <1>2 DEF At
<1> HIDE DEF q
<1>10. host[h] = q
  BY DEF q
<1> QED
  BY <1>2, <1>3, <1>5, <1>6, <1>7, <1>8, <1>9, <1>10, Moved

(* The host stays at its step.                                              *)
LEMMA StepStays ==
  ASSUME CommandsInv, NEW h \in Hosts, NEW r, HostInv(r), host' = [host EXCEPT ![h] = r],
         r.todo = host[h].todo, r.cmd = host[h].cmd, r.started = host[h].started,
         host[h].cmd \in Mounts /\ host[h].sess # 0 => r.sess = host[h].sess,
         r.sess = host[h].sess \/ At(host[h], {"create"}),
         DaemonInv', LateInv',
         unsure \subseteq unsure', gone \subseteq gone', alive' \subseteq alive \cup {h},
         mounted' \subseteq mounted, mounted \subseteq mounted' \cup gone',
         CutMount(r) => r.sess \in unsure',
         h \in alive' /\ ~r.started => Starting(r)
  PROVE  CommandsInv'
<1> DEFINE q == host[h]
<1>1. HostInv(q)
  BY HostFacts
<1>2. ASSUME NEW s, Unmounts(q, s)
      PROVE  Unmounts(r, s)
  <2>1. Path(q.todo) /\ Contains(q.todo, "unmount") /\ q.sess = s
    BY <1>1, <1>2 DEF Unmounts, HostInv, Scripted
  <2>2. Head(q.todo) # "create"
    BY <2>1, BeforeUnmount
  <2> QED
    BY <2>1, <2>2 DEF Unmounts, At
<1>3. At(r, {"spawn", "wait"}) => At(q, {"spawn", "wait"}) /\ r.sess = q.sess
  BY DEF At
<1> HIDE DEF q
<1>4. host[h] = q
  BY DEF q
<1>5. \A s \in mounted' : s \in mounted
  OBVIOUS
<1>6. \A s \in mounted : s \in mounted' \cup gone'
  OBVIOUS
<1> QED
  BY <1>2, <1>3, <1>4, <1>5, <1>6, Moved

(* The host ends, or has not begun.                                         *)
LEMMA StepEnds ==
  ASSUME CommandsInv, NEW h \in Hosts, NEW r, HostInv(r), host' = [host EXCEPT ![h] = r],
         ~At(r, {"spawn", "wait", "mount"}),
         host[h].cmd \in Mounts /\ host[h].sess # 0 => r.cmd = host[h].cmd /\ r.sess = host[h].sess,
         \A s \in mounted : Unmounts(host[h], s) => s \in unsure',
         UNCHANGED <<alive, listener, row, head, mounted, late, gone>>,
         unsure \subseteq unsure',
         h \in alive /\ ~r.started => Starting(r)
  PROVE  CommandsInv'
<1>1. DaemonInv'
  BY DEF CommandsInv, DaemonInv, Known
<1>2. LateInv'
  BY DEF CommandsInv, LateInv
<1>3. ~CutMount(r) /\ ~At(r, {"spawn", "wait"})
  BY DEF CutMount, At
<1>4. \A s \in mounted' : s \in mounted /\ (Unmounts(host[h], s) => s \in unsure')
  OBVIOUS
<1>5. \A s \in mounted : s \in mounted' \cup gone'
  OBVIOUS
<1>6. gone \subseteq gone' /\ alive' \subseteq alive \cup {h} /\ (h \in alive' /\ ~r.started => Starting(r))
  OBVIOUS
<1> QED
  BY <1>1, <1>2, <1>3, <1>4, <1>5, <1>6, Moved

-----------------------------------------------------------------------------
(* The records that Done and Raised make.                                   *)

Onward(r, more) ==
  [r EXCEPT !.todo = IF r.cut THEN Finally(Tail(r.todo)) ELSE more \o Tail(r.todo),
            !.at = "ready", !.conn = None, !.ran = FALSE]

Stopped(r, code) ==
  [r EXCEPT !.todo = Finally(Tail(r.todo)), !.at = "ready", !.conn = None, !.ran = FALSE,
            !.out = IF r.cut THEN "interrupted" ELSE code]

LEMMA DoneIs ==
  ASSUME NEW h, NEW more, NEW r
  PROVE  Done(h, more, r) <=> host' = [host EXCEPT ![h] = Onward(r, more)]
  BY DEF Done, Put, Onward

LEMMA RaisedIs ==
  ASSUME NEW h, NEW code, NEW r
  PROVE  Raised(h, code, r) <=> host' = [host EXCEPT ![h] = Stopped(r, code)]
  BY DEF Raised, Put, Stopped

LEMMA OnwardFields ==
  ASSUME NEW q \in HostType, q.todo # <<>>, Path(q.todo), NEW more \in Seq(Steps)
  PROVE  /\ Onward(q, more) \in HostType
         /\ Onward(q, more).todo = IF q.cut THEN Finally(Tail(q.todo)) ELSE more \o Tail(q.todo)
         /\ Onward(q, more).at = "ready" /\ Onward(q, more).conn = None /\ Onward(q, more).ran = FALSE
         /\ Onward(q, more).cmd = q.cmd /\ Onward(q, more).sess = q.sess
         /\ Onward(q, more).started = q.started /\ Onward(q, more).cut = q.cut
         /\ Onward(q, more).child = q.child /\ Onward(q, more).db = q.db /\ Onward(q, more).out = q.out
<1> DEFINE t == IF q.cut THEN Finally(Tail(q.todo)) ELSE more \o Tail(q.todo)
<1>1. Path(Tail(q.todo)) /\ Tail(q.todo) \in Seq(Steps)
  BY PathTail DEF Path, Chain
<1>2. Finally(Tail(q.todo)) \in Seq(Steps) /\ more \o Tail(q.todo) \in Seq(Steps)
  BY <1>1, FinallyKeeps, ConcatProperties
<1>3. t \in Seq(Steps)
  BY <1>2
<1> HIDE DEF t
<1>4. Onward(q, more) = [q EXCEPT !.todo = t, !.at = "ready", !.conn = None, !.ran = FALSE]
  BY DEF Onward, t
<1> QED
  BY <1>3, <1>4 DEF HostType, Places, t

LEMMA StoppedFields ==
  ASSUME NEW q \in HostType, q.todo # <<>>, Path(q.todo), NEW code \in Outs
  PROVE  /\ Stopped(q, code) \in HostType
         /\ Stopped(q, code).todo = Finally(Tail(q.todo))
         /\ Stopped(q, code).at = "ready" /\ Stopped(q, code).conn = None /\ Stopped(q, code).ran = FALSE
         /\ Stopped(q, code).cmd = q.cmd /\ Stopped(q, code).sess = q.sess
         /\ Stopped(q, code).started = q.started /\ Stopped(q, code).cut = q.cut
         /\ Stopped(q, code).child = q.child /\ Stopped(q, code).db = q.db
         /\ Stopped(q, code).out \in {"interrupted", code}
<1> DEFINE t == Finally(Tail(q.todo))
           o == IF q.cut THEN "interrupted" ELSE code
<1>1. Path(Tail(q.todo)) /\ Tail(q.todo) \in Seq(Steps)
  BY PathTail DEF Path, Chain
<1>2. t \in Seq(Steps)
  BY <1>1, FinallyKeeps
<1>3. o \in Outs /\ o \in {"interrupted", code}
  BY DEF Outs
<1> HIDE DEF t, o
<1>4. Stopped(q, code) = [q EXCEPT !.todo = t, !.at = "ready", !.conn = None, !.ran = FALSE, !.out = o]
  BY DEF Stopped, t, o
<1> QED
  BY <1>2, <1>3, <1>4 DEF HostType, Places, t

(* The step succeeded, and what it gave the host goes with it.              *)
LEMMA OnwardMoves ==
  ASSUME NEW q, HostInv(q), q.todo # <<>>, q.at # "idle", NEW r \in HostType, NEW more \in Seq(Steps),
         q.cut \/ more = <<>>,
         r.todo = q.todo, r.cmd = q.cmd, r.cut = q.cut, r.out = q.out, q.started => r.started,
         r.child => Head(q.todo) = "spawn" /\ ~q.cut,
         r.db => (Head(q.todo) = "open" /\ ~q.cut) \/ Head(q.todo) = "query",
         r.sess = q.sess \/ Head(q.todo) \in {"list", "create"},
         Head(q.todo) = "list" /\ ~q.cut => r.sess # 0 \/ q.cmd = "continue",
         q.cmd \in Mounts /\ q.sess # 0 => r.sess = q.sess
  PROVE  Onward(r, more) \in HostType /\ MovesOn(q, Onward(r, more))
<1> DEFINE n == Onward(r, more)
<1>1. Path(r.todo) /\ r.todo # <<>>
  BY DEF HostInv, Scripted
<1>2. /\ n \in HostType
      /\ n.todo = IF r.cut THEN Finally(Tail(r.todo)) ELSE more \o Tail(r.todo)
      /\ n.at = "ready" /\ n.conn = None /\ n.ran = FALSE
      /\ n.cmd = r.cmd /\ n.sess = r.sess /\ n.started = r.started
      /\ n.child = r.child /\ n.db = r.db /\ n.out = r.out
  BY <1>1, OnwardFields
<1>3. <<>> \o Tail(q.todo) = Tail(q.todo)
  <2>1. Tail(q.todo) \in Seq(Steps)
    BY <1>1, PathTail DEF Path, Chain
  <2> QED
    BY <2>1, ConcatEmptySeq
<1>4. n.todo = IF q.cut THEN Finally(Tail(q.todo)) ELSE Tail(q.todo)
  BY <1>2, <1>3
<1>5. q.out # "killed"
  BY DEF HostInv, Placed
<1> HIDE DEF n
<1>6. MovesOn(q, n)
  BY <1>2, <1>4, <1>5 DEF MovesOn
<1> QED
  BY <1>2, <1>6 DEF n

(* The step raised.                                                         *)
LEMMA StoppedMoves ==
  ASSUME NEW q, HostInv(q), q.todo # <<>>, q.at # "idle", NEW r \in HostType, NEW code \in Outs \ {"killed"},
         r.todo = q.todo, r.cmd = q.cmd, r.started = q.started, ~r.child,
         r.db => Head(q.todo) = "query",
         r.sess = q.sess \/ Head(q.todo) = "create",
         q.cmd \in Mounts /\ q.sess # 0 => r.sess = q.sess
  PROVE  Stopped(r, code) \in HostType /\ MovesOn(q, Stopped(r, code))
<1> DEFINE n == Stopped(r, code)
<1>1. Path(r.todo) /\ r.todo # <<>>
  BY DEF HostInv, Scripted
<1>2. /\ n \in HostType
      /\ n.todo = Finally(Tail(r.todo))
      /\ n.at = "ready" /\ n.conn = None /\ n.ran = FALSE
      /\ n.cmd = r.cmd /\ n.sess = r.sess /\ n.started = r.started
      /\ n.child = r.child /\ n.db = r.db /\ n.out \in {"interrupted", code}
  BY <1>1, StoppedFields
<1> HIDE DEF n
<1>3. MovesOn(q, n)
  BY <1>2 DEF MovesOn
<1> QED
  BY <1>2, <1>3 DEF n

(* What the host holds at a step.                                           *)
LEMMA Carries ==
  ASSUME NEW q, HostInv(q), q.todo # <<>>
  PROVE  /\ q.child => Head(q.todo) = "wait"
         /\ q.db => Head(q.todo) \in {"query", "close_database"}
         /\ q.ran => Head(q.todo) \in DurableSteps
         /\ Head(q.todo) \in SessionSteps => q.sess \in Sessions
         /\ q.cmd = "prefetched" /\ ~q.ran /\ Head(q.todo) \in BeforeCreate => q.sess = 0
         /\ q.ran /\ Head(q.todo) = "create" => q.sess # 0
         /\ ~q.started => Head(q.todo) \in {"hello"} \cup Offline
<1>1. q.sess \in 0..SessionBound /\ SessionBound \in Nat
  BY CommandsAssumption DEF HostInv, HostType
<1> QED
  BY <1>1 DEF HostInv, Holds, At, Sessions

(* The daemon and the store are as they were.                               *)
LEMMA SameDaemon ==
  ASSUME CommandsInv, UNCHANGED <<alive, listener, row, head, mounted, late>>, unsure \subseteq unsure'
  PROVE  DaemonInv' /\ LateInv'
<1>1. DaemonInv'
  BY DEF CommandsInv, DaemonInv, Known
<1>2. LateInv'
  BY DEF CommandsInv, LateInv
<1> QED
  BY <1>1, <1>2

(* A step that only concerns the host is over.                              *)
LEMMA QuietOver ==
  ASSUME CommandsInv, NEW h \in Hosts, NEW r \in HostType, host' = [host EXCEPT ![h] = r],
         MovesOn(host[h], r), UNCHANGED <<gone, alive, listener, row, head, mounted, late>>,
         unsure \subseteq unsure',
         Head(host[h].todo) = "unmount" => host[h].sess \in unsure' \/ host[h].sess \notin mounted',
         Head(host[h].todo) = "hello" => host[h].at = "ready" \/ r.started \/ h \notin alive'
  PROVE  CommandsInv'
<1>1. DaemonInv' /\ LateInv'
  BY SameDaemon
<1>2. /\ gone \subseteq gone' /\ alive' \subseteq alive
      /\ \A s \in mounted' : s \in mounted \/ s \in unsure'
      /\ \A s \in mounted : s \in mounted' \cup gone' \/ (Head(host[h].todo) = "unmount" /\ host[h].sess = s)
  OBVIOUS
<1> QED
  BY <1>1, <1>2, StepOver

-----------------------------------------------------------------------------
(* The steps of a host that leave the daemon alone.                         *)

LEMMA ScriptPaths ==
  ASSUME NEW cmd \in AllCommands
  PROVE  /\ Path(Script(cmd)) /\ Script(cmd) \in Seq(StepsOf(cmd)) /\ Script(cmd) # <<>>
         /\ Head(Script(cmd)) \in {"hello", "open", "shortcut"}
<1>1. CASE cmd = "memory"
  <2>1. Script(cmd) = <<"open", "query", "close_database">>
    BY <1>1 DEF Script, MemoryScript
  <2>2. StepsOf(cmd) = {"open", "query", "close_database"}
    BY <1>1 DEF StepsOf
  <2>3. Chain(<<"open", "query", "close_database">>)
    BY DEF Chain, Linked, Links, Steps
  <2>4. Path(<<"open", "query", "close_database">>)
    BY <2>3 DEF Path, Ends
  <2> QED
    BY <2>1, <2>2, <2>4
<1>2. CASE cmd = "shortcut"
  <2>1. Script(cmd) = <<"shortcut">> /\ StepsOf(cmd) = {"shortcut"}
    BY <1>2 DEF Script, StepsOf
  <2> QED
    BY <2>1, ShortPaths
<1>3. CASE cmd \notin {"memory", "shortcut"}
  <2>1. Script(cmd) = <<"hello">> /\ "hello" \in StepsOf(cmd)
    BY <1>3 DEF Script, StepsOf, StartSteps, AllCommands
  <2> QED
    BY <2>1, ShortPaths, Single
<1> QED
  BY <1>1, <1>2, <1>3

LEMMA FreshType ==
  /\ Fresh \in HostType /\ Fresh.todo = <<>> /\ Fresh.at = "idle" /\ Fresh.conn = None /\ Fresh.out = None
  /\ Fresh.ran = FALSE /\ Fresh.started = FALSE /\ Fresh.child = FALSE /\ Fresh.db = FALSE
  /\ Fresh.cut = FALSE /\ Fresh.cmd = None
<1>1. <<>> \in Seq(Steps) /\ 0 \in 0..RequestAttempts /\ 0 \in 0..SessionBound
  BY EmptySeq, CommandsAssumption
<1>2. "idle" \in Places /\ None \in Outs
  BY DEF Places, Outs
<1> QED
  BY <1>1, <1>2 DEF Fresh, HostType

LEMMA RunKeeps ==
  ASSUME CommandsInv, NEW h \in Hosts, NEW cmd \in Commands[h], NEW s \in Known \cup {0}, Run(h, cmd, s)
  PROVE  CommandsInv'
<1> DEFINE t == Script(cmd)
           r == [Fresh EXCEPT !.cmd = cmd, !.todo = t, !.at = "ready", !.sess = s]
<1>1. cmd \in AllCommands /\ s \in 0..SessionBound /\ RequestAttempts \in Nat
  BY CommandsAssumption DEF Known, Sessions
<1>2. Path(t) /\ t \in Seq(StepsOf(cmd)) /\ t # <<>> /\ Head(t) \in {"hello", "open", "shortcut"}
  BY <1>1, ScriptPaths
<1>3. t \in Seq(Steps)
  BY <1>2 DEF Path, Chain
<1> HIDE DEF t
<1>4. /\ r \in HostType /\ r.cmd = cmd /\ r.todo = t /\ r.at = "ready" /\ r.sess = s /\ r.conn = None
      /\ r.ran = FALSE /\ r.started = FALSE /\ r.child = FALSE /\ r.db = FALSE /\ r.out = None /\ r.cut = FALSE
  BY <1>1, <1>3, FreshType DEF HostType, Places
<1>5. host' = [host EXCEPT ![h] = r]
  BY DEF Run, Put, t
<1>6. s # 0 => cmd \in Selects \cup {"continue"}
  BY DEF Run
<1> HIDE DEF r
<1>7. Scripted(r)
  BY <1>2, <1>4 DEF Scripted
<1>8. Placed(r)
  BY <1>4 DEF Placed, Calling, None
<1>9. Holds(r)
  <2>1. cmd = "prefetched" => s = 0
    BY <1>6 DEF Selects, NeedsActive
  <2> QED
    BY <1>2, <1>4, <2>1 DEF Holds, At, Offline, SessionSteps
<1>10. HostInv(r)
  BY <1>4, <1>7, <1>8, <1>9 DEF HostInv
<1>11. /\ host[h] = Fresh
       /\ UNCHANGED <<alive, listener, row, head, mounted, late, gone, unsure>>
  BY DEF Run, store
<1>12. h \notin alive
  BY <1>11, HostFacts DEF Fresh, Starting, At, None
<1>13. ~At(r, {"spawn", "wait", "mount"})
  BY <1>2, <1>4 DEF At
<1>14. host[h].cmd \notin Mounts
  BY <1>11 DEF Fresh, Mounts, None
<1>15. ~Contains(host[h].todo, "unmount")
  BY <1>11, ShortPaths DEF Fresh
<1> QED
  BY <1>5, <1>10, <1>11, <1>12, <1>13, <1>14, <1>15, StepEnds DEF Unmounts

LEMMA FinishKeeps ==
  ASSUME CommandsInv, NEW h \in Hosts, Finish(h)
  PROVE  CommandsInv'
<1> DEFINE q == host[h]
           o == IF q.out # None THEN q.out ELSE IF q.cut THEN "interrupted" ELSE "ok"
           r == [q EXCEPT !.at = "idle", !.out = o]
<1>1. q.at = "ready" /\ q.todo = <<>> /\ host' = [host EXCEPT ![h] = r]
      /\ UNCHANGED <<alive, listener, row, head, mounted, late, gone, unsure>>
  BY DEF Finish, Put, store
<1>2. HostInv(q) /\ q \in HostType
  BY HostFacts
<1>3. q.out # "killed"
  BY <1>1, <1>2 DEF HostInv, Placed
<1>4. o \in Outs /\ o # "killed"
  BY <1>2, <1>3 DEF HostType, Outs
<1> HIDE DEF o
<1>5. /\ r \in HostType /\ r.cmd = q.cmd /\ r.todo = q.todo /\ r.at = "idle" /\ r.sess = q.sess
      /\ r.conn = q.conn /\ r.ran = q.ran /\ r.started = q.started /\ r.child = q.child /\ r.db = q.db
      /\ r.out = o
  BY <1>2, <1>4 DEF HostType, Places
<1> HIDE DEF r
<1>6. Scripted(r)
  BY <1>2, <1>5 DEF HostInv, Scripted
<1>7. Placed(r)
  BY <1>1, <1>2, <1>5, <1>4 DEF HostInv, Placed, Calling
<1>8. Holds(r)
  BY <1>2, <1>5 DEF HostInv, Holds, At
<1>9. ~(h \in alive /\ ~r.started)
  BY <1>1, <1>3, <1>5, HostFacts DEF Starting, At
<1>10. ~At(r, {"spawn", "wait", "mount"})
  BY <1>1, <1>5 DEF At
<1>11. \A s : ~Unmounts(q, s)
  BY <1>1, ShortPaths DEF Unmounts
<1> QED
  BY <1>1, <1>5, <1>6, <1>7, <1>8, <1>9, <1>10, <1>11, StepEnds DEF HostInv

LEMMA KillKeeps ==
  ASSUME CommandsInv, NEW h \in Hosts, Kill(h)
  PROVE  CommandsInv'
<1> DEFINE q == host[h]
           r == [Fresh EXCEPT !.cmd = q.cmd, !.sess = q.sess, !.out = "killed"]
<1>1. host' = [host EXCEPT ![h] = r] /\ unsure' = unsure \cup {q.sess}
      /\ UNCHANGED <<alive, listener, row, head, mounted, late, gone>>
  BY DEF Kill, Put, store
<1>2. HostInv(q) /\ q \in HostType /\ RequestAttempts \in Nat
  BY HostFacts, CommandsAssumption
<1>3. /\ r \in HostType /\ r.cmd = q.cmd /\ r.todo = <<>> /\ r.at = "idle" /\ r.sess = q.sess /\ r.conn = None
      /\ r.ran = FALSE /\ r.started = FALSE /\ r.child = FALSE /\ r.db = FALSE /\ r.out = "killed"
  BY <1>2, FreshType DEF HostType, Outs
<1> HIDE DEF r
<1>4. Scripted(r)
  BY <1>3, ShortPaths, EmptySeq DEF Scripted
<1>5. Placed(r) /\ Holds(r)
  BY <1>3 DEF Placed, Holds, At, Calling
<1>6. Starting(r) /\ ~At(r, {"spawn", "wait", "mount"})
  BY <1>3 DEF Starting, At
<1>7. unsure \subseteq unsure' /\ \A s \in mounted : Unmounts(q, s) => s \in unsure'
  BY <1>1 DEF Unmounts
<1> QED
  BY <1>1, <1>3, <1>4, <1>5, <1>6, <1>7, StepEnds DEF HostInv

(* A local step that succeeds: the database and the child go with the step. *)
LEMMA LocallyKeeps ==
  ASSUME CommandsInv, NEW h \in Hosts, NEW step, NEW r \in HostType, Locally(h, step, r),
         step \notin {"list", "unmount"},
         r.todo = host[h].todo, r.cmd = host[h].cmd, r.cut = host[h].cut, r.out = host[h].out,
         r.started = host[h].started, r.sess = host[h].sess,
         r.child => step = "spawn" /\ ~host[h].cut,
         r.db => (step = "open" /\ ~host[h].cut) \/ step = "query"
  PROVE  CommandsInv'
<1> DEFINE q == host[h]
           n == Onward(r, <<>>)
<1>1. /\ q.at = "ready" /\ q.todo # <<>> /\ Head(q.todo) = step /\ host' = [host EXCEPT ![h] = n]
      /\ UNCHANGED <<gone, alive, listener, row, head, mounted, late, unsure>>
  BY DoneIs DEF Locally, Ready, Now, store
<1>2. HostInv(q)
  BY HostFacts
<1>3. <<>> \in Seq(Steps)
  BY EmptySeq
<1>4. n \in HostType /\ MovesOn(q, n)
  BY <1>1, <1>2, <1>3, OnwardMoves
<1> HIDE DEF n
<1> QED
  BY <1>1, <1>4, QuietOver

(* The records of the local steps.                                          *)
LEMMA FieldUpdates ==
  ASSUME NEW q \in HostType, NEW b \in BOOLEAN
  PROVE  /\ [q EXCEPT !.db = b] \in HostType /\ [q EXCEPT !.db = b].db = b
         /\ [q EXCEPT !.db = b].todo = q.todo /\ [q EXCEPT !.db = b].cmd = q.cmd
         /\ [q EXCEPT !.db = b].cut = q.cut /\ [q EXCEPT !.db = b].out = q.out
         /\ [q EXCEPT !.db = b].started = q.started /\ [q EXCEPT !.db = b].sess = q.sess
         /\ [q EXCEPT !.db = b].child = q.child
         /\ [q EXCEPT !.child = b] \in HostType /\ [q EXCEPT !.child = b].child = b
         /\ [q EXCEPT !.child = b].todo = q.todo /\ [q EXCEPT !.child = b].cmd = q.cmd
         /\ [q EXCEPT !.child = b].cut = q.cut /\ [q EXCEPT !.child = b].out = q.out
         /\ [q EXCEPT !.child = b].started = q.started /\ [q EXCEPT !.child = b].sess = q.sess
         /\ [q EXCEPT !.child = b].db = q.db
  BY DEF HostType

LEMMA LocalStepKeeps ==
  ASSUME CommandsInv, NEW h \in Hosts, ~host[h].cut, LocalStep(h)
  PROVE  CommandsInv'
<1> DEFINE q == host[h]
           d == [q EXCEPT !.db = TRUE]
           c == [q EXCEPT !.child = TRUE]
<1>1. HostInv(q) /\ q \in HostType
  BY HostFacts
<1>2. ASSUME NEW step, Locally(h, step, q), step \in {"plan", "publish_head", "publish", "query", "shortcut"}
      PROVE  CommandsInv'
  <2>1. q.todo # <<>> /\ Head(q.todo) = step
    BY <1>2 DEF Locally, Ready, Now
  <2>2. ~q.child /\ (q.db => step = "query")
    BY <1>1, <1>2, <2>1, Carries
  <2> QED
    BY <1>1, <1>2, <2>2, LocallyKeeps
<1>3. CASE OpenDatabase(h)
  <2>1. Locally(h, "open", d) /\ q.todo # <<>> /\ Head(q.todo) = "open"
    BY <1>3 DEF OpenDatabase, Locally, Ready, Now
  <2>2. /\ d \in HostType /\ d.todo = q.todo /\ d.cmd = q.cmd /\ d.cut = q.cut /\ d.out = q.out
        /\ d.started = q.started /\ d.sess = q.sess /\ d.child = q.child
    BY <1>1, FieldUpdates
  <2>3. ~q.child
    BY <1>1, <2>1, Carries
  <2> HIDE DEF d
  <2> QED
    BY <2>1, <2>2, <2>3, LocallyKeeps
<1>4. CASE Spawn(h)
  <2>1. Locally(h, "spawn", c) /\ q.todo # <<>> /\ Head(q.todo) = "spawn"
    BY <1>4 DEF Spawn, Locally, Ready, Now
  <2>2. /\ c \in HostType /\ c.todo = q.todo /\ c.cmd = q.cmd /\ c.cut = q.cut /\ c.out = q.out
        /\ c.started = q.started /\ c.sess = q.sess /\ c.db = q.db
    BY <1>1, FieldUpdates
  <2>3. ~q.db
    BY <1>1, <2>1, Carries
  <2> HIDE DEF c
  <2> QED
    BY <2>1, <2>2, <2>3, LocallyKeeps
<1> QED
  BY <1>2, <1>3, <1>4 DEF LocalStep, ResolvePlan, PublishExternal, PublishManifest, QueryMemories, CreateShortcut

LEMMA ClosingKeeps ==
  ASSUME CommandsInv, NEW h \in Hosts, CloseDatabase(h) \/ CloseDaemon(h) \/ ChildExits(h)
  PROVE  CommandsInv'
<1> DEFINE q == host[h]
           d == [q EXCEPT !.db = FALSE]
           c == [q EXCEPT !.child = FALSE]
<1>1. HostInv(q) /\ q \in HostType
  BY HostFacts
<1>2. CASE CloseDatabase(h)
  <2>1. Locally(h, "close_database", d) /\ q.todo # <<>> /\ Head(q.todo) = "close_database"
    BY <1>2 DEF CloseDatabase, Locally, Ready, Now
  <2>2. /\ d \in HostType /\ d.todo = q.todo /\ d.cmd = q.cmd /\ d.cut = q.cut /\ d.out = q.out
        /\ d.started = q.started /\ d.sess = q.sess /\ d.child = q.child /\ d.db = FALSE
    BY <1>1, FieldUpdates
  <2>3. ~q.child
    BY <1>1, <2>1, Carries
  <2> HIDE DEF d
  <2> QED
    BY <2>1, <2>2, <2>3, LocallyKeeps
<1>3. CASE CloseDaemon(h)
  <2>1. Locally(h, "close_daemon", q) /\ q.todo # <<>> /\ Head(q.todo) = "close_daemon"
    BY <1>3 DEF CloseDaemon, Locally, Ready, Now
  <2>2. ~q.child /\ ~q.db
    BY <1>1, <2>1, Carries
  <2> QED
    BY <1>1, <2>1, <2>2, LocallyKeeps
<1>4. CASE ChildExits(h)
  <2>1. Locally(h, "wait", c) /\ q.todo # <<>> /\ Head(q.todo) = "wait"
    BY <1>4 DEF ChildExits, Locally, Ready, Now
  <2>2. /\ c \in HostType /\ c.todo = q.todo /\ c.cmd = q.cmd /\ c.cut = q.cut /\ c.out = q.out
        /\ c.started = q.started /\ c.sess = q.sess /\ c.db = q.db /\ c.child = FALSE
    BY <1>1, FieldUpdates
  <2>3. ~q.db
    BY <1>1, <2>1, Carries
  <2> HIDE DEF c
  <2> QED
    BY <2>1, <2>2, <2>3, LocallyKeeps
<1> QED
  BY <1>2, <1>3, <1>4

LEMMA LocalStepFailsKeeps ==
  ASSUME CommandsInv, NEW h \in Hosts, LocalStepFails(h)
  PROVE  CommandsInv'
<1> DEFINE q == host[h]
           n == Stopped(q, "error")
           r == [q EXCEPT !.todo = <<>>, !.out = "error"]
<1>1. /\ q.at = "ready" /\ q.todo # <<>> /\ Head(q.todo) \in LocalWork \cup {"commit", "mount"}
      /\ UNCHANGED <<gone, alive, listener, row, head, mounted, late, unsure>>
      /\ IF Head(q.todo) = "open" THEN host' = [host EXCEPT ![h] = r] ELSE host' = [host EXCEPT ![h] = n]
  BY RaisedIs DEF LocalStepFails, Ready, Now, store, Put
<1>2. HostInv(q) /\ q \in HostType
  BY HostFacts
<1>3. /\ ~q.child /\ (q.db => Head(q.todo) = "query")
      /\ Head(q.todo) = "open" => ~q.ran
  BY <1>1, <1>2, Carries DEF LocalWork, DurableSteps
<1>4. CASE Head(q.todo) # "open"
  <2>1. n \in HostType /\ MovesOn(q, n)
    BY <1>1, <1>2, <1>3, StoppedMoves DEF Outs
  <2> HIDE DEF n
  <2> QED
    BY <1>1, <1>4, <2>1, QuietOver DEF LocalWork
<1>5. CASE Head(q.todo) = "open"
  <2>1. /\ r \in HostType /\ r.cmd = q.cmd /\ r.todo = <<>> /\ r.at = "ready" /\ r.sess = q.sess
        /\ r.conn = q.conn /\ r.ran = q.ran /\ r.started = q.started /\ r.child = q.child /\ r.db = q.db
        /\ r.out = "error"
    <3>1. <<>> \in Seq(Steps) /\ "error" \in Outs
      BY EmptySeq DEF Outs
    <3> QED
      BY <1>1, <1>2, <3>1 DEF HostType
  <2> HIDE DEF r
  <2>2. Scripted(r)
    BY <2>1, ShortPaths, EmptySeq DEF Scripted
  <2>3. Placed(r)
    BY <1>1, <1>2, <2>1 DEF HostInv, Placed, Calling
  <2>4. Holds(r)
    BY <1>3, <1>5, <2>1 DEF Holds, At
  <2>5. q.out # "killed"
    BY <1>1, <1>2 DEF HostInv, Placed
  <2>6. ~(h \in alive /\ ~r.started)
    BY <1>1, <2>1, <2>5, HostFacts DEF Starting, Calling
  <2>7. \A s : ~Unmounts(q, s)
    <3>1. Path(q.todo)
      BY <1>2 DEF HostInv, Scripted
    <3> QED
      BY <1>5, <3>1, BeforeUnmount DEF Unmounts
  <2>8. ~At(r, {"spawn", "wait", "mount"})
    BY <2>1 DEF At
  <2> QED
    BY <1>1, <1>5, <2>1, <2>2, <2>3, <2>4, <2>6, <2>7, <2>8, StepEnds DEF HostInv
<1> QED
  BY <1>4, <1>5

LEMMA PlainOnward ==
  ASSUME NEW q, HostInv(q), q.todo # <<>>, q.at # "idle", Head(q.todo) \notin {"wait", "close_database"},
         Head(q.todo) = "list" => q.cut \/ q.sess # 0 \/ q.cmd = "continue"
  PROVE  Onward(q, <<>>) \in HostType /\ MovesOn(q, Onward(q, <<>>))
<1>1. q \in HostType /\ <<>> \in Seq(Steps)
  BY EmptySeq DEF HostInv
<1>2. ~q.child /\ (q.db => Head(q.todo) = "query")
  BY Carries
<1> QED
  BY <1>1, <1>2, OnwardMoves

LEMMA PlainStopped ==
  ASSUME NEW q, HostInv(q), q.todo # <<>>, q.at # "idle", Head(q.todo) \notin {"wait", "close_database"},
         NEW code \in Outs \ {"killed"}
  PROVE  Stopped(q, code) \in HostType /\ MovesOn(q, Stopped(q, code))
<1>1. q \in HostType
  BY DEF HostInv
<1>2. ~q.child /\ (q.db => Head(q.todo) = "query")
  BY Carries
<1> QED
  BY <1>1, <1>2, StoppedMoves

LEMMA SkipKeeps ==
  ASSUME CommandsInv, NEW h \in Hosts, SkipList(h) \/ CutStep(h)
  PROVE  CommandsInv'
<1> DEFINE q == host[h]
           n == Onward(q, <<>>)
<1>1. HostInv(q)
  BY HostFacts
<1>2. /\ q.at = "ready" /\ q.todo # <<>> /\ host' = [host EXCEPT ![h] = n]
      /\ UNCHANGED <<gone, alive, listener, row, head, mounted, late, unsure>>
      /\ Head(q.todo) \notin {"wait", "close_database", "unmount"}
      /\ Head(q.todo) = "list" => q.cut \/ q.sess # 0
  BY DoneIs DEF SkipList, CutStep, Ready, Now, store, FinallySteps
<1>3. n \in HostType /\ MovesOn(q, n)
  BY <1>1, <1>2, PlainOnward
<1> HIDE DEF n
<1> QED
  BY <1>2, <1>3, QuietOver

(* What a host that waits for the daemon may change.                        *)
LEMMA Pending ==
  ASSUME NEW q, HostInv(q), NEW r \in HostType, q.todo # <<>>, q.at \notin {"idle"},
         Head(q.todo) \in DaemonSteps,
         r.todo = q.todo, r.cmd = q.cmd, r.started = q.started, r.child = q.child, r.db = q.db,
         r.out = q.out \/ r.out = "interrupted", r.ran = q.ran, r.sess = q.sess,
         r.at \in Calling, (r.conn # None) = (r.at = "call")
  PROVE  HostInv(r)
<1>1. q.out # "killed"
  BY DEF HostInv, Placed
<1>2. Scripted(r)
  BY DEF HostInv, Scripted
<1>3. Placed(r)
  BY <1>1 DEF Placed, At, Calling
<1>4. Holds(r)
  BY DEF HostInv, Holds, At
<1> QED
  BY <1>2, <1>3, <1>4 DEF HostInv

LEMMA CallKeeps ==
  ASSUME CommandsInv, NEW h \in Hosts, Call(h), ~host[h].cut \/ Now(h) = "unmount"
  PROVE  CommandsInv'
<1> DEFINE q == host[h]
           a == [q EXCEPT !.at = "call", !.conn = listener, !.attempt = 1]
           k == IF Now(h) = "hello" THEN 0 ELSE 1
           b == [q EXCEPT !.at = "connect", !.attempt = k]
<1>1. HostInv(q) /\ q \in HostType
  BY HostFacts
<1>2. /\ q.at = "ready" /\ q.todo # <<>> /\ Head(q.todo) \in DaemonSteps
      /\ UNCHANGED <<gone, alive, listener, row, head, mounted, late, unsure>>
      /\ IF listener # None THEN host' = [host EXCEPT ![h] = a] ELSE host' = [host EXCEPT ![h] = b]
  BY DEF Call, Now, store, Put
<1>3. DaemonInv' /\ LateInv' /\ listener \in Procs \cup {None}
  BY <1>2, SameDaemon DEF CommandsInv, DaemonInv
<1>4. 1 \in 0..RequestAttempts /\ k \in 0..RequestAttempts
  BY CommandsAssumption
<1>5. q.conn = None
  BY <1>1, <1>2 DEF HostInv, Placed
<1>6. PICK r : /\ host' = [host EXCEPT ![h] = r]
               /\ r \in HostType /\ r.todo = q.todo /\ r.cmd = q.cmd /\ r.started = q.started /\ r.child = q.child
               /\ r.db = q.db /\ r.out = q.out /\ r.ran = q.ran /\ r.sess = q.sess /\ r.cut = q.cut
               /\ r.at \in Calling /\ (r.conn # None) = (r.at = "call")
  <2>1. CASE listener # None
    <3>1. /\ a \in HostType /\ a.todo = q.todo /\ a.cmd = q.cmd /\ a.started = q.started /\ a.child = q.child
          /\ a.db = q.db /\ a.out = q.out /\ a.ran = q.ran /\ a.sess = q.sess /\ a.cut = q.cut
          /\ a.at = "call" /\ a.conn = listener
      BY <1>1, <1>3, <1>4 DEF HostType, Places
    <3> HIDE DEF a
    <3> QED
      BY <1>2, <2>1, <3>1 DEF Calling
  <2>2. CASE listener = None
    <3> HIDE DEF k
    <3>1. /\ b \in HostType /\ b.todo = q.todo /\ b.cmd = q.cmd /\ b.started = q.started /\ b.child = q.child
          /\ b.db = q.db /\ b.out = q.out /\ b.ran = q.ran /\ b.sess = q.sess /\ b.cut = q.cut
          /\ b.at = "connect" /\ b.conn = q.conn
      BY <1>1, <1>4 DEF HostType, Places
    <3> HIDE DEF b
    <3> QED
      BY <1>2, <1>5, <2>2, <3>1 DEF Calling
  <2> QED
    BY <2>1, <2>2
<1> HIDE DEF a, b, k
<1>7. HostInv(r)
  BY <1>1, <1>2, <1>6, Pending
<1>8. ~CutMount(r)
  BY <1>6 DEF CutMount, At, Now
<1>9. ~(h \in alive /\ ~r.started)
  <2>1. q.out # "killed"
    BY <1>1, <1>2 DEF HostInv, Placed
  <2> QED
    BY <1>2, <1>6, <2>1, HostFacts DEF Starting, Calling
<1>10. /\ unsure \subseteq unsure' /\ gone \subseteq gone' /\ alive' \subseteq alive \cup {h}
       /\ mounted' \subseteq mounted /\ mounted \subseteq mounted' \cup gone'
       /\ ~(h \in alive' /\ ~r.started)
  BY <1>2, <1>9
<1> QED
  BY <1>3, <1>6, <1>7, <1>8, <1>10, StepStays

(* A host that is connecting, in a call or has failed to start stays at its *)
(* step.                                                                    *)
LEMMA CallingStays ==
  ASSUME CommandsInv, NEW h \in Hosts, NEW r, HostInv(r), host' = [host EXCEPT ![h] = r],
         host[h].at \in Calling,
         r.todo = host[h].todo, r.cmd = host[h].cmd, r.started = host[h].started, r.cut = host[h].cut,
         r.at \in Calling \/ r.at = "start_failed",
         host[h].cmd \in Mounts /\ host[h].sess # 0 => r.sess = host[h].sess,
         r.sess = host[h].sess \/ At(host[h], {"create"}),
         DaemonInv', LateInv',
         unsure \subseteq unsure', gone \subseteq gone', alive' \subseteq alive \cup {h},
         mounted' \subseteq mounted, mounted \subseteq mounted' \cup gone'
  PROVE  CommandsInv'
<1> DEFINE q == host[h]
<1>1. HostInv(q)
  BY HostFacts
<1>2. At(q, DaemonSteps)
  BY <1>1 DEF HostInv, Placed
<1>3. CutMount(r) => r.sess \in unsure'
  <2> SUFFICES ASSUME CutMount(r)
               PROVE  r.sess \in unsure'
    OBVIOUS
  <2>1. CutMount(q) /\ ~At(q, {"create"})
    BY DEF CutMount, At
  <2>2. q.sess \in unsure
    BY <2>1 DEF CommandsInv, CutInv
  <2> QED
    BY <2>1, <2>2
<1>4. ~r.started => Starting(r)
  <2> SUFFICES ASSUME ~r.started
               PROVE  Starting(r)
    OBVIOUS
  <2>1. Head(q.todo) = "hello"
    BY <1>1, <1>2, Carries DEF At, Offline, DaemonSteps
  <2> QED
    BY <1>2, <2>1 DEF Starting, At
<1> HIDE DEF q
<1>5. q = host[h]
  BY DEF q
<1> QED
  BY <1>3, <1>4, StepStays

LEMMA ConnectKeeps ==
  ASSUME CommandsInv, NEW h \in Hosts, EnsureConnection(h) \/ LaunchService(h)
  PROVE  CommandsInv'
<1> DEFINE q == host[h]
           k == IF q.attempt = 0 THEN 1 ELSE q.attempt
           a == [q EXCEPT !.conn = listener, !.at = "call", !.attempt = k]
           b == [q EXCEPT !.at = "wait"]
<1>1. HostInv(q) /\ q \in HostType
  BY HostFacts
<1>2. q.at \in {"connect", "wait"} /\ UNCHANGED <<gone, listener, row, head, mounted, late, unsure>>
  BY DEF EnsureConnection, LaunchService, store
<1>3. /\ q.todo # <<>> /\ Head(q.todo) \in DaemonSteps /\ q.conn = None
      /\ q.at \in Calling /\ q.at # "idle"
  BY <1>1, <1>2 DEF HostInv, Placed, At, Calling
<1>4. listener \in Procs \cup {None} /\ LateInv' /\ k \in 0..RequestAttempts
  <2>1. LateInv' /\ listener \in Procs \cup {None}
    BY <1>2 DEF CommandsInv, DaemonInv, LateInv
  <2>2. k \in 0..RequestAttempts
    BY <1>1, CommandsAssumption DEF HostType
  <2> QED
    BY <2>1, <2>2
<1>5. /\ unsure \subseteq unsure' /\ gone \subseteq gone'
      /\ mounted' \subseteq mounted /\ mounted \subseteq mounted' \cup gone'
  BY <1>2
<1>6. CASE EnsureConnection(h)
  <2>1. listener # None /\ host' = [host EXCEPT ![h] = a] /\ UNCHANGED alive
    BY <1>6 DEF EnsureConnection, Connected, Put
  <2> HIDE DEF k
  <2>2. /\ a \in HostType /\ a.todo = q.todo /\ a.cmd = q.cmd /\ a.started = q.started /\ a.child = q.child
        /\ a.db = q.db /\ a.out = q.out /\ a.ran = q.ran /\ a.sess = q.sess /\ a.cut = q.cut
        /\ a.at = "call" /\ a.conn = listener
    BY <1>1, <1>4 DEF HostType, Places
  <2> HIDE DEF a
  <2>3. HostInv(a) /\ a.at \in Calling
    BY <1>1, <1>3, <2>1, <2>2, Pending DEF Calling
  <2>4. DaemonInv' /\ alive' \subseteq alive \cup {h}
    BY <1>2, <2>1, SameDaemon
  <2> QED
    BY <1>3, <1>4, <1>5, <2>1, <2>2, <2>3, <2>4, CallingStays
<1>7. CASE LaunchService(h)
  <2>1. host' = [host EXCEPT ![h] = b] /\ alive' = alive \cup {h}
    BY <1>7 DEF LaunchService, Put
  <2>2. /\ b \in HostType /\ b.todo = q.todo /\ b.cmd = q.cmd /\ b.started = q.started /\ b.child = q.child
        /\ b.db = q.db /\ b.out = q.out /\ b.ran = q.ran /\ b.sess = q.sess /\ b.cut = q.cut
        /\ b.at = "wait" /\ b.conn = q.conn
    BY <1>1 DEF HostType, Places
  <2> HIDE DEF b
  <2>3. HostInv(b) /\ b.at \in Calling
    BY <1>1, <1>3, <2>1, <2>2, Pending DEF Calling
  <2>4. DaemonInv' /\ alive' \subseteq alive \cup {h}
    BY <1>2, <2>1 DEF CommandsInv, DaemonInv, Known, Procs
  <2> QED
    BY <1>3, <1>4, <1>5, <2>1, <2>2, <2>3, <2>4, CallingStays
<1> QED
  BY <1>6, <1>7

(* Ctrl-C: only the finally blocks are left, and a mount that is under way  *)
(* is unsure.                                                               *)
LEMMA InterruptKeeps ==
  ASSUME CommandsInv, NEW h \in Hosts, Interrupt(h)
  PROVE  CommandsInv'
<1> DEFINE q == host[h]
           r == [q EXCEPT !.cut = TRUE, !.out = "interrupted"]
<1>1. /\ q.at # "idle" /\ q.todo # <<>> /\ host' = [host EXCEPT ![h] = r]
      /\ unsure' = IF q.at # "ready" /\ Head(q.todo) = "mount" THEN unsure \cup {q.sess} ELSE unsure
      /\ UNCHANGED <<gone, alive, listener, row, head, mounted, late>>
  BY DEF Interrupt, Now, Put, store
<1>2. HostInv(q) /\ q \in HostType
  BY HostFacts
<1>3. /\ r \in HostType /\ r.todo = q.todo /\ r.cmd = q.cmd /\ r.started = q.started /\ r.child = q.child
      /\ r.db = q.db /\ r.out = "interrupted" /\ r.ran = q.ran /\ r.sess = q.sess /\ r.at = q.at /\ r.conn = q.conn
  BY <1>2 DEF HostType, Outs
<1> HIDE DEF r
<1>4. Scripted(r) /\ Placed(r)
  BY <1>2, <1>3 DEF HostInv, Scripted, Placed, At
<1>5. Holds(r)
  BY <1>2, <1>3 DEF HostInv, Holds, At
<1>6. CutMount(r) => r.sess \in unsure'
  BY <1>1, <1>3 DEF CutMount, At, Calling
<1>7. h \in alive /\ ~r.started => Starting(r)
  <2>1. q.out # "killed"
    BY <1>1, <1>2 DEF HostInv, Placed
  <2> QED
    BY <1>3, <2>1, HostFacts DEF Starting, At
<1>8. unsure \subseteq unsure'
  BY <1>1
<1>9. DaemonInv' /\ LateInv'
  BY <1>1, <1>8, SameDaemon
<1>10. /\ gone \subseteq gone' /\ alive' \subseteq alive \cup {h}
       /\ mounted' \subseteq mounted /\ mounted \subseteq mounted' \cup gone'
       /\ (h \in alive' /\ ~r.started => Starting(r))
  BY <1>1, <1>7
<1> QED
  BY <1>1, <1>3, <1>4, <1>5, <1>6, <1>8, <1>9, <1>10, StepStays DEF HostInv

-----------------------------------------------------------------------------
(* Calls that fail.                                                         *)

(* A daemon dies: what it had mounted is gone.                              *)
LEMMA Died ==
  ASSUME CommandsInv, NEW p, Dies(p), UNCHANGED <<row, head, unsure>>
  PROVE  /\ DaemonInv' /\ LateInv' /\ p \notin alive' /\ alive' \subseteq alive
         /\ mounted' \subseteq mounted /\ mounted \subseteq mounted' \cup gone' /\ gone \subseteq gone'
<1>1. DaemonInv
  BY DEF CommandsInv
<1>2. DaemonInv'
  BY <1>1 DEF DaemonInv, Dies, Known
<1>3. LateInv'
  BY DEF CommandsInv, LateInv, Dies
<1> QED
  BY <1>2, <1>3 DEF Dies

LEMMA Terminated ==
  ASSUME CommandsInv, NEW h \in Hosts, TerminateFailedLaunch(h), UNCHANGED <<row, head, unsure>>
  PROVE  /\ DaemonInv' /\ LateInv' /\ h \notin alive' /\ alive' \subseteq alive
         /\ mounted' \subseteq mounted /\ mounted \subseteq mounted' \cup gone' /\ gone \subseteq gone'
<1>1. CASE h \in alive
  BY <1>1, Died DEF TerminateFailedLaunch
<1>2. CASE h \notin alive
  <2>1. UNCHANGED <<alive, listener, mounted, late, gone>>
    BY <1>2 DEF TerminateFailedLaunch
  <2>2. DaemonInv' /\ LateInv'
    BY <2>1, SameDaemon
  <2> QED
    BY <1>2, <2>1, <2>2
<1> QED
  BY <1>1, <1>2

(* r is the host with what is known of the request: whether it ran, and the *)
(* session it made.                                                         *)
Requested(q, r) ==
  /\ r \in HostType
  /\ r.todo = q.todo /\ r.cmd = q.cmd /\ r.started = q.started /\ r.cut = q.cut /\ r.out = q.out
  /\ r.child = q.child /\ r.db = q.db /\ r.attempt = q.attempt
  /\ r.ran => Head(q.todo) \in DurableSteps
  /\ r.sess = q.sess \/ Head(q.todo) = "create"
  /\ q.cmd \in Mounts /\ q.sess # 0 => r.sess = q.sess
  /\ Head(q.todo) = "create" => /\ r.ran => r.sess # 0
                                /\ q.cmd = "prefetched" /\ ~r.ran => r.sess = 0

(* The call of a host raises.                                               *)
LEMMA FailedKeeps ==
  ASSUME CommandsInv, NEW h \in Hosts, host[h].at \in Calling,
         NEW r, Requested(host[h], r), NEW code \in Outs \ {"killed"}, Failed(h, code, r),
         DaemonInv', LateInv',
         unsure \subseteq unsure', gone \subseteq gone', alive' \subseteq alive,
         mounted' \subseteq mounted, mounted \subseteq mounted' \cup gone',
         Head(host[h].todo) = "unmount" => host[h].sess \in unsure' \/ host[h].sess \notin mounted'
  PROVE  CommandsInv'
<1> DEFINE q == host[h]
           a == [r EXCEPT !.at = "start_failed", !.conn = None]
           n == Stopped(r, code)
<1>1. HostInv(q) /\ r \in HostType /\ q.todo # <<>> /\ Head(q.todo) \in DaemonSteps /\ q.at # "idle"
  BY HostFacts DEF Requested, HostInv, Placed, At, Calling
<1>2. ~q.child /\ ~q.db
  BY <1>1, Carries DEF DaemonSteps
<1>3. CASE Head(q.todo) = "hello"
  <2>1. host' = [host EXCEPT ![h] = a]
    BY <1>3 DEF Failed, Now, Put
  <2>2. /\ a \in HostType /\ a.todo = q.todo /\ a.cmd = q.cmd /\ a.started = q.started /\ a.cut = q.cut
        /\ a.child = q.child /\ a.db = q.db /\ a.out = q.out /\ a.ran = r.ran /\ a.sess = q.sess
        /\ a.at = "start_failed" /\ a.conn = None
    BY <1>1, <1>3 DEF Requested, HostType, Places
  <2>3. ~r.ran
    BY <1>3 DEF Requested, DurableSteps
  <2>4. ~q.ran
    BY <1>1, <1>3, Carries DEF DurableSteps
  <2> HIDE DEF a
  <2>5. Scripted(a)
    BY <1>1, <2>2 DEF HostInv, Scripted
  <2>6. Placed(a)
    BY <1>1, <1>3, <2>2 DEF HostInv, Placed, At, Calling
  <2>7. Holds(a)
    BY <1>1, <2>2, <2>3, <2>4 DEF HostInv, Holds, At
  <2>8. HostInv(a) /\ alive' \subseteq alive \cup {h}
    BY <2>2, <2>5, <2>6, <2>7 DEF HostInv
  <2> QED
    BY <2>1, <2>2, <2>8, CallingStays
<1>4. CASE Head(q.todo) # "hello"
  <2>1. host' = [host EXCEPT ![h] = n]
    BY <1>4, RaisedIs DEF Failed, Now
  <2>2. n \in HostType /\ MovesOn(q, n)
    BY <1>1, <1>2, StoppedMoves DEF Requested
  <2> HIDE DEF n
  <2>3. /\ \A s \in mounted' : s \in mounted \/ s \in unsure'
        /\ \A s \in mounted : s \in mounted' \cup gone' \/ (Head(q.todo) = "unmount" /\ q.sess = s)
    OBVIOUS
  <2> QED
    BY <1>4, <2>1, <2>2, <2>3, StepOver
<1> QED
  BY <1>3, <1>4

(* The call raises, which a reconcile takes for its end.                    *)
LEMMA CallRaisesKeeps ==
  ASSUME CommandsInv, NEW h \in Hosts, host[h].at \in Calling,
         NEW r, Requested(host[h], r), NEW code \in Outs \ {"killed"}, CallRaises(h, code, r),
         DaemonInv', LateInv',
         unsure \subseteq unsure', gone \subseteq gone', alive' \subseteq alive,
         mounted' \subseteq mounted, mounted \subseteq mounted' \cup gone',
         Head(host[h].todo) = "unmount" => host[h].sess \in unsure' \/ host[h].sess \notin mounted'
  PROVE  CommandsInv'
<1> DEFINE q == host[h]
           n == Onward(r, <<>>)
<1>1. HostInv(q) /\ r \in HostType /\ q.todo # <<>> /\ Head(q.todo) \in DaemonSteps /\ q.at # "idle"
  BY HostFacts DEF Requested, HostInv, Placed, At, Calling
<1>2. ~q.child /\ ~q.db
  BY <1>1, Carries DEF DaemonSteps
<1>3. CASE Head(q.todo) = "reconcile"
  <2>1. host' = [host EXCEPT ![h] = n]
    BY <1>3, DoneIs DEF CallRaises, Now
  <2>2. <<>> \in Seq(Steps)
    BY EmptySeq
  <2>3. n \in HostType /\ MovesOn(q, n)
    BY <1>1, <1>2, <1>3, <2>2, OnwardMoves DEF Requested
  <2> HIDE DEF n
  <2>4. /\ \A s \in mounted' : s \in mounted \/ s \in unsure'
        /\ \A s \in mounted : s \in mounted' \cup gone' \/ (Head(q.todo) = "unmount" /\ q.sess = s)
    OBVIOUS
  <2> QED
    BY <1>3, <2>1, <2>3, <2>4, StepOver
<1>4. CASE Head(q.todo) # "reconcile"
  <2>1. Failed(h, code, r)
    BY <1>4 DEF CallRaises, Now
  <2> QED
    BY <2>1, FailedKeeps
<1> QED
  BY <1>3, <1>4

(* An attempt is over: another one follows, or the call ends.               *)
LEMMA AttemptKeeps ==
  ASSUME CommandsInv, NEW h \in Hosts, host[h].at \in Calling,
         NEW r, Requested(host[h], r), AttemptEnds(h, r),
         DaemonInv', LateInv',
         unsure \subseteq unsure', gone \subseteq gone', alive' \subseteq alive,
         mounted' \subseteq mounted, mounted \subseteq mounted' \cup gone',
         Head(host[h].todo) = "unmount" => host[h].sess \in unsure' \/ host[h].sess \notin mounted'
  PROVE  CommandsInv'
<1> DEFINE q == host[h]
           a == [r EXCEPT !.at = "connect", !.conn = None, !.attempt = r.attempt + 1]
           code == IF Head(q.todo) \in LocalSteps THEN "unknown" ELSE "error"
<1>1. HostInv(q) /\ r \in HostType /\ q.todo # <<>> /\ Head(q.todo) \in DaemonSteps /\ q.at # "idle"
  BY HostFacts DEF Requested, HostInv, Placed, At, Calling
<1>2. ~q.child /\ ~q.db
  BY <1>1, Carries DEF DaemonSteps
<1>3. CASE q.attempt \in 1 .. Attempts(Head(q.todo)) - 1
  <2>1. host' = [host EXCEPT ![h] = a]
    BY <1>3 DEF AttemptEnds, Now, Put
  <2>2. r.attempt + 1 \in 0..RequestAttempts
    BY <1>3, CommandsAssumption DEF Attempts, Requested
  <2>3. /\ a \in HostType /\ a.todo = q.todo /\ a.cmd = q.cmd /\ a.started = q.started /\ a.cut = q.cut
        /\ a.child = q.child /\ a.db = q.db /\ a.out = q.out /\ a.ran = r.ran /\ a.sess = r.sess
        /\ a.at = "connect" /\ a.conn = None
    BY <1>1, <2>2 DEF Requested, HostType, Places
  <2> HIDE DEF a
  <2>4. Scripted(a)
    BY <1>1, <2>3 DEF HostInv, Scripted
  <2>5. Placed(a)
    BY <1>1, <2>3 DEF HostInv, Placed, At, Calling
  <2>6. Holds(a)
    <3>1. a.ran => At(a, DurableSteps)
      BY <1>1, <2>3 DEF Requested, At
    <3>2. ~a.started => At(a, {"hello"} \cup Offline)
      BY <1>1, <2>3, Carries DEF At
    <3>3. At(a, SessionSteps) => a.sess # 0
      BY <1>1, <2>3 DEF HostInv, Holds, Requested, At, SessionSteps
    <3>4. a.cmd = "prefetched" /\ ~a.ran /\ At(a, BeforeCreate) => a.sess = 0
      <4>1. CASE Head(q.todo) = "create"
        BY <2>3, <4>1 DEF Requested
      <4>2. CASE Head(q.todo) # "create"
        <5>1. At(a, BeforeCreate) => ~q.ran
          BY <1>1, <2>3, <4>2, Carries DEF At, BeforeCreate, DurableSteps
        <5> QED
          BY <1>1, <2>3, <4>2, <5>1, Carries DEF Requested, At
      <4> QED
        BY <4>1, <4>2
    <3>5. a.ran /\ At(a, {"create"}) => a.sess # 0
      BY <2>3 DEF Requested, At
    <3> QED
      BY <1>2, <2>3, <3>1, <3>2, <3>3, <3>4, <3>5 DEF Holds
  <2>7. HostInv(a) /\ alive' \subseteq alive \cup {h} /\ a.at \in Calling
    BY <2>3, <2>4, <2>5, <2>6 DEF HostInv, Calling
  <2>8. /\ q.cmd \in Mounts /\ q.sess # 0 => a.sess = q.sess
        /\ a.sess = q.sess \/ At(q, {"create"})
    BY <1>1, <2>3 DEF Requested, At
  <2> QED
    BY <2>1, <2>3, <2>7, <2>8, CallingStays
<1>4. CASE q.attempt \notin 1 .. Attempts(Head(q.todo)) - 1
  <2>1. code \in Outs \ {"killed"} /\ CallRaises(h, code, r)
    BY <1>4 DEF AttemptEnds, Now, Outs
  <2> HIDE DEF code
  <2> QED
    BY <2>1, CallRaisesKeeps
<1> QED
  BY <1>3, <1>4

LEMMA RequestedSelf ==
  ASSUME CommandsInv, NEW h \in Hosts, host[h].at \in Calling
  PROVE  /\ Requested(host[h], host[h]) /\ HostInv(host[h]) /\ host[h] \in HostType
         /\ host[h].todo # <<>> /\ Head(host[h].todo) \in DaemonSteps
<1> DEFINE q == host[h]
<1>1. HostInv(q) /\ q \in HostType
  BY HostFacts
<1>2. q.todo # <<>> /\ Head(q.todo) \in DaemonSteps
  BY <1>1 DEF HostInv, Placed, At
<1>3. Requested(q, q)
  BY <1>1, <1>2, Carries DEF Requested, BeforeCreate
<1> QED
  BY <1>1, <1>2, <1>3

(* With nothing listening nothing is mounted.                               *)
LEMMA NobodyListens ==
  ASSUME CommandsInv, listener = None
  PROVE  mounted = {}
  BY DEF CommandsInv, DaemonInv

LEMMA LaunchFailsKeeps ==
  ASSUME CommandsInv, NEW h \in Hosts, LaunchFails(h)
  PROVE  CommandsInv'
<1>1. /\ host[h].at = "connect" /\ listener = None
      /\ CallRaises(h, "error", host[h]) \/ AttemptEnds(h, host[h])
      /\ UNCHANGED <<gone, alive, listener, row, head, mounted, late, unsure>>
  BY DEF LaunchFails, store
<1>2. DaemonInv' /\ LateInv' /\ mounted' = {}
  BY <1>1, SameDaemon, NobodyListens
<1>3. host[h].at \in Calling /\ "error" \in Outs \ {"killed"}
  BY <1>1 DEF Calling, Outs
<1>4. /\ unsure \subseteq unsure' /\ gone \subseteq gone' /\ alive' \subseteq alive
      /\ mounted' \subseteq mounted /\ mounted \subseteq mounted' \cup gone'
      /\ host[h].sess \notin mounted'
  BY <1>1, <1>2
<1>5. Requested(host[h], host[h])
  BY <1>3, RequestedSelf
<1> QED
  BY <1>1, <1>2, <1>3, <1>4, <1>5, CallRaisesKeeps, AttemptKeeps

LEMMA WaitEndsKeeps ==
  ASSUME CommandsInv, NEW h \in Hosts, WaitEnds(h)
  PROVE  CommandsInv'
<1>1. /\ host[h].at = "wait" /\ listener = None /\ AttemptEnds(h, host[h])
      /\ TerminateFailedLaunch(h) /\ UNCHANGED <<row, head, unsure>>
  BY DEF WaitEnds, store
<1>2. /\ DaemonInv' /\ LateInv' /\ alive' \subseteq alive
      /\ mounted' \subseteq mounted /\ mounted \subseteq mounted' \cup gone' /\ gone \subseteq gone'
  BY <1>1, Terminated
<1>3. host[h].sess \notin mounted' /\ unsure \subseteq unsure'
  BY <1>1, <1>2, NobodyListens
<1>4. host[h].at \in Calling
  BY <1>1 DEF Calling
<1>5. Requested(host[h], host[h])
  BY <1>4, RequestedSelf
<1> QED
  BY <1>1, <1>2, <1>3, <1>4, <1>5, AttemptKeeps

(* A start that failed terminates the daemon it had launched.               *)
LEMMA StartFailsKeeps ==
  ASSUME CommandsInv, NEW h \in Hosts, StartFails(h)
  PROVE  CommandsInv'
<1> DEFINE q == host[h]
           n == Stopped(q, "error")
<1>1. /\ q.at = "start_failed" /\ host' = [host EXCEPT ![h] = n]
      /\ TerminateFailedLaunch(h) /\ UNCHANGED <<row, head, unsure>>
  BY RaisedIs DEF StartFails, store
<1>2. HostInv(q)
  BY HostFacts
<1>3. q.todo # <<>> /\ Head(q.todo) = "hello" /\ q.at # "idle"
  BY <1>1, <1>2 DEF HostInv, Placed, At
<1>4. /\ DaemonInv' /\ LateInv' /\ alive' \subseteq alive /\ h \notin alive'
      /\ mounted' \subseteq mounted /\ mounted \subseteq mounted' \cup gone' /\ gone \subseteq gone'
  BY <1>1, Terminated
<1>5. n \in HostType /\ MovesOn(q, n)
  BY <1>2, <1>3, PlainStopped DEF Outs
<1> HIDE DEF n
<1>6. /\ \A s \in mounted' : s \in mounted \/ s \in unsure'
      /\ \A s \in mounted : s \in mounted' \cup gone' \/ (Head(q.todo) = "unmount" /\ q.sess = s)
      /\ unsure \subseteq unsure'
  BY <1>1, <1>4
<1> QED
  BY <1>1, <1>3, <1>4, <1>5, <1>6, StepOver

(* A call whose connection broke.                                           *)
LEMMA LostSelf ==
  ASSUME CommandsInv, NEW h \in Hosts, host[h].at \in Calling, Lost(h, host[h].ran)
  PROVE  AttemptEnds(h, host[h])
<1>1. host[h] \in HostType
  BY HostFacts
<1>2. [host[h] EXCEPT !.ran = host[h].ran,
                      !.sess = IF host[h].ran /\ Now(h) = "create" /\ ~host[h].ran
                               THEN Cardinality(Known) + 1 ELSE @] = host[h]
  BY <1>1 DEF HostType
<1> QED
  BY <1>2 DEF Lost

LEMMA CallBrokenKeeps ==
  ASSUME CommandsInv, NEW h \in Hosts, CallBroken(h)
  PROVE  CommandsInv'
<1>1. /\ host[h].at = "call" /\ Lost(h, host[h].ran) /\ Unsure(h)
      /\ UNCHANGED <<gone, alive, listener, row, head, mounted, late>>
  BY DEF CallBroken, store
<1>2. host[h].at \in Calling
  BY <1>1 DEF Calling
<1>3. AttemptEnds(h, host[h]) /\ Requested(host[h], host[h])
  BY <1>1, <1>2, LostSelf, RequestedSelf
<1>4. unsure \subseteq unsure' /\ (Head(host[h].todo) = "unmount" => host[h].sess \in unsure')
  BY <1>1 DEF Unsure, Now, LocalSteps
<1>5. DaemonInv' /\ LateInv'
  BY <1>1, <1>4, SameDaemon
<1>6. /\ gone \subseteq gone' /\ alive' \subseteq alive
      /\ mounted' \subseteq mounted /\ mounted \subseteq mounted' \cup gone'
  BY <1>1
<1> QED
  BY <1>2, <1>3, <1>4, <1>5, <1>6, AttemptKeeps

-----------------------------------------------------------------------------
(* Calls that the daemon gets to.                                           *)

(* The effect of a request that the daemon accepts.                         *)
LEMMA Effects ==
  ASSUME CommandsInv, listener # None, UNCHANGED <<alive, listener>>, NEW step \in DaemonSteps, NEW s,
         step \in SessionSteps => s \in Sessions, Accepts(step, s), Effect(step, s)
  PROVE  /\ DaemonInv'
         /\ step \notin {"mount", "unmount"} => mounted' = mounted
         /\ step = "mount" => mounted' = mounted \cup {s}
         /\ step = "unmount" => mounted' = mounted \ {s}
<1>1. DaemonInv
  BY DEF CommandsInv
<1>2. /\ step \notin {"mount", "unmount"} => mounted' = mounted
      /\ step = "mount" => mounted' = mounted \cup {s}
      /\ step = "unmount" => mounted' = mounted \ {s}
  BY DEF Effect
<1>3. /\ row' \in [Sessions -> {None, "active", "closed"}]
      /\ \A t \in Sessions : row[t] # None => row'[t] # None
  <2>1. CASE step = "create"
    <3>1. row' = [t \in Sessions |-> IF t \in NewSession THEN "active" ELSE row[t]]
      BY <2>1 DEF Effect
    <3> QED
      BY <1>1, <3>1 DEF DaemonInv, None
  <2>2. CASE step \in {"close", "destroy"}
    <3>1. row' = [row EXCEPT ![s] = "closed"]
      BY <2>2 DEF Effect
    <3> QED
      BY <1>1, <3>1 DEF DaemonInv, None
  <2>3. CASE step \notin {"create", "close", "destroy"}
    <3>1. row' = row
      BY <2>3 DEF Effect
    <3> QED
      BY <1>1, <3>1 DEF DaemonInv
  <2> QED
    BY <2>1, <2>2, <2>3
<1>4. Known \subseteq Known'
  BY <1>3 DEF Known
<1>5. step \in {"mount", "commit"} => s \in Known
  BY DEF Accepts, Known, SessionSteps, None
<1>6. head' \subseteq Known'
  <2>1. head' \subseteq head \cup {s} /\ (step # "commit" => head' = head)
    BY DEF Effect
  <2> QED
    BY <1>1, <1>4, <1>5, <2>1 DEF DaemonInv
<1>7. mounted' \subseteq Known'
  BY <1>1, <1>2, <1>4, <1>5 DEF DaemonInv
<1> QED
  BY <1>1, <1>2, <1>3, <1>6, <1>7 DEF DaemonInv

(* A call that was not answered in time.                                    *)
LEMMA CallTimesOutKeeps ==
  ASSUME CommandsInv, NEW h \in Hosts, CallTimesOut(h)
  PROVE  CommandsInv'
<1> DEFINE q == host[h]
           k == IF Head(q.todo) = "create" /\ ~q.ran THEN Cardinality(Known) + 1 ELSE q.sess
           a == [q EXCEPT !.ran = TRUE, !.sess = k]
           b == [q EXCEPT !.ran = FALSE]
<1>1. /\ q.at = "call" /\ q.conn = listener /\ Unsure(h)
      /\ UNCHANGED <<gone, alive, listener>>
  BY DEF CallTimesOut, AtCall
<1>2. q.at \in Calling
  BY <1>1 DEF Calling
<1>3. /\ Requested(q, q) /\ HostInv(q) /\ q \in HostType
      /\ q.todo # <<>> /\ Head(q.todo) \in DaemonSteps
  BY <1>2, RequestedSelf
<1>4. /\ unsure \subseteq unsure' /\ (Head(q.todo) \in LocalSteps => q.sess \in unsure')
      /\ (Head(q.todo) = "unmount" => q.sess \in unsure')
  BY <1>1 DEF Unsure, Now, LocalSteps
<1>5. listener # None
  BY <1>1, <1>3 DEF HostInv, Placed
<1>6. gone \subseteq gone' /\ alive' \subseteq alive
  BY <1>1
<1>7. CASE /\ Head(q.todo) \in DurableSteps /\ ~q.ran /\ Accepts(Head(q.todo), q.sess)
           /\ Lost(h, TRUE) /\ Effect(Head(q.todo), q.sess) /\ UNCHANGED late
  <2>1. Head(q.todo) \in SessionSteps => q.sess \in Sessions
    BY <1>3, Carries
  <2>2. DaemonInv' /\ mounted' = mounted
    BY <1>1, <1>3, <1>5, <1>7, <2>1, Effects DEF DurableSteps
  <2>3. LateInv'
    BY <1>4, <1>7 DEF CommandsInv, LateInv
  <2>4. k \in 0..SessionBound /\ (Head(q.todo) = "create" => k # 0) /\ (k = q.sess \/ Head(q.todo) = "create")
    <3>1. CASE Head(q.todo) = "create"
      <4>1. \E t \in Sessions : t = Cardinality(Known) + 1
        BY <1>7, <3>1 DEF Accepts, NewSession
      <4>2. k = Cardinality(Known) + 1
        BY <1>7, <3>1
      <4> HIDE DEF k
      <4>3. k \in Sessions
        BY <4>1, <4>2
      <4> QED
        BY <3>1, <4>3, CommandsAssumption DEF Sessions
    <3>2. CASE Head(q.todo) # "create"
      BY <1>3, <3>2 DEF HostType
    <3> QED
      BY <3>1, <3>2
  <2>5. [q EXCEPT !.ran = TRUE, !.sess = IF TRUE /\ Now(h) = "create" /\ ~q.ran THEN Cardinality(Known) + 1 ELSE @] = a
    BY DEF Now
  <2>6. AttemptEnds(h, a)
    BY <1>7, <2>5 DEF Lost
  <2>7. q.cmd \in Mounts /\ q.sess # 0 => k = q.sess
    <3>1. CASE Head(q.todo) = "create"
      <4>1. q.cmd \in {"create", "prefetched", "continue"}
        BY <1>3, <3>1, HeadFacts, WhoseStep DEF HostType
      <4>2. q.cmd = "prefetched" => q.sess = 0
        BY <1>3, <1>7, <3>1, Carries DEF BeforeCreate
      <4> QED
        BY <4>1, <4>2 DEF Mounts
    <3>2. CASE Head(q.todo) # "create"
      BY <3>2
    <3> QED
      BY <3>1, <3>2
  <2> HIDE DEF k
  <2>8. /\ a \in HostType /\ a.todo = q.todo /\ a.cmd = q.cmd /\ a.started = q.started /\ a.cut = q.cut
        /\ a.out = q.out /\ a.child = q.child /\ a.db = q.db /\ a.attempt = q.attempt
        /\ a.ran = TRUE /\ a.sess = k
    BY <1>3, <2>4 DEF HostType
  <2> HIDE DEF a
  <2>9. Requested(q, a)
    BY <1>7, <2>4, <2>7, <2>8 DEF Requested
  <2>10. mounted' \subseteq mounted /\ mounted \subseteq mounted' \cup gone'
    BY <2>2
  <2> QED
    BY <1>2, <1>4, <1>6, <2>2, <2>3, <2>6, <2>9, <2>10, AttemptKeeps
<1>8. CASE /\ Head(q.todo) \in LocalSteps /\ Lost(h, FALSE)
           /\ late' = late \cup {<<Head(q.todo), q.sess>>} /\ UNCHANGED <<row, head, mounted>>
  <2>1. DaemonInv'
    BY <1>1, <1>8 DEF CommandsInv, DaemonInv, Known
  <2>2. q.sess \in Sessions /\ q.sess \in unsure'
    BY <1>3, <1>4, <1>8, Carries DEF LocalSteps, SessionSteps
  <2>3. LateInv'
    BY <1>4, <1>8, <2>2 DEF CommandsInv, LateInv
  <2>4. ~q.ran
    BY <1>3, <1>8, Carries DEF LocalSteps, DurableSteps
  <2>5. [q EXCEPT !.ran = FALSE, !.sess = IF FALSE /\ Now(h) = "create" /\ ~q.ran THEN Cardinality(Known) + 1 ELSE @] = q
    BY <1>3, <2>4 DEF HostType
  <2>6. AttemptEnds(h, q)
    BY <1>8, <2>5 DEF Lost
  <2>7. mounted' \subseteq mounted /\ mounted \subseteq mounted' \cup gone'
    BY <1>8
  <2> QED
    BY <1>2, <1>3, <1>4, <1>6, <2>1, <2>3, <2>6, <2>7, AttemptKeeps
<1>9. CASE Lost(h, q.ran) /\ UNCHANGED <<row, head, mounted, late>>
  <2>1. AttemptEnds(h, q)
    BY <1>2, <1>9, LostSelf
  <2>2. DaemonInv' /\ LateInv'
    BY <1>1, <1>4, <1>9, SameDaemon
  <2>3. mounted' \subseteq mounted /\ mounted \subseteq mounted' \cup gone'
    BY <1>9
  <2> QED
    BY <1>2, <1>3, <1>4, <1>6, <2>1, <2>2, <2>3, AttemptKeeps
<1> QED
  BY <1>7, <1>8, <1>9 DEF CallTimesOut, Now

LEMMA RefuseKeeps ==
  ASSUME CommandsInv, NEW h \in Hosts, Refuse(h)
  PROVE  CommandsInv'
<1> DEFINE q == host[h]
           n == Onward(q, <<>>)
           m == Stopped(q, "error")
<1>1. /\ q.at = "call" /\ Head(q.todo) \notin {"hello", "list"}
      /\ unsure' = IF Head(q.todo) = "unmount" THEN unsure \cup {q.sess} ELSE unsure
      /\ UNCHANGED <<gone, alive, listener, row, head, mounted, late>>
      /\ host' = [host EXCEPT ![h] = n] \/ host' = [host EXCEPT ![h] = m]
  BY DoneIs, RaisedIs DEF Refuse, CallRaises, Failed, AtCall, Now, store
<1>2. HostInv(q) /\ q.todo # <<>> /\ Head(q.todo) \in DaemonSteps /\ q.at # "idle"
  BY <1>1, RequestedSelf DEF Calling
<1>3. n \in HostType /\ MovesOn(q, n)
  BY <1>1, <1>2, PlainOnward DEF DaemonSteps
<1>4. m \in HostType /\ MovesOn(q, m)
  BY <1>2, PlainStopped DEF DaemonSteps, Outs
<1> HIDE DEF n, m
<1>5. unsure \subseteq unsure' /\ (Head(q.todo) = "unmount" => q.sess \in unsure')
  BY <1>1
<1> QED
  BY <1>1, <1>3, <1>4, <1>5, QuietOver

(* The list of sessions: the one that was asked for or the latest.          *)
LEMMA ServeListKeeps ==
  ASSUME CommandsInv, NEW h \in Hosts, ServeList(h)
  PROVE  CommandsInv'
<1> DEFINE q == host[h]
           k == IF q.cmd = "continue" THEN 0 ELSE Chosen(h)
           a == [q EXCEPT !.sess = k]
           n == Onward(a, <<>>)
           m == Stopped(q, "error")
<1>1. /\ q.at = "call" /\ Head(q.todo) = "list"
      /\ UNCHANGED <<gone, alive, listener, row, head, mounted, late, unsure>>
      /\ \/ host' = [host EXCEPT ![h] = m]
         \/ host' = [host EXCEPT ![h] = n] /\ Chosen(h) \in Known
  BY DoneIs, RaisedIs DEF ServeList, ListAnswer, AtCall, Now, store
<1>2. HostInv(q) /\ q \in HostType /\ q.todo # <<>> /\ q.at # "idle"
  BY <1>1, RequestedSelf DEF Calling
<1>3. m \in HostType /\ MovesOn(q, m)
  BY <1>1, <1>2, PlainStopped DEF Outs
<1>4. CASE host' = [host EXCEPT ![h] = n] /\ Chosen(h) \in Known
  <2>1. Chosen(h) \in 0..SessionBound /\ Chosen(h) # 0 /\ (q.sess # 0 => Chosen(h) = q.sess)
    BY <1>4, CommandsAssumption DEF Known, Sessions, Chosen
  <2>2. k \in 0..SessionBound /\ (q.cmd # "continue" => k # 0) /\ (q.cmd \in Mounts /\ q.sess # 0 => k = q.sess)
    BY <2>1, CommandsAssumption DEF Mounts
  <2>3. ~q.child /\ ~q.db /\ <<>> \in Seq(Steps)
    BY <1>1, <1>2, Carries, EmptySeq
  <2> HIDE DEF k
  <2>4. /\ a \in HostType /\ a.todo = q.todo /\ a.cmd = q.cmd /\ a.started = q.started /\ a.cut = q.cut
        /\ a.out = q.out /\ a.child = q.child /\ a.db = q.db /\ a.sess = k
    BY <1>2, <2>2 DEF HostType
  <2> HIDE DEF a
  <2>5. n \in HostType /\ MovesOn(q, n)
    BY <1>1, <1>2, <2>2, <2>3, <2>4, OnwardMoves
  <2> HIDE DEF n
  <2> QED
    BY <1>1, <1>4, <2>5, QuietOver
<1> HIDE DEF n, m
<1> QED
  BY <1>1, <1>3, <1>4, QuietOver

LEMMA ContainsJoin ==
  ASSUME NEW s \in Seq(Steps), NEW t \in Seq(Steps), NEW a, Contains(s, a)
  PROVE  Contains(s \o t, a)
<1>1. PICK i \in 1..Len(s) : s[i] = a
  BY DEF Contains
<1>2. Len(s) \in Nat /\ Len(t) \in Nat
  BY LenProperties
<1>3. /\ Len(s \o t) = Len(s) + Len(t)
      /\ \A j \in 1 .. Len(s) + Len(t) : (s \o t)[j] = IF j <= Len(s) THEN s[j] ELSE t[j - Len(s)]
  BY ConcatProperties
<1>4. i \in 1..Len(s \o t) /\ (s \o t)[i] = a
  BY <1>1, <1>2, <1>3
<1> QED
  BY <1>4 DEF Contains

(* The scripts of the session commands, between reconcile and the close.    *)
LEMMA SessionScripts ==
  ASSUME NEW cmd \in AllCommands \ {"memory", "shortcut"}
  PROVE  /\ Chain(SessionScript(cmd)) /\ SessionScript(cmd) \in Seq(StepsOf(cmd)) /\ SessionScript(cmd) # <<>>
         /\ Linked("reconcile", SessionScript(cmd)[1])
         /\ Linked(SessionScript(cmd)[Len(SessionScript(cmd))], "close_daemon")
<1>1. CASE cmd \in {"create", "prefetched"}
  <2>1. SessionScript(cmd) = <<"plan", "create">> /\ {"plan", "create"} \subseteq StepsOf(cmd)
    BY <1>1 DEF SessionScript, StepsOf
  <2>2. Chain(<<"plan", "create">>)
    BY DEF Chain, Linked, Links, Steps
  <2>3. Linked("reconcile", "plan") /\ Linked("create", "close_daemon")
    BY DEF Linked, Links
  <2> QED
    BY <2>1, <2>2, <2>3
<1>2. CASE cmd = "continue"
  <2>1. /\ SessionScript(cmd) = <<"list", "publish_head", "plan", "create">>
        /\ {"list", "publish_head", "plan", "create"} \subseteq StepsOf(cmd)
    BY <1>2 DEF SessionScript, StepsOf
  <2>2. Chain(<<"list", "publish_head", "plan", "create">>)
    BY DEF Chain, Linked, Links, Steps
  <2>3. Linked("reconcile", "list") /\ Linked("create", "close_daemon")
    BY DEF Linked, Links
  <2> QED
    BY <2>1, <2>2, <2>3
<1>3. CASE cmd = "checkpoint"
  <2>1. /\ SessionScript(cmd) = <<"list", "commit", "publish">>
        /\ {"list", "commit", "publish"} \subseteq StepsOf(cmd)
    BY <1>3 DEF SessionScript, StepsOf
  <2>2. Chain(<<"list", "commit", "publish">>)
    BY DEF Chain, Linked, Links, Steps
  <2>3. Linked("reconcile", "list") /\ Linked("publish", "close_daemon")
    BY DEF Linked, Links
  <2> QED
    BY <2>1, <2>2, <2>3
<1>4. CASE cmd \in {"status", "close", "destroy", "exec"}
  <2>1. PICK a \in {"status", "close", "destroy", "mount"} :
          SessionScript(cmd) = <<"list", a>> /\ {"list", a} \subseteq StepsOf(cmd)
    BY <1>4 DEF SessionScript, StepsOf
  <2>2. Chain(<<"list", a>>)
    BY DEF Chain, Linked, Links, Steps
  <2>3. Linked("reconcile", "list") /\ Linked(a, "close_daemon")
    BY DEF Linked, Links
  <2> QED
    BY <2>1, <2>2, <2>3
<1> QED
  BY <1>1, <1>2, <1>3, <1>4 DEF AllCommands

LEMMA StartScript ==
  ASSUME NEW cmd \in AllCommands \ {"memory", "shortcut"},
         NEW s, s = <<"reconcile">> \o SessionScript(cmd) \o <<"close_daemon">>
  PROVE  Path(s) /\ s \in Seq(StepsOf(cmd)) /\ s # <<>> /\ Head(s) = "reconcile"
<1> DEFINE a == <<"reconcile">>
           b == SessionScript(cmd)
           c == <<"close_daemon">>
           d == a \o b
<1>1. /\ Chain(b) /\ b \in Seq(StepsOf(cmd)) /\ b # <<>>
      /\ Linked("reconcile", b[1]) /\ Linked(b[Len(b)], "close_daemon")
  BY SessionScripts
<1>2. "reconcile" \in StepsOf(cmd) /\ "close_daemon" \in StepsOf(cmd) /\ "reconcile" \in Steps
  BY DEF StepsOf, StartSteps, AllCommands, Steps
<1>3. /\ a \in Seq(StepsOf(cmd)) /\ c \in Seq(StepsOf(cmd)) /\ a # <<>> /\ c # <<>>
      /\ a[1] = "reconcile" /\ a[Len(a)] = "reconcile" /\ c[1] = "close_daemon" /\ c[Len(c)] = "close_daemon"
  BY <1>2, Single
<1>4. Chain(a)
  BY <1>2 DEF Chain
<1>5. Chain(c)
  BY ShortPaths DEF Path
<1>6. s = d \o c
  OBVIOUS
<1> HIDE DEF a, b, c
<1>7. /\ Chain(d) /\ d # <<>> /\ d[1] = "reconcile" /\ d[Len(d)] = b[Len(b)]
      /\ d \in Seq(StepsOf(cmd))
  BY <1>1, <1>3, <1>4, ChainJoin, ConcatProperties
<1> HIDE DEF d
<1>8. /\ Chain(s) /\ s # <<>> /\ s[1] = "reconcile" /\ s[Len(s)] = "close_daemon"
  BY <1>1, <1>3, <1>5, <1>6, <1>7, ChainJoin
<1>9. s \in Seq(StepsOf(cmd))
  BY <1>3, <1>6, <1>7, ConcatProperties
<1>10. Head(s) = s[1]
  BY <1>8, HeadTail DEF Chain
<1> QED
  BY <1>8, <1>9, <1>10 DEF Path, Ends

(* The host has started: the coordinator's script begins.                   *)
LEMMA HelloKeeps ==
  ASSUME CommandsInv, NEW h \in Hosts, Hello(h)
  PROVE  CommandsInv'
<1> DEFINE q == host[h]
           more == <<"reconcile">> \o SessionScript(q.cmd) \o <<"close_daemon">>
           a == [q EXCEPT !.started = TRUE]
           n == Onward(a, more)
<1>1. /\ q.at = "call" /\ Head(q.todo) = "hello"
      /\ UNCHANGED <<gone, alive, listener, row, head, mounted, late, unsure>>
      /\ Failed(h, "error", q) \/ host' = [host EXCEPT ![h] = n]
  BY DoneIs DEF Hello, AtCall, Now, store, Answered
<1>2. q.at \in Calling /\ q.at # "idle"
  BY <1>1 DEF Calling
<1>3. Requested(q, q) /\ HostInv(q) /\ q \in HostType /\ q.todo # <<>>
  BY <1>2, RequestedSelf
<1>4. DaemonInv' /\ LateInv'
  BY <1>1, SameDaemon
<1>5. CASE Failed(h, "error", q)
  <2>1. /\ unsure \subseteq unsure' /\ gone \subseteq gone' /\ alive' \subseteq alive
        /\ mounted' \subseteq mounted /\ mounted \subseteq mounted' \cup gone'
        /\ Head(q.todo) # "unmount" /\ "error" \in Outs \ {"killed"}
    BY <1>1 DEF Outs
  <2> QED
    BY <1>2, <1>3, <1>4, <1>5, <2>1, FailedKeeps
<1>6. CASE host' = [host EXCEPT ![h] = n]
  <2>1. q.cmd \in AllCommands \ {"memory", "shortcut"}
    BY <1>1, <1>3, HeadFacts, WhoseStep DEF HostType
  <2>2. Path(more) /\ more \in Seq(StepsOf(q.cmd)) /\ more # <<>> /\ Head(more) = "reconcile"
    BY <2>1, StartScript
  <2>3. more \in Seq(Steps)
    BY <2>2 DEF Path, Chain
  <2>4. /\ a \in HostType /\ a.todo = q.todo /\ a.cmd = q.cmd /\ a.started = TRUE /\ a.cut = q.cut
        /\ a.out = q.out /\ a.child = q.child /\ a.db = q.db /\ a.sess = q.sess
    BY <1>3 DEF HostType
  <2>5. /\ ~q.child /\ ~q.db /\ ~q.ran /\ (q.cmd = "prefetched" => q.sess = 0)
    BY <1>1, <1>3, Carries DEF DurableSteps, BeforeCreate
  <2> HIDE DEF more, a
  <2>6. CASE q.cut
    <3>1. n \in HostType /\ MovesOn(q, n)
      BY <1>1, <1>2, <1>3, <2>3, <2>4, <2>5, <2>6, OnwardMoves
    <3>2. n.started
      BY <2>3, <2>4, <1>3, OnwardFields DEF HostInv, Scripted
    <3> HIDE DEF n
    <3> QED
      BY <1>1, <1>6, <3>1, <3>2, QuietOver
  <2>7. CASE ~q.cut
    <3>1. Path(q.todo) /\ q.todo \in Seq(Steps)
      BY <1>3 DEF HostInv, Scripted, Path, Chain
    <3>2. Tail(q.todo) = <<>>
      BY <1>1, <1>3, <3>1, Left DEF Ends
    <3>3. more \o <<>> = more
      BY <2>3, ConcatEmptySeq
    <3>4. /\ n \in HostType /\ n.todo = more
          /\ n.at = "ready" /\ n.conn = None /\ n.ran = FALSE
          /\ n.cmd = q.cmd /\ n.sess = q.sess /\ n.started = TRUE
          /\ n.child = q.child /\ n.db = q.db /\ n.out = q.out
      <4>1. a.todo # <<>> /\ Path(a.todo) /\ a \in HostType
        BY <1>3, <2>4, <3>1
      <4>2. /\ n \in HostType /\ n.todo = (IF a.cut THEN Finally(Tail(a.todo)) ELSE more \o Tail(a.todo))
            /\ n.at = "ready" /\ n.conn = None /\ n.ran = FALSE
            /\ n.cmd = a.cmd /\ n.sess = a.sess /\ n.started = a.started
            /\ n.child = a.child /\ n.db = a.db /\ n.out = a.out
        BY <2>3, <4>1, OnwardFields
      <4> HIDE DEF n
      <4> QED
        BY <2>4, <2>7, <3>2, <3>3, <4>2
    <3> HIDE DEF n
    <3>5. Scripted(n)
      BY <2>2, <3>4 DEF Scripted
    <3>6. Placed(n)
      BY <1>2, <1>3, <3>4 DEF HostInv, Placed, Calling
    <3>7. Holds(n)
      BY <2>2, <2>5, <3>4 DEF Holds, At, SessionSteps
    <3>8. HostInv(n) /\ ~At(n, {"spawn", "wait", "mount"})
      BY <2>2, <3>4, <3>5, <3>6, <3>7 DEF HostInv, At
    <3>9. \A s : ~Unmounts(q, s)
      BY <1>1, <3>1, BeforeUnmount DEF Unmounts
    <3> QED
      BY <1>1, <1>6, <3>4, <3>8, <3>9, StepEnds
  <2> QED
    BY <2>6, <2>7
<1> QED
  BY <1>1, <1>5, <1>6

(* A host in a call other than hello has started, and is in a call of a     *)
(* daemon that listens.                                                     *)
LEMMA InCall ==
  ASSUME CommandsInv, NEW h \in Hosts, AtCall(h)
  PROVE  /\ HostInv(host[h]) /\ host[h] \in HostType /\ host[h].todo # <<>> /\ host[h].at = "call"
         /\ Head(host[h].todo) \in DaemonSteps /\ listener # None
         /\ Head(host[h].todo) # "hello" => host[h].started
<1> DEFINE q == host[h]
<1>1. q.at = "call" /\ q.conn = listener
  BY DEF AtCall
<1>2. HostInv(q) /\ q \in HostType /\ q.todo # <<>> /\ Head(q.todo) \in DaemonSteps
  BY <1>1, RequestedSelf DEF Calling
<1>3. listener # None
  BY <1>1, <1>2 DEF HostInv, Placed
<1>4. Head(q.todo) # "hello" => q.started
  BY <1>2, Carries DEF Offline, DaemonSteps
<1> QED
  BY <1>1, <1>2, <1>3, <1>4

(* The daemon's side of a request that is served.                           *)
LEMMA Served ==
  ASSUME CommandsInv, NEW h \in Hosts, Serves(h), unsure \subseteq unsure'
  PROVE  /\ DaemonInv' /\ LateInv'
         /\ Head(host[h].todo) \notin {"mount", "unmount"} => mounted' = mounted
         /\ Head(host[h].todo) = "mount" => mounted' = mounted \cup {host[h].sess}
         /\ Head(host[h].todo) = "unmount" => mounted' = mounted \ {host[h].sess}
         /\ Head(host[h].todo) = "create" /\ ~host[h].ran => Cardinality(Known) + 1 \in Sessions
         /\ UNCHANGED <<gone, alive, listener, late>>
<1> DEFINE q == host[h]
           step == Head(q.todo)
<1>1. /\ AtCall(h) /\ (q.ran \/ Accepts(step, q.sess))
      /\ IF q.ran THEN UNCHANGED <<row, head, mounted>> ELSE Effect(step, q.sess)
      /\ UNCHANGED <<gone, alive, listener, late>>
  BY DEF Serves, Now
<1>2. HostInv(q) /\ q.todo # <<>> /\ step \in DaemonSteps /\ listener # None
  BY <1>1, InCall
<1>3. /\ q.ran => step \in DurableSteps
      /\ step \in SessionSteps => q.sess \in Sessions
  BY <1>2, Carries
<1>4. LateInv'
  BY <1>1 DEF CommandsInv, LateInv
<1>5. CASE q.ran
  <2>1. step \notin {"mount", "unmount"}
    BY <1>3, <1>5 DEF DurableSteps
  <2>2. DaemonInv'
    BY <1>1, <1>5, SameDaemon
  <2> QED
    BY <1>1, <1>4, <1>5, <2>1, <2>2
<1>6. CASE ~q.ran
  <2>1. Accepts(step, q.sess) /\ Effect(step, q.sess)
    BY <1>1, <1>6
  <2>2. step = "create" => Cardinality(Known) + 1 \in Sessions
    BY <2>1 DEF Accepts, NewSession
  <2> HIDE DEF step
  <2>3. /\ DaemonInv'
        /\ step \notin {"mount", "unmount"} => mounted' = mounted
        /\ step = "mount" => mounted' = mounted \cup {q.sess}
        /\ step = "unmount" => mounted' = mounted \ {q.sess}
    BY <1>1, <1>2, <1>3, <2>1, Effects
  <2> QED
    BY <1>1, <1>4, <2>2, <2>3 DEF step
<1> QED
  BY <1>5, <1>6

(* A request that is served and answered.                                   *)
LEMMA ServeIs ==
  ASSUME NEW h \in Hosts, Serve(h)
  PROVE  /\ Serves(h) /\ AtCall(h) /\ Answered(h) /\ Now(h) \notin {"hello", "list"}
         /\ unsure' = unsure /\ unsure \subseteq unsure'
  BY DEF Serve, Serves

(* The session of a create that was answered.                               *)
LEMMA CreatedSession ==
  ASSUME CommandsInv, NEW h \in Hosts, Serve(h), Head(host[h].todo) = "create",
         NEW k, k = IF host[h].ran THEN host[h].sess ELSE Cardinality(Known) + 1
  PROVE  /\ k \in 0..SessionBound /\ k # 0
         /\ host[h].cmd \in Mounts /\ host[h].sess # 0 => k = host[h].sess
<1> DEFINE q == host[h]
<1>1. HostInv(q) /\ q \in HostType /\ q.todo # <<>>
  BY InCall, ServeIs
<1>2. CASE q.ran
  BY <1>1, <1>2, Carries DEF HostType
<1>3. CASE ~q.ran
  <2>1. k \in Sessions
    BY <1>3, Served, ServeIs
  <2>2. k \in 0..SessionBound /\ k # 0
    BY <2>1, CommandsAssumption DEF Sessions
  <2>3. q.cmd \in {"create", "prefetched", "continue"}
    BY <1>1, HeadFacts, WhoseStep DEF HostType
  <2>4. q.cmd = "prefetched" => q.sess = 0
    BY <1>1, <1>3, Carries DEF BeforeCreate
  <2> QED
    BY <2>2, <2>3, <2>4 DEF Mounts
<1> QED
  BY <1>2, <1>3

(* A session is created; with prefetch it is mounted next.                  *)
LEMMA ServeCreateKeeps ==
  ASSUME CommandsInv, NEW h \in Hosts, Serve(h), Head(host[h].todo) = "create"
  PROVE  CommandsInv'
<1> DEFINE q == host[h]
           k == IF q.ran THEN q.sess ELSE Cardinality(Known) + 1
           a == [q EXCEPT !.sess = k]
           more == IF q.cmd = "prefetched" THEN <<"mount">> ELSE <<>>
           n == Onward(a, more)
<1>1. HostInv(q) /\ q \in HostType /\ q.todo # <<>> /\ q.at = "call" /\ q.started
  BY InCall, ServeIs
<1>2. host' = [host EXCEPT ![h] = n]
  BY DoneIs, ServeIs DEF Answered, Now
<1>3. /\ DaemonInv' /\ LateInv' /\ mounted' = mounted
      /\ UNCHANGED <<gone, alive, listener, late, unsure>>
  BY Served, ServeIs
<1>4. /\ k \in 0..SessionBound /\ k # 0
      /\ q.cmd \in Mounts /\ q.sess # 0 => k = q.sess
  BY CreatedSession
<1>5. "mount" \in Steps /\ "mount" # "create"
  BY DEF Steps
<1>6. more \in Seq(Steps)
  BY <1>5, Single, EmptySeq
<1>7. ~q.child /\ ~q.db
  BY <1>1, Carries
<1> HIDE DEF k
<1>8. /\ a \in HostType /\ a.todo = q.todo /\ a.cmd = q.cmd /\ a.started = q.started /\ a.cut = q.cut
      /\ a.out = q.out /\ a.child = q.child /\ a.db = q.db /\ a.sess = k
  BY <1>1, <1>4 DEF HostType
<1> HIDE DEF a
<1>9. CASE q.cut \/ q.cmd # "prefetched"
  <2>1. q.cut \/ more = <<>>
    BY <1>9
  <2> HIDE DEF more
  <2>2. n \in HostType /\ MovesOn(q, n)
    BY <1>1, <1>4, <1>6, <1>7, <1>8, <2>1, OnwardMoves
  <2> HIDE DEF n
  <2>3. /\ unsure \subseteq unsure' /\ gone \subseteq gone' /\ alive' \subseteq alive
        /\ \A s \in mounted' : s \in mounted \/ s \in unsure'
        /\ \A s \in mounted : s \in mounted' \cup gone' \/ (Head(q.todo) = "unmount" /\ q.sess = s)
    BY <1>3
  <2> QED
    BY <1>2, <1>3, <2>2, <2>3, StepOver
<1>10. CASE ~q.cut /\ q.cmd = "prefetched"
  <2> DEFINE t == Tail(q.todo)
             u == <<"mount">> \o t
  <2>1. Path(q.todo) /\ q.todo \in Seq(StepsOf(q.cmd)) /\ q.todo \in Seq(Steps)
    BY <1>1 DEF HostInv, Scripted, Path, Chain
  <2>2. /\ Path(t) /\ (t # <<>> => Linked(Head(q.todo), Head(t)))
        /\ (t = <<>> => Head(q.todo) \in Ends)
    BY <1>1, <2>1, PathTail
  <2>3. t \in Seq(StepsOf(q.cmd)) /\ t \in Seq(Steps)
    BY <1>1, <2>1, HeadTailProperties
  <2>4. t # <<>> /\ Head(t) = "close_daemon" /\ Head(t) = t[1]
    BY <2>2, <2>3, Successors, HeadTail DEF Ends
  <2>5. Chain(<<"mount">>) /\ <<"mount">>[Len(<<"mount">>)] = "mount" /\ <<"mount">> # <<>>
        /\ <<"mount">>[1] = "mount"
    BY <1>5 DEF Chain
  <2>6. Linked("mount", "close_daemon")
    BY DEF Linked, Links
  <2> HIDE DEF t
  <2>7. /\ Chain(u) /\ u # <<>> /\ u[1] = "mount" /\ u[Len(u)] = t[Len(t)]
    BY <2>2, <2>4, <2>5, <2>6, ChainJoin DEF Path
  <2>8. Path(u)
    BY <2>2, <2>4, <2>7 DEF Path
  <2>9. u \in Seq(StepsOf(q.cmd))
    <3>1. "mount" \in StepsOf(q.cmd)
      BY <1>10 DEF StepsOf
    <3>2. <<"mount">> \in Seq(StepsOf(q.cmd))
      BY <3>1, Single
    <3> QED
      BY <2>3, <3>2, ConcatProperties
  <2>10. Head(u) = "mount"
    BY <2>7, HeadTail DEF Chain
  <2>11. /\ n \in HostType /\ n.todo = u
         /\ n.at = "ready" /\ n.conn = None /\ n.ran = FALSE
         /\ n.cmd = q.cmd /\ n.sess = k /\ n.started = q.started /\ n.cut = q.cut
         /\ n.child = q.child /\ n.db = q.db /\ n.out = q.out
    <3>1. a.todo # <<>> /\ Path(a.todo) /\ a \in HostType
      BY <1>1, <1>8, <2>1
    <3>2. more = <<"mount">>
      BY <1>10
    <3> HIDE DEF more
    <3>3. /\ n \in HostType /\ n.todo = (IF a.cut THEN Finally(Tail(a.todo)) ELSE more \o Tail(a.todo))
          /\ n.at = "ready" /\ n.conn = None /\ n.ran = FALSE
          /\ n.cmd = a.cmd /\ n.sess = a.sess /\ n.started = a.started /\ n.cut = a.cut
          /\ n.child = a.child /\ n.db = a.db /\ n.out = a.out
      BY <1>6, <3>1, OnwardFields
    <3> HIDE DEF n
    <3> QED
      BY <1>8, <1>10, <3>2, <3>3 DEF t
  <2> HIDE DEF n, u
  <2>12. Scripted(n)
    BY <2>8, <2>9, <2>11 DEF Scripted
  <2>13. Placed(n)
    BY <1>1, <2>11 DEF HostInv, Placed, Calling
  <2>14. Holds(n)
    BY <1>1, <1>4, <1>7, <2>10, <2>11 DEF Holds, At, BeforeCreate
  <2>15. HostInv(n)
    BY <2>11, <2>12, <2>13, <2>14 DEF HostInv
  <2>16. \A s : ~Unmounts(q, s)
    BY <2>1, BeforeUnmount DEF Unmounts
  <2>17. ~CutMount(n) /\ ~At(n, {"spawn", "wait"})
    BY <2>10, <2>11 DEF CutMount, At, Calling
  <2>18. /\ unsure \subseteq unsure' /\ gone \subseteq gone' /\ alive' \subseteq alive \cup {h}
         /\ \A s \in mounted' : s \in mounted
         /\ \A s \in mounted : s \in mounted' \cup gone'
    BY <1>3
  <2> QED
    BY <1>1, <1>2, <1>3, <1>4, <2>11, <2>15, <2>16, <2>17, <2>18, Moved
<1> QED
  BY <1>9, <1>10

(* The tree is mounted and the try block opens: its finally unmounts.       *)
LEMMA MountScript ==
  ASSUME NEW cmd \in Mounts, NEW s,
         s = IF cmd = "exec" THEN <<"spawn", "wait", "unmount">> ELSE <<"prefetch", "unmount">>
  PROVE  /\ Chain(s) /\ s \in Seq(StepsOf(cmd)) /\ s # <<>> /\ s[1] \in {"spawn", "prefetch"}
         /\ s[Len(s)] = "unmount" /\ Contains(s, "unmount")
<1>1. CASE cmd = "exec"
  <2>1. s = <<"spawn", "wait", "unmount">> /\ {"spawn", "wait", "unmount"} \subseteq StepsOf(cmd)
    BY <1>1 DEF StepsOf
  <2>2. Chain(<<"spawn", "wait", "unmount">>) /\ Contains(<<"spawn", "wait", "unmount">>, "unmount")
    BY DEF Chain, Linked, Links, Steps, Contains
  <2> QED
    BY <2>1, <2>2
<1>2. CASE cmd = "prefetched"
  <2>1. s = <<"prefetch", "unmount">> /\ {"prefetch", "unmount"} \subseteq StepsOf(cmd)
    BY <1>2 DEF StepsOf
  <2>2. Chain(<<"prefetch", "unmount">>) /\ Contains(<<"prefetch", "unmount">>, "unmount")
    BY DEF Chain, Linked, Links, Steps, Contains
  <2> QED
    BY <2>1, <2>2
<1> QED
  BY <1>1, <1>2 DEF Mounts

LEMMA ServeMountKeeps ==
  ASSUME CommandsInv, NEW h \in Hosts, Serve(h), Head(host[h].todo) = "mount"
  PROVE  CommandsInv'
<1> DEFINE q == host[h]
           more == AfterMount(h)
           n == Onward(q, more)
<1>1. HostInv(q) /\ q \in HostType /\ q.todo # <<>> /\ q.at = "call" /\ q.started
  BY InCall, ServeIs
<1>2. host' = [host EXCEPT ![h] = n]
  BY DoneIs, ServeIs DEF Answered, Now
<1>3. /\ DaemonInv' /\ LateInv' /\ mounted' = mounted \cup {q.sess}
      /\ UNCHANGED <<gone, alive, listener, late, unsure>>
  BY Served, ServeIs
<1>4. q.cmd \in Mounts
  BY <1>1, HeadFacts, WhoseStep DEF HostType
<1>5. /\ Chain(more) /\ more \in Seq(StepsOf(q.cmd)) /\ more # <<>> /\ more[1] \in {"spawn", "prefetch"}
      /\ more[Len(more)] = "unmount" /\ Contains(more, "unmount")
  BY <1>4, MountScript DEF AfterMount
<1>6. more \in Seq(Steps)
  BY <1>5 DEF Chain
<1>7. ~q.child /\ ~q.db /\ q.sess # 0
  BY <1>1, Carries DEF SessionSteps, Sessions
<1> HIDE DEF more
<1>8. CASE q.cut
  <2>1. n \in HostType /\ MovesOn(q, n)
    BY <1>1, <1>6, <1>7, <1>8, OnwardMoves
  <2>2. q.sess \in unsure
    BY <1>1, <1>8 DEF CommandsInv, CutInv, CutMount, At, Calling
  <2> HIDE DEF n
  <2>3. /\ unsure \subseteq unsure' /\ gone \subseteq gone' /\ alive' \subseteq alive
        /\ \A s \in mounted' : s \in mounted \/ s \in unsure'
        /\ \A s \in mounted : s \in mounted' \cup gone' \/ (Head(q.todo) = "unmount" /\ q.sess = s)
    BY <1>3, <2>2
  <2> QED
    BY <1>2, <1>3, <2>1, <2>3, StepOver
<1>9. CASE ~q.cut
  <2> DEFINE t == Tail(q.todo)
             u == more \o t
  <2>1. Path(q.todo) /\ q.todo \in Seq(StepsOf(q.cmd)) /\ q.todo \in Seq(Steps)
    BY <1>1 DEF HostInv, Scripted, Path, Chain
  <2>2. /\ Path(t) /\ (t # <<>> => Linked(Head(q.todo), Head(t)))
        /\ (t = <<>> => Head(q.todo) \in Ends)
    BY <1>1, <2>1, PathTail
  <2>3. t \in Seq(StepsOf(q.cmd)) /\ t \in Seq(Steps)
    BY <1>1, <2>1, HeadTailProperties
  <2>4. t # <<>> /\ Head(t) = "close_daemon" /\ Head(t) = t[1]
    BY <2>2, <2>3, Successors, HeadTail DEF Ends
  <2>5. Linked("unmount", "close_daemon")
    BY DEF Linked, Links
  <2> HIDE DEF t
  <2>6. Chain(u) /\ u # <<>> /\ u[1] = more[1] /\ u[Len(u)] = t[Len(t)]
    BY <1>5, <2>2, <2>4, <2>5, ChainJoin DEF Path
  <2>7. Path(u)
    BY <2>2, <2>4, <2>6 DEF Path
  <2>8. u \in Seq(StepsOf(q.cmd))
    BY <1>5, <2>3, ConcatProperties
  <2>9. Head(u) \in {"spawn", "prefetch"}
    BY <1>5, <2>6, HeadTail DEF Chain
  <2>10. Contains(u, "unmount")
    BY <1>5, <1>6, <2>3, ContainsJoin
  <2>11. /\ n \in HostType /\ n.todo = u
         /\ n.at = "ready" /\ n.conn = None /\ n.ran = FALSE
         /\ n.cmd = q.cmd /\ n.sess = q.sess /\ n.started = q.started /\ n.cut = q.cut
         /\ n.child = q.child /\ n.db = q.db /\ n.out = q.out
    <3>1. /\ n \in HostType /\ n.todo = (IF q.cut THEN Finally(Tail(q.todo)) ELSE more \o Tail(q.todo))
          /\ n.at = "ready" /\ n.conn = None /\ n.ran = FALSE
          /\ n.cmd = q.cmd /\ n.sess = q.sess /\ n.started = q.started /\ n.cut = q.cut
          /\ n.child = q.child /\ n.db = q.db /\ n.out = q.out
      BY <1>1, <1>6, <2>1, OnwardFields
    <3> HIDE DEF n
    <3> QED
      BY <1>9, <3>1 DEF t
  <2> HIDE DEF n, u
  <2>12. Scripted(n)
    BY <2>7, <2>8, <2>11 DEF Scripted
  <2>13. Placed(n)
    BY <1>1, <2>11 DEF HostInv, Placed, Calling
  <2>14. Holds(n)
    BY <1>1, <1>7, <2>9, <2>11 DEF Holds, At, BeforeCreate
  <2>15. HostInv(n) /\ Unmounts(n, q.sess)
    BY <2>10, <2>11, <2>12, <2>13, <2>14 DEF HostInv, Unmounts
  <2>16. \A s : ~Unmounts(q, s)
    BY <2>1, BeforeUnmount DEF Unmounts
  <2>17. ~CutMount(n) /\ n.sess \in mounted'
    BY <1>3, <2>11 DEF CutMount, Calling
  <2>18. /\ unsure \subseteq unsure' /\ gone \subseteq gone' /\ alive' \subseteq alive \cup {h}
         /\ \A s \in mounted' : s \in mounted \/ s \in unsure' \/ Unmounts(n, s)
         /\ \A s \in mounted : s \in mounted' \cup gone'
    BY <1>3, <2>15
  <2> QED
    BY <1>1, <1>2, <1>3, <2>11, <2>15, <2>16, <2>17, <2>18, Moved
<1> QED
  BY <1>8, <1>9

LEMMA ServeKeeps ==
  ASSUME CommandsInv, NEW h \in Hosts, Serve(h)
  PROVE  CommandsInv'
<1> DEFINE q == host[h]
           n == Onward(q, <<>>)
<1>1. CASE Head(q.todo) \in {"create", "mount"}
  BY <1>1, ServeCreateKeeps, ServeMountKeeps
<1>2. CASE Head(q.todo) \notin {"create", "mount"}
  <2>1. HostInv(q) /\ q.todo # <<>> /\ q.at = "call" /\ Head(q.todo) \in DaemonSteps
    BY InCall, ServeIs
  <2>2. host' = [host EXCEPT ![h] = n] /\ Head(q.todo) \notin {"hello", "list"}
    BY <1>2, DoneIs, ServeIs DEF Answered, Now
  <2>3. n \in HostType /\ MovesOn(q, n)
    BY <2>1, <2>2, PlainOnward DEF DaemonSteps
  <2>4. /\ DaemonInv' /\ LateInv'
        /\ Head(q.todo) # "unmount" => mounted' = mounted
        /\ Head(q.todo) = "unmount" => mounted' = mounted \ {q.sess}
        /\ UNCHANGED <<gone, alive, listener, late, unsure>>
    BY <1>2, Served, ServeIs
  <2> HIDE DEF n
  <2>5. /\ unsure \subseteq unsure' /\ gone \subseteq gone' /\ alive' \subseteq alive
        /\ \A s \in mounted' : s \in mounted \/ s \in unsure'
        /\ \A s \in mounted : s \in mounted' \cup gone' \/ (Head(q.todo) = "unmount" /\ q.sess = s)
        /\ Head(q.todo) = "unmount" => q.sess \notin mounted'
    BY <2>4
  <2> QED
    BY <2>2, <2>3, <2>4, <2>5, StepOver
<1> QED
  BY <1>1, <1>2

(* A request that is served and answered with something that is not valid.  *)
LEMMA InvalidResultKeeps ==
  ASSUME CommandsInv, NEW h \in Hosts, InvalidResult(h)
  PROVE  CommandsInv'
<1> DEFINE q == host[h]
           n == Onward(q, <<>>)
           m == Stopped(q, "error")
<1>1. /\ Serves(h) /\ CallRaises(h, "error", q) /\ unsure \subseteq unsure'
      /\ Head(q.todo) = "mount" => q.sess \in unsure'
  BY DEF InvalidResult, Now
<1>2. AtCall(h) /\ Head(q.todo) # "hello"
  BY <1>1 DEF Serves, Now
<1>3. HostInv(q) /\ q.todo # <<>> /\ q.at = "call" /\ Head(q.todo) \in DaemonSteps
  BY <1>2, InCall
<1>4. /\ host' = [host EXCEPT ![h] = IF Head(q.todo) = "reconcile" THEN n ELSE m]
  BY <1>1, <1>2, DoneIs, RaisedIs DEF CallRaises, Failed, Now
<1>5. Head(q.todo) = "reconcile" => n \in HostType /\ MovesOn(q, n)
  BY <1>3, PlainOnward
<1>6. m \in HostType /\ MovesOn(q, m)
  BY <1>3, PlainStopped DEF DaemonSteps, Outs
<1>7. /\ DaemonInv' /\ LateInv'
      /\ Head(q.todo) \notin {"mount", "unmount"} => mounted' = mounted
      /\ Head(q.todo) = "mount" => mounted' = mounted \cup {q.sess}
      /\ Head(q.todo) = "unmount" => mounted' = mounted \ {q.sess}
      /\ UNCHANGED <<gone, alive, listener, late>>
  BY <1>1, Served
<1> HIDE DEF n, m
<1>8. /\ gone \subseteq gone' /\ alive' \subseteq alive
      /\ \A s \in mounted' : s \in mounted \/ s \in unsure'
      /\ \A s \in mounted : s \in mounted' \cup gone' \/ (Head(q.todo) = "unmount" /\ q.sess = s)
      /\ Head(q.todo) = "unmount" => q.sess \notin mounted'
  BY <1>1, <1>7
<1>9. CASE Head(q.todo) = "reconcile"
  BY <1>1, <1>2, <1>4, <1>5, <1>7, <1>8, <1>9, StepOver
<1>10. CASE Head(q.todo) # "reconcile"
  BY <1>1, <1>2, <1>4, <1>6, <1>7, <1>8, <1>10, StepOver
<1> QED
  BY <1>9, <1>10

-----------------------------------------------------------------------------
(* The daemon's own steps.                                                  *)

(* The hosts stay as they are.                                              *)
LEMMA HostsStay ==
  ASSUME CommandsInv, UNCHANGED <<host, unsure>>, DaemonInv', LateInv',
         alive' \subseteq alive, gone \subseteq gone',
         \A s \in mounted' : s \in mounted \/ s \in unsure,
         \A s \in mounted : s \in mounted' \cup gone' \cup unsure
  PROVE  CommandsInv'
<1>1. HostsInv'
  BY DEF CommandsInv, HostsInv
<1>2. MountedInv'
  BY DEF CommandsInv, MountedInv
<1>3. CutInv'
  BY DEF CommandsInv, CutInv
<1>4. LaunchInv'
  BY DEF CommandsInv, LaunchInv
<1>5. RunInv'
  BY DEF CommandsInv, RunInv
<1> QED
  BY <1>1, <1>2, <1>3, <1>4, <1>5 DEF CommandsInv

LEMMA DaemonKeeps ==
  ASSUME CommandsInv, NEW p \in Procs, DaemonListens(p) \/ DaemonDies(p)
  PROVE  CommandsInv'
<1>1. CASE DaemonListens(p)
  <2>1. UNCHANGED <<host, gone, row, head, mounted, late, unsure>>
    BY <1>1 DEF DaemonListens, store
  <2>2. DaemonInv' /\ alive' \subseteq alive
    <3>1. DaemonInv
      BY DEF CommandsInv
    <3>2. /\ p \in alive /\ listener # p
          /\ IF listener = None THEN listener' = p /\ UNCHANGED alive
             ELSE alive' = alive \ {p} /\ UNCHANGED listener
      BY <1>1 DEF DaemonListens
    <3>3. p # None
      BY CommandsAssumption
    <3>4. alive' \subseteq alive /\ listener' \in alive' \cup {None} /\ (mounted' # {} => listener' # None)
      BY <2>1, <3>1, <3>2, <3>3 DEF DaemonInv
    <3> QED
      BY <2>1, <3>1, <3>4 DEF DaemonInv, Known
  <2>3. LateInv'
    BY <2>1 DEF CommandsInv, LateInv
  <2> QED
    BY <2>1, <2>2, <2>3, HostsStay
<1>2. CASE DaemonDies(p)
  <2>1. Dies(p) /\ UNCHANGED <<host, row, head, unsure>>
    BY <1>2 DEF DaemonDies, store
  <2>2. /\ DaemonInv' /\ LateInv' /\ alive' \subseteq alive
        /\ mounted' \subseteq mounted /\ mounted \subseteq mounted' \cup gone' /\ gone \subseteq gone'
    BY <2>1, Died
  <2> QED
    BY <2>1, <2>2, HostsStay
<1> QED
  BY <1>1, <1>2

(* A call nobody waits for: its session is unsure already.                  *)
LEMMA ServeLateKeeps ==
  ASSUME CommandsInv, NEW c \in late, ServeLate(c)
  PROVE  CommandsInv'
<1>1. /\ listener # None /\ late' = late \ {c}
      /\ IF Accepts(c[1], c[2]) THEN Effect(c[1], c[2]) ELSE UNCHANGED <<row, head, mounted>>
      /\ UNCHANGED <<gone, host, alive, listener, unsure>>
  BY DEF ServeLate
<1>2. c \in LocalSteps \X Sessions /\ c[2] \in unsure
  BY DEF CommandsInv, LateInv
<1>3. c[1] \in LocalSteps /\ c[2] \in Sessions
  BY <1>2
<1>4. LateInv'
  BY <1>1 DEF CommandsInv, LateInv
<1>5. c[1] \in DaemonSteps
  BY <1>3 DEF LocalSteps, DaemonSteps
<1>6. CASE Accepts(c[1], c[2])
  <2>1. /\ DaemonInv'
        /\ c[1] \notin {"mount", "unmount"} => mounted' = mounted
        /\ c[1] = "mount" => mounted' = mounted \cup {c[2]}
        /\ c[1] = "unmount" => mounted' = mounted \ {c[2]}
    BY <1>1, <1>3, <1>5, <1>6, Effects
  <2>2. /\ \A s \in mounted' : s \in mounted \/ s \in unsure
        /\ \A s \in mounted : s \in mounted' \cup gone' \cup unsure
    BY <1>2, <2>1
  <2> QED
    BY <1>1, <1>4, <2>1, <2>2, HostsStay
<1>7. CASE ~Accepts(c[1], c[2])
  <2>1. UNCHANGED <<row, head, mounted>>
    BY <1>1, <1>7
  <2>2. DaemonInv'
    BY <1>1, <2>1 DEF CommandsInv, DaemonInv, Known
  <2> QED
    BY <1>1, <1>4, <2>1, <2>2, HostsStay
<1> QED
  BY <1>6, <1>7

-----------------------------------------------------------------------------
LEMMA CommandsInit == Init => CommandsInv
<1> SUFFICES ASSUME Init
             PROVE  CommandsInv
  OBVIOUS
<1>1. \A h \in Hosts : host[h] = Fresh
  BY DEF Init
<1>2. HostInv(Fresh)
  <2>1. Scripted(Fresh)
    BY FreshType, ShortPaths, EmptySeq DEF Scripted
  <2>2. Placed(Fresh)
    BY FreshType DEF Placed, Calling, None
  <2>3. Holds(Fresh)
    BY FreshType DEF Holds, At
  <2> QED
    BY <2>1, <2>2, <2>3, FreshType DEF HostInv
<1>3. HostsInv
  BY <1>1, <1>2, FreshType DEF HostsInv, Init
<1>4. DaemonInv
  <2>1. row \in [Sessions -> {None, "active", "closed"}]
    BY DEF Init
  <2>2. alive \subseteq Procs /\ listener \in alive \cup {None}
    BY DEF Init, Procs
  <2>3. head \subseteq Known /\ mounted = {}
    BY DEF Init, Known
  <2> QED
    BY <2>1, <2>2, <2>3 DEF DaemonInv
<1>5. LateInv /\ MountedInv
  BY DEF Init, LateInv, MountedInv
<1>6. CutInv
  BY <1>1, FreshType DEF CutInv, CutMount
<1>7. LaunchInv
  <2>1. \A h \in Hosts : h \notin alive
    BY CommandsAssumption DEF Init
  <2> QED
    BY <2>1 DEF LaunchInv
<1>8. RunInv
  BY <1>1, FreshType DEF RunInv, At
<1> QED
  BY <1>3, <1>4, <1>5, <1>6, <1>7, <1>8 DEF CommandsInv

LEMMA HostStepKeeps ==
  ASSUME CommandsInv, NEW h \in Hosts, HostStep(h)
  PROVE  CommandsInv'
<1>1. CASE ~host[h].cut /\ (Call(h) \/ SkipList(h) \/ LocalStep(h))
  BY <1>1, CallKeeps, SkipKeeps, LocalStepKeeps
<1>2. CASE host[h].cut /\ Ready(h, "unmount") /\ Call(h)
  BY <1>2, CallKeeps DEF Ready
<1>3. CASE CutStep(h)
  BY <1>3, SkipKeeps
<1>4. CASE EnsureConnection(h) \/ LaunchService(h)
  BY <1>4, ConnectKeeps
<1>5. CASE WaitEnds(h)
  BY <1>5, WaitEndsKeeps
<1>6. CASE Serve(h)
  BY <1>6, ServeKeeps
<1>7. CASE ServeList(h)
  BY <1>7, ServeListKeeps
<1>8. CASE Refuse(h)
  BY <1>8, RefuseKeeps
<1>9. CASE Hello(h)
  BY <1>9, HelloKeeps
<1>10. CASE StartFails(h)
  BY <1>10, StartFailsKeeps
<1>11. CASE CallBroken(h)
  BY <1>11, CallBrokenKeeps
<1>12. CASE CloseDatabase(h) \/ CloseDaemon(h)
  BY <1>12, ClosingKeeps
<1>13. CASE Finish(h)
  BY <1>13, FinishKeeps
<1> QED
  BY <1>1, <1>2, <1>3, <1>4, <1>5, <1>6, <1>7, <1>8, <1>9, <1>10, <1>11, <1>12, <1>13 DEF HostStep

LEMMA HostFaultKeeps ==
  ASSUME CommandsInv, NEW h \in Hosts, HostFault(h)
  PROVE  CommandsInv'
<1>1. CASE LaunchFails(h)
  BY <1>1, LaunchFailsKeeps
<1>2. CASE CallTimesOut(h)
  BY <1>2, CallTimesOutKeeps
<1>3. CASE LocalStepFails(h)
  BY <1>3, LocalStepFailsKeeps
<1>4. CASE Interrupt(h)
  BY <1>4, InterruptKeeps
<1>5. CASE Kill(h)
  BY <1>5, KillKeeps
<1>6. CASE InvalidResult(h)
  BY <1>6, InvalidResultKeeps
<1> QED
  BY <1>1, <1>2, <1>3, <1>4, <1>5, <1>6 DEF HostFault

LEMMA CommandsStep == CommandsInv /\ [Next]_vars => CommandsInv'
<1> SUFFICES ASSUME CommandsInv, [Next]_vars
             PROVE  CommandsInv'
  OBVIOUS
<1>1. ASSUME NEW h \in Hosts, HostStep(h)
      PROVE  CommandsInv'
  BY <1>1, HostStepKeeps
<1>2. ASSUME NEW h \in Hosts, HostFault(h)
      PROVE  CommandsInv'
  BY <1>2, HostFaultKeeps
<1>7. ASSUME NEW h \in Hosts, ChildExits(h)
      PROVE  CommandsInv'
  BY <1>7, ClosingKeeps
<1>3. ASSUME NEW h \in Hosts, NEW cmd \in Commands[h], NEW s \in Known \cup {0}, Run(h, cmd, s)
      PROVE  CommandsInv'
  BY <1>3, RunKeeps
<1>4. ASSUME NEW p \in Procs, DaemonListens(p) \/ DaemonDies(p)
      PROVE  CommandsInv'
  BY <1>4, DaemonKeeps
<1>5. ASSUME NEW c \in late, ServeLate(c)
      PROVE  CommandsInv'
  BY <1>5, ServeLateKeeps
<1>6. CASE UNCHANGED vars
  <2>1. UNCHANGED <<host, alive, listener, row, head, mounted, late, gone, unsure>>
    BY <1>6 DEF vars
  <2>2. DaemonInv' /\ LateInv'
    BY <2>1, SameDaemon
  <2> QED
    BY <2>1, <2>2, HostsStay
<1> QED
  BY <1>1, <1>2, <1>3, <1>4, <1>5, <1>6, <1>7 DEF Next

(* The invariant gives what the commands promise.                           *)
LEMMA CommandsImply == CommandsInv => CommandsSound /\ RunsMounted
<1> SUFFICES ASSUME CommandsInv
             PROVE  CommandsSound /\ RunsMounted
  OBVIOUS
<1>1. ASSUME NEW h \in Hosts
      PROVE  /\ host[h].at \in Places /\ host[h].out \in Outs /\ host[h].sess \in 0..SessionBound + 1
             /\ Range(host[h].todo) \subseteq Steps
             /\ host[h].attempt \in 0..RequestAttempts /\ host[h].conn \in Procs \cup {None}
             /\ (host[h].conn # None) = (host[h].at = "call")
  <2>1. HostInv(host[h]) /\ host[h] \in HostType
    BY HostFacts
  <2>2. host[h].todo \in Seq(Steps)
    BY <2>1 DEF HostType
  <2>3. Range(host[h].todo) \subseteq Steps
    <3> DEFINE s == host[h].todo
    <3>1. \A i \in DOMAIN s : s[i] \in Steps
      BY <2>2, ElementOfSeq
    <3> QED
      BY <3>1 DEF Range
  <2>4. host[h].sess \in 0..SessionBound + 1
    BY <2>1, CommandsAssumption DEF HostType
  <2> QED
    BY <2>1, <2>3, <2>4 DEF HostType, HostInv, Placed
<1>2. TypeOK
  BY <1>1 DEF TypeOK, CommandsInv, DaemonInv
<1>3. MountsReleased
  BY DEF CommandsInv, MountedInv, MountsReleased, Inside, Unmounts
<1>4. NothingLeftBehind
  <2> SUFFICES ASSUME NEW h \in Hosts, Ended(h), host[h].out # "killed"
               PROVE  /\ ~host[h].child /\ ~host[h].db
                      /\ host[h].out = "error" /\ ~host[h].started => h \notin alive
    BY DEF NothingLeftBehind
  <2>1. HostInv(host[h]) /\ host[h].at = "idle"
    BY HostFacts DEF Ended
  <2>2. host[h].todo = <<>>
    BY <2>1 DEF HostInv, Placed
  <2>3. ~host[h].child /\ ~host[h].db
    BY <2>1, <2>2 DEF HostInv, Holds, At
  <2>4. ~host[h].started => h \notin alive
    BY <2>1, HostFacts DEF Starting, Calling
  <2> QED
    BY <2>3, <2>4
<1>5. RunsMounted
  <2> SUFFICES ASSUME NEW h \in Hosts, host[h].child
               PROVE  \/ host[h].sess \in mounted \cup unsure \cup gone
                      \/ \E g \in Hosts \ {h} : host[g].cmd \in Mounts /\ host[g].sess = host[h].sess
    BY DEF RunsMounted
  <2>1. At(host[h], {"spawn", "wait"})
    BY HostFacts DEF HostInv, Holds, At
  <2> QED
    BY <2>1 DEF CommandsInv, RunInv
<1> QED
  BY <1>2, <1>3, <1>4, <1>5 DEF CommandsSound

(* Whatever fails in a command of any number of hosts, of its steps or of   *)
(* its daemon, and however often: no session stays mounted without a host   *)
(* that will unmount it, or a mount, prefetch or unmount that got no good   *)
(* answer or whose host was interrupted or killed; and a command that ended *)
(* left no process, no database and no daemon of a failed start             *)
(* (run_in_workspace, _prefetch_session and WorkspaceDaemon.start).         *)
THEOREM CommandsAreSound == Spec => []CommandsSound
<1>1. Init => CommandsInv
  BY CommandsInit
<1>2. CommandsInv /\ [Next]_vars => CommandsInv'
  BY CommandsStep
<1>3. CommandsInv => CommandsSound
  BY CommandsImply
<1> QED
  BY <1>1, <1>2, <1>3, PTL DEF Spec

(* A command runs in a tree that is mounted, unless its daemon ended, an    *)
(* answer was lost, or another host used the same session (run_in_workspace *)
(* spawns only after the mount was answered and unmounts after the exit).   *)
THEOREM RunsAreMounted == Spec => []RunsMounted
<1>1. Init => CommandsInv
  BY CommandsInit
<1>2. CommandsInv /\ [Next]_vars => CommandsInv'
  BY CommandsStep
<1>3. CommandsInv => RunsMounted
  BY CommandsImply
<1> QED
  BY <1>1, <1>2, <1>3, PTL DEF Spec
=============================================================================
