---------------------------- MODULE WorkspacePlan ----------------------------
(***************************************************************************)
(* The pure parts of the workspace client: which filesystem memories a     *)
(* plan projects and in which order (workspace/planning.py), the frames of *)
(* its protocol over streams that read and write short (transport.py), one *)
(* overlapped operation of the Windows pipe (windows_pipe.py), and the     *)
(* shortcut the client leaves on the machine (shortcuts.py).               *)
(***************************************************************************)
EXTENDS Integers, Sequences, FiniteSets, SequencesExt

CONSTANTS HeaderBytes,    \* 4: bytes of the length before a frame
          ByteValues,     \* 256: values of a byte
          MaxFrameBytes   \* MAX_FRAME_BYTES

ASSUME FrameAssumption ==
  /\ HeaderBytes \in Nat \ {0} /\ ByteValues \in Nat \ {0, 1}
  /\ MaxFrameBytes \in 1..(ByteValues^HeaderBytes - 1)

-------------------------------------------------------------------------------
(* Filesystem memories.  db is a function from the identifiers that exist to  *)
(* [kind, bases, available]; kind is "directory", "checkpoint" or another.    *)

Kinds == {"directory", "checkpoint"}

Source(db, i) == [id |-> i, kind |-> db[i].kind]

(* A resolution is [ok, sources, resolving, resolved].                        *)
Unresolved == [ok |-> TRUE, sources |-> <<>>, resolving |-> {}, resolved |-> {}]

Refused(st) == [st EXCEPT !.ok = FALSE]

(* What is appended once the bases of a memory are there.                      *)
AppendSource(db, i, st) ==
  IF ~st.ok \/ db[i].kind \notin Kinds \/ ~db[i].available THEN Refused(st)
  ELSE [st EXCEPT !.sources = Append(@, Source(db, i)),
                  !.resolving = @ \ {i}, !.resolved = @ \cup {i}]

RECURSIVE ResolveMemory(_, _, _)

ResolveMemory(db, i, st) ==
  CASE ~st.ok \/ i \in st.resolved                   -> st
    [] st.ok /\ i \notin st.resolved
         /\ (i \in st.resolving \/ i \notin DOMAIN db) -> Refused(st)
    [] OTHER -> AppendSource(db, i,
                  FoldLeft(LAMBDA s, b : ResolveMemory(db, b, s),
                           [st EXCEPT !.resolving = @ \cup {i}], db[i].bases))

ResolveMemorySources(db, ids) == FoldLeft(LAMBDA s, i : ResolveMemory(db, i, s), Unresolved, ids)

WorkspaceScratchPaths(rules) ==
  SelectSeq(rules, LAMBDA r : r.materialization = "direct" /\ r.retention = "discard")

ResolveWorkspacePlan(db, plan) ==
  LET st == ResolveMemorySources(db, plan.memory_ids)
  IN [ok |-> st.ok, sources |-> IF st.ok THEN st.sources ELSE <<>>,
      prefetch |-> plan.prefetch, scratch |-> WorkspaceScratchPaths(plan.rules)]

-------------------------------------------------------------------------------
(* Frames.  A stream that is read answers with at most cuts[n] bytes to the    *)
(* n-th read, with none when it is closed (0 or no cut left); one that is      *)
(* written takes at most takes[n] bytes.                                       *)

Header(n) == [k \in 1..HeaderBytes |-> (n \div ByteValues^(k - 1)) % ByteValues]

RECURSIVE HeaderValue(_)
HeaderValue(h) == IF h = <<>> THEN 0 ELSE Head(h) + ByteValues * HeaderValue(Tail(h))

EncodeFrame(payload) ==
  IF Len(payload) > MaxFrameBytes THEN [ok |-> FALSE, bytes |-> <<>>]
  ELSE [ok |-> TRUE, bytes |-> Header(Len(payload)) \o payload]

Smaller(a, b) == IF a <= b THEN a ELSE b

(* write_encoded_frame: what the stream has taken, and whether it took it all. *)
RECURSIVE WriteEncodedFrame(_, _)
WriteEncodedFrame(bytes, takes) ==
  CASE bytes = <<>> -> [ok |-> TRUE, wire |-> <<>>]
    [] bytes # <<>> /\ (takes = <<>> \/ Head(takes) <= 0) -> [ok |-> FALSE, wire |-> <<>>]
    [] OTHER -> LET n    == Smaller(Head(takes), Len(bytes))
                    rest == WriteEncodedFrame(SubSeq(bytes, n + 1, Len(bytes)), Tail(takes))
                IN [ok |-> rest.ok, wire |-> SubSeq(bytes, 1, n) \o rest.wire]

WriteFrame(payload, takes) ==
  LET f == EncodeFrame(payload)
  IN IF f.ok THEN WriteEncodedFrame(f.bytes, takes) ELSE [ok |-> FALSE, wire |-> <<>>]

(* read_exact on a stream [wire, cuts].                                        *)
RECURSIVE ReadExact(_, _)

ReadExact(s, length) ==
  LET n    == IF s.cuts = <<>> THEN 0 ELSE Smaller(Smaller(Head(s.cuts), length), Len(s.wire))
      rest == ReadExact([wire |-> SubSeq(s.wire, n + 1, Len(s.wire)), cuts |-> Tail(s.cuts)], length - n)
  IN CASE length = 0           -> [ok |-> TRUE, bytes |-> <<>>, stream |-> s]
       [] length > 0 /\ n <= 0 -> [ok |-> FALSE, bytes |-> <<>>, stream |-> s]
       [] OTHER -> [rest EXCEPT !.bytes = SubSeq(s.wire, 1, n) \o @]

(* read_frame: header, limit, payload.                                         *)
ReadFrame(s) ==
  LET head == ReadExact(s, HeaderBytes)
      size == HeaderValue(head.bytes)
  IN CASE ~head.ok -> [ok |-> FALSE, bytes |-> <<>>, stream |-> s]
       [] head.ok /\ size > MaxFrameBytes -> [ok |-> FALSE, bytes |-> <<>>, stream |-> head.stream]
       [] OTHER -> ReadExact(head.stream, size)

-------------------------------------------------------------------------------
(* WindowsPipe._run_io, one step for each call of the kernel.  An operation is *)
(* [result, pending]; pending says that the kernel may still use its buffer.   *)

(* ReadFile or WriteFile: over at once, pending, or refused.                   *)
StartIo(start, reading) ==
  CASE start = "done"                -> [result |-> "wait", pending |-> FALSE]
    [] start = "pending"             -> [result |-> "wait", pending |-> TRUE]
    [] start = "broken" /\ reading   -> [result |-> "end", pending |-> FALSE]
    [] OTHER                         -> [result |-> "raise", pending |-> FALSE]

(* GetOverlappedResultEx: the operation is over ("done", "broken", "error"),   *)
(* it is not within the timeout, or the wait itself fails; that raises and     *)
(* cancels nothing.                                                            *)
WaitIo(io, wait, reading) ==
  CASE io.result # "wait"                                -> io
    [] io.result = "wait" /\ wait = "done"               -> [result |-> "bytes", pending |-> FALSE]
    [] io.result = "wait" /\ wait = "broken" /\ reading  -> [result |-> "end", pending |-> FALSE]
    [] io.result = "wait" /\ wait = "timeout"            -> [io EXCEPT !.result = "cancel"]
    [] io.result = "wait" /\ wait = "failed"             -> [io EXCEPT !.result = "raise"]
    [] OTHER                                             -> [result |-> "raise", pending |-> FALSE]

(* Mutant: a call that timed out is cancelled and not waited for. *)
CancelOnly(io, drain) == IF io.result # "cancel" THEN io ELSE [io EXCEPT !.result = "timeout"]

(* CancelIoEx, then a wait without a limit; what they answer is not looked at. *)
CancelAndWait(io, drain) ==
  IF io.result # "cancel" THEN io
  ELSE [result |-> "timeout", pending |-> io.pending /\ drain = "failed"]

RunIo(start, wait, drain, reading) ==
  CancelAndWait(WaitIo(StartIo(start, reading), wait, reading), drain)

(* read and write: nothing is started for no bytes or on a closed pipe.        *)
PipeIo(open, size, start, wait, drain, reading) ==
  CASE size = 0              -> [result |-> "bytes", pending |-> FALSE]
    [] size > 0 /\ ~open     -> [result |-> "raise", pending |-> FALSE]
    [] OTHER                 -> RunIo(start, wait, drain, reading)

-------------------------------------------------------------------------------
(* The shortcut to the sessions.                                               *)

(* _create_directory_link: what is at the path is nothing, a link to the       *)
(* sessions, a link elsewhere or something else.                               *)
CreateDirectoryLink(at) ==
  CASE at = "other"                  -> [ok |-> FALSE, at |-> "other"]
    [] at \in {"none", "sessions", "elsewhere"} -> [ok |-> TRUE, at |-> "sessions"]

(* _create_windows_shortcut: PowerShell is absent, its run fails with the link *)
(* saved or not, or it saves the link over whatever has its name.              *)
CreateWindowsShortcut(at, powershell) ==
  [ok |-> powershell = "runs",
   at |-> IF powershell \in {"runs", "fails saved"} THEN "sessions" ELSE at]

CreateSessionsShortcut(platform, at, powershell) ==
  IF platform = "win32" THEN CreateWindowsShortcut(at, powershell) ELSE CreateDirectoryLink(at)

-------------------------------------------------------------------------------

Reached(db, ids) ==
  LET step(s) == s \cup UNION {Range(db[i].bases) : i \in s \cap DOMAIN db}
  IN FoldLeft(LAMBDA s, n : step(s), Range(ids), [n \in 1..Cardinality(DOMAIN db) + 1 |-> n])

Acyclic(db, ids) == \A i \in Reached(db, ids) \cap DOMAIN db : i \notin Reached(db, db[i].bases)

(* A plan projects its memories and everything they are based on, each      *)
(* once, and every one after its bases, so that it overlays them; it fails  *)
(* exactly when something on the way is missing, unavailable, of another    *)
(* kind or based on itself (resolve_memory_sources).                        *)
SourcesInOrder(databases, plans) ==
  \A db \in databases, ids \in plans :
    LET st   == ResolveWorkspacePlan(db, [memory_ids |-> ids, prefetch |-> <<>>, rules |-> <<>>])
        all  == Reached(db, ids)
        at   == [i \in DOMAIN st.sources |-> st.sources[i].id]
    IN /\ st.ok <=> /\ all \subseteq DOMAIN db /\ Acyclic(db, ids)
                    /\ \A i \in all : db[i].kind \in Kinds /\ db[i].available
       /\ st.ok => /\ Range(at) = all /\ Len(at) = Cardinality(all)
                   /\ \A j \in DOMAIN at : \A b \in Range(db[at[j]].bases) : \E i \in 1..j - 1 : at[i] = b

(* However short the stream reads and writes: what a peer reads of one      *)
(* frame is that frame, the next one begins where it ended, and a stream    *)
(* that ends inside a frame yields an error and never a part of it          *)
(* (write_encoded_frame, read_exact, read_frame).                           *)
FramesWhole(payloads, takes, cuts) ==
  \A p \in payloads, q \in payloads, t \in takes, c \in cuts :
    LET w == WriteFrame(p, t)
        r == ReadFrame([wire |-> w.wire \o EncodeFrame(q).bytes, cuts |-> c])
        e == ReadFrame([wire |-> w.wire, cuts |-> c])
    IN /\ Len(p) > MaxFrameBytes => ~w.ok /\ w.wire = <<>>
       /\ w.ok /\ r.ok => r.bytes = p /\ r.stream.wire = EncodeFrame(q).bytes
       /\ ~w.ok => ~e.ok
       /\ e.ok => e.bytes = p

(* A call of the pipe leaves the kernel with its buffer only where a wait   *)
(* for a pending operation itself failed, never where it timed out and was  *)
(* cancelled; the end of the stream is an end for readers only (_run_io).   *)
NothingDangles ==
  \A open \in BOOLEAN, size \in 0..1, reading \in BOOLEAN, drain \in {"over", "failed"},
     start \in {"done", "pending", "broken", "other"},
     wait \in {"done", "broken", "error", "timeout", "failed"} :
    LET io == PipeIo(open, size, start, wait, drain, reading)
    IN /\ io.result \in {"bytes", "end", "timeout", "raise"}
       /\ io.pending => start = "pending" /\ (wait = "failed" \/ (wait = "timeout" /\ drain = "failed"))
       /\ io.result = "end" => reading
       /\ io.result = "bytes" => size = 0 \/ (open /\ wait = "done")

(* A shortcut that is reported is there, and making it again changes        *)
(* nothing.  Except on Windows, where the shortcut is saved over whatever   *)
(* has its name, what is there is replaced only if it is a link, and a      *)
(* refusal leaves it (_create_directory_link, _create_windows_shortcut).    *)
ShortcutSafe ==
  \A at \in {"none", "sessions", "elsewhere", "other"}, os \in {"linux", "win32"},
     powershell \in {"absent", "fails", "fails saved", "runs"} :
    LET l == CreateSessionsShortcut(os, at, powershell)
    IN /\ l.ok => l.at = "sessions" /\ CreateSessionsShortcut(os, l.at, powershell) = l
       /\ os # "win32" => /\ at = "other" => l.at = "other"
                          /\ ~l.ok => l.at = at
       /\ ~l.ok => l.at = at \/ powershell = "fails saved"
===============================================================================
