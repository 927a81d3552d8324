----------------------------- MODULE EventStream -----------------------------
(***************************************************************************)
(* The invocation-event validator of the Semantic Store runtime            *)
(* (store-runtime/src/event_stream.rs).  Every InvocationEvent that leaves *)
(* the host passes through EventSequence::accept, whoever produced it: the *)
(* guest component, the driver that reports a guest failure, or the task   *)
(* that reports a cancellation.                                            *)
(*                                                                         *)
(* An event is a record [seq, kind].  The payload is irrelevant here.  The *)
(* wire message Failure is split by its failure code: "Failure" is the     *)
(* guest's own, "Internal" is the driver's, "Cancelled" the canceller's.   *)
(* "Malformed" stands for every event that InvocationEvent::validate       *)
(* rejects, that names another request, or that has no kind at all.        *)
(***************************************************************************)
EXTENDS Naturals, Sequences

Modes == {"Unary", "Subscription"}

Failures == {"Failure", "Internal", "Cancelled"}
TerminalKinds == {"Complete"} \cup Failures
WellFormedKinds == {"Started", "Data", "Progress"} \cup TerminalKinds
Kinds == WellFormedKinds \cup {"Malformed"}

Events == [seq : Nat, kind : Kinds]

EventSequences == [state : {"AwaitingStart", "Active", "Terminal"},
                   next_sequence : Nat,
                   data_events : Nat]

\* EventSequence::new
NewSequence == [state |-> "AwaitingStart", next_sequence |-> 0, data_events |-> 0]

\* The kinds the match on (state, kind) lets through.
KindAllowed(mode, sq, kind) ==
    \/ /\ sq.state = "AwaitingStart"
       /\ kind = "Started"
    \/ /\ sq.state = "Active"
       /\ \/ kind = "Progress"
          \/ kind = "Data" /\ (mode = "Unary" => sq.data_events = 0)
          \/ kind = "Complete" /\ (mode = "Unary" => sq.data_events = 1)
          \/ kind \in Failures

\* EventSequence::accept returns Ok.
Accepts(mode, sq, e) ==
    /\ e.kind \in WellFormedKinds
    /\ e.seq = sq.next_sequence
    /\ KindAllowed(mode, sq, e.kind)

\* The state EventSequence::accept leaves behind when it returns Ok.  (On an
\* error the callers throw the candidate away, so it has no state to keep.)
Accept(sq, e) ==
    [state         |-> IF e.kind = "Started" THEN "Active"
                       ELSE IF e.kind \in TerminalKinds THEN "Terminal"
                       ELSE sq.state,
     next_sequence |-> sq.next_sequence + 1,
     data_events   |-> sq.data_events + (IF e.kind = "Data" THEN 1 ELSE 0)]

\* EventSequence::is_terminal, which is also when EventSequence::finish is Ok.
IsTerminal(sq) == sq.state = "Terminal"

-----------------------------------------------------------------------------
(* What a client may observe, stated without the validator's state.        *)

DataAt(s) == {k \in DOMAIN s : s[k].kind = "Data"}

\* The stream contract of semantic-store/README.md: sequence numbers are
\* consecutive from zero, Started comes first and only there, a terminal event
\* is the last event, and a unary stream carries at most one Data event, and
\* exactly one if it completes.
LegalStream(mode, s) ==
    /\ \A k \in DOMAIN s : /\ s[k].seq = k - 1
                           /\ s[k].kind \in WellFormedKinds
                           /\ s[k].kind = "Started" <=> k = 1
                           /\ s[k].kind \in TerminalKinds => k = Len(s)
    /\ mode = "Unary" =>
         /\ \A j, k \in DataAt(s) : j = k
         /\ (\E k \in DOMAIN s : s[k].kind = "Complete") => DataAt(s) # {}

=============================================================================
