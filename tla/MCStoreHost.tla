----------------------------- MODULE MCStoreHost -----------------------------
(***************************************************************************)
(* Instances of StoreHost for TLC: connection a opens a Store, calls it    *)
(* and closes it; connection b opens one of its own.                       *)
(***************************************************************************)
EXTENDS StoreHost

CONSTANTS a, b, open, call, close, other

Connection == [r \in Requests |-> IF r = other THEN b ELSE a]

Kind == [r \in Requests |-> CASE r = call -> "call"
                              [] r = close -> "close"
                              [] OTHER -> "open"]

=============================================================================
