---------------------------- MODULE MCStoreSession ----------------------------
(***************************************************************************)
(* Instances of StoreSession for TLC.                                      *)
(***************************************************************************)
EXTENDS StoreSession, TLC

CONSTANTS i1, i2, d1, d2

FreshRequestId == [i \in Invocations |-> IF i = i1 THEN d1 ELSE d2]
ReusedRequestId == [i \in Invocations |-> d1]
AllUnary == [i \in Invocations |-> "Unary"]
AllSubscriptions == [i \in Invocations |-> "Subscription"]

CallerSymmetry == Permutations(Callers)

=============================================================================
