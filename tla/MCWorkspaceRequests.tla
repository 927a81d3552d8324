------------------------ MODULE MCWorkspaceRequests ------------------------
(* A small instance of WorkspaceRequests for TLC: a program that may repeat *)
(* its keys, so that the typed client's fresh keys are one of its choices.  *)
EXTENDS WorkspaceRequests

CONSTANTS c1, k1, k2
=============================================================================
