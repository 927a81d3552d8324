--------------------- MODULE MCCheckpointPublication ---------------------
(* Small instances of CheckpointPublication for TLC. *)
EXTENDS CheckpointPublication, TLC

CONSTANTS h1, h2
===========================================================================
