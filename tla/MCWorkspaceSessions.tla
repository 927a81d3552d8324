------------------------ MODULE MCWorkspaceSessions ------------------------
EXTENDS WorkspaceSessions, TLC

CONSTANTS s1, s2

(* The directory memory has every file, with the same content. *)
MCMemory == [p \in Paths |-> "a"]

(* No scratch rule, or one that names a file. *)
MCPolicies == {{}, {"x"}}
=============================================================================
