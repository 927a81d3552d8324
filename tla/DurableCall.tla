---------------------------- MODULE DurableCall ----------------------------
(***************************************************************************)
(* What a durable mutation of the workspace daemon promises to the caller  *)
(* that names it by an idempotency key: however often the request is sent, *)
(* and whatever crashes in between, the mutation is applied at most once,  *)
(* and every answer that claims an outcome claims the same one.            *)
(* WorkspaceRequests implements this specification.                        *)
(***************************************************************************)
EXTENDS Naturals

CONSTANTS Keys,       \* idempotency keys
          Results     \* what an execution may answer

VARIABLES applied,    \* applied[k]: how often the mutation named k took effect
          claimed     \* claimed[k]: the answers that claimed an outcome for k

vars == <<applied, claimed>>

Init == /\ applied = [k \in Keys |-> 0]
        /\ claimed = [k \in Keys |-> {}]

(* The mutation takes effect; nothing makes it take effect again. *)
Apply(k) == /\ applied[k] = 0
            /\ applied' = [applied EXCEPT ![k] = 1]
            /\ UNCHANGED claimed

(* An answer reaches a caller. Success is claimed only of a mutation that   *)
(* took effect, and later answers repeat the first.                         *)
Claim(k) == \E r \in claimed'[k] :
              /\ r \in Results /\ claimed[k] \subseteq {r}
              /\ r.code = "ok" => applied[k] = 1
              /\ claimed' = [claimed EXCEPT ![k] = {r}]
              /\ UNCHANGED applied

Next == \E k \in Keys : Apply(k) \/ Claim(k)

Spec == Init /\ [][Next]_vars
============================================================================
