------------------------------ MODULE IpmiRpc ------------------------------
(***************************************************************************)
(* What sendrecv() promises its callers: calls are made one at a time, and *)
(* a call ends either without an answer or with the answer to itself,      *)
(* never with the answer to another call.                                  *)
(***************************************************************************)
EXTENDS Naturals

CONSTANT NoAnswer   \* the null response

VARIABLES
    busy,    \* a call is under way
    id,      \* number of the current (or last) call
    answer   \* number of the call whose answer the last call returned

rpcVars == <<busy, id, answer>>

Init == busy = FALSE /\ id = 0 /\ answer = NoAnswer

Call ==
    /\ ~busy
    /\ busy' = TRUE
    /\ id' = id + 1
    /\ UNCHANGED answer

Return ==
    /\ busy
    /\ busy' = FALSE
    /\ answer' \in {id, NoAnswer}
    /\ UNCHANGED id

Next == Call \/ Return

Safety == Init /\ [][Next]_rpcVars

(* A call that is made is eventually ended. *)
Spec == Safety /\ WF_rpcVars(Return)

=============================================================================
