---------------------------- MODULE RequestLedger ----------------------------
(***************************************************************************)
(* What the request history promises its readers: a request is recorded    *)
(* once, ends once, and keeps the outcome it ended with.  Ledger (the      *)
(* store, the server's restarts and the CLI) implements it.                *)
(***************************************************************************)
CONSTANT Requests

VARIABLE status

\* validTerminalStatus, storage/requests.go.
Outcomes == {"completed", "upstream_error", "client_disconnected"}

Init == status = [r \in Requests |-> "absent"]

Open(r) == status[r] = "absent" /\ status' = [status EXCEPT ![r] = "in_progress"]

End(r, outcome) == status[r] = "in_progress" /\ status' = [status EXCEPT ![r] = outcome]

Next == \E r \in Requests : Open(r) \/ \E outcome \in Outcomes : End(r, outcome)

Spec == Init /\ [][Next]_status
=============================================================================
