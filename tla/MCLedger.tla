------------------------------ MODULE MCLedger ------------------------------
(* Scenarios of the ledger for TLC.                                         *)
EXTENDS Ledger

CONSTANTS r1, r2, k1, k2

World(requests, keys, environment) ==
    [requests |-> requests, keys |-> keys, environment |-> environment]

MCWorlds ==
    { \* two requests, a server that exits with handlers left, crashes
      World({r1, r2}, {k1}, {"timeouts"}),
      \* details and aggregates are pruned while a request lasts into the next day
      World({r1}, {k1}, {"timeouts", "prune", "days"}),
      \* commands that change a credential in use, among all the operator does
      World({r1}, {k1}, {"operator", "mutation", "coreFails", "busy"}),
      \* the same with two requests, or two keys, on the credential
      World({r1, r2}, {k1}, {"mutation", "busy"}),
      World({r1}, {k1, k2}, {"mutation"}) }
=============================================================================
