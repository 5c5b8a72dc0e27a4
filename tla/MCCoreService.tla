------------------------------ MODULE MCCoreService ------------------------------
EXTENDS CoreService, TLC
CONSTANTS core, none, cred1, cred2, cred3, ns1, ns2

MCAccounts == {cred1, cred2, cred3}
MCNamespaceOf == (cred1 :> ns1) @@ (cred2 :> ns1) @@ (cred3 :> ns2)
MCKindOf == (cred1 :> "managed") @@ (cred2 :> "imported") @@ (cred3 :> "apikey")

Job(kind, account) == [kind |-> kind, account |-> account]
World(begin, die, exits, present, up, jobs, inputs) ==
    [tasks |-> begin, crashes |-> die, faults |-> exits, accounts |-> present, up |-> up,
     jobs |-> jobs, inputs |-> inputs]

MCWorlds ==
    { \* requests of one credential share its tokens
      World(2, 0, 0, {cred1}, TRUE, {Job("request", cred1)}, {"reject"}),
      World(2, 1, 1, {cred1}, TRUE, {Job("request", cred1), Job("remove", cred1)},
            {"expire", "abandon", "io", "network"}),
      World(3, 0, 0, {cred1}, TRUE, {Job("request", cred1), Job("remove", cred1)}, {"abandon"}),
      World(3, 0, 0, {cred2}, TRUE, {Job("request", cred2), Job("remove", cred2)}, {"expire", "reject"}),
      \* credentials of one ChatGPT account come and go
      World(3, 1, 0, {cred1}, TRUE, {Job("request", cred1), Job("create", cred2), Job("remove", cred1)}, {}),
      World(3, 1, 0, {cred1}, TRUE, {Job("revoke", cred1), Job("create", cred2)}, {"network", "io"}),
      World(3, 1, 0, {cred3}, TRUE, {Job("mode", cred3), Job("remove", cred3), Job("request", cred3)}, {"reject"}),
      World(2, 1, 0, {}, TRUE, {Job("create", cred1), Job("create", cred3)}, {"network", "io"}),
      \* the core comes and goes
      World(1, 0, 2, {cred1}, FALSE, {Job("request", cred1), Job("create", cred2)}, {"close", "expire"}) }
=============================================================================
