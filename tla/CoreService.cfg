SPECIFICATION Spec
CONSTANTS
    core = core  none = none
    cred1 = cred1  cred2 = cred2  cred3 = cred3  ns1 = ns1  ns2 = ns2
    Tasks = {1, 2, 3}
    Core = core
    Accounts <- MCAccounts
    Namespaces = {ns1, ns2}
    NamespaceOf <- MCNamespaceOf
    KindOf <- MCKindOf
    None = none
    MaxIssued = 3
    Worlds <- MCWorlds
    MaxFaults = 2
    MaxBackoff = 4
INVARIANTS
    RecordIsWhole
    RemovedIsGone
    OneCore
PROPERTIES
    StateOutlivesOwners
    CoreComesBack
