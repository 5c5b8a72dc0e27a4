---------------------------- MODULE LedgerProofs ----------------------------
(***************************************************************************)
(* Ledger, for every set of requests, keys and credentials, every length   *)
(* of time and every number of crashes: the request history keeps its      *)
(* promise, the daily aggregates are exact, fences hold, and a deleted     *)
(* credential is unused.                                                   *)
(***************************************************************************)
EXTENDS Ledger, FiniteSetTheorems, TLAPS

\* How long a leaf may take.
USE SMTT(60), ZenonT(60)

Usage == [requests: Nat, completed: Nat, errors: Nat, disconnected: Nat, observed: Nat]

\* The rows and the aggregates; a recorded request has a key.
RowsInv ==
    /\ status \in [Requests -> Outcomes \cup {"absent", "in_progress"}]
    /\ rowKey \in [Requests -> Keys \cup {NoKey}]
    /\ inference \in [Requests -> BOOLEAN] /\ observed \in [Requests -> BOOLEAN]
    /\ day \in [Requests -> Days] /\ today \in Days /\ floor \in Nat
    /\ daily \in [Days -> [Keys -> Usage]]
    /\ \A r \in Requests : status[r] # "absent" => rowKey[r] \in Keys

CredsType ==
    /\ cred \in [Creds -> {"absent", "enabled", "disabled", "requires_login", "deleted"}]
    /\ account \in [Creds -> {"absent", "present", "removed"}]
    /\ key \in [Keys -> {"absent", "active", "revoked"}]
    /\ keyCred \in [Keys -> Creds \cup {NoCred}]
    /\ creating \in SUBSET Creds /\ orphans \in SUBSET Creds
    /\ cliPc # "idle" => cliCred \in Creds

\* A credential begins with its record in the core and a key with its credential; a request in
\* progress has a key that was created; and a removal is committed after the core's.
CredsInv ==
    /\ \A c \in Creds : account[c] = "absent" => cred[c] = "absent"
    /\ \A c \in creating : cred[c] = "absent" /\ account[c] = "present"
    /\ \A c \in orphans : cred[c] # "absent"
    /\ \A k \in Keys : key[k] # "absent" => keyCred[k] \in Creds
    /\ \A r \in Requests : status[r] = "in_progress" => key[rowKey[r]] # "absent"
    /\ cliPc = "commit" /\ cliKind = "remove" => account[cliCred] = "removed"

CredInv == CredsType /\ CredsInv /\ FenceHolds /\ DeletedIsUnused

IInv == world \in Worlds /\ RowsInv /\ CredInv

-----------------------------------------------------------------------------
(* What a step may do: either to the rows or to the credentials.            *)

Aggregated(cutoff) ==
    /\ daily' = [d \in Days |-> IF d < cutoff THEN [k \in Keys |-> NoUsage] ELSE daily[d]]
    /\ floor' = IF cutoff > floor THEN cutoff ELSE floor
    /\ UNCHANGED <<status, stored, rowKey, inference, day, observed>>

RowStep ==
    \/ UNCHANGED rows
    \/ \E r \in Requests, k \in Keys, i \in BOOLEAN : Unfenced /\ Eligible(k) /\ InsertRow(r, k, i)
    \/ \E r \in Requests, outcome \in Outcomes, usage \in BOOLEAN : FinalizeRequest(r, outcome, usage)
    \/ \E cutoff \in Cutoffs : PruneRows(cutoff)
    \/ \E cutoff \in Cutoffs : Aggregated(cutoff)

CredStep ==
    \/ \E c \in Creds :
          \/ CreateAccount(c) \/ PersistCoreCredential(c) \/ (\E k \in Keys : CreateAPIKey(k, c))
          \/ (\E enabled \in BOOLEAN : SetCredentialEnabled(c, enabled))
          \/ MarkCredentialRequiresLogin(c) \/ BeginRemove(c) \/ BeginFingerprint(c) \/ OrphanEnds(c)
    \/ \E k \in Keys : RevokeAPIKey(k)
    \/ CliStep \/ CliDies

Settled == UNCHANGED <<creds, account, cli>>

\* A step of the serving process and of a handler leaves credentials and keys alone, unless it
\* marks one; every other step of the operator leaves the rows alone.
LEMMA StepShape ==
    ASSUME world \in Worlds, [Next]_vars
    PROVE  (Settled /\ RowStep) \/ (UNCHANGED rows /\ CredStep)
<1>0. world.requests \subseteq Requests /\ world.keys \subseteq Keys
  BY Zenon, ConstantsAssumption
<1>1. CASE UNCHANGED vars
  BY Zenon, <1>1 DEF vars, Settled, RowStep
<1>2. CASE OperatorStep
  <2>1. CASE \E c \in Creds : \/ CreateAccount(c) \/ PersistCoreCredential(c)
                              \/ \E k \in world.keys : CreateAPIKey(k, c)
    <3>1. CredStep
      BY Zenon, <1>0, <2>1 DEF CredStep
    <3>2. UNCHANGED rows
      BY Zenon, <2>1 DEF CreateAccount, PersistCoreCredential, CreateAPIKey
    <3> QED
      BY Zenon, <3>1, <3>2
  <2>2. CASE \/ \E k \in Keys : RevokeAPIKey(k)
             \/ \E c \in Creds, enabled \in BOOLEAN : SetCredentialEnabled(c, enabled)
    <3>1. CredStep
      BY Zenon, <2>2 DEF CredStep
    <3>2. UNCHANGED rows
      BY Zenon, <2>2 DEF RevokeAPIKey, SetCredentialEnabled
    <3> QED
      BY Zenon, <3>1, <3>2
  <2>3. CASE \E c \in Creds : BeginRemove(c) \/ BeginFingerprint(c)
    <3>1. CredStep
      BY Zenon, <2>3 DEF CredStep
    <3>2. UNCHANGED rows
      BY Zenon, <2>3 DEF BeginRemove, BeginFingerprint
    <3> QED
      BY Zenon, <3>1, <3>2
  <2>4. ASSUME NEW cutoff \in Cutoffs, PruneDetailsBefore(cutoff) \/ DeleteAggregatesBefore(cutoff)
        PROVE  Settled /\ RowStep
    BY Zenon, <2>4 DEF PruneDetailsBefore, DeleteAggregatesBefore, Settled, RowStep, Aggregated
  <2>5. CASE CliStep \/ CliDies
    <3>1. UNCHANGED rows
      BY Zenon, <2>5 DEF CliStep, CliDies, CliDisable, CliRequireNoActiveKeys, CliWait, CliFence, CliMutate,
         CliCommit, CliEnds, Cli
    <3> QED
      BY Zenon, <2>5, <3>1 DEF CredStep
  <2>6. CASE \E c \in Creds : OrphanEnds(c)
    BY Zenon, <2>6 DEF OrphanEnds, CredStep
  <2> QED
    BY Zenon, <1>2, <2>1, <2>2, <2>3, <2>4, <2>5, <2>6 DEF OperatorStep
<1>3. CASE HandlerStep
  <2>1. ASSUME NEW k \in Keys, AuthenticateConnection(k) \/ ConnectionEnds(k)
        PROVE  Settled /\ RowStep
    BY Zenon, <2>1 DEF AuthenticateConnection, ConnectionEnds, Settled, RowStep
  <2>2. ASSUME NEW k \in Keys, NEW r \in world.requests, AuthenticateAndStart(r, k)
        PROVE  Settled /\ RowStep
    <3>1. Unfenced /\ Eligible(k) /\ InsertRow(r, k, TRUE)
      BY ZenonT(60), <2>2 DEF AuthenticateAndStart
    <3>2. RowStep
      BY ZenonT(60), <1>0, <3>1 DEF RowStep
    <3> QED
      BY Zenon, <2>2, <3>2 DEF AuthenticateAndStart, Settled
  <2>3. ASSUME NEW k \in Keys, NEW r \in world.requests, NEW i \in BOOLEAN,
               StartWebSocketOperation(r, k, i)
        PROVE  Settled /\ RowStep
    <3>1. Unfenced /\ Eligible(k) /\ InsertRow(r, k, i)
      BY Zenon, <2>3 DEF StartWebSocketOperation
    <3>2. RowStep
      BY Zenon, <1>0, <3>1 DEF RowStep
    <3> QED
      BY Zenon, <2>3, <3>2 DEF StartWebSocketOperation, Settled
  <2>4. ASSUME NEW r \in Requests, NEW outcome \in Outcomes, NEW usage \in BOOLEAN,
               Finish(r, outcome, usage)
        PROVE  Settled /\ RowStep
    <3>1. UNCHANGED rows \/ FinalizeRequest(r, outcome, usage)
      BY Zenon, <2>4 DEF Finish
    <3>2. RowStep
      BY Zenon, <3>1 DEF RowStep
    <3> QED
      BY Zenon, <2>4, <3>2 DEF Finish, Settled
  <2>5. ASSUME NEW c \in Creds, MarkCredentialRequiresLogin(c)
        PROVE  UNCHANGED rows /\ CredStep
    <3>1. UNCHANGED rows
      BY Zenon, <2>5 DEF MarkCredentialRequiresLogin
    <3> QED
      BY Zenon, <2>5, <3>1 DEF CredStep
  <2> QED
    BY Zenon, <1>3, <2>1, <2>2, <2>3, <2>4, <2>5 DEF HandlerStep, Finishes
<1>4. CASE ProcessStep
  <2>1. ASSUME NEW r \in Requests, RecoverInFlight(r)
        PROVE  Settled /\ RowStep
    <3>1. FinalizeRequest(r, "upstream_error", FALSE)
      BY ZenonT(60), <2>1 DEF RecoverInFlight
    <3>2. RowStep
      BY ZenonT(60), <3>1 DEF RowStep, Outcomes
    <3> QED
      BY Zenon, <2>1, <3>2 DEF RecoverInFlight, Settled
  <2>2. ASSUME NEW cutoff \in Cutoffs, BeginServing(cutoff)
        PROVE  Settled /\ RowStep
    <3>1. PruneRows(cutoff)
      BY Zenon, <2>2 DEF BeginServing
    <3>2. RowStep
      BY Zenon, <3>1 DEF RowStep
    <3> QED
      BY Zenon, <2>2, <3>2 DEF BeginServing, Settled
  <2>3. CASE StartServer \/ StopServer \/ CloseStore \/ Crash
    BY Zenon, <2>3 DEF StartServer, StopServer, CloseStore, Crash, Settled, RowStep
  <2> QED
    BY Zenon, <1>4, <2>1, <2>2, <2>3 DEF ProcessStep, BeginsServing
<1>5. CASE NextDay
  BY Zenon, <1>5 DEF NextDay, Settled, RowStep
<1> QED
  BY Zenon, <1>1, <1>2, <1>3, <1>4, <1>5 DEF Next

-----------------------------------------------------------------------------
(* The rows.                                                                *)

LEMMA Clock == ASSUME today \in Days, [Next]_vars PROVE today' \in Days
<1>1. CASE NextDay
  BY <1>1, ConstantsAssumption DEF NextDay, Days
<1>2. CASE UNCHANGED vars
  BY Zenon, <1>2 DEF vars
<1>3. CASE OperatorStep
  BY Zenon, <1>3 DEF OperatorStep, CreateAccount, PersistCoreCredential, CreateAPIKey, RevokeAPIKey,
     SetCredentialEnabled, BeginRemove, BeginFingerprint, PruneDetailsBefore, DeleteAggregatesBefore,
     CliStep, CliDies, CliDisable, CliRequireNoActiveKeys, CliWait, CliFence, CliMutate, CliCommit,
     CliEnds, Cli, OrphanEnds
<1>4. CASE HandlerStep
  BY ZenonT(60), <1>4 DEF HandlerStep, Finishes, AuthenticateConnection, ConnectionEnds, AuthenticateAndStart,
     StartWebSocketOperation, Finish, MarkCredentialRequiresLogin
<1>5. CASE ProcessStep
  BY ZenonT(60), <1>5 DEF ProcessStep, StartServer, RecoverInFlight, BeginsServing, BeginServing, StopServer,
     CloseStore, Crash
<1> QED
  BY Zenon, <1>1, <1>2, <1>3, <1>4, <1>5 DEF Next

LEMMA RowsKept == ASSUME RowsInv, RowStep, today' \in Days PROVE RowsInv'
<1>1. CASE UNCHANGED rows
  BY Zenon, <1>1 DEF RowsInv, rows
<1>2. ASSUME NEW r \in Requests, NEW k \in Keys, NEW i \in BOOLEAN, InsertRow(r, k, i)
      PROVE  RowsInv'
  BY Zenon, <1>2 DEF RowsInv, InsertRow
<1>3. ASSUME NEW r \in Requests, NEW outcome \in Outcomes, NEW usage \in BOOLEAN,
             FinalizeRequest(r, outcome, usage)
      PROVE  RowsInv'
  <2>1. daily' \in [Days -> [Keys -> Usage]]
    <3>1. CASE UNCHANGED daily
      BY Zenon, <3>1 DEF RowsInv
    <3>2. CASE status[r] = "in_progress" /\ daily' = CountedOrPrewarm(r, outcome, usage)
      <4>1. day[r] \in Days /\ rowKey[r] \in Keys
        BY Zenon, <3>2 DEF RowsInv
      <4>2. daily[day[r]][rowKey[r]] \in Usage
        BY Zenon, <4>1 DEF RowsInv
      <4> QED
        BY <3>2, <4>1, <4>2 DEF RowsInv, CountedOrPrewarm, Usage
    <3> QED
      BY Zenon, <1>3, <3>1, <3>2 DEF FinalizeRequest, AddDailyUsage
  <2>2. status' \in [Requests -> Outcomes \cup {"absent", "in_progress"}]
        /\ observed' \in [Requests -> BOOLEAN]
    BY ZenonT(60), <1>3 DEF RowsInv, FinalizeRequest
  <2>3. \A q \in Requests : status'[q] # "absent" => status[q] # "absent"
    BY Zenon, <1>3 DEF RowsInv, FinalizeRequest
  <2> QED
    BY Zenon, <1>3, <2>1, <2>2, <2>3 DEF RowsInv, FinalizeRequest
<1>4. ASSUME NEW cutoff \in Cutoffs, PruneRows(cutoff)
      PROVE  RowsInv'
  BY Zenon, <1>4 DEF RowsInv, PruneRows
<1>5. ASSUME NEW cutoff \in Cutoffs, Aggregated(cutoff)
      PROVE  RowsInv'
  <2>1. cutoff \in Nat
    BY ConstantsAssumption DEF Cutoffs
  <2>2. [k \in Keys |-> NoUsage] \in [Keys -> Usage]
    BY Zenon DEF NoUsage, Usage
  <2> QED
    BY Zenon, <1>5, <2>1, <2>2 DEF RowsInv, Aggregated
<1> QED
  BY Zenon, <1>1, <1>2, <1>3, <1>4, <1>5 DEF RowStep

\* Only the start of a request adds to the requests in flight, on a credential that is enabled
\* and outside of a fence.
LEMMA InFlightRows ==
    ASSUME RowsInv, Settled, RowStep, NEW c, ~Unfenced \/ cred[c] # "enabled"
    PROVE  InFlight(c)' \subseteq InFlight(c)
<1>1. CASE UNCHANGED <<status, rowKey>>
  BY Zenon, <1>1 DEF InFlight, Settled, creds
<1>2. ASSUME NEW r \in Requests, NEW k \in Keys, NEW i \in BOOLEAN, Unfenced, Eligible(k),
             InsertRow(r, k, i)
      PROVE  InFlight(c)' \subseteq InFlight(c)
  <2>1. keyCred[k] # c
    BY Zenon, <1>2 DEF Eligible
  <2> QED
    BY Zenon, <1>2, <2>1 DEF InFlight, InsertRow, RowsInv, Settled, creds
<1>3. ASSUME NEW r \in Requests, NEW outcome \in Outcomes, NEW usage \in BOOLEAN,
             FinalizeRequest(r, outcome, usage)
      PROVE  InFlight(c)' \subseteq InFlight(c)
  BY Zenon, <1>3 DEF InFlight, FinalizeRequest, RowsInv, Settled, creds, Outcomes
<1>4. ASSUME NEW cutoff \in Cutoffs, PruneRows(cutoff) \/ Aggregated(cutoff)
      PROVE  UNCHANGED <<status, rowKey>>
  BY Zenon, <1>4 DEF PruneRows, Aggregated
<1> QED
  BY Zenon, <1>1, <1>2, <1>3, <1>4 DEF RowStep, rows

-----------------------------------------------------------------------------
(* Credentials and fences.                                                  *)

\* Steps that change no key and no row.
LEMMA UsesKept ==
    ASSUME UNCHANGED rows, UNCHANGED <<key, keyCred>>
    PROVE  \A c : InFlight(c)' = InFlight(c) /\ ActiveKeys(c)' = ActiveKeys(c)
BY Zenon DEF rows, InFlight, ActiveKeys

LEMMA CredKeptByRows ==
    ASSUME CredInv, RowsInv, RowsInv', Settled, RowStep
    PROVE  CredInv'
<1>1. CredsType'
  BY Zenon DEF CredInv, CredsType, Settled, creds, cli
<1>2. CredsInv'
  <2>1. \A r \in Requests : status'[r] = "in_progress" => key[rowKey'[r]] # "absent"
    <3>1. CASE UNCHANGED <<status, rowKey>>
      BY Zenon, <3>1 DEF CredInv, CredsInv
    <3>2. ASSUME NEW r \in Requests, NEW k \in Keys, NEW i \in BOOLEAN, Eligible(k), InsertRow(r, k, i)
          PROVE  \A q \in Requests : status'[q] = "in_progress" => key[rowKey'[q]] # "absent"
      BY ZenonT(60), <3>2 DEF CredInv, CredsInv, RowsInv, Eligible, InsertRow
    <3>3. ASSUME NEW r \in Requests, NEW outcome \in Outcomes, NEW usage \in BOOLEAN,
                 FinalizeRequest(r, outcome, usage)
          PROVE  \A q \in Requests : status'[q] = "in_progress" => key[rowKey'[q]] # "absent"
      BY <3>3 DEF CredInv, CredsInv, RowsInv, FinalizeRequest, Outcomes
    <3>4. ASSUME NEW cutoff \in Cutoffs, PruneRows(cutoff) \/ Aggregated(cutoff)
          PROVE  UNCHANGED <<status, rowKey>>
      BY Zenon, <3>4 DEF PruneRows, Aggregated
    <3> QED
      BY Zenon, <3>1, <3>2, <3>3, <3>4 DEF RowStep, rows
  <2> QED
    BY Zenon, <2>1 DEF CredInv, CredsInv, Settled, creds, cli
<1>3. \A c : ActiveKeys(c)' = ActiveKeys(c)
  BY Zenon DEF ActiveKeys, Settled, creds
<1>4. FenceHolds'
  <2>1. \A c : ~Unfenced => InFlight(c)' \subseteq InFlight(c)
    BY Zenon, InFlightRows
  <2> QED
    BY Zenon, <1>3, <2>1 DEF CredInv, FenceHolds, Settled, creds, cli, Unfenced
<1>5. DeletedIsUnused'
  <2>1. \A c : cred[c] = "deleted" => InFlight(c)' \subseteq InFlight(c)
    BY Zenon, InFlightRows
  <2> QED
    BY Zenon, <1>3, <2>1 DEF CredInv, DeletedIsUnused, Settled, creds
<1> QED
  BY Zenon, <1>1, <1>2, <1>4, <1>5 DEF CredInv

\* A key that is created belongs to an enabled credential and to no request yet.
LEMMA CreateKeyUses ==
    ASSUME CredInv, RowsInv, NEW k \in Keys, NEW c \in Creds, CreateAPIKey(k, c), NEW d
    PROVE  InFlight(d)' \subseteq InFlight(d) /\ (d # c => ActiveKeys(d)' = ActiveKeys(d))
<1>1. \A r \in Requests : status[r] = "in_progress" => rowKey[r] # k /\ rowKey[r] \in Keys
  BY Zenon DEF CreateAPIKey, CredInv, CredsInv, RowsInv
<1>2. \A j \in Keys : keyCred'[j] = IF j = k THEN c ELSE keyCred[j]
  BY Zenon DEF CreateAPIKey, CredInv, CredsType
<1>3. UNCHANGED <<status, rowKey>>
  BY Zenon DEF CreateAPIKey, rows
<1>4. InFlight(d)' \subseteq InFlight(d)
  BY Zenon, <1>1, <1>2, <1>3 DEF InFlight
<1>5. d # c => ActiveKeys(d)' = ActiveKeys(d)
  BY Zenon, <1>2 DEF ActiveKeys, CreateAPIKey, CredInv, CredsType
<1> QED
  BY Zenon, <1>4, <1>5

LEMMA CredKept ==
    ASSUME CredInv, RowsInv, UNCHANGED rows, CredStep
    PROVE  CredInv'
<1>0. UNCHANGED <<status, rowKey>>
  BY Zenon DEF rows
<1>1. ASSUME NEW c \in Creds, CreateAccount(c) \/ PersistCoreCredential(c)
      PROVE  CredInv'
  <2>1. \A d : InFlight(d)' = InFlight(d) /\ ActiveKeys(d)' = ActiveKeys(d)
    BY Zenon, <1>1, UsesKept DEF CreateAccount, PersistCoreCredential, creds
  <2>2. CredsType' /\ CredsInv'
    BY <1>0, <1>1 DEF CreateAccount, PersistCoreCredential, creds, CredInv, CredsType, CredsInv, FenceHolds
  <2>3. FenceHolds'
    BY Zenon, <1>1, <2>1 DEF CreateAccount, PersistCoreCredential, creds, CredInv, CredsType, CredsInv, FenceHolds,
       Unfenced
  <2>4. DeletedIsUnused'
    BY <1>1, <2>1 DEF CreateAccount, PersistCoreCredential, creds, CredInv, CredsType, CredsInv,
       DeletedIsUnused
  <2> QED
    BY Zenon, <2>2, <2>3, <2>4 DEF CredInv
<1>2. ASSUME NEW c \in Creds, NEW k \in Keys, CreateAPIKey(k, c)
      PROVE  CredInv'
  <2>1. \A d : InFlight(d)' \subseteq InFlight(d) /\ (d # c => ActiveKeys(d)' = ActiveKeys(d))
    BY Zenon, <1>2, CreateKeyUses
  <2>2. CredsType' /\ CredsInv'
    BY Zenon, <1>0, <1>2 DEF CreateAPIKey, cli, CredInv, CredsType, CredsInv, RowsInv
  <2>3. FenceHolds'
    BY Zenon, <1>2 DEF CreateAPIKey, cli, FenceHolds, Unfenced
  <2>4. DeletedIsUnused'
    BY Zenon, <1>2, <2>1 DEF CreateAPIKey, cli, CredInv, DeletedIsUnused
  <2> QED
    BY Zenon, <2>2, <2>3, <2>4 DEF CredInv
<1>3. ASSUME NEW k \in Keys, RevokeAPIKey(k)
      PROVE  CredInv'
  <2>1. \A d : InFlight(d)' = InFlight(d) /\ ActiveKeys(d)' \subseteq ActiveKeys(d)
    BY Zenon, <1>0, <1>3 DEF RevokeAPIKey, InFlight, ActiveKeys, CredInv, CredsType
  <2>2. CredsType' /\ CredsInv'
    BY Zenon, <1>0, <1>3 DEF RevokeAPIKey, cli, CredInv, CredsType, CredsInv, RowsInv
  <2>3. FenceHolds'
    BY Zenon, <1>3 DEF RevokeAPIKey, cli, FenceHolds, Unfenced
  <2>4. DeletedIsUnused'
    BY Zenon, <1>3, <2>1 DEF RevokeAPIKey, cli, CredInv, DeletedIsUnused
  <2> QED
    BY Zenon, <2>2, <2>3, <2>4 DEF CredInv
<1>4. ASSUME NEW c \in Creds,
             (\E enabled \in BOOLEAN : SetCredentialEnabled(c, enabled)) \/ MarkCredentialRequiresLogin(c)
      PROVE  CredInv'
  <2>0. PICK value \in {"enabled", "disabled", "requires_login"} :
            /\ Unfenced /\ Undeleted(c) /\ cred' = [cred EXCEPT ![c] = value]
            /\ UNCHANGED <<key, keyCred, account, cli>>
    BY Zenon, <1>4 DEF SetCredentialEnabled, MarkCredentialRequiresLogin
  <2>1. \A d : InFlight(d)' = InFlight(d) /\ ActiveKeys(d)' = ActiveKeys(d)
    BY Zenon, <2>0, UsesKept
  <2>2. CredsType' /\ CredsInv'
    BY Zenon, <1>0, <2>0 DEF cli, CredInv, CredsType, CredsInv, Undeleted
  <2>3. FenceHolds'
    BY Zenon, <2>0 DEF cli, FenceHolds, Unfenced
  <2>4. DeletedIsUnused'
    BY Zenon, <2>0, <2>1 DEF CredInv, CredsType, DeletedIsUnused
  <2> QED
    BY Zenon, <2>2, <2>3, <2>4 DEF CredInv
<1>5. ASSUME NEW c \in Creds, BeginRemove(c) \/ BeginFingerprint(c)
      PROVE  CredInv'
  <2>1. UNCHANGED <<creds, account, creating, orphans>> /\ cliPc' \in {"disable", "wait"} /\ cliCred' = c
    BY Zenon, <1>5 DEF BeginRemove, BeginFingerprint
  <2>2. \A d : InFlight(d)' = InFlight(d) /\ ActiveKeys(d)' = ActiveKeys(d)
    BY Zenon, <2>1, UsesKept DEF creds
  <2> QED
    BY Zenon, <1>0, <2>1, <2>2 DEF creds, CredInv, CredsType, CredsInv, FenceHolds, DeletedIsUnused
<1>6. CASE CliStep
  <2>0. UNCHANGED <<key, keyCred, creating, cliKind, orphans>>
    BY Zenon, <1>6 DEF CliStep, CliDisable, CliRequireNoActiveKeys, CliWait, CliFence, CliMutate,
       CliCommit, CliEnds, Cli, creds
  <2>1. \A d : InFlight(d)' = InFlight(d) /\ ActiveKeys(d)' = ActiveKeys(d)
    BY Zenon, <2>0, UsesKept
  <2>2. ASSUME cliPc' = "idle", UNCHANGED <<cred, account>>
        PROVE  CredInv'
    BY Zenon, <1>0, <2>0, <2>1, <2>2 DEF CredInv, CredsType, CredsInv, FenceHolds, DeletedIsUnused
  <2>3. ASSUME cliPc # "idle", cliPc' \notin {"mutate", "commit"}, UNCHANGED <<cred, account, cliCred>>
        PROVE  CredInv'
    BY Zenon, <1>0, <2>0, <2>1, <2>3 DEF CredInv, CredsType, CredsInv, FenceHolds, DeletedIsUnused
  <2>4. CASE Cli("disable", "recheck") /\ Undeleted(cliCred) /\ cred' = [cred EXCEPT ![cliCred] = "disabled"]
             /\ UNCHANGED <<key, keyCred, account, cliCred>>
    <3>1. CredsType' /\ CredsInv'
      BY ZenonT(60), <1>0, <2>0, <2>4 DEF Cli, CredInv, CredsType, CredsInv, Undeleted
    <3>2. FenceHolds'
      BY Zenon, <2>4 DEF Cli, FenceHolds
    <3>3. DeletedIsUnused'
      BY Zenon, <2>1, <2>4 DEF Cli, CredInv, CredsType, DeletedIsUnused
    <3> QED
      BY Zenon, <3>1, <3>2, <3>3 DEF CredInv
  <2>5. CASE Cli("fence", "mutate") /\ FenceOpens /\ UNCHANGED <<creds, account, cliCred>>
    BY <1>0, <2>0, <2>1, <2>5 DEF Cli, creds, CredInv, CredsType, CredsInv, FenceHolds, FenceOpens,
       DeletedIsUnused
  <2>6. CASE CliMutate
    <3>1. cliCred \in Creds /\ cred[cliCred] = "disabled"
      BY Zenon, <2>6 DEF CliMutate, Cli, CredInv, CredsType, FenceHolds
    <3>2. /\ UNCHANGED cred
          /\ \/ UNCHANGED account
             \/ cliKind = "remove" /\ account' = [account EXCEPT ![cliCred] = "removed"]
      BY Zenon, <2>6 DEF CliMutate, creds, CredInv, CredsType
    <3>3. /\ cliPc' \in {"commit", "idle"} /\ (cliPc' = "commit" => cliCred' = cliCred)
          /\ cliPc' = "commit" /\ cliKind = "remove" => account' = [account EXCEPT ![cliCred] = "removed"]
      BY Zenon, <2>6 DEF CliMutate, Cli
    <3>4. CredsType' /\ CredsInv'
      BY <1>0, <2>0, <3>1, <3>2, <3>3 DEF CredInv, CredsType, CredsInv
    <3>5. FenceHolds'
      BY Zenon, <2>0, <2>1, <2>6, <3>1, <3>2, <3>3 DEF CliMutate, Cli, CredInv, FenceHolds
    <3>6. DeletedIsUnused'
      BY Zenon, <2>1, <3>1, <3>2 DEF CredInv, CredsType, DeletedIsUnused
    <3> QED
      BY Zenon, <3>4, <3>5, <3>6 DEF CredInv
  <2>7. CASE CliCommit
    <3>1. cliCred \in Creds /\ cliPc = "commit" /\ cred[cliCred] = "disabled" /\ cliPc' = "idle"
      BY Zenon, <2>7 DEF CliCommit, Cli, CredInv, CredsType, FenceHolds
    <3>2. UNCHANGED account /\ cred' = [cred EXCEPT ![cliCred] = IF cliKind = "remove" THEN "deleted" ELSE @]
      BY Zenon, <2>7 DEF CliCommit
    <3>3. CredsType' /\ CredsInv'
      BY Zenon, <1>0, <2>0, <3>1, <3>2 DEF CredInv, CredsType, CredsInv
    <3>4. FenceHolds'
      BY Zenon, <3>1 DEF FenceHolds
    <3>5. DeletedIsUnused'
      BY Zenon, <2>1, <3>1, <3>2 DEF CredInv, CredsType, CredsInv, FenceHolds, DeletedIsUnused
    <3> QED
      BY Zenon, <3>3, <3>4, <3>5 DEF CredInv
  <2> QED
    BY Zenon, <1>6, <2>2, <2>3, <2>4, <2>5, <2>6, <2>7 DEF CliStep, CliDisable, CliRequireNoActiveKeys,
       CliWait, CliFence, CliEnds, Cli, creds
<1>7. CASE CliDies
  <2>1. \A d : InFlight(d)' = InFlight(d) /\ ActiveKeys(d)' = ActiveKeys(d)
    BY Zenon, <1>7, UsesKept DEF CliDies, creds
  <2>2. \A c \in orphans' : c \in Creds /\ cred[c] # "absent"
    BY Zenon, <1>7 DEF CliDies, CredInv, CredsType, CredsInv, FenceHolds
  <2> QED
    BY Zenon, <1>0, <1>7, <2>1, <2>2 DEF CliDies, creds, CredInv, CredsType, CredsInv, FenceHolds,
       DeletedIsUnused
<1>8. ASSUME NEW c \in Creds, OrphanEnds(c)
      PROVE  CredInv'
  <2>0. /\ UNCHANGED <<cred, key, keyCred, creating, cliPc, cliCred, cliKind>>
        /\ c \in orphans /\ orphans' \subseteq orphans
        /\ UNCHANGED account \/ account' = [account EXCEPT ![c] = "removed"]
    BY Zenon, <1>8 DEF OrphanEnds, creds
  <2>1. \A d : InFlight(d)' = InFlight(d) /\ ActiveKeys(d)' = ActiveKeys(d)
    BY Zenon, <2>0, UsesKept
  <2>2. cred[c] # "absent" /\ c \notin creating
    BY Zenon, <2>0 DEF CredInv, CredsInv
  <2>3. CredsType' /\ CredsInv'
    BY <1>0, <2>0, <2>2 DEF CredInv, CredsType, CredsInv
  <2>4. FenceHolds' /\ DeletedIsUnused'
    BY Zenon, <2>0, <2>1 DEF CredInv, CredsType, FenceHolds, DeletedIsUnused
  <2> QED
    BY Zenon, <2>3, <2>4 DEF CredInv
<1> QED
  BY Zenon, <1>1, <1>2, <1>3, <1>4, <1>5, <1>6, <1>7, <1>8 DEF CredStep

-----------------------------------------------------------------------------
(* Invariants.                                                              *)

LEMMA InitInv == Init => IInv
<1> SUFFICES ASSUME Init PROVE IInv
  BY Zenon
<1>1. RowsInv
  <2>1. 0 \in Days /\ NoUsage \in Usage
    BY ConstantsAssumption DEF Days, NoUsage, Usage
  <2> QED
    BY Zenon, <2>1 DEF Init, RowsInv
<1>2. CredInv
  BY Zenon DEF Init, CredInv, CredsType, CredsInv, FenceHolds, DeletedIsUnused
<1> QED
  BY Zenon, <1>1, <1>2 DEF Init, IInv

LEMMA NextInv == IInv /\ [Next]_vars => IInv'
<1> SUFFICES ASSUME IInv, [Next]_vars PROVE IInv'
  BY Zenon
<1>1. UNCHANGED world
  BY Zenon DEF Next, vars
<1>2. today' \in Days
  BY Zenon, Clock DEF IInv, RowsInv
<1>3. CASE Settled /\ RowStep
  <2>1. RowsInv'
    BY Zenon, <1>2, <1>3, RowsKept DEF IInv
  <2>2. CredInv'
    BY Zenon, <1>3, <2>1, CredKeptByRows DEF IInv
  <2> QED
    BY Zenon, <1>1, <2>1, <2>2 DEF IInv
<1>4. CASE UNCHANGED rows /\ CredStep
  <2>1. RowsInv'
    BY Zenon, <1>2, <1>4, RowsKept DEF IInv, RowStep
  <2>2. CredInv'
    BY Zenon, <1>4, CredKept DEF IInv
  <2> QED
    BY Zenon, <1>1, <2>1, <2>2 DEF IInv
<1> QED
  BY Zenon, <1>3, <1>4, StepShape DEF IInv

\* The inductive invariant holds for every instance of the store.
THEOREM Inductive == Spec => []IInv
BY InitInv, NextInv, PTL DEF Spec

\* While the core works inside a credential mutation fence (CliMutate of a removal or of a
\* fingerprint change), no handler, process or command gets at the credential.
THEOREM FenceTheorem == Spec => []FenceHolds
<1>1. IInv => FenceHolds
  BY Zenon DEF IInv, CredInv
<1> QED
  BY <1>1, Inductive, PTL

\* deleteCredentialMetadata leaves a tombstone that is true for good: the core's record is gone
\* and neither a request in progress nor an active key uses the credential.
THEOREM DeletedTheorem == Spec => []DeletedIsUnused
<1>1. IInv => DeletedIsUnused
  BY Zenon DEF IInv, CredInv
<1> QED
  BY <1>1, Inductive, PTL

-----------------------------------------------------------------------------
(* The request history.                                                     *)

\* The store implements RequestLedger: whatever crashes, restarts and commands do, a row is
\* inserted once, FinalizeRequest ends it once, and its outcome stays.
THEOREM HistoryTheorem == Spec => ImplementsHistory
<1>1. Init => History!Init
  BY Zenon DEF Init, History!Init
<1>2. IInv /\ [Next]_vars => [History!Next]_status
  <2> SUFFICES ASSUME IInv, [Next]_vars PROVE [History!Next]_status
    BY Zenon
  <2>1. UNCHANGED status \/ RowStep
    BY Zenon, StepShape DEF IInv, rows
  <2>2. ASSUME NEW r \in Requests, NEW k \in Keys, NEW i \in BOOLEAN, InsertRow(r, k, i)
        PROVE  History!Next
    BY ZenonT(60), <2>2 DEF InsertRow, History!Next, History!Open
  <2>3. ASSUME NEW r \in Requests, NEW outcome \in Outcomes, NEW usage \in BOOLEAN,
               FinalizeRequest(r, outcome, usage)
        PROVE  [History!Next]_status
    BY Zenon, <2>3 DEF FinalizeRequest, History!Next, History!End, Outcomes, History!Outcomes
  <2>4. ASSUME NEW cutoff \in Cutoffs, PruneRows(cutoff) \/ Aggregated(cutoff)
        PROVE  UNCHANGED status
    BY Zenon, <2>4 DEF PruneRows, Aggregated
  <2> QED
    BY Zenon, <2>1, <2>2, <2>3, <2>4 DEF RowStep, rows
<1> QED
  BY <1>1, <1>2, Inductive, PTL DEF Spec, ImplementsHistory, History!Spec

-----------------------------------------------------------------------------
(* The aggregates.                                                          *)

Observed(d, k) == {r \in Ended(d, k, Outcomes) : observed[r]}

LEMMA FiniteEnded ==
    ASSUME NEW d, NEW k, NEW outcomes
    PROVE  IsFiniteSet(Ended(d, k, outcomes)) /\ IsFiniteSet(Observed(d, k))
<1>1. Ended(d, k, outcomes) \in SUBSET Requests /\ Observed(d, k) \in SUBSET Requests
  BY Zenon DEF Ended, Observed
<1> QED
  BY Zenon, <1>1, FS_Subset, ConstantsAssumption

\* A row that is finalized is not counted elsewhere.
LEMMA EndElsewhere ==
    ASSUME RowsInv, NEW r \in Requests, NEW outcome \in Outcomes, NEW usage \in BOOLEAN,
           status[r] = "in_progress", FinalizeRequest(r, outcome, usage),
           NEW d \in Days, NEW k \in Keys, NEW set \in SUBSET Outcomes,
           ~(inference[r] /\ d = day[r] /\ k = rowKey[r]) \/ outcome \notin set
    PROVE  Ended(d, k, set)' = Ended(d, k, set)
<1>1. status' = [status EXCEPT ![r] = outcome] /\ UNCHANGED <<rowKey, inference, day>>
  BY Zenon DEF FinalizeRequest
<1>2. "in_progress" \notin Outcomes
  BY Zenon DEF Outcomes
<1> QED
  BY Zenon, <1>1, <1>2 DEF Ended, RowsInv

\* A row that is finalized is counted where it belongs.
LEMMA EndHere ==
    ASSUME RowsInv, NEW r \in Requests, NEW outcome \in Outcomes, NEW usage \in BOOLEAN,
           status[r] = "in_progress", FinalizeRequest(r, outcome, usage),
           NEW d \in Days, NEW k \in Keys, NEW set \in SUBSET Outcomes,
           inference[r], d = day[r], k = rowKey[r], outcome \in set
    PROVE  Cardinality(Ended(d, k, set)') = Cardinality(Ended(d, k, set)) + 1
<1>1. status' = [status EXCEPT ![r] = outcome] /\ UNCHANGED <<rowKey, inference, day>>
  BY Zenon DEF FinalizeRequest
<1>2. r \notin Ended(d, k, set)
  BY Zenon DEF Ended, Outcomes
<1>3. Ended(d, k, set)' = Ended(d, k, set) \cup {r}
  BY Zenon, <1>1 DEF Ended, RowsInv
<1>4. IsFiniteSet(Ended(d, k, set))
  BY Zenon, FiniteEnded
<1>5. Cardinality(Ended(d, k, set) \cup {r}) = Cardinality(Ended(d, k, set)) + 1
  BY ZenonT(60), <1>2, <1>4, FS_AddElement
<1> QED
  BY Zenon, <1>3, <1>5

LEMMA ObserveElsewhere ==
    ASSUME RowsInv, NEW r \in Requests, NEW outcome \in Outcomes, NEW usage \in BOOLEAN,
           status[r] = "in_progress", FinalizeRequest(r, outcome, usage),
           NEW d \in Days, NEW k \in Keys,
           ~(inference[r] /\ d = day[r] /\ k = rowKey[r])
    PROVE  Observed(d, k)' = Observed(d, k)
<1>1. Ended(d, k, Outcomes)' = Ended(d, k, Outcomes)
  BY ZenonT(60), EndElsewhere
<1>2. observed' = [observed EXCEPT ![r] = usage]
  BY Zenon DEF FinalizeRequest
<1>3. r \notin Ended(d, k, Outcomes)
  BY Zenon DEF Ended, Outcomes
<1> QED
  BY ZenonT(60), <1>1, <1>2, <1>3 DEF Observed, RowsInv, Ended

LEMMA ObserveOne ==
    ASSUME RowsInv, NEW r \in Requests, NEW outcome \in Outcomes, NEW usage \in BOOLEAN,
           status[r] = "in_progress", FinalizeRequest(r, outcome, usage),
           NEW d \in Days, NEW k \in Keys,
           inference[r], d = day[r], k = rowKey[r]
    PROVE  Cardinality(Observed(d, k)') = Cardinality(Observed(d, k)) + (IF usage THEN 1 ELSE 0)
<1>1. /\ status' = [status EXCEPT ![r] = outcome] /\ observed' = [observed EXCEPT ![r] = usage]
      /\ UNCHANGED <<rowKey, inference, day>>
  BY Zenon DEF FinalizeRequest
<1>2. r \notin Observed(d, k)
  BY Zenon DEF Observed, Ended, Outcomes
<1>3. IsFiniteSet(Observed(d, k))
  BY Zenon, FiniteEnded
<1>4. CASE usage
  <2>1. Observed(d, k)' = Observed(d, k) \cup {r}
    BY Zenon, <1>1, <1>4 DEF Observed, Ended, RowsInv
  <2>2. Cardinality(Observed(d, k) \cup {r}) = Cardinality(Observed(d, k)) + 1
    BY ZenonT(60), <1>2, <1>3, FS_AddElement
  <2> QED
    BY Zenon, <1>4, <2>1, <2>2
<1>5. CASE ~usage
  <2>1. Observed(d, k)' = Observed(d, k)
    BY Zenon, <1>1, <1>2, <1>5 DEF Observed, Ended, RowsInv, Outcomes
  <2>2. Cardinality(Observed(d, k)) \in Nat
    BY Zenon, <1>3, FS_CardinalityType
  <2> QED
    BY <1>5, <2>1, <2>2
<1> QED
  BY Zenon, <1>4, <1>5

LEMMA DailyKept == ASSUME IInv, DailyIsExact, [Next]_vars PROVE DailyIsExact'
<1>0. RowsInv
  BY Zenon DEF IInv
<1>1. ASSUME UNCHANGED <<status, rowKey, inference, day, observed, daily, floor>>
      PROVE  DailyIsExact'
  <2>1. \A d, k, set : Ended(d, k, set)' = Ended(d, k, set)
    BY Zenon, <1>1 DEF Ended
  <2> QED
    BY <1>1, <2>1 DEF DailyIsExact
<1>2. ASSUME NEW r \in Requests, NEW k \in Keys, NEW i \in BOOLEAN, InsertRow(r, k, i)
      PROVE  DailyIsExact'
  <2>1. UNCHANGED <<observed, daily, floor>>
    BY Zenon, <1>2 DEF InsertRow
  <2>2. ASSUME NEW d, NEW j, NEW set \in SUBSET Outcomes
        PROVE  Ended(d, j, set)' = Ended(d, j, set)
    BY Zenon, <1>0, <1>2 DEF Ended, InsertRow, RowsInv, Outcomes
  <2>3. {"completed"} \in SUBSET Outcomes /\ {"upstream_error"} \in SUBSET Outcomes
        /\ {"client_disconnected"} \in SUBSET Outcomes
    BY Zenon DEF Outcomes
  <2>4. \A d, j : /\ Ended(d, j, Outcomes)' = Ended(d, j, Outcomes)
                 /\ Ended(d, j, {"completed"})' = Ended(d, j, {"completed"})
                 /\ Ended(d, j, {"upstream_error"})' = Ended(d, j, {"upstream_error"})
                 /\ Ended(d, j, {"client_disconnected"})' = Ended(d, j, {"client_disconnected"})
    BY Zenon, <2>2, <2>3
  <2> QED
    BY <2>1, <2>4 DEF DailyIsExact
<1>3. ASSUME NEW r \in Requests, NEW outcome \in Outcomes, NEW usage \in BOOLEAN,
             FinalizeRequest(r, outcome, usage), status[r] = "in_progress"
      PROVE  DailyIsExact'
  <2> SUFFICES ASSUME NEW d \in Days, NEW k \in Keys, d >= floor
               PROVE  /\ daily'[d][k].requests = Cardinality(Ended(d, k, Outcomes)')
                      /\ daily'[d][k].completed = Cardinality(Ended(d, k, {"completed"})')
                      /\ daily'[d][k].errors = Cardinality(Ended(d, k, {"upstream_error"})')
                      /\ daily'[d][k].disconnected = Cardinality(Ended(d, k, {"client_disconnected"})')
                      /\ daily'[d][k].observed = Cardinality(Observed(d, k)')
    BY Zenon, <1>3 DEF DailyIsExact, FinalizeRequest, Observed
  <2>0. {"completed"} \in SUBSET Outcomes /\ {"upstream_error"} \in SUBSET Outcomes
        /\ {"client_disconnected"} \in SUBSET Outcomes
    BY Zenon DEF Outcomes
  <2>3. /\ daily[d][k].requests = Cardinality(Ended(d, k, Outcomes))
        /\ daily[d][k].completed = Cardinality(Ended(d, k, {"completed"}))
        /\ daily[d][k].errors = Cardinality(Ended(d, k, {"upstream_error"}))
        /\ daily[d][k].disconnected = Cardinality(Ended(d, k, {"client_disconnected"}))
        /\ daily[d][k].observed = Cardinality(Observed(d, k))
    BY Zenon DEF DailyIsExact, Observed
  <2>5. CASE inference[r] /\ d = day[r] /\ k = rowKey[r]
    <3>1. daily'[d][k] =
             [requests |-> daily[d][k].requests + 1,
              completed |-> daily[d][k].completed + (IF outcome = "completed" THEN 1 ELSE 0),
              errors |-> daily[d][k].errors + (IF outcome = "upstream_error" THEN 1 ELSE 0),
              disconnected |-> daily[d][k].disconnected + (IF outcome = "client_disconnected" THEN 1 ELSE 0),
              observed |-> daily[d][k].observed + (IF usage THEN 1 ELSE 0)]
      BY <1>0, <1>3, <2>5 DEF FinalizeRequest, AddDailyUsage, CountedOrPrewarm, RowsInv
    <3>2. daily'[d][k].requests = Cardinality(Ended(d, k, Outcomes)')
      <4>1. daily'[d][k].requests = daily[d][k].requests + 1
        BY <3>1
      <4>2. Cardinality(Ended(d, k, Outcomes)') = Cardinality(Ended(d, k, Outcomes)) + 1
        BY <1>0, <1>3, <2>5, EndHere
      <4> QED
        BY Zenon, <2>3, <4>1, <4>2
    <3>3. daily'[d][k].completed = Cardinality(Ended(d, k, {"completed"})')
      <4>1. daily'[d][k].completed = daily[d][k].completed + (IF outcome = "completed" THEN 1 ELSE 0)
        BY <3>1
      <4>2. Cardinality(Ended(d, k, {"completed"})') = Cardinality(Ended(d, k, {"completed"}))
              + (IF outcome = "completed" THEN 1 ELSE 0)
        <5>1. CASE outcome = "completed"
          <6>1. outcome \in {"completed"}
            BY Zenon, <5>1
          <6>2. Cardinality(Ended(d, k, {"completed"})') = Cardinality(Ended(d, k, {"completed"})) + 1
            BY <1>0, <1>3, <2>0, <2>5, <6>1, EndHere
          <6> QED
            BY Zenon, <5>1, <6>2
        <5>2. CASE outcome # "completed"
          <6>1. Ended(d, k, {"completed"})' = Ended(d, k, {"completed"})
            BY <1>0, <1>3, <2>0, <5>2, EndElsewhere
          <6>2. Cardinality(Ended(d, k, {"completed"})) \in Nat
            BY Zenon, <1>0, <2>0, FiniteEnded, FS_CardinalityType
          <6> QED
            BY <5>2, <6>1, <6>2
        <5> QED
          BY Zenon, <5>1, <5>2
      <4> QED
        BY Zenon, <2>3, <4>1, <4>2
    <3>4. daily'[d][k].errors = Cardinality(Ended(d, k, {"upstream_error"})')
      <4>1. daily'[d][k].errors = daily[d][k].errors + (IF outcome = "upstream_error" THEN 1 ELSE 0)
        BY <3>1
      <4>2. Cardinality(Ended(d, k, {"upstream_error"})') = Cardinality(Ended(d, k, {"upstream_error"}))
              + (IF outcome = "upstream_error" THEN 1 ELSE 0)
        <5>1. CASE outcome = "upstream_error"
          <6>1. outcome \in {"upstream_error"}
            BY Zenon, <5>1
          <6>2. Cardinality(Ended(d, k, {"upstream_error"})') = Cardinality(Ended(d, k, {"upstream_error"})) + 1
            BY <1>0, <1>3, <2>0, <2>5, <6>1, EndHere
          <6> QED
            BY Zenon, <5>1, <6>2
        <5>2. CASE outcome # "upstream_error"
          <6>1. Ended(d, k, {"upstream_error"})' = Ended(d, k, {"upstream_error"})
            BY <1>0, <1>3, <2>0, <5>2, EndElsewhere
          <6>2. Cardinality(Ended(d, k, {"upstream_error"})) \in Nat
            BY Zenon, <1>0, <2>0, FiniteEnded, FS_CardinalityType
          <6> QED
            BY <5>2, <6>1, <6>2
        <5> QED
          BY Zenon, <5>1, <5>2
      <4> QED
        BY Zenon, <2>3, <4>1, <4>2
    <3>5. daily'[d][k].disconnected = Cardinality(Ended(d, k, {"client_disconnected"})')
      <4>1. daily'[d][k].disconnected = daily[d][k].disconnected + (IF outcome = "client_disconnected" THEN 1 ELSE 0)
        BY <3>1
      <4>2. Cardinality(Ended(d, k, {"client_disconnected"})') = Cardinality(Ended(d, k, {"client_disconnected"}))
              + (IF outcome = "client_disconnected" THEN 1 ELSE 0)
        <5>1. CASE outcome = "client_disconnected"
          <6>1. outcome \in {"client_disconnected"}
            BY Zenon, <5>1
          <6>2. Cardinality(Ended(d, k, {"client_disconnected"})') = Cardinality(Ended(d, k, {"client_disconnected"})) + 1
            BY <1>0, <1>3, <2>0, <2>5, <6>1, EndHere
          <6> QED
            BY Zenon, <5>1, <6>2
        <5>2. CASE outcome # "client_disconnected"
          <6>1. Ended(d, k, {"client_disconnected"})' = Ended(d, k, {"client_disconnected"})
            BY <1>0, <1>3, <2>0, <5>2, EndElsewhere
          <6>2. Cardinality(Ended(d, k, {"client_disconnected"})) \in Nat
            BY Zenon, <1>0, <2>0, FiniteEnded, FS_CardinalityType
          <6> QED
            BY <5>2, <6>1, <6>2
        <5> QED
          BY Zenon, <5>1, <5>2
      <4> QED
        BY Zenon, <2>3, <4>1, <4>2
    <3>6. daily'[d][k].observed = Cardinality(Observed(d, k)')
      <4>1. daily'[d][k].observed = daily[d][k].observed + (IF usage THEN 1 ELSE 0)
        BY <3>1
      <4>2. Cardinality(Observed(d, k)') = Cardinality(Observed(d, k)) + (IF usage THEN 1 ELSE 0)
        BY ZenonT(60), <1>0, <1>3, <2>5, ObserveOne
      <4> QED
        BY Zenon, <2>3, <4>1, <4>2
    <3> QED
      BY Zenon, <3>2, <3>3, <3>4, <3>5, <3>6
  <2>6. CASE ~(inference[r] /\ d = day[r] /\ k = rowKey[r])
    <3>1. daily'[d][k] = daily[d][k]
      BY <1>0, <1>3, <2>6 DEF FinalizeRequest, AddDailyUsage, CountedOrPrewarm, RowsInv
    <3>2. \A set \in SUBSET Outcomes : Ended(d, k, set)' = Ended(d, k, set)
      BY ZenonT(60), <1>0, <1>3, <2>6, EndElsewhere
    <3>3. /\ Ended(d, k, Outcomes)' = Ended(d, k, Outcomes)
          /\ Ended(d, k, {"completed"})' = Ended(d, k, {"completed"})
          /\ Ended(d, k, {"upstream_error"})' = Ended(d, k, {"upstream_error"})
          /\ Ended(d, k, {"client_disconnected"})' = Ended(d, k, {"client_disconnected"})
      BY Zenon, <2>0, <3>2
    <3>4. Observed(d, k)' = Observed(d, k)
      BY Zenon, <1>0, <1>3, <2>6, ObserveElsewhere
    <3> QED
      BY ZenonT(60), <2>3, <3>1, <3>3, <3>4
  <2> QED
    BY ZenonT(60), <2>5, <2>6
<1>4. ASSUME NEW cutoff \in Cutoffs, Aggregated(cutoff)
      PROVE  DailyIsExact'
  <2>1. \A d, k, set : Ended(d, k, set)' = Ended(d, k, set)
    BY Zenon, <1>4 DEF Aggregated, Ended
  <2>2. \A d \in Days : d >= floor' => d >= floor /\ daily'[d] = daily[d]
    BY <1>0, <1>4, ConstantsAssumption DEF Aggregated, RowsInv, Cutoffs, Days
  <2>3. UNCHANGED observed
    BY Zenon, <1>4 DEF Aggregated
  <2> QED
    BY <2>1, <2>2, <2>3 DEF DailyIsExact
<1>5. CASE UNCHANGED rows
  BY Zenon, <1>1, <1>5 DEF rows
<1>6. CASE RowStep
  <2>1. ASSUME NEW r \in Requests, NEW outcome \in Outcomes, NEW usage \in BOOLEAN,
               FinalizeRequest(r, outcome, usage)
        PROVE  DailyIsExact'
    <3>1. CASE status[r] # "in_progress"
      BY Zenon, <1>1, <2>1, <3>1 DEF FinalizeRequest
    <3> QED
      BY Zenon, <1>3, <2>1, <3>1
  <2>2. ASSUME NEW cutoff \in Cutoffs, PruneRows(cutoff)
        PROVE  DailyIsExact'
    BY Zenon, <1>1, <2>2 DEF PruneRows
  <2> QED
    BY Zenon, <1>2, <1>4, <1>5, <1>6, <2>1, <2>2 DEF RowStep
<1> QED
  BY Zenon, <1>5, <1>6, StepShape DEF IInv

\* The aggregates a report is made from count every ended inference once, on the day it started,
\* whoever ended it and however often the server died.
THEOREM DailyTheorem == Spec => []DailyIsExact
<1>1. Init => DailyIsExact
  <2> SUFFICES ASSUME Init PROVE DailyIsExact
    BY Zenon
  <2>1. \A d, k : \A set \in SUBSET Outcomes : Ended(d, k, set) = {}
    BY Zenon DEF Init, Ended, Outcomes
  <2>2. \A d, k : {r \in Ended(d, k, Outcomes) : observed[r]} = {}
    BY Zenon, <2>1
  <2> QED
    BY ZenonT(60), <2>1, <2>2, FS_EmptySet DEF Init, DailyIsExact, NoUsage, Outcomes
<1>2. IInv /\ DailyIsExact /\ [Next]_vars => DailyIsExact'
  BY Zenon, DailyKept
<1> QED
  BY <1>1, <1>2, Inductive, PTL DEF Spec
=============================================================================
