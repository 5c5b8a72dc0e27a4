---------------------------- MODULE CoreService ----------------------------
(***************************************************************************)
(* The core process under its supervisor, and the state directory it       *)
(* shares with credential commands: Supervisor decides when the core of    *)
(* Vault runs.                                                             *)
(***************************************************************************)
EXTENDS Vault

CONSTANTS MaxFaults, MaxBackoff

ASSUME ServiceAssumption == MaxFaults \in Nat /\ MaxBackoff \in Nat \ {0}

VARIABLES monitor, started, child, readiness, current, cancelled, closer, backoff, orphan, faults

Sup == INSTANCE Supervisor

service == <<monitor, started, child, readiness, current, cancelled, closer, backoff, orphan, faults>>
all == <<vars, service>>

ServiceInit ==
    /\ Init
    /\ monitor = (IF world.up THEN "watch" ELSE "spawn") /\ started = world.up
    /\ child = (IF world.up THEN "ready" ELSE "none") /\ readiness = world.up
    /\ current = world.up /\ cancelled = FALSE /\ closer = "idle" /\ backoff = 1
    /\ orphan = FALSE /\ faults = world.faults

\* What a step of the supervisor does to the core's tasks.
CoreFollows ==
    \/ ~orphan /\ orphan' /\ CoreOrphaned
    \/ orphan /\ ~orphan' /\ OrphanGone
    \/ /\ orphan' = orphan
       /\ \/ Sup!Alive /\ ~Sup!Alive' /\ CoreDies
          \/ ~Sup!Alive /\ Sup!Alive' /\ BootCore
          \/ child = "booting" /\ child' = "ready" /\ CoreReady
          \/ (child' = child \/ ~(Sup!Alive \/ Sup!Alive')) /\ UNCHANGED vars

Supervise == Sup!MonitorStep /\ CoreFollows
CoreGetsReady == Sup!ChildReady /\ CoreFollows
CoreExits == Sup!ChildExits /\ CoreFollows
ClosingStep == Sup!CloseStep /\ CoreFollows
Disrupt ==
    /\ "close" \in world.inputs
    /\ Sup!Close \/ Sup!ParentCancel \/ Sup!CoordinatorKilled
    /\ CoreFollows
Recover == (Sup!OrphanExits \/ Sup!Restart) /\ CoreFollows

\* Forward takes the core that is current.
Use == (\A t \in Requests' \ Requests : current) /\ UNCHANGED service

Over == closer = "closed" \/ (monitor = "watch" /\ child = "ready" /\ \A t \in Tasks : ~Running(t))
Quiet == Over /\ UNCHANGED all

ServiceNext ==
    \/ Next /\ Use
    \/ Supervise \/ CoreGetsReady \/ CoreExits \/ ClosingStep \/ Disrupt \/ Recover
    \/ Quiet

\* Goroutines and processes run, file locks go to waiters, a context that is done kills its
\* process, and a core that may have the instance lock gets ready in time unless it dies.
Fairness ==
    /\ WF_all(((\E t \in Tasks : TaskStep(t)) \/ OpenStep(Core)) /\ UNCHANGED service)
    /\ WF_all(Supervise \/ CoreGetsReady \/ ClosingStep)

Spec == ServiceInit /\ [][ServiceNext]_all /\ Fairness
-----------------------------------------------------------------------------
\* Only one core serves a state directory, also after a coordinator was killed; and once Close
\* has returned no core runs on it and nothing of it can still write there, so that callers may
\* remove it.
OneCore ==
    /\ ~(orphan /\ pc[Core] = "up")
    /\ closer = "closed" /\ started =>
           /\ pc[Core] = "idle" /\ ~Sup!Alive
           /\ (\A t \in Requests : ~Running(t)) /\ (orphan \/ detached = {})

\* A core that exits is replaced, unless the service is being stopped or is down for good; and
\* Close returns, whatever the monitor is doing.
CoreComesBack ==
    /\ monitor = "clear" ~> (child = "ready" /\ current) \/ cancelled \/ ~started
    /\ closer = "kill" ~> closer = "closed" \/ ~started
=============================================================================
