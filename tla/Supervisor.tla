----------------------------- MODULE Supervisor -----------------------------
(***************************************************************************)
(* The coordinator's supervisor of the core process                        *)
(* (coordinator/internal/adapter/supervisor.go): Start, the monitor that   *)
(* restarts a core that exited, and Close, which must leave no core        *)
(* behind.  A core that outlives a killed coordinator keeps the state      *)
(* directory's instance lock.                                              *)
(***************************************************************************)
EXTENDS Integers

CONSTANTS MaxFaults, MaxBackoff

VARIABLES
    monitor,    \* where Start, then the monitor, is
    started,    \* Start has returned the supervisor
    child,      \* the process of the core being started or watched
    readiness,  \* it has written its readiness record
    current,    \* s.current is set
    cancelled,  \* s.ctx is done
    closer,     \* where Close is
    backoff,    \* in units of the first delay
    orphan,     \* a core of a coordinator that was killed still runs
    faults      \* how many faults and interruptions are still to come

vars == <<monitor, started, child, readiness, current, cancelled, closer, backoff, orphan, faults>>

Places == {"spawn", "await", "publish", "watch", "clear", "backoff", "done"}

Init ==
    /\ monitor = "spawn" /\ started = FALSE /\ child = "none" /\ readiness = FALSE
    /\ current = FALSE /\ cancelled = FALSE /\ closer = "idle" /\ backoff = 1
    /\ orphan = FALSE /\ faults \in 0..MaxFaults

Alive == child \in {"booting", "ready"}
Fault == faults > 0 /\ faults' = faults - 1

\* Mutant: the monitor gives up as Start does.
StartFailedForGood == monitor' = "done" /\ UNCHANGED backoff

\* What an unsuccessful startCore leads to: Start gives up, the monitor tries again.
StartFailed ==
    /\ monitor' = IF started THEN "backoff" ELSE "done"
    /\ backoff' = IF 2 * backoff > MaxBackoff THEN MaxBackoff ELSE 2 * backoff

\* startCore: the command runs and has its token, unless the context is already done.
Spawn ==
    /\ monitor = "spawn" /\ readiness' = FALSE
    /\ \/ /\ ~cancelled /\ child' = "booting" /\ monitor' = "await"
          /\ UNCHANGED <<backoff, faults>>
       \/ cancelled /\ StartFailed /\ UNCHANGED <<child, faults>>
       \/ Fault /\ StartFailed /\ UNCHANGED child
    /\ UNCHANGED <<started, current, cancelled, closer, orphan>>

\* Mutant: the instance lock is not asked for.
ChildReadyAnyway ==
    /\ child = "booting"
    /\ child' = "ready" /\ readiness' = TRUE
    /\ UNCHANGED <<monitor, started, current, cancelled, closer, backoff, orphan, faults>>

\* server::run of the core: it writes its readiness once it has the instance lock.
ChildReady ==
    /\ child = "booting" /\ ~orphan
    /\ child' = "ready" /\ readiness' = TRUE
    /\ UNCHANGED <<monitor, started, current, cancelled, closer, backoff, orphan, faults>>

\* The core exits: by a fault, because another one has the instance lock, or because
\* exec.CommandContext kills it.
ChildExits ==
    /\ Alive /\ child' = "exited"
    /\ Fault \/ ((cancelled \/ (orphan /\ child = "booting")) /\ UNCHANGED faults)
    /\ UNCHANGED <<monitor, started, readiness, current, cancelled, closer, backoff, orphan>>

\* The select of startCore takes any case that is ready; an abandoned child is killed and
\* waited for.
AwaitReadiness ==
    /\ monitor = "await"
    /\ \/ readiness /\ monitor' = "publish" /\ UNCHANGED <<child, backoff, faults>>
       \/ /\ cancelled \/ (child = "exited" /\ ~readiness)
          /\ child' = "none" /\ StartFailed /\ UNCHANGED faults
       \/ Fault /\ child' = "none" /\ StartFailed
    /\ UNCHANGED <<started, readiness, current, cancelled, closer, orphan>>

Publish ==
    /\ monitor = "publish" /\ monitor' = "watch"
    /\ current' = TRUE /\ started' = TRUE /\ backoff' = 1
    /\ UNCHANGED <<child, readiness, cancelled, closer, orphan, faults>>

\* The monitor's outer select: cancelled, it kills the core and joins it.
Watch ==
    /\ monitor = "watch"
    /\ \/ cancelled /\ monitor' = "done" /\ child' = "none"
       \/ child = "exited" /\ monitor' = "clear" /\ child' = "none"
    /\ UNCHANGED <<started, readiness, current, cancelled, closer, backoff, orphan, faults>>

Clear ==
    /\ monitor = "clear" /\ monitor' = "backoff" /\ current' = FALSE
    /\ UNCHANGED <<started, child, readiness, cancelled, closer, backoff, orphan, faults>>

\* The monitor's inner select; a context that is done is ready long before the timer.
Backoff ==
    /\ monitor = "backoff"
    /\ monitor' = IF cancelled THEN "done" ELSE "spawn"
    /\ UNCHANGED <<started, child, readiness, current, cancelled, closer, backoff, orphan, faults>>

MonitorStep == Spawn \/ AwaitReadiness \/ Publish \/ Watch \/ Clear \/ Backoff

\* Close: cancel, kill what is current, wait for the monitor.
Close ==
    /\ started /\ closer = "idle" /\ closer' = "kill" /\ cancelled' = TRUE
    /\ UNCHANGED <<monitor, started, child, readiness, current, backoff, orphan, faults>>

CloseKill ==
    /\ closer = "kill" /\ closer' = "join"
    /\ child' = IF current /\ Alive THEN "exited" ELSE child
    /\ UNCHANGED <<monitor, started, readiness, current, cancelled, backoff, orphan, faults>>

CloseJoin ==
    /\ closer = "join" /\ monitor = "done" /\ closer' = "closed"
    /\ UNCHANGED <<monitor, started, child, readiness, current, cancelled, backoff, orphan, faults>>

CloseStep == CloseKill \/ CloseJoin

\* The context given to Start ends.
ParentCancel ==
    /\ ~cancelled /\ Fault /\ cancelled' = TRUE
    /\ UNCHANGED <<monitor, started, child, readiness, current, closer, backoff, orphan>>

\* The coordinator is killed and started again; its core stays behind.
CoordinatorKilled ==
    /\ Fault /\ ~orphan /\ orphan' = Alive
    /\ monitor' = "spawn" /\ started' = FALSE /\ child' = "none" /\ readiness' = FALSE
    /\ current' = FALSE /\ cancelled' = FALSE /\ closer' = "idle" /\ backoff' = 1

OrphanExits ==
    /\ orphan /\ orphan' = FALSE
    /\ UNCHANGED <<monitor, started, child, readiness, current, cancelled, closer, backoff, faults>>

\* After an unsuccessful Start the service manager starts the coordinator again.
Restart ==
    /\ monitor = "done" /\ ~started
    /\ monitor' = "spawn" /\ backoff' = 1 /\ cancelled' = FALSE
    /\ UNCHANGED <<started, child, readiness, current, closer, orphan, faults>>

Next ==
    \/ MonitorStep \/ ChildReady \/ ChildExits
    \/ Close \/ CloseStep \/ ParentCancel \/ CoordinatorKilled \/ OrphanExits \/ Restart
=============================================================================
