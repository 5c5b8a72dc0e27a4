---------------------------- MODULE Continuation ----------------------------
(***************************************************************************)
(* What one WebSocket of the core remembers between creates                *)
(* (responses_websocket_state.rs and its parts): the operation that is     *)
(* planned or active, and the baseline a later create may build on, so     *)
(* that only the new input need be sent.  The operators take the state c   *)
(* and return the next one.                                                *)
(*                                                                         *)
(* A create is [input, thread, props, explicit, rebuilt, comp, lead,       *)
(* over]: its items, its thread, the properties that reuse compares,       *)
(* whether it carries state of its own, whether the store rebuilt its      *)
(* history, whether it is a compaction that must produce a compaction      *)
(* item, how many items a setup may send ahead, and which of its frames    *)
(* exceed the limit: that of a setup, the full one, the addition.          *)
(***************************************************************************)
EXTENDS ResponseOperation, SequencesExt

Reusable(item) == item.kind # "odd"
WithinBudget(item) == item.body # "big"

NewContinuation(auto) ==
    [auto |-> auto, rebuilt |-> FALSE, baseline |-> None, token |-> FALSE, planned |-> None,
     active |-> None, setup |-> "idle", public |-> "idle"]

Reset(c) == NewContinuation(c.auto)

SetPhase(c, kind, phase) ==
    IF kind = "setup" THEN [c EXCEPT !.setup = phase] ELSE [c EXCEPT !.public = phase]

PublicCreateInFlight(c) == c.public \in {"attempted", "observed"}

FailActive(c, kind) ==
    SetPhase([c EXCEPT !.token = @ /\ kind # "setup", !.active = None, !.planned = None,
                       !.baseline = None], kind, "failed")

FailOperation(c, kind) ==
    LET keep(o) == IF o = None THEN None ELSE IF o.kind = kind THEN None ELSE o
    IN  SetPhase([c EXCEPT !.token = @ /\ kind # "setup", !.active = keep(@),
                           !.planned = keep(@), !.baseline = None], kind, "failed")

AbandonPending(c) ==
    IF c.active # None THEN FailOperation(c, c.active.kind)
    ELSE IF c.planned # None THEN FailOperation(c, c.planned.kind) ELSE c

\* abandon_output
Unreusable(active) == [active EXCEPT !.out = <<>>, !.reusable = FALSE]

\* abandon_cached_bodies: the context store is over its budget.
AbandonBodies(c) ==
    [c EXCEPT !.baseline = None,
              !.active = IF @ = None THEN None ELSE Unreusable([@ EXCEPT !.req = None]),
              !.planned = IF @ = None THEN None ELSE [@ EXCEPT !.req = None]]

\* request_snapshot
Snapshot(create) ==
    IF \A i \in DOMAIN create.input : Reusable(create.input[i])
    THEN [thread |-> create.thread, props |-> create.props, input |-> create.input] ELSE None

\* incremental_input: what the baseline does not hold yet, or None.
IncrementalInput(baseline, req) ==
    LET held == baseline.req.input \o baseline.out
    IN  IF /\ baseline.req.thread = req.thread /\ baseline.req.props = req.props
           /\ IsPrefix(held, req.input)
        THEN SubSeq(req.input, Len(held) + 1, Len(req.input)) ELSE None

MayPlanHiddenSetup(c, create) ==
    /\ c.auto /\ ~c.rebuilt /\ ~create.explicit /\ c.setup = "idle"
    /\ c.baseline = None /\ c.planned = None /\ c.active = None
    /\ Snapshot(create) # None

PlanHiddenSetup(c, create) ==
    LET ahead == [create EXCEPT !.input = SubSeq(@, 1, create.lead)]
    IN  [c EXCEPT !.planned = [kind |-> "setup", req |-> Snapshot(ahead), comp |-> FALSE],
                  !.setup = "planned"]

\* plan_public_create_with_state: the next state, and the frame: a full one, or the new input
\* on top of the response the baseline names.
PlanPublicCreate(c, create) ==
    LET d == AbandonPending(c)
        explicit == d.rebuilt \/ create.explicit
        req == IF d.auto /\ ~explicit THEN Snapshot(create) ELSE None
        delta == IF req = None \/ d.baseline = None THEN None
                 ELSE IncrementalInput(d.baseline, req)
    IN  [c |-> [d EXCEPT !.rebuilt = FALSE, !.public = "planned",
                         !.baseline = IF delta = None THEN None ELSE @,
                         !.planned = [kind |-> "public", req |-> req, comp |-> create.comp]],
         prev |-> IF delta = None THEN None ELSE d.baseline.rid,
         input |-> IF delta = None THEN create.input ELSE delta]

\* plan_public_text_with_observations: an addition that is too long falls back to the full
\* frame; None when that is too long as well.
PlanPublicText(c, create) ==
    LET plan == PlanPublicCreate(c, create)
        full == PlanPublicCreate(FailOperation(plan.c, "public"), create)
    IN  IF plan.prev # None /\ "delta" \notin create.over THEN plan
        ELSE IF "full" \in create.over THEN None
        ELSE IF plan.prev = None THEN plan ELSE full

\* activate
MayActivate(c, kind) == c.planned # None /\ c.planned.kind = kind /\ c.active = None

Activate(c, kind) ==
    SetPhase([c EXCEPT !.planned = None,
                       !.active = [kind |-> kind, req |-> c.planned.req, comp |-> c.planned.comp,
                                   out |-> <<>>, compactions |-> <<>>, life |-> NoOutput,
                                   intr |-> NoInterrupt, reusable |-> TRUE]], kind, "attempted")

\* request_interrupt
MayRequestInterrupt(c, rid) ==
    /\ c.active # None
    /\ c.active.kind = "public" /\ ~c.active.comp /\ MayInterrupt(c.active.intr, rid)

RequestInterrupt(c) == [c EXCEPT !.active.intr.asked = TRUE]

\* ------------------------------------------------------------ server events
ObserveOutputItem(active, ev) ==
    LET a == IF IsCompaction(ev.item) THEN [active EXCEPT !.compactions = Append(@, ev.item)]
             ELSE active
        i == IF ev.idx # None THEN ev.idx ELSE Cardinality(DOMAIN a.out)
    IN  IF ~a.reusable THEN a
        ELSE IF \/ ~Reusable(ev.item) \/ ~WithinBudget(ev.item) \/ i >= MaxItems
                \/ (i \in DOMAIN a.out /\ a.out[i] # ev.item)
             THEN Unreusable(a)
        ELSE [a EXCEPT !.out = (i :> ev.item) @@ @]

\* Mutant: an output the continuation did not keep whole is built on all the same.
CompleteRegardless(c, ev) ==
    LET a == c.active
    IN  IF ~CompletedProves(a.life, ev) THEN FailActive(c, a.kind)
        ELSE SetPhase([c EXCEPT !.active = None,
                                !.baseline = IF a.req = None THEN None
                                             ELSE [req |-> a.req, rid |-> ev.rid,
                                                   out |-> InOrder(a.out)]], a.kind, "completed")

\* complete_active
Complete(c, ev) ==
    LET a == c.active
        proved == IF Completes(a.intr, ev) THEN InterruptedProves(a.life, ev.out, a.out)
                  ELSE CompletedProves(a.life, ev)
        collected == InOrder(a.out)
        footer == Populated(ev.out)
        agrees == footer => /\ \A i \in DOMAIN ev.out : Reusable(ev.out[i]) /\ WithinBudget(ev.out[i])
                            /\ Len(ev.out) <= MaxItems
                            /\ a.out = <<>> \/ collected = ev.out
        reusable == a.reusable /\ agrees /\ CompactionAccepted(a, ev.out) /\ a.req # None
    IN  IF ~proved THEN FailActive(c, a.kind)
        ELSE SetPhase([c EXCEPT !.active = None,
                                !.baseline = IF ~reusable THEN None
                                             ELSE [req |-> a.req, rid |-> ev.rid,
                                                   out |-> IF footer /\ a.out = <<>> THEN ev.out
                                                           ELSE collected]], a.kind, "completed")

\* observe_server_event_with_compaction.  An event without a type (untyped) only makes the
\* response one that nothing is built on.
ObserveServerEvent(c, ev) ==
    LET kind == c.active.kind
        life == Observe(c.active.life, ev, MaxItems, c.active.intr.asked)
        d == SetPhase([c EXCEPT !.token = @ \/ (kind = "setup" /\ ev.type = "metadata")],
                      kind, "observed")
        e == [d EXCEPT !.active.life = life, !.active.intr = Interrupt(@, ev)]
    IN  IF c.active = None THEN c
        ELSE IF ev.type = "untyped" THEN [d EXCEPT !.active.reusable = FALSE]
        ELSE IF ~InterruptFits(c.active.intr, ev) \/ ~DoneIsFinished(ev) \/ life.broken
             THEN FailActive(d, kind)
        ELSE CASE ev.type = "done" -> [e EXCEPT !.active = ObserveOutputItem(@, ev)]
               [] ev.type = "completed" \/ Completes(e.active.intr, ev) -> Complete(e, ev)
               [] ev.type \in {"failed", "incomplete", "error"} /\ ~Completes(e.active.intr, ev) ->
                      FailActive(e, kind)
               [] OTHER -> e
=============================================================================
