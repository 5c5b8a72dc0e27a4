------------------------- MODULE IdentityResolution -------------------------
(***************************************************************************)
(* resolve_and_project: from what a request says of itself (its evidence)  *)
(* to entries of the identity ledger.  Operators only.                     *)
(*                                                                         *)
(* Evidence is a record r: the raw identifiers inst, conv, thread, parent, *)
(* fork, turn, root, pturn (None when absent), sub (a subagent is named),  *)
(* kind and reviewer, win (an explicit window), new (its input starts a    *)
(* turn), call (the turn of the call its trailing result answers), hist    *)
(* (the turn of a history item), replay (the full history is self-         *)
(* contained and anonymous), item (an input item gets an identifier).      *)
(* A plan p has the retained context the request continues, or None, and   *)
(* the sessions of the retained and the active contexts.                   *)
(***************************************************************************)
EXTENDS IdentityLedger

\* The `?` of every call: what follows a failure is not evaluated.
Then(e, F(_)) == IF e.ok THEN F(e) ELSE e

\* The identifier of the entry a lookup found.
Found(e, k) == Given(e, e.s[k][e.v].id)

Lineage(r) == r.sub \/ r.parent # None
IsClassifier(r) == r.kind = "guardian_classifier"

\* ----------------------------------------------------------------- threads
ResolveConversation(e, raw) ==
    LET known == ById(e, "conv", raw)
        session == ExistingWireFromDownstream(known, "session", raw)
        projected == IF session.v = None THEN session ELSE ById(session, "conv", session.v)
        thread == ExistingWireFromDownstream(projected, "thread", raw)
        reserved == IF session.v # None THEN session.v ELSE thread.v
        child == ById(thread, "child", reserved)
    IN  IF known.v # None THEN Found(known, "conv")
        ELSE IF projected.v # None THEN Found(projected, "conv")
        ELSE IF child.v # None THEN Fail(child)
        ELSE ConversationWithId(child, <<"conversation", raw>>, reserved)

ResolveForkReference(e, raw) ==
    LET conversation == ById(e, "conv", raw)
        child == ById(conversation, "child", raw)
        thread == ExistingWireFromDownstream(child, "thread", raw)
        session == ExistingWireFromDownstream(thread, "session", raw)
        id == Uuids[session.n + 1]
    IN  IF conversation.v # None THEN Given(conversation, raw)
        ELSE IF child.v # None THEN Given(child, raw)
        ELSE IF thread.v # None THEN thread
        ELSE IF session.v # None THEN session
        ELSE Given(BindWirePair([session EXCEPT !.n = @ + 1], "thread", raw, id), id)

\* The key of the child, or None.
ResolveExistingChild(e, raw) ==
    LET known == ById(e, "child", raw)
        projected == ExistingWireFromDownstream(known, "thread", raw)
    IN  IF known.v # None THEN known
        ELSE IF projected.v = None THEN projected
        ELSE ById(projected, "child", projected.v)

ResolveThreadReference(e, raw, session) ==
    LET key == <<"thread", raw>>
        isChild(f) == Ensure(Found(f, "child"), f.s.child[f.v].session = session)
        reserve(f) == ChildThreadWithId(f, key, session, session, f.v)
    IN  IF raw = session THEN Given(e, session)
        ELSE Then(ResolveExistingChild(e, raw), LAMBDA child :
               IF child.v # None THEN isChild(child)
               ELSE Then(ExistingWireFromDownstream(child, "session", raw), LAMBDA root :
                      IF root.v # None THEN Ensure(root, root.v = session)
                      ELSE IF Has(root, "child", key) THEN isChild(Given(Touch(root, "child", key), key))
                      ELSE reserve(ExistingWireFromDownstream(root, "thread", raw))))

\* The child thread a request with a lineage runs on.
ResolveChild(e, r, session, parent) ==
    LET known == ResolveExistingChild(e, r.thread)
        reserved == ExistingWireFromDownstream(known, "thread", r.thread)
        root == ById(reserved, "conv", reserved.v)
    IN  IF r.thread = None
        THEN ChildThreadWithId(e, <<"thread-fallback", session, parent, r.kind>>, session, parent, None)
        ELSE IF known.v # None
             THEN Ensure(Found(known, "child"),
                         /\ known.s.child[known.v].session = session
                         /\ known.s.child[known.v].parent = parent)
        ELSE IF root.v # None THEN Fail(root)
        ELSE ChildThreadWithId(root, <<"thread", r.thread>>, session, parent, reserved.v)

\* resolve_thread.  An owner is given only if the conversation came from it.
ResolveThread(e, r, session, owner) ==
    LET at(f, id, parent, fork) == Given(f, [id |-> id, parent |-> parent, fork |-> fork])
        parent(f) == IF r.parent \in {None, r.conv} THEN Given(f, session)
                     ELSE ResolveThreadReference(f, r.parent, session)
    IN  Then(IF r.fork = None THEN Given(e, None) ELSE ResolveForkReference(e, r.fork), LAMBDA f :
          IF Lineage(r)
          THEN Then(parent(f), LAMBDA g : Then(ResolveChild(g, r, session, g.v), LAMBDA h :
                                                 at(h, h.v, g.v, f.v)))
          ELSE IF owner = None \/ owner.thread = session THEN at(f, session, None, f.v)
          ELSE Then(ById(f, "child", owner.thread), LAMBDA g :
                 IF g.v = None \/ SessionOf(e.s, owner.thread) # session THEN Fail(g)
                 ELSE at(g, owner.thread, ParentOf(e.s, owner.thread), f.v)))

\* -------------------------------------------------------------- turns
HistoryThreadAllowed(s, owner, identity) ==
    \/ IsAncestor(s, owner, identity.thread)
    \/ identity.fork # None /\ IsAncestor(s, owner, identity.fork)

TurnKeyForRaw(e, raw) ==
    LET projected(f) == IF f.v # None THEN f ELSE Given(f, <<"turn", raw>>)
        wire(f) == projected(ById(f, "turn", f.v))
    IN  Then(ById(e, "turn", raw), LAMBDA f :
               IF f.v # None THEN f ELSE wire(ExistingWireFromDownstream(f, "turn", raw)))

\* HistoryImport::resolve_turn: the copy of a historical turn that this thread, or an ancestor
\* of it or of its fork source, holds; or a new copy, if the history may be imported.
ImportedKey(thread, source) == <<"imported", thread, source>>
ResolveImportedTurn(e, r, p, source, thread, fork) ==
    LET owners == Ancestry(e.s, thread) \cup (IF fork = None THEN {} ELSE Ancestry(e.s, fork))
        copies == {ImportedKey(t, source) : t \in owners} \cap DOMAIN e.s.turn
        copy == CHOOSE key \in copies : TRUE
        busy == SessionOf(e.s, e.s.turn[CHOOSE key \in Keyed(e.s, "turn", source) : TRUE].thread) \in p.busy
        made == TurnWithId(e, ImportedKey(thread, source), thread, None, None, None)
    IN  IF copies # {} THEN Given(Touch(e, "turn", copy), e.s.turn[copy].id)
        ELSE IF ~r.replay \/ busy THEN Given(e, None)
        ELSE Then(made, LAMBDA f : LET id == f.s.turn[f.v].id
                                   IN  Given(WireFromUpstream(f, "turn", id), id))

\* The turn whose call the trailing result answers, if this thread may continue it.
ContinuedTurn(e, r, p, thread, fork) ==
    LET threadOf(s, id) == s.turn[CHOOSE key \in Keyed(s, "turn", id) : TRUE].thread
        own(f) == IF f.v = None \/ threadOf(f.s, f.v) = thread THEN f ELSE Given(f, None)
        continue(f, source) ==
            IF source.thread = thread THEN Given(f, source.id)
            ELSE Then(ResolveImportedTurn(f, r, p, source.id, thread, fork), own)
    IN  IF r.call = None THEN Given(e, None)
        ELSE Then(TurnKeyForRaw(e, r.call), LAMBDA f :
                    IF Has(f, "turn", f.v) THEN continue(f, f.s.turn[f.v]) ELSE Given(f, None))

\* current_turn, and before it the prewarm that has none: the raw turn, or None.
CurrentTurnRaw(e, r, p, thread, fork) ==
    LET fresh(f) == Given([f EXCEPT !.n = @ + 1], Uuids[f.n + 1])
        base == p.base
    IN  IF r.kind = "prewarm" THEN Given(e, None)
        ELSE IF r.turn # None THEN Given(e, r.turn)
        ELSE IF r.kind = "memory" THEN Given(e, None)
        ELSE IF r.new THEN fresh(e)
        ELSE IF base # None /\ base.thread = thread /\ base.turn # None THEN Given(e, base.turn)
        ELSE IF base # None /\ base.thread # thread
             THEN Given(e, <<"continuation", thread, base.down>>)
        ELSE Then(ContinuedTurn(e, r, p, thread, fork), LAMBDA f :
                    IF f.v # None THEN f
                    ELSE IF CurrentTurnId(f.s, thread) # None THEN Given(f, CurrentTurnId(f.s, thread))
                    ELSE fresh(f))

AdmitTurn(e, r, key, thread, root, parent, reserved) ==
    IF IsClassifier(r) THEN ClassifierTurnWithId(e, key, thread, root, parent, reserved)
    ELSE TurnWithId(e, key, thread, root, parent, reserved)

\* A turn named as root or parent that is not known is placed in the session's root thread.
RootTurn(e, key, raw, thread, session) ==
    LET alias == ExistingWireFromDownstream(e, "turn", raw)
        known == alias.s.turn[key]
    IN  IF Has(alias, "turn", key)
        THEN Ensure(Given(Touch(alias, "turn", key), key),
                    known.id = known.root /\ known.parent = None /\ IsAncestor(e.s, known.thread, thread))
        ELSE TurnWithId(alias, key, session, None, None, alias.v)

ParentTurn(e, raw, rootkey, session) ==
    LET root == e.s.turn[rootkey].id
        known(f) == Given(f, f.s.turn[f.v].id)
        made(f, key) == Then(TurnWithId(f, key, session, root, root, f.v), known)
    IN  Then(TurnKeyForRaw(e, raw), LAMBDA f :
               IF f.v = rootkey THEN Given(f, root)
               ELSE IF Has(f, "turn", f.v)
                    THEN Ensure(known(Touch(f, "turn", f.v)), f.s.turn[f.v].root = root)
               ELSE made(ExistingWireFromDownstream(f, "turn", raw), f.v))

\* resolve_turn, with a lineage of turns
ResolveChildTurn(e, r, key, thread, session, reserved) ==
    LET inherits == (IsClassifier(r) \/ r.reviewer) /\ r.root = None
        first == IF inherits THEN TurnKeyForRaw(e, r.pturn) ELSE e
        raw(f) == IF r.root # None THEN r.root
                  ELSE IF inherits /\ Has(f, "turn", f.v) THEN f.s.turn[f.v].root
                  ELSE r.pturn
        parent(f, root) == IF r.pturn = None THEN Given(f, None) ELSE ParentTurn(f, r.pturn, root, session)
        below(f, root) == Then(parent(f, root), LAMBDA g :
                                 AdmitTurn(g, r, key, thread, f.s.turn[root].id, g.v, reserved))
        under(f, name) ==
            IF f.v = key THEN Then(Ensure(f, r.pturn = None), LAMBDA g :
                                     AdmitTurn(g, r, key, thread, None, None, reserved))
            ELSE Then(RootTurn(f, f.v, name, thread, session), LAMBDA g : below(g, f.v))
    IN  Then(first, LAMBDA f : under(TurnKeyForRaw(f, raw(f)), raw(f)))

\* resolve_turn: the key of the turn, or None for a request without one.
ResolveTurn(e, r, key, thread, session, reserved) ==
    IF r.kind = "prewarm" \/ (r.kind = "memory" /\ r.turn = None) THEN Given(e, None)
    ELSE IF r.pturn # None \/ (Lineage(r) /\ r.root # None)
         THEN ResolveChildTurn(e, r, key, thread, session, reserved)
    ELSE AdmitTurn(e, r, key, thread, None, None, reserved)

\* ------------------------------------------------------------------- items
\* project_item_turn
ProjectItemTurn(e, r, p, raw, identity) ==
    LET bound(f, id) == Given(BindWirePair(f, "turn", raw, id), id)
        unknown(f) == IF IsClassifier(r) THEN Fail(f)
                      ELSE IF f.v # None THEN bound(f, f.v)
                      ELSE bound([f EXCEPT !.n = @ + 1], Uuids[f.n + 1])
        known(f, turn) ==
            IF HistoryThreadAllowed(e.s, turn.thread, identity) THEN bound(f, turn.id)
            ELSE Then(ResolveImportedTurn(f, r, p, turn.id, identity.thread, identity.fork),
                      LAMBDA g : Ensure(g, g.v # None))
    IN  IF r.kind = "memory" THEN Given(e, raw)
        ELSE IF raw \in {None, identity.raw} THEN Given(e, identity.turn)
        ELSE Then(TurnKeyForRaw(e, raw), LAMBDA f :
                    IF Has(f, "turn", f.v) THEN known(f, f.s.turn[f.v])
                    ELSE unknown(ExistingWireFromDownstream(f, "turn", raw)))

\* project_items: a history item and an item of this request's own.
ProjectItem(e, r, p, raw, identity) ==
    Then(ProjectItemTurn(e, r, p, raw, identity),
         LAMBDA f : LET owner == ById(f, "turn", f.v)
                    IN  Given(GeneratedItem(owner, <<"generated-item", identity.thread, f.v, raw>>,
                                            IF owner.v = None THEN None ELSE f.v), f.v))
ProjectItems(e, r, p, identity) ==
    LET turns(f, past, own) == Given(f, {past, own, identity.turn} \ {None})
    IN  Then(IF r.hist = None THEN Given(e, None) ELSE ProjectItem(e, r, p, r.hist, identity), LAMBDA f :
               IF ~r.item THEN turns(f, f.v, None)
               ELSE Then(ProjectItem(f, r, p, None, identity), LAMBDA g : turns(g, f.v, g.v)))

\* ----------------------------------------------------------------- request
\* history_lineage: every turn of the continued history must be open to this thread.
HistoryLineage(e, p, identity) ==
    LET base == p.base
        open(t) == \A key \in Keyed(e.s, "turn", t) : HistoryThreadAllowed(e.s, e.s.turn[key].thread, identity)
    IN  IF base = None THEN e
        ELSE Ensure([e EXCEPT !.v = @ \cup base.turns],
                    HistoryThreadAllowed(e.s, base.thread, identity) /\ \A t \in base.turns : open(t))

\* The identifiers a request gives to its thread, its relatives and its turns.
BindCarriers(e, r, thread, turn, root, pturn) ==
    LET f == BindWirePair(e, "thread", r.thread, thread.id)
        g == BindWirePair(f, "thread", r.parent, thread.parent)
        h == BindWirePair(g, "thread", r.fork, thread.fork)
        i == BindWirePair(h, "turn", r.root, root)
    IN  BindWirePair(i, "turn", r.pturn, pturn)

\* Windows, and the marker of a compaction: the target, or None.
ResolveWindow(e, r, key, thread) ==
    IF r.kind = "compaction" THEN BeginCompaction(e, <<"compaction", thread, key>>, thread)
    ELSE Given(IF r.win = None THEN e ELSE ObserveWindowNumber(e, thread, r.win), None)

\* From the resolved turn on: f.v is its key, or None; key is the key its raw identifier has.
ProjectResolved(f, r, p, session, thread, raw, key) ==
    LET none == f.v = None
        turn == IF none THEN None ELSE f.s.turn[f.v].id
        root == IF none THEN None ELSE f.s.turn[f.v].root
        pturn == IF none THEN None ELSE f.s.turn[f.v].parent
        current(g) == IF none \/ IsClassifier(r) THEN g ELSE SetCurrentTurn(g, thread.id, turn)
        pending(target) == IF target = None THEN None
                           ELSE [key |-> <<"compaction", thread.id, key>>, target |-> target]
        identity == [session |-> session, thread |-> thread.id, fork |-> thread.fork,
                     turn |-> turn, raw |-> raw]
        admitted(g, target) == Given(g, [session |-> session, thread |-> thread.id, turn |-> turn,
                                         turns |-> g.v, pending |-> pending(target)])
    IN  Then(current(BindWirePair(f, "turn", raw, turn)), LAMBDA g :
          Then(BindCarriers(g, r, thread, turn, root, pturn), LAMBDA h :
            Then(ResolveWindow(h, r, key, thread.id), LAMBDA w :
              Then(ProjectItems(w, r, p, identity), LAMBDA i :
                Then(HistoryLineage(i, p, identity), LAMBDA j : admitted(j, w.v))))))

\* From the turn's raw identifier on.
ProjectTurn(e, r, p, session, thread, raw) ==
    LET resolved(f, key) ==
            Then(ResolveTurn(f, r, key, thread.id, session, f.v), LAMBDA g :
                   ProjectResolved(g, r, p, session, thread, raw, key))
    IN  IF raw = None THEN resolved(Given(e, None), None)
        ELSE Then(TurnKeyForRaw(e, raw), LAMBDA f :
                    resolved(ExistingWireFromDownstream(f, "turn", raw), f.v))

\* resolve_and_project: the identity the request is admitted under.
ResolveAndProject(e, r, p) ==
    LET inst == InstallationId(e, <<"installation", r.inst>>)
        bound == BindWirePair(inst, "inst", r.inst, inst.v)
        owned == IF p.base = None THEN Given(bound, None) ELSE RequiredResponseOwner(bound, p.base.down)
        conversation(f, owner) ==
            IF r.conv # None THEN ResolveConversation(f, r.conv)
            ELSE IF owner # None THEN Found(ById(f, "conv", owner.session), "conv")
            ELSE ConversationWithId([f EXCEPT !.n = @ + 1], <<"fallback", Uuids[f.n + 1]>>, None)
        threaded(f, owner) == ResolveThread(BindWirePair(f, "session", r.conv, f.v), r, f.v,
                                            IF r.conv = None THEN owner ELSE None)
        turned(f, session) ==
            Then(CurrentTurnRaw(f, r, p, f.v.id, f.v.fork),
                 LAMBDA g : ProjectTurn(g, r, p, session, f.v, g.v))
    IN  Then(owned, LAMBDA f :
          Then(conversation(f, f.v), LAMBDA g :
            Then(threaded(g, f.v), LAMBDA h : turned(h, g.v))))
=============================================================================
