--------------------------- MODULE IdentityLedger ---------------------------
(***************************************************************************)
(* The identity ledger of one API key (ScopeState) and what an edit of it  *)
(* is made of: the lookups and assignments of RequestStateEditor, the      *)
(* pruning that makes the result fit, and the validation that must accept  *)
(* it before it is written.  Operators only; IdentityState is the system.  *)
(*                                                                         *)
(* A private lookup key (an HMAC of a kind and its components) is the      *)
(* tuple it is the HMAC of.  A new UUID is the next of Uuids.  The reverse *)
(* index of the wire pairs is the inverse of the pairs.                    *)
(***************************************************************************)
EXTENDS Naturals, Sequences, FiniteSets, TLC

CONSTANTS
    None,       \* an absent identifier
    Uuids       \* the identifiers minted, in order

\* EntryKind
Kinds == {"inst", "conv", "child", "turn", "item", "marker", "wire"}

\* ScopeState::new
Empty == [k \in Kinds |-> <<>>]

\* RequestStateEditor: the ledger, the keys this edit uses and so protects, whether no check
\* failed, the last result, and the UUIDs minted.
Editor(s, day, n) == [s |-> s, day |-> day, prot |-> {}, ok |-> TRUE, v |-> None, n |-> n]

Fail(e) == [e EXCEPT !.ok = FALSE]
Ensure(e, condition) == IF condition THEN e ELSE Fail(e)
Given(e, v) == [e EXCEPT !.v = v]
Has(e, k, key) == key \in DOMAIN e.s[k]

\* touch_day, and the insertion into ProtectedStateKeys that goes with every use.
Touch(e, k, key) == [e EXCEPT !.s[k][key].day = e.day, !.prot = @ \cup {<<k, key>>}]
Insert(e, k, key, entry) == [e EXCEPT !.s[k] = (key :> entry) @@ @, !.prot = @ \cup {<<k, key>>}]

\* The keys of the entries with an identifier; more than one if two keys converged on it.
Keyed(s, k, id) == {key \in DOMAIN s[k] : s[k][key].id = id}
Ids(s, k) == {s[k][key].id : key \in DOMAIN s[k]}

\* conversation_by_id, child_thread_by_id, turn_by_id: the key, or None.
ById(e, k, id) ==
    LET keys == Keyed(e.s, k, id)
        key == CHOOSE key \in keys : TRUE
    IN  IF keys = {} THEN Given(e, None) ELSE Given(Touch(e, k, key), key)

\* Find the entry of a key, or make one with the reserved identifier or a new one.
Assign(e, k, key, reserved, Make(_)) ==
    IF Has(e, k, key) THEN e
    ELSE IF reserved # None THEN Insert(e, k, key, Make(reserved))
    ELSE Insert([e EXCEPT !.n = @ + 1], k, key, Make(Uuids[e.n + 1]))

InstallationId(e, key) ==
    LET f == Assign(e, "inst", key, None, LAMBDA id : [id |-> id, day |-> e.day])
    IN  Given(Touch(f, "inst", key), f.s.inst[key].id)

ConversationWithId(e, key, reserved) ==
    LET f == Assign(e, "conv", key, reserved,
                    LAMBDA id : [id |-> id, win |-> 0, cur |-> None, day |-> e.day])
    IN  Ensure(Given(Touch(f, "conv", key), f.s.conv[key].id),
               reserved \in {None, f.s.conv[key].id})

ChildThreadWithId(e, key, session, parent, reserved) ==
    LET f == Assign(e, "child", key, reserved,
                    LAMBDA id : [id |-> id, session |-> session, parent |-> parent,
                                 win |-> 0, cur |-> None, day |-> e.day])
        entry == f.s.child[key]
    IN  Ensure(Given(Touch(f, "child", key), entry.id),
               /\ entry.session = session
               /\ entry.parent = parent
               /\ reserved \in {None, entry.id})

TurnWithId(e, key, thread, root, parent, reserved) ==
    LET f == Assign(e, "turn", key, reserved,
                    LAMBDA id : [id |-> id, thread |-> thread, classifier |-> FALSE,
                                 root |-> IF root = None THEN id ELSE root,
                                 parent |-> parent, day |-> e.day])
        entry == f.s.turn[key]
    IN  Ensure(Given(Touch(f, "turn", key), key),
               /\ ~entry.classifier
               /\ entry.thread = thread
               /\ root \in {None, entry.root}
               /\ entry.parent = parent
               /\ reserved \in {None, entry.id})

\* A history-only item has no owning turn until a request supplies one.
GeneratedItem(e, key, turn) ==
    LET f == Assign(e, "item", key, None, LAMBDA id : [id |-> id, turn |-> turn, day |-> e.day])
        g == IF f.s.item[key].turn = None THEN [f EXCEPT !.s.item[key].turn = turn] ELSE f
    IN  Ensure(Touch(g, "item", key), g.s.item[key].turn = turn)

\* thread_belongs_to_session
SessionOf(s, thread) ==
    IF thread \in Ids(s, "conv") THEN thread
    ELSE IF thread \in Ids(s, "child")
         THEN s.child[CHOOSE key \in Keyed(s, "child", thread) : TRUE].session
    ELSE None

ParentOf(s, thread) ==
    IF thread \in Ids(s, "child") THEN s.child[CHOOSE key \in Keyed(s, "child", thread) : TRUE].parent
    ELSE None

\* The first n ancestors of a thread and the thread: parents are followed until there is none.
Ancestry(s, thread) ==
    LET up[n \in 0..Cardinality(DOMAIN s.child)] ==
            IF n = 0 THEN {thread}
            ELSE up[n - 1] \cup ({ParentOf(s, t) : t \in up[n - 1]} \ {None})
    IN  up[Cardinality(DOMAIN s.child)]

\* thread_is_ancestor
IsAncestor(s, ancestor, thread) == ancestor \in Ancestry(s, thread)

\* Whose thread's entry holds its window and its current turn: the root's or the child's.
ThreadEntry(s, thread) ==
    IF thread \in Ids(s, "conv") THEN <<"conv", CHOOSE key \in Keyed(s, "conv", thread) : TRUE>>
    ELSE IF thread \in Ids(s, "child")
         THEN <<"child", CHOOSE key \in Keyed(s, "child", thread) : TRUE>>
    ELSE None

CurrentTurnId(s, thread) ==
    LET at == ThreadEntry(s, thread) IN IF at = None THEN None ELSE s[at[1]][at[2]].cur

SetCurrentTurn(e, thread, turn) ==
    LET at == ThreadEntry(e.s, thread)
    IN  IF at = None \/ ~\E key \in Keyed(e.s, "turn", turn) : e.s.turn[key].thread = thread
        THEN Fail(e)
        ELSE [e EXCEPT !.s[at[1]][at[2]].cur = turn]

\* A classifier's thread is a lease: a turn it retries keeps its first lease of that source.
ClassifierTurnWithId(e, key, thread, root, parent, reserved) ==
    LET lease == ById(e, "child", thread)
        source == ParentOf(e.s, thread)
        causal == IF parent = None THEN lease ELSE ById(lease, "turn", parent)
        known == causal.s.turn[key]
        owner == ById(Touch(causal, "turn", key), "child", known.thread)
        turn == TurnWithId(causal, key, thread, root, parent, reserved)
    IN  IF lease.v = None \/ source = None THEN Fail(e)
        ELSE IF parent # None
                /\ (causal.v = None \/ causal.s.turn[causal.v].thread # source) THEN Fail(e)
        ELSE IF Has(causal, "turn", key) /\ known.classifier
             THEN Ensure(Given(owner, key),
                         /\ SessionOf(e.s, known.thread) = SessionOf(e.s, thread)
                         /\ ParentOf(e.s, known.thread) = source
                         /\ known.root = IF root = None THEN known.id ELSE root
                         /\ known.parent = parent
                         /\ reserved \in {None, known.id})
        ELSE [turn EXCEPT !.s.turn[key].classifier = TRUE]

\* ---------------------------------------------------------------- wire pairs
\* A pair is keyed by its domain and its downstream identifier.
Inverse(s, domain, up) == {key \in DOMAIN s.wire : key[1] = domain /\ s.wire[key].up = up}
InverseKey(s, domain, up) == CHOOSE key \in Inverse(s, domain, up) : TRUE

InsertWirePair(e, domain, origin, down, up) ==
    IF Has(e, "wire", <<domain, down>>) \/ Inverse(e.s, domain, up) # {} THEN Fail(e)
    ELSE Insert(e, "wire", <<domain, down>>,
                [up |-> up, origin |-> origin, owner |-> None, day |-> e.day])

ExistingWireFromDownstream(e, domain, down) ==
    IF Has(e, "wire", <<domain, down>>)
    THEN Given(Touch(e, "wire", <<domain, down>>), e.s.wire[<<domain, down>>].up)
    ELSE Given(e, None)

\* A second downstream identifier of an upstream one converges on the first.
BindWirePair(e, domain, down, up) ==
    IF None \in {down, up} \/ down = up THEN e
    ELSE IF Has(e, "wire", <<domain, down>>)
         THEN Ensure(Touch(e, "wire", <<domain, down>>), e.s.wire[<<domain, down>>].up = up)
    ELSE IF Inverse(e.s, domain, up) # {} THEN Touch(e, "wire", InverseKey(e.s, domain, up))
    ELSE InsertWirePair(e, domain, "downstream", down, up)

WireFromUpstream(e, domain, up) ==
    LET key == InverseKey(e.s, domain, up)
        down == Uuids[e.n + 1]
    IN  IF Inverse(e.s, domain, up) # {} THEN Given(Touch(e, "wire", key), key[2])
        ELSE Given(InsertWirePair([e EXCEPT !.n = @ + 1], domain, "upstream", down, up), down)

\* An owner is the session and the thread of the request a response answers.
ProtectOwner(e, owner) ==
    LET session == ById(e, "conv", owner.session)
        thread == ById(session, "child", owner.thread)
    IN  IF session.v = None THEN Fail(e)
        ELSE IF owner.thread = owner.session THEN session
        ELSE Ensure(thread, thread.v # None /\ SessionOf(e.s, owner.thread) = owner.session)

SetResponseOwner(e, up, owner) ==
    LET f == ProtectOwner(e, owner)
        key == InverseKey(f.s, "response", up)
    IN  IF f.s.wire[key].owner = None THEN [f EXCEPT !.s.wire[key].owner = owner]
        ELSE Ensure(f, f.s.wire[key].owner = owner)

WireFromUpstreamResponse(e, up, owner) ==
    LET f == WireFromUpstream(e, "response", up)
    IN  Given(SetResponseOwner(f, up, owner), f.v)

RequiredResponseOwner(e, down) ==
    LET key == <<"response", down>>
        owner == e.s.wire[key].owner
    IN  IF ~Has(e, "wire", key) \/ e.s.wire[key].origin # "upstream" \/ owner = None THEN Fail(e)
        ELSE Given(ProtectOwner(Touch(e, "wire", key), owner), owner)

\* ----------------------------------------------------------------- windows
WindowNumber(s, thread) == LET at == ThreadEntry(s, thread) IN s[at[1]][at[2]].win

SetWindowNumber(e, thread, window) ==
    LET at == ThreadEntry(e.s, thread) IN [e EXCEPT !.s[at[1]][at[2]].win = window]

ObserveWindowNumber(e, thread, window) ==
    IF window > WindowNumber(e.s, thread) THEN SetWindowNumber(e, thread, window) ELSE e

\* A retried compaction finds its marker, and so its first target.
BeginCompaction(e, key, thread) ==
    LET window == WindowNumber(e.s, thread) + 1
    IN  IF Has(e, "marker", key)
        THEN Ensure(Given(Touch(e, "marker", key), e.s.marker[key].win),
                    e.s.marker[key].thread = thread)
        ELSE Given(Insert(e, "marker", key, [thread |-> thread, win |-> window, day |-> e.day]),
                   window)

CommitCompaction(e, key, thread, target) ==
    IF ~Has(e, "marker", key) \/ ThreadEntry(e.s, thread) = None THEN Fail(e)
    ELSE IF e.s.marker[key].thread # thread \/ e.s.marker[key].win # target
            \/ target > WindowNumber(e.s, thread) + 1 THEN Fail(e)
    ELSE Touch(ObserveWindowNumber(e, thread, target), "marker", key)

\* ----------------------------------------------------------------- pruning
\* protect_aliases: the keys that the admitted and the retained contexts depend on.  A context
\* has a session, a thread, the turns of its history and the aliases of its finished items.
ProtectAliases(s, records) ==
    LET turns == UNION {r.turns : r \in records}
        sessions == {r.session : r \in records}
                    \cup {SessionOf(s, s.turn[t].thread) : t \in {t \in DOMAIN s.turn : s.turn[t].id \in turns}}
        named == sessions \cup turns \cup {r.thread : r \in records} \cup UNION {r.items : r \in records}
        ids == named \cup {s.wire[w].up : w \in {w \in DOMAIN s.wire : w[2] \in named}}
        current == {s.conv[c].cur : c \in {c \in DOMAIN s.conv : s.conv[c].id \in sessions}}
        kept(k, key) ==
            CASE k = "inst" -> TRUE
              [] k = "conv" -> s.conv[key].id \in sessions
              [] k = "child" -> s.child[key].session \in sessions
              [] k = "turn" -> s.turn[key].id \in turns \cup (current \ {None})
              [] k = "item" -> s.item[key].id \in ids \/ s.item[key].turn \in turns
              [] k = "marker" -> FALSE
              [] k = "wire" -> \/ s.wire[key].up \in ids \/ key[2] \in ids
                               \/ s.wire[key].owner # None /\ s.wire[key].owner.session \in sessions
                               \/ key[1] = "inst"
    IN  IF sessions = {} THEN {}
        ELSE UNION {{<<k, key>> : key \in {key \in DOMAIN s[k] : kept(k, key)}} : k \in Kinds}

Without(f, keys) == [key \in DOMAIN f \ keys |-> f[key]]

\* A set of identifiers and everything Below relates to it, transitively.
Closure(ids, Below(_), bound) ==
    LET down[n \in 0..bound] == IF n = 0 THEN ids ELSE down[n - 1] \cup Below(down[n - 1])
    IN  down[bound]

DescendantThreads(s, threads) ==
    Closure(threads,
            LAMBDA ids : {s.child[key].id : key \in {c \in DOMAIN s.child : s.child[c].parent \in ids}},
            Cardinality(DOMAIN s.child))

\* Everything of a root turn goes with it, whatever its parent.
DescendantTurns(s, turns) ==
    Closure(turns \cup {s.turn[key].id : key \in {t \in DOMAIN s.turn : s.turn[t].root \in turns}},
            LAMBDA ids : {s.turn[key].id : key \in {t \in DOMAIN s.turn : s.turn[t].parent \in ids}},
            Cardinality(DOMAIN s.turn))

RemoveWirePairs(s, domain, ups) ==
    [s EXCEPT !.wire = Without(@, {w \in DOMAIN @ : w[1] = domain /\ @[w].up \in ups})]

\* The response pairs owned by sessions, and by threads.
OwnedBySessions(s, sessions) ==
    {w \in DOMAIN s.wire : s.wire[w].owner # None /\ s.wire[w].owner.session \in sessions}
OwnedByThreads(s, threads) ==
    {w \in DOMAIN s.wire : s.wire[w].owner # None /\ s.wire[w].owner.thread \in threads}
RemoveOwnedResponsePairs(s, owned) == [s EXCEPT !.wire = Without(@, owned)]

\* The items of turns, and the wire pairs of both.
RemoveTurnItems(s, turns) ==
    LET items == {i \in DOMAIN s.item : s.item[i].turn \in turns}
    IN  RemoveWirePairs(RemoveWirePairs([s EXCEPT !.item = Without(@, items)], "turn", turns),
                        "item", {s.item[i].id : i \in items})

RemoveThreadGraph(s, threads) ==
    LET turns == {t \in DOMAIN s.turn : s.turn[t].thread \in threads}
        gone == [s EXCEPT !.turn = Without(@, turns),
                          !.marker = Without(@, {m \in DOMAIN @ : @[m].thread \in threads})]
    IN  RemoveTurnItems(gone, {s.turn[t].id : t \in turns})

ClearCurrentTurn(f, turns) ==
    [key \in DOMAIN f |-> IF f[key].cur \in turns THEN [f[key] EXCEPT !.cur = None] ELSE f[key]]

\* Mutant: the turns below stay.
RemoveTurnAlone(s, turns) ==
    RemoveTurnItems([s EXCEPT !.turn = Without(@, {t \in DOMAIN @ : @[t].id \in turns}),
                              !.conv = ClearCurrentTurn(@, turns),
                              !.child = ClearCurrentTurn(@, turns)], turns)

RemoveTurnGraph(s, turns) ==
    LET below == DescendantTurns(s, turns)
    IN  RemoveTurnItems([s EXCEPT !.turn = Without(@, {t \in DOMAIN @ : @[t].id \in below}),
                                  !.conv = ClearCurrentTurn(@, below),
                                  !.child = ClearCurrentTurn(@, below)], below)

RemoveChildThreadGraph(s, threads) ==
    LET below == DescendantThreads(s, threads)
        gone == [s EXCEPT !.child = Without(@, {c \in DOMAIN @ : @[c].id \in below})]
    IN  RemoveOwnedResponsePairs(
            RemoveThreadGraph(RemoveWirePairs(gone, "thread", below), below),
            OwnedByThreads(s, below))

SessionThreads(s, sessions) ==
    sessions \cup {s.child[c].id : c \in {k \in DOMAIN s.child : s.child[k].session \in sessions}}

RemoveConversationGraph(s, sessions) ==
    LET threads == SessionThreads(s, sessions)
        gone == [s EXCEPT !.child = Without(@, {c \in DOMAIN @ : @[c].session \in sessions})]
    IN  RemoveOwnedResponsePairs(
            RemoveThreadGraph(RemoveWirePairs(RemoveWirePairs(gone, "session", sessions),
                                              "thread", threads), threads),
            OwnedBySessions(s, sessions))

\* remove_entry, of several entries at once
RemoveEntries(s, k, keys) ==
    LET ids == {s[k][key].id : key \in keys}
        gone == [s EXCEPT ![k] = Without(@, keys)]
    IN  IF k = "inst" THEN RemoveWirePairs(gone, "inst", ids)
        ELSE IF k = "conv" THEN RemoveConversationGraph(gone, ids)
        ELSE IF k = "child" THEN RemoveChildThreadGraph(s, ids)
        ELSE IF k = "turn" THEN RemoveTurnGraph(s, ids)
        ELSE IF k = "item" THEN RemoveWirePairs(gone, "item", ids)
        ELSE gone

\* protected_thread_ids, protected_owned_response
ProtectedThreads(s, threads, prot) ==
    LET turns == {t \in DOMAIN s.turn : s.turn[t].thread \in threads}
    IN  \/ \E c \in DOMAIN s.child : s.child[c].id \in threads /\ <<"child", c>> \in prot
        \/ \E t \in turns : <<"turn", t>> \in prot
        \/ \E i \in DOMAIN s.item :
              /\ s.item[i].turn \in {s.turn[t].id : t \in turns}
              /\ <<"item", i>> \in prot
ProtectedOwnedResponse(owned, prot) == \E w \in owned : <<"wire", w>> \in prot

ProtectedConversationGraph(s, session, prot) ==
    \/ ProtectedThreads(s, SessionThreads(s, {session}), prot)
    \/ ProtectedOwnedResponse(OwnedBySessions(s, {session}), prot)

ProtectedThreadGraph(s, thread, prot) ==
    LET below == DescendantThreads(s, {thread})
    IN  \/ ProtectedThreads(s, below, prot)
        \/ ProtectedOwnedResponse(OwnedByThreads(s, below), prot)

ProtectedTurnGraph(s, turn, prot) ==
    LET below == DescendantTurns(s, {turn})
    IN  \/ \E t \in DOMAIN s.turn : s.turn[t].id \in below /\ <<"turn", t>> \in prot
        \/ \E i \in DOMAIN s.item : s.item[i].turn \in below /\ <<"item", i>> \in prot

\* Mutant: a wire pair is evicted although it is protected.
RemovableWire(s, k, key, prot) ==
    /\ k # "wire" => <<k, key>> \notin prot
    /\ k = "conv" => ~ProtectedConversationGraph(s, s.conv[key].id, prot)
    /\ k = "child" => ~ProtectedThreadGraph(s, s.child[key].id, prot)
    /\ k = "turn" => ~ProtectedTurnGraph(s, s.turn[key].id, prot)
Removable(s, k, key, prot) ==
    /\ <<k, key>> \notin prot
    /\ k = "conv" => ~ProtectedConversationGraph(s, s.conv[key].id, prot)
    /\ k = "child" => ~ProtectedThreadGraph(s, s.child[key].id, prot)
    /\ k = "turn" => ~ProtectedTurnGraph(s, s.turn[key].id, prot)

\* oldest_entry: the least day; among those, the least key, which may be any.
OldestEntries(s, k, prot) ==
    LET removable == {key \in DOMAIN s[k] : Removable(s, k, key, prot)}
    IN  {key \in removable : \A other \in removable : s[k][key].day <= s[k][other].day}

\* prune_expired
PruneExpired(s, cutoff, prot) ==
    LET old(r, k) ==
            RemoveEntries(r, k, {key \in DOMAIN r[k] :
                                    r[k][key].day < cutoff /\ Removable(r, k, key, prot)})
    IN  old(old(old(old(s, "wire"), "item"), "marker"), "turn")

\* What removing one oldest entry may leave; None if all entries of the kind are protected.
RemoveOldest(s, k, prot) ==
    LET keys == OldestEntries(s, k, prot)
    IN  IF keys = {} THEN {None} ELSE {RemoveEntries(s, k, {key}) : key \in keys}

\* The while loops of prune: a ledger that fits stays as it is, others lose an oldest entry.
RECURSIVE ShrinkTo(_, _, _, _)
ShrinkTo(ledgers, k, cap, prot) ==
    LET large == {s \in ledgers \ {None} : Cardinality(DOMAIN s[k]) > cap}
    IN  IF large = {} THEN ledgers
        ELSE ShrinkTo((ledgers \ large) \cup UNION {RemoveOldest(s, k, prot) : s \in large},
                      k, cap, prot)

PruneOrder == <<"inst", "conv", "child", "turn", "item", "marker", "wire">>
RECURSIVE PruneTo(_, _, _, _)
PruneTo(ledgers, i, caps, prot) ==
    IF i > Len(PruneOrder) THEN ledgers
    ELSE PruneTo(ShrinkTo(ledgers, PruneOrder[i], caps[PruneOrder[i]], prot), i + 1, caps, prot)

Prune(s, cutoff, caps, prot) == PruneTo({PruneExpired(s, cutoff, prot)}, 1, caps, prot)

\* evict_one, until the ledger is not larger than the file may be
EvictOrder == <<"wire", "item", "marker", "turn", "child", "conv", "inst">>
EvictOne(s, prot) ==
    LET kinds == {i \in DOMAIN EvictOrder : OldestEntries(s, EvictOrder[i], prot) # {}}
        first == CHOOSE i \in kinds : \A j \in kinds : i <= j
    IN  IF kinds = {} THEN {None} ELSE RemoveOldest(s, EvictOrder[first], prot)

Size(s) == Cardinality(UNION {{k} \X DOMAIN s[k] : k \in Kinds})
RECURSIVE EvictTo(_, _, _)
EvictTo(ledgers, bytes, prot) ==
    LET large == {s \in ledgers \ {None} : Size(s) > bytes}
    IN  IF large = {} THEN ledgers
        ELSE EvictTo((ledgers \ large) \cup UNION {EvictOne(s, prot) : s \in large}, bytes, prot)

\* -------------------------------------------------------------- validation
\* validate_thread_relationships
ThreadsValid(s) ==
    \A c \in DOMAIN s.child :
        LET thread == s.child[c]
        IN  /\ thread.session \in Ids(s, "conv")
            /\ thread.parent # None =>
                  thread.parent # thread.id /\ SessionOf(s, thread.parent) = thread.session
            /\ thread.parent # None => thread.session \in Ancestry(s, thread.id)

\* validate_turn_relationships
TurnsValid(s) ==
    \A t \in DOMAIN s.turn :
        LET turn == s.turn[t]
            Turn(id) == s.turn[CHOOSE key \in Keyed(s, "turn", id) : TRUE]
            session == SessionOf(s, turn.thread)
        IN  /\ session # None
            /\ turn.classifier =>
                  /\ ParentOf(s, turn.thread) # None
                  /\ turn.parent # None =>
                        \E p \in Keyed(s, "turn", turn.parent) :
                            s.turn[p].thread = ParentOf(s, turn.thread)
            /\ turn.root \in Ids(s, "turn")
            /\ Turn(turn.root).root = turn.root
            /\ SessionOf(s, Turn(turn.root).thread) = session
            /\ turn.parent # None =>
                  /\ turn.parent # turn.id
                  /\ turn.parent \in Ids(s, "turn")
                  /\ Turn(turn.parent).root = turn.root
                  /\ SessionOf(s, Turn(turn.parent).thread) = session
                  /\ turn.id \notin Closure({turn.parent},
                        LAMBDA ids : {s.turn[k].parent : k \in {p \in DOMAIN s.turn : s.turn[p].id \in ids}},
                        Cardinality(DOMAIN s.turn))

\* PersistedRequestState::validate
Valid(s, caps) ==
    /\ \A k \in Kinds : Cardinality(DOMAIN s[k]) <= caps[k]
    /\ ThreadsValid(s)
    /\ TurnsValid(s)
    /\ \A k \in {"conv", "child"} : \A key \in DOMAIN s[k] :
          s[k][key].cur # None =>
              \E t \in Keyed(s, "turn", s[k][key].cur) : s.turn[t].thread = s[k][key].id
    /\ \A i \in DOMAIN s.item : s.item[i].turn \in Ids(s, "turn") \cup {None}
    /\ \A m \in DOMAIN s.marker : SessionOf(s, s.marker[m].thread) # None
    /\ \A w \in DOMAIN s.wire :
          /\ w[2] # s.wire[w].up
          /\ s.wire[w].owner # None =>
                SessionOf(s, s.wire[w].owner.thread) = s.wire[w].owner.session
          /\ Inverse(s, w[1], s.wire[w].up) = {w}
=============================================================================
