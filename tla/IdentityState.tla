---------------------------- MODULE IdentityState ----------------------------
(***************************************************************************)
(* The persistent identity ledger at work: requests are admitted under     *)
(* identities of the ledger, their responses are published under aliases   *)
(* of it, and every edit prunes it.  An edit runs under the account's file *)
(* lock from the read to the atomic write, so it is one step; requests,    *)
(* responses, days and other requests interleave between edits.            *)
(*                                                                         *)
(* One Key scope is modelled: no lookup crosses scopes, and the caps of a  *)
(* scope stand for the global ones.  The upstream names the response to    *)
(* the n-th admitted request <<"resp", n>> and its item <<"item", n>>.     *)
(***************************************************************************)
EXTENDS IdentityResolution

CONSTANTS
    Slots,      \* the requests in flight
    Worlds      \* scenarios: the evidence of requests; the caps of the ledger, its size and its
                \* retention in days; whether the budget of the ID cache has room; whether
                \* responses have items, contexts end early; bounds on days and requests

\* SETTLE_TIME, in ticks; a file timestamp can stay equal within a tick.
Settle == 2

VARIABLES
    world,      \* the scenario, fixed
    day,        \* the day of the clock
    file,       \* the ledger on disk
    minted,     \* UUIDs used
    live,       \* slot -> the active operation, or None
    kept,       \* the retained contexts
    admitted,   \* requests admitted
    cache,      \* slot -> the response's ID cache: an alias and its epoch, or None
    stamp,      \* the timestamp of the file
    since,      \* ticks since it was written, up to Settle
    verdict     \* what became of the last edit

vars == <<world, day, file, minted, live, kept, admitted, cache, stamp, since, verdict>>

\* Bounds: UUIDs one edit may need, and timestamps.
EditUuids == 6
Room == minted + EditUuids <= Len(Uuids)

Active == {live[o] : o \in Slots} \ {None}
\* Mutant: active operations are not asked about.
RetainedOnly == kept

\* protect_aliases: the contexts it protects, active and retained
Contexts == Active \cup kept

Init ==
    /\ world \in Worlds
    /\ day = 0 /\ minted = 0 /\ admitted = 0 /\ stamp = 0 /\ since = Settle
    /\ file = Empty
    /\ live = [o \in Slots |-> None]
    /\ cache = [o \in Slots |-> None]
    /\ kept = {}
    /\ verdict = "stored"

\* edit_under_lock, after its operation: what the file may become.  None is a refusal.
Outcomes(e, records) ==
    LET prot == e.prot \cup ProtectAliases(e.s, records)
        cutoff == IF day > world.retention THEN day - world.retention ELSE 0
    IN  IF ~e.ok THEN {None}
        ELSE EvictTo(Prune(e.s, cutoff, world.caps, prot), world.size, prot)

Store(s, n) ==
    /\ file' = s
    /\ minted' = n
    /\ stamp' = IF s = file \/ since = 0 \/ ~world.cached THEN stamp ELSE stamp + 1
    /\ since' = IF s = file \/ ~world.cached THEN since ELSE 0

\* What becomes of an edit: validate is the last to refuse it.
Verdict(e, s) ==
    IF ~e.ok THEN "invalid"
    ELSE IF s = None THEN "protected"
    ELSE IF ~Valid(s, world.caps) THEN "dangling"
    ELSE "stored"

\* The end of an edit: what changes with the file if it is stored, and what if it is refused.
\* A refused edit leaves the file, and nothing holds the UUIDs it drew.
Commit(e, records, Stored, Refused) ==
    /\ \E s \in Outcomes(e, records) :
          /\ verdict' = Verdict(e, s)
          /\ IF verdict' = "stored" THEN Store(s, e.n) /\ Stored
             ELSE Refused /\ UNCHANGED <<file, stamp, since, minted>>
    /\ UNCHANGED <<world, day>>

-----------------------------------------------------------------------------
\* What an admitted request is known by; e has resolved it.
Operation(e) ==
    [session |-> e.v.session, thread |-> e.v.thread, turn |-> e.v.turn, turns |-> e.v.turns,
     pending |-> e.v.pending, items |-> {}, n |-> admitted + 1, down |-> None]

Admit(o, e) ==
    Commit(e, Contexts \cup (IF e.ok THEN {Operation(e)} ELSE {}),
           /\ live' = [live EXCEPT ![o] = Operation(e)]
           /\ cache' = [cache EXCEPT ![o] = None]
           /\ admitted' = admitted + 1
           /\ UNCHANGED kept,
           UNCHANGED <<live, kept, admitted, cache>>)

\* prepare_identity_request: resolution and, inside the same edit, the admission of the operation.
Request(o, r, base) ==
    /\ live[o] = None /\ Room /\ admitted < world.requests
    /\ (base # None) = r.prev
    /\ Admit(o, ResolveAndProject(Editor(file, day, minted), r,
                                  [base |-> base, busy |-> {c.session : c \in Contexts}]))

Owner(op) == [session |-> op.session, thread |-> op.thread]

\* A refused response edit loses the response: the operation ends.
Publish(o, e, Stored) ==
    Commit(e, Contexts, Stored,
           /\ live' = [live EXCEPT ![o] = None]
           /\ cache' = [cache EXCEPT ![o] = None]
           /\ UNCHANGED <<kept, admitted>>)

\* response.created: the alias of the response, owned by the request's session and thread.
Created(o) ==
    /\ live[o] # None /\ Room
    /\ live[o].down = None
    /\ LET op == live[o]
           e == WireFromUpstreamResponse(Editor(file, day, minted), <<"resp", op.n>>, Owner(op))
       IN  Publish(o, e, /\ live' = [live EXCEPT ![o].down = e.v]
                         /\ UNCHANGED <<kept, admitted, cache>>)

\* Mutant: a fresh timestamp is trusted.
StampFresh == stamp

\* StateStamp::read: no stamp until the file's timestamp has settled.
Stamp == IF since >= Settle THEN stamp ELSE None

\* translate_response_locked of a delta, answered from the cache.
Hit(o) == cache[o] # None /\ Stamp # None /\ cache[o].stamp = Stamp /\ cache[o].day = day
DeltaCached(o) ==
    /\ live[o] # None
    /\ live[o].down # None
    /\ Hit(o)
    /\ UNCHANGED <<world, day, file, minted, live, kept, admitted, cache, stamp, since, verdict>>

\* The same, not in the cache: an edit; its result is remembered if the file stayed as it was.
Remember(o, alias) ==
    cache' = [cache EXCEPT ![o] = IF world.cached /\ Stamp # None /\ since' = since
                                  THEN [alias |-> alias, stamp |-> stamp, day |-> day] ELSE None]
Delta(o) ==
    /\ live[o] # None /\ Room
    /\ live[o].down # None /\ world.items
    /\ ~Hit(o)
    /\ LET e == WireFromUpstream(Editor(file, day, minted), "item", <<"item", live[o].n>>)
       IN  Publish(o, e, /\ Remember(o, e.v)
                         /\ UNCHANGED <<live, kept, admitted>>)

\* response.output_item.done: the context now depends on the item.
ItemDone(o) ==
    /\ live[o] # None /\ Room
    /\ live[o].down # None /\ world.items
    /\ live[o].items = {}
    /\ LET e == WireFromUpstream(Editor(file, day, minted), "item", <<"item", live[o].n>>)
       IN  Publish(o, e, /\ live' = [live EXCEPT ![o].items = {e.v}]
                         /\ UNCHANGED <<kept, admitted, cache>>)

\* response.completed: the edit also commits a compaction, and the context is retained.
Completed(o) ==
    /\ live[o] # None /\ Room
    /\ live[o].down # None
    /\ LET op == live[o]
           e == WireFromUpstreamResponse(Editor(file, day, minted), <<"resp", op.n>>, Owner(op))
           f == IF op.pending = None THEN e
                ELSE Then(e, LAMBDA g : Given(CommitCompaction(g, op.pending.key, op.thread,
                                                               op.pending.target), g.v))
       IN  Publish(o, f, /\ live' = [live EXCEPT ![o] = None]
                         /\ cache' = [cache EXCEPT ![o] = None]
                         /\ kept' = kept \cup {op}
                         /\ UNCHANGED admitted)

\* The request fails, is interrupted without a usable response, or its client leaves.
Ended(o) ==
    /\ live[o] # None /\ world.ends
    /\ live' = [live EXCEPT ![o] = None]
    /\ cache' = [cache EXCEPT ![o] = None]
    /\ UNCHANGED <<world, day, file, minted, kept, admitted, stamp, since, verdict>>

\* A retained context expires or is evicted.
Forget(c) ==
    /\ world.ends
    /\ kept' = kept \ {c}
    /\ UNCHANGED <<world, day, file, minted, live, admitted, cache, stamp, since, verdict>>

Tick ==
    /\ since < Settle
    /\ since' = since + 1
    /\ UNCHANGED <<world, day, file, minted, live, kept, admitted, cache, stamp, verdict>>

NextDay ==
    /\ day < world.days
    /\ day' = day + 1
    /\ since' = Settle
    /\ UNCHANGED <<world, file, minted, live, kept, admitted, cache, stamp, verdict>>

Next ==
    \/ \E o \in Slots :
          \/ \E r \in world.forms, base \in kept \cup {None} : Request(o, r, base)
          \/ Created(o) \/ DeltaCached(o) \/ Delta(o) \/ ItemDone(o) \/ Completed(o) \/ Ended(o)
    \/ \E c \in kept : Forget(c)
    \/ Tick
    \/ NextDay

Spec == Init /\ [][Next]_vars
-----------------------------------------------------------------------------
\* An edit that resolved is stored, or refused because protected entries fill the ledger; it is
\* never refused by validate because of what prune removed.  ("Ancestor eviction protects
\* descendants or removes the entire descendant graph.")  A refusal here would repeat for every
\* edit that evicts the same entry.
EditsAreAccepted == verdict # "dangling"

\* A response to an admitted request can be published: no edit of another request removed the
\* session or the thread that translate_response needs for it.  (The marker of a running
\* compaction is not covered: protect_aliases protects no markers.)
ResponsesArePublished ==
    \A c \in Active : ProtectOwner(Editor(file, day, minted), Owner(c)).ok

\* The response ID and the finished items' IDs that the client of a context was told stay in
\* the ledger with their upstream identifiers, so that a continuation that names them is
\* understood.
AliasesRest(c) ==
    /\ c.down # None => /\ <<"response", c.down>> \in DOMAIN file.wire
                        /\ file.wire[<<"response", c.down>>].up = <<"resp", c.n>>
    /\ \A i \in c.items : /\ <<"item", i>> \in DOMAIN file.wire
                          /\ file.wire[<<"item", i>>].up = <<"item", c.n>>

\* What a live or a retained context rests on stays in the ledger, whatever other requests'
\* edits prune: its conversation, thread, turn and the aliases its client was told; and the turn
\* stays in the session.
ContextsRest ==
    \A c \in Contexts :
        /\ c.session \in Ids(file, "conv") /\ AliasesRest(c)
        /\ SessionOf(file, c.thread) = c.session
        /\ c.turn # None =>
              \E key \in Keyed(file, "turn", c.turn) :
                  SessionOf(file, file.turn[key].thread) = c.session

\* What the ID cache of a response would answer a delta with is what the ledger has: no edit
\* since the pair was remembered went unnoticed by the file's stamp (SETTLE_TIME).
CacheIsCoherent ==
    \A o \in Slots :
        live[o] # None /\ Hit(o) =>
            /\ <<"item", cache[o].alias>> \in DOMAIN file.wire
            /\ file.wire[<<"item", cache[o].alias>>].up = <<"item", live[o].n>>
=============================================================================
