---------------------------- MODULE ResponseCache ----------------------------
(***************************************************************************)
(* The client's response cache (SEP-2549) and the two tasks that use it:   *)
(* callers of cached_request / read_resource, which look up, fetch and     *)
(* store without holding the lock in between, and the connection actor,    *)
(* which delivers responses and applies invalidations in wire order.       *)
(*                                                                         *)
(* A result is abstracted to the version of the server's data it was       *)
(* computed from; time is the number of ticks an entry has left.           *)
(***************************************************************************)
EXTENDS Naturals, Sequences, FiniteSets

CONSTANTS
    Keys,         \* method + discriminator: [method : .., disc : ..]
    Notices,      \* notifications: [method : .., uri : ..]
    Callers,      \* concurrent users of the client
    MaxEntries,   \* MAX_ENTRIES (1024 in the code)
    MaxTtl,       \* bound: ttlMs, in ticks
    MaxVersion    \* bound: changes of the server's data per key

Lists == {"tools/list", "prompts/list", "resources/list", "resources/templates/list"}
ListsChanged == {"tools/list_changed", "prompts/list_changed", "resources/list_changed"}

ASSUME CacheAssumption ==
    /\ MaxEntries \in Nat \ {0} /\ MaxTtl \in Nat /\ MaxVersion \in Nat
    /\ IsFiniteSet(Keys)
    /\ \A k \in Keys : k.method \in Lists \cup {"resources/read"}
    /\ \A n \in Notices : n.method \in ListsChanged \cup {"resources/updated"}

VARIABLES
    entries,   \* the cached keys, each with what is stored for it
    asker,     \* what each caller is doing
    frames,    \* server -> client frames, in order
    current,   \* the server's data
    noted      \* history: the version the client was last told of

cacheVars == <<entries, asker, frames, current, noted>>

\* `raced` is history: an invalidation of the key arrived during the fetch.
Entry == [version : 0..MaxVersion, left : 0..MaxTtl, raced : BOOLEAN]
NotAsking == [state |-> "idle"]
Fetching(k) == [state |-> "fetching", key |-> k, raced |-> FALSE]

Cached == DOMAIN entries
Fresh(k) == k \in Cached /\ entries[k].left > 0

CacheTypeOK ==
    /\ Cached \subseteq Keys /\ \A k \in Cached : entries[k] \in Entry
    /\ Cardinality(Cached) <= MaxEntries
    /\ \A c \in Callers : asker[c].state \in {"idle", "fetching", "answered"}
    /\ current \in [Keys -> 0..MaxVersion]
    /\ \A k \in Keys : noted[k] <= current[k]

CacheInit ==
    /\ entries = <<>>
    /\ asker = [c \in Callers |-> NotAsking]
    /\ frames = <<>>
    /\ current = [k \in Keys |-> 0]
    /\ noted = [k \in Keys |-> 0]

Only(keys) == [k \in keys |-> entries[k]]

-----------------------------------------------------------------------------
(* The cache's operations, each one critical section.                       *)

\* Slip: list_changed leaves the reads alone.
ObsoletedListsOnly(n) ==
    {k \in Keys :
        \/ n.method = "tools/list_changed" /\ k.method = "tools/list"
        \/ n.method = "prompts/list_changed" /\ k.method = "prompts/list"
        \/ /\ n.method = "resources/list_changed"
           /\ k.method \in {"resources/list", "resources/templates/list"}
        \/ /\ n.method = "resources/updated"
           /\ k.method = "resources/read" /\ k.disc = n.uri}

\* on_notification: the keys a notification obsoletes.
Obsoleted(n) ==
    {k \in Keys :
        \/ n.method = "tools/list_changed" /\ k.method = "tools/list"
        \/ n.method = "prompts/list_changed" /\ k.method = "prompts/list"
        \/ /\ n.method = "resources/list_changed"
           /\ k.method \in {"resources/list", "resources/templates/list",
                            "resources/read"}
        \/ /\ n.method = "resources/updated"
           /\ k.method = "resources/read" /\ k.disc = n.uri}

\* Slip: only the expired entries make room.
EvictionsOfExpired ==
    {IF Cardinality(Cached) < MaxEntries
     THEN Cached ELSE {k \in Cached : entries[k].left > 0}}

\* store's eviction: at the cap the expired entries go, and if that is not
\* enough, one of the soonest to expire.  Storing a key that is present does
\* not make room by itself.
Evictions ==
    LET kept == {k \in Cached : entries[k].left > 0}
    IN  IF Cardinality(Cached) < MaxEntries THEN {Cached}
        ELSE IF Cardinality(kept) < MaxEntries THEN {kept}
        ELSE {kept \ {k} : k \in {e \in kept :
                 \A f \in kept : entries[e].left <= entries[f].left}}

\* A missing or zero ttlMs is not stored.
Store(k, e) ==
    IF e.left = 0 THEN UNCHANGED entries
    ELSE \E kept \in Evictions :
           entries' = [x \in kept \cup {k} |-> IF x = k THEN e ELSE entries[x]]

-----------------------------------------------------------------------------
(* cached_request: get, then the request, then store.                       *)

GetHit(c, k) ==
    /\ asker[c] = NotAsking
    /\ Fresh(k)
    /\ UNCHANGED cacheVars

\* An expired entry is dropped on the way out.
GetMiss(c, k) ==
    /\ asker[c] = NotAsking
    /\ ~Fresh(k)
    /\ entries' = Only(Cached \ {k})
    /\ asker' = [asker EXCEPT ![c] = Fetching(k)]
    /\ UNCHANGED <<frames, current, noted>>

StoreAnswer(c) ==
    /\ asker[c].state = "answered"
    /\ Store(asker[c].key, [version |-> asker[c].version,
                             left |-> asker[c].ttl,
                             raced |-> asker[c].raced])
    /\ asker' = [asker EXCEPT ![c] = NotAsking]
    /\ UNCHANGED <<frames, current, noted>>

Answers(m, c) == m.kind = "response" /\ m.to = c
Without(s, i) == [j \in 1..(Len(s) - 1) |-> IF j < i THEN s[j] ELSE s[j + 1]]

\* The request times out or the caller gives up; its id is never used again,
\* so nobody waits for an answer that is still on its way.
GiveUp(c) ==
    /\ asker[c].state \in {"fetching", "answered"}
    /\ asker' = [asker EXCEPT ![c] = NotAsking]
    /\ IF \E i \in DOMAIN frames : Answers(frames[i], c)
       THEN \E i \in DOMAIN frames :
              Answers(frames[i], c) /\ frames' = Without(frames, i)
       ELSE UNCHANGED frames
    /\ UNCHANGED <<entries, current, noted>>

\* clear_response_cache.
Clear ==
    /\ entries' = <<>>
    /\ UNCHANGED <<asker, frames, current, noted>>

-----------------------------------------------------------------------------
(* The connection actor.                                                    *)

\* The response goes to the caller's oneshot; the caller runs later.
DeliverResponse ==
    /\ frames # <<>> /\ Head(frames).kind = "response"
    /\ LET m == Head(frames) IN
         asker' = [asker EXCEPT ![m.to] =
             [state |-> "answered", key |-> @.key, raced |-> @.raced,
              version |-> m.version, ttl |-> m.ttl]]
    /\ frames' = Tail(frames)
    /\ UNCHANGED <<entries, current, noted>>

\* A notification invalidates at once.
DeliverNotice ==
    /\ frames # <<>> /\ Head(frames).kind = "notice"
    /\ LET m == Head(frames)
           gone == Obsoleted(m.notice)
       IN  /\ entries' = Only(Cached \ gone)
           /\ noted' = [k \in Keys |-> IF m.versions[k] > noted[k]
                                       THEN m.versions[k] ELSE noted[k]]
           /\ asker' = [c \in Callers |->
                 IF asker[c] # NotAsking /\ m.versions[asker[c].key] > 0
                 THEN [asker[c] EXCEPT !.raced = TRUE] ELSE asker[c]]
    /\ frames' = Tail(frames)
    /\ UNCHANGED current

Age ==
    /\ \E k \in Cached : entries[k].left > 0
    /\ entries' = [k \in Cached |->
                     [entries[k] EXCEPT !.left = IF @ > 0 THEN @ - 1 ELSE 0]]
    /\ UNCHANGED <<asker, frames, current, noted>>

-----------------------------------------------------------------------------
(* The server (external): it answers from its current data, and announces   *)
(* each change.                                                             *)

ServerAnswers(c, ttl) ==
    /\ asker[c].state = "fetching"
    /\ \A i \in DOMAIN frames : ~Answers(frames[i], c)
    /\ frames' = Append(frames, [kind |-> "response", to |-> c, ttl |-> ttl,
                             version |-> current[asker[c].key]])
    /\ UNCHANGED <<entries, asker, current, noted>>

\* What a method answers from, and what a notification announces a change of.
AnswersFrom(method) ==
    IF method = "tools/list" THEN "tools"
    ELSE IF method = "prompts/list" THEN "prompts" ELSE "resources"
Announces(method) ==
    IF method = "tools/list_changed" THEN "tools"
    ELSE IF method = "prompts/list_changed" THEN "prompts" ELSE "resources"

\* The answers that are different after a change announced by n: those from the
\* data that changed, or those about the one resource that was updated.
Affected(n) ==
    {k \in Keys :
        /\ AnswersFrom(k.method) = Announces(n.method)
        /\ n.method = "resources/updated" => k.method = "resources/read" /\ k.disc = n.uri}

ServerChanges(n) ==
    /\ \A k \in Affected(n) : current[k] < MaxVersion
    /\ LET now == [k \in Keys |-> current[k] + (IF k \in Affected(n) THEN 1 ELSE 0)]
       IN  /\ current' = now
           /\ frames' = Append(frames,
                [kind |-> "notice", notice |-> n,
                 versions |-> [k \in Keys |->
                                 IF k \in Affected(n) THEN now[k] ELSE 0]])
    /\ UNCHANGED <<entries, asker, noted>>

-----------------------------------------------------------------------------
CacheNext ==
    \/ \E c \in Callers :
         \/ \E k \in Keys : GetHit(c, k) \/ GetMiss(c, k)
         \/ \E ttl \in 0..MaxTtl : ServerAnswers(c, ttl)
         \/ StoreAnswer(c) \/ GiveUp(c)
    \/ DeliverResponse \/ DeliverNotice
    \/ \E n \in Notices : ServerChanges(n)
    \/ Age \/ Clear

CacheSpec == CacheInit /\ [][CacheNext]_cacheVars

-----------------------------------------------------------------------------
(* Properties.                                                              *)

Stale(k) == k \in Cached /\ entries[k].version < noted[k]

\* Once the client was told of a change, the only entry that can still predate
\* it is one whose fetch was under way when the notification arrived.
StaleOnlyByRace == \A k \in Keys : Stale(k) => entries[k].raced
=============================================================================
