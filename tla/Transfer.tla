------------------------------ MODULE Transfer ------------------------------
(* The bytes of a run's files: where the resolver of a run takes a file's       *)
(* location from (cli/itemctx.go), the ranged engine that requests the file in   *)
(* aligned chunks behind the bytes already on disk (download/ranged.go,         *)
(* download/fetch.go), and the attempts of the ladder that re-enter it at the    *)
(* size of the part file (download/downloader.go).                              *)
(* A file is a row of cells, cell k holding the value k; Align cells stand for   *)
(* the granularity of requests, Chunk cells for one request. A file reference is *)
(* a version, and the server only takes the current one.                        *)
EXTENDS Integers, Sequences, FiniteSets, SequencesExt

CONSTANTS
    Items,               \* media rows, one per message
    SizeOf, TotalOf,     \* their cells on the server, and in the manifest, 0 if unknown
    Align, Chunk,        \* rangedChunkAlign, rangedChunkSize
    ChunkRetries,        \* rangedChunkRetries
    AttemptMax,          \* RetryMax of the ladder
    CacheLimit,          \* msgCacheLimit
    Peers,               \* items whose chat this process has resolved
    Away,                \* items whose file is not in the home data center
    Pooled,              \* per-DC pools, or the one connection of an export session
    MaxVersion, MaxRestarts  \* bounds: expiries of a reference, processes

\* Of the constants; an instance states it as its assumption.
TransferAssumption ==
    /\ IsFiniteSet(Items) /\ Peers \subseteq Items /\ Away \subseteq Items
    /\ SizeOf \in [Items -> Nat \ {0}] /\ TotalOf \in [Items -> Nat]
    /\ Align \in Nat \ {0} /\ Chunk \in Nat \ {0} /\ Chunk % Align = 0
    /\ ChunkRetries \in Nat /\ AttemptMax \in Nat \ {0} /\ CacheLimit \in Nat \ {0}
    /\ Pooled \in BOOLEAN /\ MaxVersion \in Nat \ {0} /\ MaxRestarts \in Nat

VARIABLES
    entries, order,      \* messageCache
    version,             \* server: the current file reference
    part,                \* the part file's cells
    stage,
    location, near,      \* Resolved: a file reference, whether the data center is known
    path,                \* Resolved: what the final path was rendered from
    ref, there,          \* rangedState: its reference, whether rpc reaches the file
    pos, retries, attempt,
    context,             \* seedCache: whether the entry it read had a walk context
    restarts

cacheVars == <<entries, order>>
fetchVars == <<ref, there, pos, retries>>
given == <<location, near, path>>
vars == <<cacheVars, version, part, stage, given, fetchVars, attempt, context, restarts>>

None == 0
Hole == -1  \* a cell that nobody wrote
-----------------------------------------------------------------------------
(* messageCache *)

\* Mutant: an entry that is written again takes a second place in the order.
PutAgain(i, entry) ==
    LET queue == Append(order, i)
        gone == IF Len(queue) > CacheLimit THEN {Head(queue)} ELSE {}
    IN /\ order' = IF gone = {} THEN queue ELSE Tail(queue)
       /\ entries' = [k \in (DOMAIN entries \cup {i}) \ gone |-> IF k = i THEN entry ELSE entries[k]]

\* put: a new key goes to the end, the oldest one leaves.
Put(i, entry) ==
    LET queue == IF i \in DOMAIN entries THEN order ELSE Append(order, i)
        gone == IF Len(queue) > CacheLimit THEN {Head(queue)} ELSE {}
    IN /\ order' = IF gone = {} THEN queue ELSE Tail(queue)
       /\ entries' = [k \in (DOMAIN entries \cup {i}) \ gone |-> IF k = i THEN entry ELSE entries[k]]

\* What the walk of this process leaves in the cache.
Walked(queue) ==
    SubSeq(queue, IF Len(queue) > CacheLimit THEN Len(queue) - CacheLimit + 1 ELSE 1, Len(queue))
WalkOrders == UNION {[1..n -> Items] : n \in 0..Cardinality(Items)}
Orders == {Walked(q) : q \in {w \in WalkOrders : IsInjective(w)}}
EntriesOf(queue) == [i \in ToSet(queue) |-> [context |-> TRUE, ref |-> 1]]

Init ==
    /\ order \in Orders /\ entries = EntriesOf(order)
    /\ version = [i \in Items |-> 1] /\ part = [i \in Items |-> <<>>]
    /\ stage = [i \in Items |-> "waiting"] /\ location = [i \in Items |-> None]
    /\ near = [i \in Items |-> FALSE] /\ path = [i \in Items |-> "none"]
    /\ ref = [i \in Items |-> None] /\ there = [i \in Items |-> FALSE]
    /\ pos = [i \in Items |-> 0] /\ retries = [i \in Items |-> 0]
    /\ attempt = [i \in Items |-> 0] /\ context = [i \in Items |-> FALSE] /\ restarts = 0

Goto(i, s) == stage' = [stage EXCEPT ![i] = s]
\* The end of a fetch.
Leave(i, s) ==
    /\ Goto(i, s)
    /\ ref' = [ref EXCEPT ![i] = None] /\ there' = [there EXCEPT ![i] = FALSE]
    /\ pos' = [pos EXCEPT ![i] = 0] /\ retries' = [retries EXCEPT ![i] = 0]

-----------------------------------------------------------------------------
(* runResolver and the ladder *)

\* Resolve: location and data center from the cached message; the path from its
\* walk context, or from the row alone when a refetch put it there or it is gone.
Resolve(i) ==
    LET cached == i \in DOMAIN entries IN
    /\ stage[i] = "waiting"
    /\ location' = [location EXCEPT ![i] = IF cached THEN entries[i].ref ELSE None]
    /\ near' = [near EXCEPT ![i] = cached \/ i \notin Away]
    /\ path' = [path EXCEPT ![i] = IF cached /\ entries[i].context THEN "context" ELSE "row"]
    /\ Goto(i, "ready")
    /\ UNCHANGED <<cacheVars, version, part, fetchVars, attempt, context, restarts>>

\* attemptOnce and rangedFetch: at the size of the part file; without a location
\* the message is fetched again, on every attempt.
StartAttempt(i) ==
    /\ stage[i] = "ready" /\ attempt[i] < AttemptMax
    /\ attempt' = [attempt EXCEPT ![i] = @ + 1]
    /\ ref' = [ref EXCEPT ![i] = location[i]] /\ there' = [there EXCEPT ![i] = near[i]]
    /\ pos' = [pos EXCEPT ![i] = Len(part[i])]
    /\ Goto(i, IF location[i] = None THEN "refetching" ELSE "asking")
    /\ UNCHANGED <<cacheVars, version, part, given, retries, context, restarts>>

LadderEnds(i) ==
    /\ stage[i] = "ready" /\ attempt[i] = AttemptMax
    /\ Goto(i, "failed")
    /\ UNCHANGED <<cacheVars, version, part, given, fetchVars, attempt, context, restarts>>

-----------------------------------------------------------------------------
(* Refetch *)

\* The message answers with its current reference; seedCache reads the entry.
Refetched(i) ==
    /\ stage[i] = "refetching" /\ i \in Peers
    /\ ref' = [ref EXCEPT ![i] = version[i]]
    /\ context' = [context EXCEPT ![i] = i \in DOMAIN entries /\ entries[i].context]
    /\ Goto(i, "seeding")
    /\ UNCHANGED <<cacheVars, version, part, given, there, pos, retries, attempt, restarts>>

\* ... and puts it back with the new message.
SeedCache(i) ==
    /\ stage[i] = "seeding"
    /\ Put(i, [context |-> context[i], ref |-> ref[i]])
    /\ context' = [context EXCEPT ![i] = FALSE] /\ Goto(i, "asking")
    /\ UNCHANGED <<version, part, given, fetchVars, attempt, restarts>>

\* No peer, no message, no media, or an error: for good, or for this attempt.
RefetchFails(i) ==
    /\ stage[i] = "refetching"
    /\ \E s \in {"ready", "failed"} : Leave(i, s)
    /\ UNCHANGED <<cacheVars, version, part, given, attempt, context, restarts>>

-----------------------------------------------------------------------------
(* One request of the ranged engine *)

Expired(i) ==
    /\ stage[i] = "asking" /\ ref[i] # version[i]
    /\ Goto(i, "refetching")
    /\ UNCHANGED <<cacheVars, version, part, given, fetchVars, attempt, context, restarts>>

\* FILE_MIGRATE: the pool of the data center it names; one connection cannot follow.
Migrated(i) ==
    /\ stage[i] = "asking" /\ ~there[i]
    /\ IF Pooled THEN there' = [there EXCEPT ![i] = TRUE] /\ UNCHANGED <<stage, ref, pos, retries>>
       ELSE Leave(i, "ready")
    /\ UNCHANGED <<cacheVars, version, part, given, attempt, context, restarts>>

\* A dropped connection or a server error: the same range once more, or the end of
\* the attempt.
Transient(i) ==
    /\ stage[i] = "asking"
    /\ IF retries[i] < ChunkRetries
       THEN retries' = [retries EXCEPT ![i] = @ + 1] /\ UNCHANGED <<stage, ref, there, pos>>
       ELSE Leave(i, "ready")
    /\ UNCHANGED <<cacheVars, version, part, given, attempt, context, restarts>>

\* A long flood wait, a CDN redirect, a fatal answer.
Fatal(i) ==
    /\ stage[i] = "asking"
    /\ \E s \in {"ready", "failed"} : Leave(i, s)
    /\ UNCHANGED <<cacheVars, version, part, given, attempt, context, restarts>>

RequestOffset(i) == pos[i] - (pos[i] % Align)
\* What the server has of the range.
InRange(i) ==
    LET n == SizeOf[i] - RequestOffset(i)
    IN IF n < 0 THEN 0 ELSE IF n < Chunk THEN n ELSE Chunk
\* How much of it one answer holds. It may be cut short, even to nothing behind the
\* part file, unless the total is unknown: there a short answer is the file's end,
\* and the server is trusted with it.
Sizes(i) == IF TotalOf[i] > 0 THEN 0..InRange(i) ELSE {InRange(i)}
\* The answer with n cells, as their values.
Answer(i, n) == [k \in 1..n |-> RequestOffset(i) + k - 1]

\* Mutant: the aligned part of the answer is not cut off.
FreshUncut(i, n) ==
    IF TotalOf[i] > 0 /\ pos[i] + n > TotalOf[i]
    THEN SubSeq(Answer(i, n), 1, TotalOf[i] - pos[i]) ELSE Answer(i, n)

\* Behind the cells the part file already has, and within the manifest's size.
Fresh(i, n) ==
    LET data == SubSeq(Answer(i, n), pos[i] - RequestOffset(i) + 1, n)
    IN IF TotalOf[i] > 0 /\ pos[i] + Len(data) > TotalOf[i]
       THEN SubSeq(data, 1, TotalOf[i] - pos[i]) ELSE data

\* WriteAt of the first m cells of data at pos.
Written(i, data, m) ==
    part' = [part EXCEPT ![i] =
        [k \in 1..(IF pos[i] + m > Len(@) THEN pos[i] + m ELSE Len(@)) |->
            IF k \in pos[i] + 1 .. pos[i] + m THEN data[k - pos[i]]
            ELSE IF k <= Len(@) THEN @[k] ELSE Hole]]

Answered(i) == stage[i] = "asking" /\ ref[i] = version[i] /\ there[i]
\* The answer reaches behind the cells that are already there.
BringsMore(i, n) == n > pos[i] - RequestOffset(i)

\* A known total ends the file; an unknown one ends it at a short answer.
Complete(i, n) ==
    IF TotalOf[i] > 0 THEN pos[i] + Len(Fresh(i, n)) >= TotalOf[i] ELSE n < Chunk
ChunkArrives(i) ==
    /\ Answered(i)
    /\ \E n \in Sizes(i) :
          /\ BringsMore(i, n)
          /\ Written(i, Fresh(i, n), Len(Fresh(i, n)))
          /\ IF Complete(i, n) THEN Leave(i, "done")
             ELSE /\ pos' = [pos EXCEPT ![i] = @ + Len(Fresh(i, n))]
                  /\ retries' = [retries EXCEPT ![i] = 0] /\ UNCHANGED <<stage, ref, there>>
    /\ UNCHANGED <<cacheVars, version, given, attempt, context, restarts>>

\* Nothing behind pos: the end of the file, or a file shorter than the manifest's.
NothingArrives(i) ==
    /\ Answered(i) /\ \E n \in Sizes(i) : ~BringsMore(i, n)
    /\ Leave(i, IF TotalOf[i] > 0 /\ pos[i] < TotalOf[i] THEN "failed" ELSE "done")
    /\ UNCHANGED <<cacheVars, version, part, given, attempt, context, restarts>>

\* The disk takes only some of the cells, or the process is killed over them.
WriteBreaks(i) ==
    /\ Answered(i)
    /\ \E n \in Sizes(i) :
          /\ BringsMore(i, n)
          /\ \E m \in 0..(Len(Fresh(i, n)) - 1) : Written(i, Fresh(i, n), m)
    /\ Leave(i, "ready")
    /\ UNCHANGED <<cacheVars, version, given, attempt, context, restarts>>

-----------------------------------------------------------------------------
(* The world *)

\* References expire.
Expire(i) ==
    /\ version[i] < MaxVersion /\ stage[i] \notin {"done", "failed"}
    /\ version' = [version EXCEPT ![i] = @ + 1]
    /\ UNCHANGED <<cacheVars, part, stage, given, fetchVars, attempt, context, restarts>>

\* An interrupt or a crash; a later process walks again and claims what is left.
Restart ==
    /\ restarts < MaxRestarts
    /\ restarts' = restarts + 1
    /\ order' \in Orders /\ entries' = [k \in ToSet(order') |-> [context |-> TRUE, ref |-> version[k]]]
    /\ stage' = [i \in Items |-> IF stage[i] \in {"done", "failed"} THEN stage[i] ELSE "waiting"]
    /\ attempt' = [i \in Items |-> 0] /\ context' = [i \in Items |-> FALSE]
    /\ location' = [i \in Items |-> None] /\ near' = [i \in Items |-> FALSE]
    /\ path' = [i \in Items |-> "none"]
    /\ ref' = [i \in Items |-> None] /\ there' = [i \in Items |-> FALSE]
    /\ pos' = [i \in Items |-> 0] /\ retries' = [i \in Items |-> 0]
    /\ UNCHANGED <<version, part>>

Next ==
    \/ Restart
    \/ \E i \in Items :
          \/ Resolve(i) \/ StartAttempt(i) \/ LadderEnds(i)
          \/ Refetched(i) \/ SeedCache(i) \/ RefetchFails(i)
          \/ Expired(i) \/ Migrated(i) \/ Transient(i) \/ Fatal(i)
          \/ ChunkArrives(i) \/ NothingArrives(i) \/ WriteBreaks(i) \/ Expire(i)

Spec == Init /\ [][Next]_vars
-----------------------------------------------------------------------------
(* Properties *)

Whole(i) == IF TotalOf[i] > 0 THEN TotalOf[i] ELSE SizeOf[i]

\* However a file is interrupted, resumed between two alignments, retried, migrated
\* or refetched (ranged.go:188), its part file holds the file's own first cells
\* without a hole, and a fetch that reports success has left the whole file.
PartIsPrefix ==
    \A i \in Items :
        /\ \A k \in DOMAIN part[i] : part[i][k] = k - 1
        /\ stage[i] = "done" => Len(part[i]) = Whole(i)

\* itemctx.go:60: order and entries are one cache: every cached message has its one
\* place in the eviction order, whoever puts and refreshes it, and there are never
\* more than the limit.
CacheBounded ==
    /\ ToSet(order) = DOMAIN entries /\ Len(order) = Cardinality(DOMAIN entries)
    /\ Len(order) <= CacheLimit
=============================================================================
