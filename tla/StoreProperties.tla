-------------------------- MODULE StoreProperties --------------------------
(***************************************************************************)
(* What makes the write path of mem7 correct, stated over its markdown log *)
(* ("the source of truth") and its index ("a derived cache").              *)
(***************************************************************************)
EXTENDS Store

\* The log entries that stored key k, and whether a store entry was buried by
\* a tombstone that a replay meets after it.
StoresOf(k) == {i \in 1 .. Len(log) : log[i].op = "store" /\ log[i].key = k}

Buries(j, i) ==
    /\ EarlierIn(log, i, j)
    /\ \/ log[j].op = "delete" /\ log[j].key = log[i].key
       \/ log[j].op = "delete_tags" /\ log[j].tags \subseteq log[i].tags

Buried(i) == \E j \in 1 .. Len(log) : Buries(j, i)

Oldest(S) == CHOOSE i \in S : \A j \in S \ {i} : EarlierIn(log, i, j)
Newest(S) == CHOOSE i \in S : \A j \in S \ {i} : EarlierIn(log, j, i)

\* The row holds what log entry i stored, as written or as parsed back.
HoldsEntry(row, i) ==
    /\ row.object \in {log[i].val, ParsedBody[log[i].val]}
    /\ row.tags = log[i].tags
    /\ row.ttl \in {log[i].ttl, WrittenTtl(log[i].ttl)}
    /\ row.updated = log[i].time

\* The agent a key ends with: that of its newest entry that names one.
AgentOf(S) ==
    LET named == {i \in S : log[i].agent # NoAgent}
    IN  IF named = {} THEN NoAgent ELSE log[Newest(named)].agent

\* The row of k is the one the log describes: it holds the newest store entry,
\* is deleted if a later tombstone covers that entry, and dates from the first.
ReflectsLog(k) ==
    LET S == StoresOf(k) IN
    IF S = {} THEN facts[k] = NoRow
    ELSE /\ facts[k] # NoRow
         /\ HoldsEntry(facts[k], Newest(S))
         /\ facts[k].deleted = Buried(Newest(S))
         /\ facts[k].created = log[Oldest(S)].created
         /\ facts[k].agent = AgentOf(S)

\* The keys no TTL above 0 was ever given for, and the keys none of whose
\* entries has a TTL that ran out by t, or that time.Duration cannot hold.
PermanentKeys == {k \in Keys : \A i \in StoresOf(k) : log[i].ttl <= 0}

UnexpiredKeys(t) ==
    {k \in Keys : \A i \in StoresOf(k) :
        log[i].ttl <= 0 \/ (log[i].ttl < MaxSpan /\ log[i].time + log[i].ttl > t)}

\* The join table gives each row its own tags: no tag of it is missing, none is
\* left over from an earlier value, and none of another row has taken its id.
TagsJoined(k) ==
    facts[k] # NoRow =>
        {tag \in Tags : <<facts[k].id, tag>> \in factTags} = facts[k].tags

ConsistentOn(S) == (\A k \in Keys : TagsJoined(k)) /\ (\A k \in S : ReflectsLog(k))

Consistent == ConsistentOn(PermanentKeys)

Quiet == \A p \in Procs : pc[p] = "idle"
-----------------------------------------------------------------------------
(* Safety *)

\* INV1: between calls the index is exactly the state that the log describes,
\* whatever the interleaving of stores, forgets, prunes and rescans was
\* (one process, no failures).
IndexFollowsLog == Quiet /\ faults = 0 => Consistent

\* INV2: whatever half-done calls, crashes and clock corrections came before, a
\* Rescan that gets to its end has restored the index, of the facts whose TTL is
\* still running too (no other process writes meanwhile).
RescanRestores == \A p \in Procs : pc[p] = "count" => ConsistentOn(UnexpiredKeys(loc[p].asof))

\* INV3: the index never runs ahead of the source of truth.  Every row holds
\* the content of some store entry of its key, and a row is only deleted if the
\* log has a tombstone of its key or of tags: in all processes, at every step
\* and after every crash.
IndexNeverAhead ==
    \A k \in Keys : facts[k] # NoRow =>
        /\ \E i \in StoresOf(k) : HoldsEntry(facts[k], i)
        /\ facts[k].deleted =>
             \E j \in 1 .. Len(log) :
                \/ log[j].op = "delete" /\ log[j].key = k
                \/ log[j].op = "delete_tags"

\* INV4: a row has no tag that was never stored under its key.  Put goes by the id
\* that its upsert returned, between whose statements other processes store and
\* prune; a prune leaves the tags of the rows that it deletes, and a call that
\* fails half-way leaves the tags of an older value (while no process rescans).
TagsOfOwnKey ==
    \A k \in Keys : facts[k] # NoRow =>
        \A tag \in Tags : <<facts[k].id, tag>> \in factTags =>
            \E i \in StoresOf(k) : tag \in log[i].tags

\* INV5: the capacity check and the upsert are separate statements, so calls of
\* several processes may pass the check together; the excess stays below the
\* number of processes (while no process rescans).
SoftCeiling == LiveCount <= MaxEntries + Cardinality(Procs) - 1

-----------------------------------------------------------------------------
(* Steps *)

\* A soft deletion by tags hits only facts that carry all the tags asked for.
TagDeletionsMatch ==
    [][\A p \in Procs, k \in Keys :
          /\ DeleteByTags(p)
          /\ facts[k] # NoRow
          /\ facts'[k] # facts[k]
          => loc[p].ent.tags \subseteq facts[k].tags]_vars
-----------------------------------------------------------------------------
(* Liveness *)

\* A call returns: no call waits for ever for tables that another process has
\* dropped.
CallsReturn ==
    \A p \in Procs : (pc[p] \notin {"idle", "down"}) ~> (pc[p] \in {"idle", "down"})
-----------------------------------------------------------------------------
(* Refinement *)

\* What a client of this process can see: the live facts, and while Rescan
\* rebuilds the index under Store.mu, what it will hold again.  Values are told
\* apart as far as the log can.
LogMemory(k) ==
    LET S == StoresOf(k) IN
    IF S = {} \/ Buried(Newest(S)) THEN NoRow
    ELSE [val |-> ParsedBody[log[Newest(S)].val], tags |-> log[Newest(S)].tags]

IndexMemory(k) ==
    IF ~Live(facts[k], now) THEN NoRow
    ELSE [val |-> ParsedBody[facts[k].object], tags |-> facts[k].tags]

\* no stored memory looks like the answer that finds none ("No memories found.": store.go:177-179)
ASSUME AbsentAssumption == NoRow \notin [val : Values, tags : SUBSET Tags]

Rescanning == \E p \in Procs : loc[p].replay

Memory == INSTANCE KeyValue
            WITH Absent <- NoRow,
                 mem <- [k \in Keys |-> IF Rescanning THEN LogMemory(k) ELSE IndexMemory(k)]

\* One process implements the map: each store and forget changes it at its
\* index statement, and lookups, prunes and the whole of a rescan leave it.
MemoryRefinement == Memory!Spec
-----------------------------------------------------------------------------
(* What the comments of mem7 say of the index and what the write path does not *)
(* keep: for each of these TLC finds a behaviour of Store in which it is false. *)

\* The TTL of a fact, the way the documentation means it.
HasExpired(row) == row.ttl > 0 /\ row.updated + row.ttl <= now

\* storage.go:52 "Count returns the number of live facts (not deleted, not
\* expired)".
CountsUnexpired ==
    LiveKeys = {k \in Keys : /\ facts[k] # NoRow
                             /\ ~facts[k].deleted
                             /\ ~HasExpired(facts[k])}

\* The rows that a step of Prune deletes.
PrunedRow(k) == \E p \in Procs : Prune(p) /\ facts[k] # NoRow /\ facts'[k] = NoRow

\* storage.go:55 "PurgeExpired physically removes facts whose TTL has elapsed
\* (ttl > 0 AND updated_at + ttl <= now)".
PruneTakesOnlyExpired == [][\A k \in Keys : PrunedRow(k) => HasExpired(facts[k])]_vars

\* store.go:421 "Rescan re-evaluates TTL liveness on replay so expired rows
\* never come back": a key whose newest value has expired has no value.
ExpiredNeverComeBack ==
    \A p \in Procs, k \in Keys :
        pc[p] = "count" /\ Live(facts[k], now) =>
            LET e == log[Newest(StoresOf(k))]
            IN  ~(e.ttl > 0 /\ e.time + e.ttl <= now)

\* rescan.go:13 "Safe to call at any time": a Rescan that returns, with an
\* error too, leaves an index that agrees with the log.
RescanSafeAtAnyTime ==
    [][\A p \in Procs :
          loc[p].replay /\ pc'[p] = "idle" => Consistent']_vars

\* storage.go:9 "The index is a cache of the current state reconstructible from
\* the markdown workspace at any time via Rescan": when every process is between
\* calls and none has failed, the index holds what a replay would give.
IndexReconstructible == Quiet => Consistent
=============================================================================
