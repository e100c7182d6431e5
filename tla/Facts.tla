------------------------------- MODULE Facts -------------------------------
(***************************************************************************)
(* The data of mem7: what a daily markdown log entry records, what a row   *)
(* of the SQLite table "facts" holds, and the functions of both that the   *)
(* program computes.  A text is abstracted to the member of a small set: a *)
(* key is a trimmed one-line string, a tag contains no comma, and the only *)
(* thing known of a value is the value that the markdown file gives back   *)
(* for it (ParsedBody).  Times are seconds, the resolution of RFC 3339.    *)
(***************************************************************************)
EXTENDS Integers, Sequences, FiniteSets

CONSTANTS Keys,       \* the entities; every fact has the predicate "note"
          NoKey,      \* no key was given, or the entry carries none
          Values,     \* the bodies clients store
          NoValue,    \* the body of an entry that has none
          ParsedBody, \* what parsing the log entry of a body returns for it
          Tags,       \* the tags
          Agents,     \* the agent names, the empty one included
          NoAgent,    \* the empty agent name
          NoRow,      \* the table holds no row for the key
          MaxSpan     \* the seconds that a time.Duration can hold

ASSUME NoKeyAssumption == NoKey \notin Keys
ASSUME NoValueAssumption == NoValue \notin Values
ASSUME ParsedBodyAssumption == ParsedBody \in [Values -> Values]
ASSUME NoAgentAssumption == NoAgent \in Agents
ASSUME MaxSpanAssumption == MaxSpan \in Nat \ {0}
-----------------------------------------------------------------------------
\* A log entry.  "time" is the updated or deleted stamp of the envelope, the
\* one entryTime sorts by; a tombstone has no body, agent, ttl or created that
\* a replay reads, and a delete_tags tombstone no key.
EntryRecords == [op : {"none", "store", "delete", "delete_tags"},
                 key : Keys \cup {NoKey},
                 val : Values \cup {NoValue},
                 tags : SUBSET Tags,
                 agent : Agents,
                 ttl : Int,
                 created : Nat,
                 time : Nat]

Entries == {e \in EntryRecords : e.op = "store" => e.key \in Keys /\ e.val \in Values}

BlankEntry == [op |-> "none", key |-> NoKey, val |-> NoValue, tags |-> {},
               agent |-> NoAgent, ttl |-> 0, created |-> 0, time |-> 0]

KeyTombstone(k, t) == [BlankEntry EXCEPT !.op = "delete", !.key = k, !.time = t]

TagsTombstone(T, t) ==
    [BlankEntry EXCEPT !.op = "delete_tags", !.tags = T, !.time = t]

\* (Faulty variant.) The parser returns an entry without its body.
ReadBackWithoutBody(e) == IF e.op = "store" THEN [e EXCEPT !.val = NoValue] ELSE e

\* formatStoreEntry writes a ttl line only for a ttl above 0.
WrittenTtl(ttl) == IF ttl > 0 THEN ttl ELSE 0

\* What parseDailyFile makes of the text that formatStoreEntry wrote for e.
ReadBack(e) ==
    IF e.op = "store"
    THEN [e EXCEPT !.val = ParsedBody[e.val], !.ttl = WrittenTtl(e.ttl)]
    ELSE e

\* The order of a replay: by time, and for equal times by place in the file.
EarlierIn(lg, i, j) ==
    \/ lg[i].time < lg[j].time
    \/ lg[i].time = lg[j].time /\ i < j
-----------------------------------------------------------------------------
\* A row of the table "facts".  "deleted" says that deleted_at is not NULL.
Rows == [id : Nat,
         object : Values,
         tags : SUBSET Tags,
         agent : Agents,
         ttl : Int,
         created : Nat,
         updated : Nat,
         deleted : BOOLEAN]

ASSUME NoRowAssumption == NoRow \notin Rows

\* Values of SQLite carry a storage class.  strftime returns TEXT, adding a
\* number to a TEXT makes an INTEGER, and comparing two values that have no
\* column affinity compares their classes first: INTEGER is less than TEXT.
SqlInteger(n) == [class |-> "integer", value |-> n]
SqlText(n) == [class |-> "text", value |-> n]
SqlGreater(a, b) ==
    IF a.class = b.class THEN a.value > b.value ELSE a.class = "text"

\* strftime('%s', updated_at) + ttl > strftime('%s', 'now')
Outlives(row, t) == SqlGreater(SqlInteger(row.updated + row.ttl), SqlText(t))

\* liveWhereClause: the rows Query, List, Search and Count see.
Live(row, t) ==
    /\ row # NoRow
    /\ ~row.deleted
    /\ row.ttl = 0 \/ Outlives(row, t)

\* The WHERE clause of PurgeExpired.
Purged(row, t) == row # NoRow /\ row.ttl > 0 /\ ~Outlives(row, t)

\* time.Duration(ttl)*time.Second, in seconds: a product in int64 that wraps.
Span(ttl) == ((ttl + MaxSpan) % (2 * MaxSpan)) - MaxSpan

\* (Faulty variant.) The replay has lost its test of ttl > 0.
MaySkipPermanent(e, t) == e.time + Span(e.ttl) <= t

\* The replay test of Rescan, on the parsed entry: e.Updated plus the ttl is
\* before now.  The clock has fractions of a second and the log has none, so an
\* entry that ends in the current second may be taken either way.
MaySkip(e, t) == e.ttl > 0 /\ e.time + Span(e.ttl) <= t
MayApply(e, t) == e.ttl <= 0 \/ e.time + Span(e.ttl) >= t

\* (Faulty variant.) The upsert leaves deleted_at as it was.
UpsertedKeepingDeletion(old, id, e) ==
    [id |-> IF old = NoRow THEN id ELSE old.id,
     object |-> e.val, tags |-> e.tags, ttl |-> e.ttl, updated |-> e.time,
     agent |-> IF old # NoRow /\ e.agent = NoAgent THEN old.agent ELSE e.agent,
     created |-> IF old = NoRow THEN e.created ELSE old.created,
     deleted |-> old # NoRow /\ old.deleted]

\* The row that the upsert of entry e leaves where "old" was.  A conflict keeps
\* the id and created_at of the old row, and its agent if e names none.
Upserted(old, id, e) ==
    [id |-> IF old = NoRow THEN id ELSE old.id,
     object |-> e.val,
     tags |-> e.tags,
     agent |-> IF old # NoRow /\ e.agent = NoAgent THEN old.agent ELSE e.agent,
     ttl |-> e.ttl,
     created |-> IF old = NoRow THEN e.created ELSE old.created,
     updated |-> e.time,
     deleted |-> FALSE]

\* The join table fact_tags gives the row every tag of T.
TaggedWithAll(row, T, joined) == \A tag \in T : <<row.id, tag>> \in joined
=============================================================================
