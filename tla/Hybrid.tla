------------------------------- MODULE Hybrid -------------------------------
(***************************************************************************)
(* Hybrid search of mem7: the embeddings that memory_store adds to the     *)
(* index, the copy of them that each process keeps in memory (embCache),   *)
(* and the search that merges the keyword ranking with the ranking by      *)
(* cosine similarity (reciprocal rank fusion).                             *)
(*                                                                         *)
(* Embed is an HTTP call of up to 30 s between the statements of a store   *)
(* or a search.  Store.mu keeps the other calls of the process out for     *)
(* that long, and keeps no other process out.  Here the append and the     *)
(* upsert of a store are one action, and so are the statements of Reset:   *)
(* module Store takes those apart.                                         *)
(*                                                                         *)
(* A vector is abstracted to the text that it embeds, and a relevance      *)
(* ranking to any order.  The searches of this module ask for no           *)
(* neighbours.  Where a client asks for them, the keyword ranking comes    *)
(* with its neighbours before the merge, and the merged result gets its    *)
(* neighbours once more (module Neighbors has that step).                  *)
(***************************************************************************)
EXTENDS Integers, Sequences, FiniteSets, Functions

CONSTANTS Keys,       \* the entities
          Texts,      \* the texts of facts
          NoVec,      \* the column "embedding" is NULL
          NoRow,      \* the table holds no row for the key
          NotLoaded,  \* embCache is nil
          Stores,     \* what memory_store is called with
          Tagged,     \* the keys whose facts pass the filter of a filtered search
          Queries,    \* what memory_search is called with: a limit, and a filter or none
          Servers,    \* the processes that serve the tools
          Searchers,  \* the servers that are asked to search
          Rescanners, \* the processes that run "mem7 rescan"
          Failing,    \* what may fail: the embedder, the statements about vectors
          MaxLog,     \* bound of the model: stores and forgets
          MaxRescans  \* bound of the model: rescans

ASSUME StoresAssumption == Stores \subseteq [key : Keys, text : Texts, temp : BOOLEAN]
ASSUME TaggedAssumption == Tagged \subseteq Keys
ASSUME QueriesAssumption == Queries \subseteq [limit : Nat \ {0}, filtered : BOOLEAN]
ASSUME HybridProcsAssumption == Searchers \subseteq Servers /\ Servers \cap Rescanners = {}
ASSUME FailingAssumption == Failing \subseteq {"embed", "statement"}
ASSUME NoVecAssumption == NoVec \notin Texts
ASSUME HybridBoundsAssumption == MaxLog \in Nat /\ MaxRescans \in Nat

VARIABLES
    log,     \* the daily files: the stores and forgets, in order
    rows,    \* the table facts: the row of each key, or NoRow
    nextId,  \* the AUTOINCREMENT sequence of facts
    column,  \* the table has the column "embedding"
    rescans, \* how many rescans have begun
    cache,   \* embCache of each server: row id to vector, or NotLoaded
    pc,      \* where each process is
    loc      \* the local variables of the call each process executes

table == <<log, rows, nextId, column, rescans>>
vars == <<table, cache, pc, loc>>

Procs == Servers \cup Rescanners
-----------------------------------------------------------------------------
\* A log entry; "temp" is a fact that has a TTL, which is above 0.
Entries == [op : {"store", "delete"}, key : Keys, text : Texts \cup {NoVec}, temp : BOOLEAN]

Rows == [id : Nat, text : Texts, temp : BOOLEAN, deleted : BOOLEAN,
         vec : Texts \cup {NoVec}]

ASSUME RowsAssumption == NoRow \notin Rows

\* liveWhereClause.  Facts shows that a row with a TTL is never live.
Live(row) == row # NoRow /\ ~row.deleted /\ ~row.temp

LiveFacts == {k \in Keys : Live(rows[k])}
LiveIds == {rows[k].id : k \in LiveFacts}

\* One fact of a result.
Fact(k) == [id |-> rows[k].id, key |-> k]

\* The rankings of at most n members of S.
Rankings(S, n) ==
    UNION {{s \in [1 .. m -> S] : IsInjective(s)} : m \in 0 .. n}

AtMost(n, S) == IF Cardinality(S) < n THEN Cardinality(S) ELSE n

\* Local variables: the id and text of the fact being embedded; the query, its
\* keyword ranking, its cosine ranking and its answer, and the rescans and the
\* log entries that there were when the search began; the entries to replay.
NoLocals == [id |-> 0, text |-> NoVec, query |-> [limit |-> 1, filtered |-> FALSE],
             keyword |-> <<>>, cosine |-> <<>>, hits |-> <<>>, since |-> 0, from |-> 0,
             todo |-> <<>>]

Init ==
    /\ log = <<>>
    /\ rows = [k \in Keys |-> NoRow]
    /\ nextId = 1
    /\ column = TRUE
    /\ rescans = 0
    /\ cache = [p \in Servers |-> NotLoaded]
    /\ pc = [p \in Procs |-> "idle"]
    /\ loc = [p \in Procs |-> NoLocals]

Goto(p, place) == pc' = [pc EXCEPT ![p] = place]

Return(p) ==
    /\ Goto(p, "idle")
    /\ loc' = [loc EXCEPT ![p] = NoLocals]
-----------------------------------------------------------------------------
(* memory_store and memory_forget *)

\* (Faulty variant.) INSERT OR REPLACE: the row that it meets is deleted, and the
\* key comes back under a new id.
UpsertedAnew(old, e) ==
    [id |-> nextId, text |-> e.text, temp |-> e.temp, deleted |-> FALSE, vec |-> NoVec]

\* The upsert leaves the column "embedding" of a row it meets as it was.
Upserted(old, e) ==
    [id |-> IF old = NoRow THEN nextId ELSE old.id,
     text |-> e.text, temp |-> e.temp, deleted |-> FALSE,
     vec |-> IF old = NoRow THEN NoVec ELSE old.vec]

\* (Faulty variant.) The id is that of the last row inserted, which an upsert
\* that meets a row does not change.
LastInsertedId(e) ==
    LET ids == {rows[k].id : k \in {l \in Keys : rows[l] # NoRow}}
    IN  IF rows[e.key] = NoRow THEN nextId ELSE CHOOSE i \in ids : \A j \in ids : j <= i

\* The id that the upsert returns.
SavedId(e) == Upserted(rows[e.key], e).id

\* ToolStore up to Embed: the log entry and the upsert.
Put(p, call) ==
    LET e == [op |-> "store", key |-> call.key, text |-> call.text, temp |-> call.temp]
    IN
    /\ pc[p] = "idle"
    /\ Len(log) < MaxLog
    /\ log' = Append(log, e)
    /\ rows' = [rows EXCEPT ![e.key] = Upserted(@, e)]
    /\ nextId' = nextId + 1
    /\ loc' = [loc EXCEPT ![p].id = SavedId(e), ![p].text = e.text]
    /\ Goto(p, "embed")
    /\ UNCHANGED <<column, rescans, cache>>

\* Embed fails: the fact is stored all the same.
EmbedFails(p) ==
    /\ pc[p] = "embed" /\ "embed" \in Failing
    /\ Return(p)
    /\ UNCHANGED <<table, cache>>

\* A statement about vectors fails: always if the table has no column for them.
StatementFails == ~column \/ "statement" \in Failing

\* Embed has returned: UPDATE facts SET embedding WHERE id, whose error is not
\* looked at, and then the cache, if it is loaded.
StoreEmbedding(p) ==
    /\ pc[p] = "embed"
    /\ \/ StatementFails /\ UNCHANGED rows
       \/ /\ column
          /\ rows' = [k \in Keys |->
                        IF rows[k] # NoRow /\ rows[k].id = loc[p].id
                        THEN [rows[k] EXCEPT !.vec = loc[p].text] ELSE rows[k]]
    /\ cache' = [cache EXCEPT ![p] =
                   IF @ = NotLoaded THEN NotLoaded
                   ELSE [id \in DOMAIN @ \cup {loc[p].id} |->
                           IF id = loc[p].id THEN loc[p].text ELSE @[id]]]
    /\ Return(p)
    /\ UNCHANGED <<log, nextId, column, rescans>>

\* ToolForget: the tombstone and the soft deletion.  The cache keeps the vector.
Forget(p, k) ==
    /\ pc[p] = "idle"
    /\ Len(log) < MaxLog
    /\ log' = Append(log, [op |-> "delete", key |-> k, text |-> NoVec, temp |-> FALSE])
    /\ rows' = [rows EXCEPT ![k] = IF @ = NoRow THEN NoRow ELSE [@ EXCEPT !.deleted = TRUE]]
    /\ UNCHANGED <<nextId, column, rescans, cache, pc, loc>>
-----------------------------------------------------------------------------
(* memory_search *)

\* The facts that a keyword search can find.
Searchable(q) == {k \in LiveFacts : q.filtered => k \in Tagged}

Facts(ks) == [i \in DOMAIN ks |-> Fact(ks[i])]

\* Embed fails for the query, and the search is a keyword search.
KeywordSearch(p, q) ==
    /\ pc[p] = "idle" /\ "embed" \in Failing
    /\ \E ks \in Rankings(Searchable(q), q.limit) :
        loc' = [loc EXCEPT ![p] = [NoLocals EXCEPT
                    !.query = q, !.since = rescans, !.from = Len(log),
                    !.keyword = Facts(ks), !.hits = Facts(ks)]]
    /\ Goto(p, "answer")
    /\ UNCHANGED <<table, cache>>

\* The query is embedded; the keyword ranking gets twice the limit.
Bm25(p, q) ==
    /\ pc[p] = "idle"
    /\ \E ks \in Rankings(Searchable(q), 2 * q.limit) :
        loc' = [loc EXCEPT ![p] = [NoLocals EXCEPT
                    !.query = q, !.since = rescans, !.from = Len(log),
                    !.keyword = Facts(ks)]]
    /\ Goto(p, IF cache[p] = NotLoaded THEN "load" ELSE "cosine")
    /\ UNCHANGED <<table, cache>>

\* LoadEmbeddings, once in the life of a process.  If the statement fails the
\* cache starts empty, and is not loaded again.
LoadEmbeddings(p) ==
    /\ pc[p] = "load"
    /\ \/ StatementFails /\ cache' = [cache EXCEPT ![p] = <<>>]
       \/ /\ column
          /\ LET embedded == {k \in LiveFacts : rows[k].vec # NoVec}
             IN  cache' = [cache EXCEPT ![p] =
                    [id \in {rows[k].id : k \in embedded} |->
                        rows[CHOOSE k \in embedded : rows[k].id = id].vec]]
    /\ Goto(p, "cosine")
    /\ UNCHANGED <<table, loc>>

\* The place of an id in a ranking; 0 if it has none.
RankIn(ids, id) ==
    IF \E i \in DOMAIN ids : ids[i] = id THEN CHOOSE i \in DOMAIN ids : ids[i] = id ELSE 0

Share(rank) == [num |-> 1, den |-> 60 + rank]

Plus(a, b) == [num |-> a.num * b.den + b.num * a.den, den |-> a.den * b.den]
Exceeds(a, b) == a.num * b.den > b.num * a.den

\* (Faulty variant.) The second ranking sets the score instead of adding to it.
ScoreOverwritten(kw, cos, id) ==
    IF RankIn(cos, id) = 0 THEN Share(RankIn(kw, id)) ELSE Share(RankIn(cos, id))

\* (Faulty variant.) The ranks of the cosine ranking count from 0.
ScoreFavouringCosine(kw, cos, id) ==
    LET r == RankIn(kw, id)
        s == RankIn(cos, id)
    IN  CASE s = 0 -> Share(r)
          [] r = 0 -> Share(s - 1)
          [] OTHER -> Plus(Share(r), Share(s - 1))

\* The score of mergeRRF: a share 1 / (60 + rank) from each ranking.
Score(kw, cos, id) ==
    LET r == RankIn(kw, id)
        s == RankIn(cos, id)
    IN  CASE s = 0 -> Share(r)
          [] r = 0 -> Share(s)
          [] OTHER -> Plus(Share(r), Share(s))

\* The orders mergeRRF may leave: by score, equal scores in the order of a Go
\* map, cut to the limit.
Merges(kw, cos, limit) ==
    LET ids == Range(kw) \cup Range(cos)
        Above(a, b) == Exceeds(Score(kw, cos, a), Score(kw, cos, b))
    IN  {m \in Rankings(ids, limit) :
            /\ Len(m) = AtMost(limit, ids)
            /\ \A i, j \in DOMAIN m : i < j => ~Above(m[j], m[i])
            /\ \A i \in DOMAIN m, id \in ids \ Range(m) : ~Above(id, m[i])}

\* (Faulty variant.) The statement has lost its liveWhereClause.
FetchDeadToo(ids) == {Fact(k) : k \in {l \in Keys : rows[l] # NoRow /\ rows[l].id \in ids}}

FetchByIDs(ids) == {Fact(k) : k \in {l \in LiveFacts : rows[l].id \in ids}}

\* cosineSearch ranks the whole cache, whatever the filters of the query are.
\* (It leaves out vectors of norm 0; an embedding model returns none.)
CosineRankings(p) ==
    LET n == 2 * loc[p].query.limit
    IN  {ids \in Rankings(DOMAIN cache[p], n) : Len(ids) = AtMost(n, DOMAIN cache[p])}

\* The members of m that S has, in the order of m.
KeptOf(m, S) ==
    LET places == {i \in DOMAIN m : m[i] \in S}
        InOrder(f) == Range(f) = places /\ \A i, j \in DOMAIN f : i < j => f[i] < f[j]
    IN  {[i \in DOMAIN f |-> m[f[i]]] : f \in {g \in Rankings(places, Len(m)) : InOrder(g)}}

\* cosineSearch, FetchByIDs for the ids that the keyword ranking lacks, and
\* mergeRRF: after the cut, the ids that are no live fact are dropped.
FetchAndMerge(p) ==
    LET kw == loc[p].keyword
        kwIds == [i \in DOMAIN kw |-> kw[i].id]
    IN
    /\ pc[p] = "cosine"
    /\ \E cos \in CosineRankings(p) :
        LET factMap == Range(kw) \cup FetchByIDs(Range(cos) \ Range(kwIds))
            known == {f.id : f \in factMap}
        IN  \E m \in Merges(kwIds, cos, loc[p].query.limit) : \E kept \in KeptOf(m, known) :
                loc' = [loc EXCEPT ![p].cosine = cos,
                              ![p].hits = [i \in DOMAIN kept |->
                                             CHOOSE f \in factMap : f.id = kept[i]]]
    /\ Goto(p, "answer")
    /\ UNCHANGED <<table, cache>>

\* The answer is sent.
Answer(p) ==
    /\ pc[p] = "answer"
    /\ Return(p)
    /\ UNCHANGED <<table, cache>>
-----------------------------------------------------------------------------
(* mem7 rescan, and restarts *)

\* Reset: the tables are made anew, and the sequence starts again.  The column
\* "embedding" is in no table that the schema script makes.
Reset(p) ==
    /\ pc[p] = "idle"
    /\ rescans < MaxRescans
    /\ rescans' = rescans + 1
    /\ rows' = [k \in Keys |-> NoRow]
    /\ nextId' = 1
    /\ column' = FALSE
    /\ Goto(p, "parse")
    /\ UNCHANGED <<log, cache, loc>>

Parse(p) ==
    /\ pc[p] = "parse"
    /\ loc' = [loc EXCEPT ![p].todo = log]
    /\ Goto(p, "replay")
    /\ UNCHANGED <<table, cache>>

\* The replay of one entry.  A fact whose TTL has run out is skipped; no replay
\* computes an embedding.
Replay(p) ==
    LET e == Head(loc[p].todo) IN
    /\ pc[p] = "replay"
    /\ loc[p].todo # <<>>
    /\ loc' = [loc EXCEPT ![p].todo = Tail(@)]
    /\ \/ /\ e.op = "store"
          /\ rows' = [rows EXCEPT ![e.key] = Upserted(@, e)]
          /\ nextId' = nextId + 1
       \/ /\ e.op = "store" /\ e.temp
          /\ UNCHANGED <<rows, nextId>>
       \/ /\ e.op = "delete"
          /\ rows' = [rows EXCEPT ![e.key] =
                        IF @ = NoRow THEN NoRow ELSE [@ EXCEPT !.deleted = TRUE]]
          /\ UNCHANGED nextId
    /\ UNCHANGED <<log, column, rescans, cache, pc>>

RescanReturns(p) ==
    /\ pc[p] = "replay"
    /\ loc[p].todo = <<>>
    /\ Return(p)
    /\ UNCHANGED <<table, cache>>

\* A server dies and starts again: newSQLiteStore adds the column if it is not
\* there, and the cache is not loaded.
Restart(p) ==
    /\ Return(p)
    /\ cache' = [cache EXCEPT ![p] = NotLoaded]
    /\ column' = TRUE
    /\ UNCHANGED <<log, rows, nextId, rescans>>

\* Another mem7 starts, to prune or for another client: newSQLiteStore adds the
\* column.
Open ==
    /\ column' = TRUE
    /\ UNCHANGED <<log, rows, nextId, rescans, cache, pc, loc>>

\* "mem7 prune" in a process of its own, at any time: the rows that have a TTL go,
\* live or soft-deleted (Facts: to its WHERE clause every TTL has run out), and a
\* later store of the key makes a row with a new id.
Prune ==
    /\ rows' = [k \in Keys |-> IF rows[k] # NoRow /\ rows[k].temp THEN NoRow ELSE rows[k]]
    /\ UNCHANGED <<log, nextId, column, rescans, cache, pc, loc>>
-----------------------------------------------------------------------------
Write(p) ==
    \/ \E call \in Stores : Put(p, call)
    \/ \E k \in Keys : Forget(p, k)
    \/ EmbedFails(p) \/ StoreEmbedding(p)

Search(p) ==
    \/ \E q \in Queries : KeywordSearch(p, q) \/ Bm25(p, q)
    \/ LoadEmbeddings(p) \/ FetchAndMerge(p) \/ Answer(p)

Rescan(p) == Reset(p) \/ Parse(p) \/ Replay(p) \/ RescanReturns(p)

Next ==
    \/ \E p \in Servers : Write(p) \/ Restart(p)
    \/ \E p \in Searchers : Search(p)
    \/ \E p \in Rescanners : Rescan(p)
    \/ Open \/ Prune

Spec == Init /\ [][Next]_vars
=============================================================================
