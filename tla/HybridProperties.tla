-------------------------- MODULE HybridProperties --------------------------
(***************************************************************************)
(* What hybrid search and its embeddings keep, and what the documentation  *)
(* says of them that they do not keep.                                     *)
(***************************************************************************)
EXTENDS Hybrid

Answering == {p \in Servers : pc[p] = "answer"}

\* The texts that were stored under a key.
TextsOf(k) == {log[i].text : i \in {j \in DOMAIN log : log[j].op = "store" /\ log[j].key = k}}

\* A fact with a TTL was stored under the key.
StoredWithTtl(k) ==
    \E i \in DOMAIN log : log[i].op = "store" /\ log[i].key = k /\ log[i].temp

\* After the first n log entries k has a value, and one without a TTL.
LiveAfter(n, k) ==
    \E i \in 1 .. n :
        /\ log[i].key = k /\ log[i].op = "store" /\ ~log[i].temp
        /\ \A j \in i + 1 .. n : log[j].key # k

KeywordIds(p) == [i \in DOMAIN loc[p].keyword |-> loc[p].keyword[i].id]
HitIds(p) == [i \in DOMAIN loc[p].hits |-> loc[p].hits[i].id]

Before(r, s) == r # 0 /\ (s = 0 \/ r < s)
-----------------------------------------------------------------------------
(* Safety *)

\* HYB1: the vectors of dead facts stay in the cache, take places in the cosine
\* ranking, and are dropped only after the cut.  They cannot take more than half
\* of the answer: at least limit / 2 hits are returned if the keyword search has
\* them, in any state of the cache and with rescans falling into the search.
HalfTheAnswerIsSafe ==
    \A p \in Answering :
        Len(loc[p].hits) >=
            LET half == loc[p].query.limit \div 2
            IN  IF Len(loc[p].keyword) < half THEN Len(loc[p].keyword) ELSE half

\* HYB2: the merge respects what both rankings agree on: a fact that the keyword
\* ranking puts above another, and the cosine ranking too (or does not have the
\* other), stands above it in the answer, and is not cut before it.
AgreementKept ==
    \A p \in Answering :
        LET kw == KeywordIds(p)
            cos == loc[p].cosine
            hits == HitIds(p)
        IN  \A a \in Range(kw), b \in Range(hits) :
                /\ Before(RankIn(kw, a), RankIn(kw, b))
                /\ RankIn(cos, b) = 0 \/ Before(RankIn(cos, a), RankIn(cos, b))
                => Before(RankIn(hits, a), RankIn(hits, b))

\* HYB3: a fact is in an answer once, although the two rankings were computed from
\* two states of the table, between which others store, forget and prune, or go on
\* with the replay of a rescan (unless a rescan began in between, or the key was
\* once stored with a TTL: a prune makes it give up its id).
OneHitPerFact ==
    \A p \in Answering :
        loc[p].since = rescans =>
            \A i, j \in DOMAIN loc[p].hits :
                loc[p].hits[i].key = loc[p].hits[j].key
                => i = j \/ StoredWithTtl(loc[p].hits[i].key)

\* HYB4: a fact that was forgotten before a search began, and not stored again
\* before it ended, is not found, although its vector is still in every cache
\* (while no rescan has rebuilt the index).
ForgottenNotFound ==
    \A p \in Answering :
        rescans = 0 =>
            \A f \in Range(loc[p].hits) :
                \E n \in loc[p].from .. Len(log) : LiveAfter(n, f.key)

\* HYB5: a vector, in the table or in the cache of any process, embeds a text that
\* was stored under the key whose row has the id, and never that of another fact
\* (while no rescan has given the ids out again).
OwnVector(id, v) == \A k \in Keys : rows[k] # NoRow /\ rows[k].id = id => v \in TextsOf(k)

VectorsOfOwnKey ==
    rescans = 0 =>
        /\ \A k \in Keys : rows[k] # NoRow /\ rows[k].vec # NoVec =>
                              OwnVector(rows[k].id, rows[k].vec)
        /\ \A p \in Servers : cache[p] # NotLoaded =>
              \A id \in DOMAIN cache[p] : OwnVector(id, cache[p][id])
-----------------------------------------------------------------------------
(* Claims that do not hold *)

\* README.md:192 "tags: Post-filter by tags", and so for agent, since and until.
HitsPassTheFilter ==
    \A p \in Answering :
        loc[p].query.filtered => \A f \in Range(loc[p].hits) : f.key \in Tagged

\* README.md:102 "retrieves BM25 top-2N and cosine top-2N candidates, then merges
\* them via Reciprocal Rank Fusion (RRF, k=60) into the final top-N": a search
\* that found N live facts by keyword returns N of them.
FinalTopN ==
    \A p \in Answering :
        Len(loc[p].hits) >= AtMost(loc[p].query.limit, Range(loc[p].keyword))

\* README.md:102 "memory_store computes and persists an embedding alongside each
\* entry": once the embedding is computed, the row that was stored has it.  (Reset
\* makes tables without the column, and only a start of mem7 adds it.)
EmbeddingsPersisted ==
    [][\A p \in Servers, k \in Keys :
          StoreEmbedding(p) /\ rows[k] # NoRow /\ rows[k].id = loc[p].id
          => rows'[k].vec = loc[p].text]_vars

\* README.md:159 "an embedding is computed and stored alongside the entry": a
\* vector is that of the current text.
VectorsCurrent ==
    \A k \in Keys : rows[k] # NoRow /\ (\A p \in Servers : pc[p] # "embed") =>
        rows[k].vec \in {rows[k].text, NoVec}

\* README.md:274 "mem7 rescan drops it and replays the markdown chronologically
\* to reconstruct a consistent state": a vector belongs to the fact of its id.
VectorsOfOwnKeyAlways ==
    \A p \in Servers : cache[p] # NotLoaded =>
        \A id \in DOMAIN cache[p] : OwnVector(id, cache[p][id])
=============================================================================
