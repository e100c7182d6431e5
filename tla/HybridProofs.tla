---------------------------- MODULE HybridProofs ----------------------------
(***************************************************************************)
(* Theorems about Hybrid: whose vectors the cache and the column hold, and *)
(* what an answer of hybrid search keeps, for every size of the table, the *)
(* cache and the limit, and with stores, deletions, restarts, prunes and   *)
(* rescans of other processes between the steps of the search.             *)
(***************************************************************************)
EXTENDS HybridProperties, FiniteSetTheorems, FunctionTheorems, TLAPS

Places == {"idle", "embed", "load", "cosine", "answer", "parse", "replay"}

\* Of the local variables only the id and the text of a store are needed.
LocalsOK == \A p \in Procs : {"id", "text"} \subseteq DOMAIN loc[p]

HybridTypes ==
    /\ log \in Seq(Entries)
    /\ rows \in [Keys -> Rows \cup {NoRow}]
    /\ nextId \in Nat
    /\ DOMAIN cache = Servers
    /\ pc \in [Procs -> Places]
    /\ DOMAIN loc = Procs
    /\ LocalsOK

\* Every id that is in use was given out once.
IdsGivenOnce ==
    /\ \A k, l \in Keys : rows[k] # NoRow /\ rows[l] # NoRow /\ rows[k].id = rows[l].id => k = l
    /\ \A k \in Keys : rows[k] # NoRow => rows[k].id < nextId

\* A vector under an id is no newer than the id, and of the key that has it.
Known(id, v) == id \in Nat /\ id < nextId /\ OwnVector(id, v)

VectorsKnown ==
    /\ \A k \in Keys : rows[k] # NoRow /\ rows[k].vec # NoVec => rows[k].vec \in TextsOf(k)
    /\ \A p \in Servers : pc[p] = "embed" => Known(loc[p].id, loc[p].text)
    /\ \A p \in Servers : cache[p] # NotLoaded =>
          \A id \in DOMAIN cache[p] : Known(id, cache[p][id])

NoRescan == \A p \in Rescanners : pc[p] = "idle"

BeforeRescans == HybridTypes /\ NoRescan /\ IdsGivenOnce /\ VectorsKnown

OwnInv == rescans \in Nat /\ (rescans = 0 => BeforeRescans)
-----------------------------------------------------------------------------
(* Initial states and the property *)

\* Nothing is stored and nobody holds a vector.
LEMMA OwnInit == Init => OwnInv
  BY SMT DEF Init, OwnInv, BeforeRescans, NoRescan, HybridTypes, LocalsOK, IdsGivenOnce, VectorsKnown, Places, NoLocals,
         Procs, Entries

\* The invariant is stronger than the property.
LEMMA OwnImplies == OwnInv => VectorsOfOwnKey
  <1> SUFFICES ASSUME OwnInv, rescans = 0 PROVE VectorsOfOwnKey!2
    BY DEF VectorsOfOwnKey
  <1>1. \A k \in Keys : rows[k] # NoRow /\ rows[k].vec # NoVec => OwnVector(rows[k].id, rows[k].vec)
    BY DEF OwnInv, BeforeRescans, IdsGivenOnce, VectorsKnown, OwnVector
  <1>2. \A p \in Servers : cache[p] # NotLoaded =>
          \A id \in DOMAIN cache[p] : OwnVector(id, cache[p][id])
    BY DEF OwnInv, BeforeRescans, VectorsKnown, Known
  <1> QED
    BY <1>1, <1>2
-----------------------------------------------------------------------------
(* Steps *)

\* The texts of a key are not forgotten when the log grows, and a store adds its own.
LEMMA TextsGrow ==
    ASSUME log \in Seq(Entries), NEW e \in Entries, log' = Append(log, e)
    PROVE  /\ log' \in Seq(Entries)
           /\ \A k \in Keys : TextsOf(k) \subseteq TextsOf(k)'
           /\ e.op = "store" => e.text \in TextsOf(e.key)'
  <1>1. log' \in Seq(Entries) /\ Len(log') = Len(log) + 1
    OBVIOUS
  <1>2. \A i \in DOMAIN log : i \in DOMAIN log' /\ log'[i] = log[i]
    OBVIOUS
  <1>3. Len(log) + 1 \in DOMAIN log' /\ log'[Len(log) + 1] = e
    OBVIOUS
  <1>4. \A k \in Keys : TextsOf(k) \subseteq TextsOf(k)'
    BY <1>2 DEF TextsOf
  <1>5. e.op = "store" => e.text \in TextsOf(e.key)'
    BY <1>3 DEF TextsOf
  <1> QED
    BY <1>1, <1>4, <1>5

\* What is known of a vector stays true while the log grows, rows keep their ids,
\* and new rows get ids that were not given out.
LEMMA KnownStays ==
    ASSUME nextId \in Nat, nextId' \in Nat, nextId <= nextId',
           \A k \in Keys : TextsOf(k) \subseteq TextsOf(k)',
           \A k \in Keys : rows'[k] # NoRow =>
               (rows[k] # NoRow /\ rows'[k].id = rows[k].id) \/ rows'[k].id = nextId,
           NEW id, NEW v, Known(id, v)
    PROVE  Known(id, v)'
  BY DEF Known, OwnVector

\* A store: the row of the key is upserted, and its text is about to be embedded.
LEMMA PutKeeps ==
    ASSUME BeforeRescans, NEW p \in Servers, NEW call \in Stores, Put(p, call)
    PROVE  BeforeRescans'
  <1> DEFINE e == [op |-> "store", key |-> call.key, text |-> call.text, temp |-> call.temp]
             K == call.key
             old == rows[K]
             id == SavedId(e)
  <1>1. call \in [key : Keys, text : Texts, temp : BOOLEAN] /\ K \in Keys
    BY StoresAssumption
  <1>2. e \in Entries /\ e.key = K /\ e.op = "store" /\ e.text = call.text /\ e.text \in Texts
    BY <1>1 DEF Entries
  <1>3. /\ log' = Append(log, e)
        /\ rows' = [rows EXCEPT ![K] = Upserted(old, e)]
        /\ nextId' = nextId + 1
        /\ loc' = [loc EXCEPT ![p].id = id, ![p].text = e.text]
        /\ pc' = [pc EXCEPT ![p] = "embed"]
        /\ UNCHANGED <<rescans, cache>>
    BY <1>2 DEF Put, Goto
  <1>4. HybridTypes /\ p \in Procs
    BY DEF BeforeRescans, Procs
  <1>5. /\ log' \in Seq(Entries)
        /\ \A k \in Keys : TextsOf(k) \subseteq TextsOf(k)'
        /\ e.text \in TextsOf(K)'
    <2> HIDE DEF e
    <2> QED
      BY <1>2, <1>3, <1>4, TextsGrow DEF HybridTypes
  <1>6. /\ Upserted(old, e) \in Rows
        /\ Upserted(old, e).id = id
        /\ old = NoRow => id = nextId /\ Upserted(old, e).vec = NoVec
        /\ old # NoRow => id = old.id /\ Upserted(old, e).vec = old.vec
    <2>1. old \in Rows \/ old = NoRow
      BY <1>1, <1>4 DEF HybridTypes
    <2> QED
      BY <1>1, <1>2, <1>4, <2>1, NoVecAssumption DEF HybridTypes, Upserted, SavedId, Rows
  <1> HIDE DEF e, id
  <1>7. rows' \in [Keys -> Rows \cup {NoRow}] /\ rows'[K] = Upserted(old, e)
        /\ \A k \in Keys : k # K => rows'[k] = rows[k]
    BY <1>1, <1>3, <1>4, <1>6 DEF HybridTypes
  <1>8. /\ DOMAIN loc' = Procs /\ LocalsOK'
        /\ loc'[p].id = id /\ loc'[p].text = e.text
        /\ \A q \in Procs : q # p => loc'[q] = loc[q]
    BY <1>3, <1>4 DEF HybridTypes, LocalsOK
  <1>9. pc' \in [Procs -> Places] /\ pc'[p] = "embed" /\ \A q \in Procs : q # p => pc'[q] = pc[q]
    BY <1>3, <1>4 DEF HybridTypes, Places
  <1>10. HybridTypes'
    BY <1>3, <1>4, <1>5, <1>7, <1>8, <1>9 DEF HybridTypes
  <1>11. NoRescan' /\ IdsGivenOnce' /\ VectorsKnown'
    <2>1. IdsGivenOnce /\ VectorsKnown /\ NoRescan
      BY DEF BeforeRescans
    <2>2. NoRescan'
      BY <1>9, <2>1, HybridProcsAssumption DEF NoRescan, Procs
    <2>3. \A k \in Keys : rows'[k] # NoRow =>
             (rows[k] # NoRow /\ rows'[k].id = rows[k].id) \/ (rows[k] = NoRow /\ rows'[k].id = nextId)
      BY <1>6, <1>7
    <2>4. \A k \in Keys : rows[k] # NoRow => rows[k].id \in Nat /\ rows[k].id < nextId
      BY <1>4, <2>1 DEF HybridTypes, IdsGivenOnce, Rows
    <2>5. IdsGivenOnce'
      <3>1. \A k \in Keys : rows'[k] # NoRow => rows'[k].id < nextId'
        BY <1>3, <1>4, <2>3, <2>4 DEF HybridTypes
      <3>2. ASSUME NEW k \in Keys, NEW l \in Keys,
                   rows'[k] # NoRow, rows'[l] # NoRow, rows'[k].id = rows'[l].id
            PROVE  k = l
        <4>1. CASE k # K /\ l # K
          BY <1>7, <2>1, <3>2, <4>1 DEF IdsGivenOnce
        <4>2. CASE k = K \/ l = K
          BY <1>4, <1>6, <1>7, <2>1, <2>4, <3>2, <4>2 DEF IdsGivenOnce, HybridTypes
        <4> QED
          BY <4>1, <4>2
      <3> QED
        BY <3>1, <3>2 DEF IdsGivenOnce
    <2>6. \A i, v : Known(i, v) => Known(i, v)'
      BY <1>3, <1>4, <1>5, <2>3, KnownStays DEF HybridTypes
    <2>7. \A k \in Keys : rows'[k] # NoRow /\ rows'[k].vec # NoVec => rows'[k].vec \in TextsOf(k)'
      BY <1>5, <1>6, <1>7, <2>1 DEF VectorsKnown
    <2>8. /\ id \in Nat /\ id < nextId'
          /\ \A k \in Keys : rows'[k] # NoRow /\ rows'[k].id = id => e.text \in TextsOf(k)'
      <3>1. rows'[K] # NoRow /\ rows'[K].id = id /\ id \in Nat /\ id < nextId'
        BY <1>1, <1>3, <1>4, <1>6, <1>7, <2>4, RowsAssumption DEF HybridTypes
      <3>2. \A k \in Keys : rows'[k] # NoRow /\ rows'[k].id = id => k = K
        BY <1>1, <2>5, <3>1 DEF IdsGivenOnce
      <3> QED
        BY <1>5, <3>1, <3>2
    <2>9. \A q \in Servers : pc'[q] = "embed" => Known(loc[q].id, loc[q].text)'
      <3> SUFFICES ASSUME NEW q \in Servers, pc'[q] = "embed"
                   PROVE  Known(loc[q].id, loc[q].text)'
        OBVIOUS
      <3>1. CASE q = p
        BY <1>8, <2>8, <3>1 DEF Known, OwnVector
      <3>2. CASE q # p
        <4>1. Known(loc[q].id, loc[q].text) /\ loc'[q] = loc[q]
          BY <1>8, <1>9, <2>1, <3>2 DEF VectorsKnown, Procs
        <4> QED
          BY <2>6, <4>1 DEF Known, OwnVector
      <3> QED
        BY <3>1, <3>2
    <2>10. \A q \in Servers : cache'[q] # NotLoaded =>
              \A i \in DOMAIN cache'[q] : Known(i, cache[q][i])'
      <3> SUFFICES ASSUME NEW q \in Servers, cache'[q] # NotLoaded, NEW i \in DOMAIN cache'[q]
                   PROVE  Known(i, cache[q][i])'
        OBVIOUS
      <3>1. cache' = cache
        BY <1>3
      <3>2. Known(i, cache[q][i])
        BY <2>1, <3>1 DEF VectorsKnown
      <3> QED
        BY <2>6, <3>1, <3>2 DEF Known, OwnVector
    <2> QED
      BY <2>2, <2>5, <2>7, <2>9, <2>10 DEF VectorsKnown
  <1> QED
    BY <1>10, <1>11 DEF BeforeRescans

\* A step that touches neither tables nor caches, and begins no embedding.
LEMMA QuietKeeps ==
    ASSUME BeforeRescans, NEW p \in Procs, NEW place \in Places \ {"embed"},
           UNCHANGED <<log, rows, nextId, cache>>,
           pc' = [pc EXCEPT ![p] = place], p \in Rescanners => place = "idle",
           DOMAIN loc' = Procs, {"id", "text"} \subseteq DOMAIN loc'[p],
           \A q \in Procs : q # p => loc'[q] = loc[q]
    PROVE  BeforeRescans'
  <1>1. HybridTypes /\ NoRescan /\ IdsGivenOnce /\ VectorsKnown
    BY DEF BeforeRescans
  <1>2. /\ pc' \in [Procs -> Places] /\ pc'[p] = place
        /\ \A q \in Procs : q # p => pc'[q] = pc[q]
    BY <1>1 DEF HybridTypes
  <1>3. HybridTypes'
    BY <1>1, <1>2 DEF HybridTypes, LocalsOK
  <1>4. NoRescan'
    BY <1>1, <1>2 DEF NoRescan, Procs
  <1>5. IdsGivenOnce'
    BY <1>1 DEF IdsGivenOnce
  <1>6. \A id, v : Known(id, v) => Known(id, v)'
    BY DEF Known, OwnVector, TextsOf
  <1>7. \A q \in Servers : pc'[q] = "embed" => Known(loc[q].id, loc[q].text)'
    <2> SUFFICES ASSUME NEW q \in Servers, pc'[q] = "embed"
                 PROVE  Known(loc[q].id, loc[q].text)'
      OBVIOUS
    <2>1. loc'[q] = loc[q] /\ Known(loc[q].id, loc[q].text)
      BY <1>1, <1>2 DEF VectorsKnown, Procs
    <2> QED
      BY <1>6, <2>1 DEF Known, OwnVector
  <1>8. VectorsKnown'
    BY <1>1, <1>7 DEF VectorsKnown, Known, OwnVector, TextsOf
  <1> QED
    BY <1>3, <1>4, <1>5, <1>8 DEF BeforeRescans

\* Every return of a call.
LEMMA ReturnKeeps ==
    ASSUME BeforeRescans, NEW p \in Procs, Return(p), UNCHANGED <<log, rows, nextId, cache>>
    PROVE  BeforeRescans'
  <1>1. /\ pc' = [pc EXCEPT ![p] = "idle"] /\ DOMAIN loc' = Procs
        /\ \A q \in Procs : q # p => loc'[q] = loc[q]
        /\ loc'[p] = NoLocals
    BY DEF Return, Goto, BeforeRescans, HybridTypes
  <1>2. {"id", "text"} \subseteq DOMAIN loc'[p]
    BY <1>1 DEF NoLocals
  <1> QED
    BY <1>1, <1>2, QuietKeeps DEF Places

\* A restart forgets the cache.
LEMMA RestartKeeps ==
    ASSUME BeforeRescans, NEW p \in Servers, Restart(p)
    PROVE  BeforeRescans'
  <1>1. HybridTypes /\ NoRescan /\ IdsGivenOnce /\ VectorsKnown
    BY DEF BeforeRescans
  <1>2. /\ UNCHANGED <<log, rows, nextId>>
        /\ DOMAIN cache' = Servers /\ cache'[p] = NotLoaded
        /\ \A q \in Servers : q # p => cache'[q] = cache[q]
    BY <1>1 DEF Restart, HybridTypes
  <1>3. /\ pc' \in [Procs -> Places] /\ pc'[p] = "idle" /\ DOMAIN loc' = Procs
        /\ \A q \in Procs : q # p => pc'[q] = pc[q] /\ loc'[q] = loc[q]
        /\ loc'[p] = NoLocals
    BY <1>1 DEF Restart, Return, Goto, HybridTypes, Places, Procs
  <1>4. {"id", "text"} \subseteq DOMAIN loc'[p]
    BY <1>3 DEF NoLocals
  <1>5. HybridTypes'
    BY <1>1, <1>2, <1>3, <1>4 DEF HybridTypes, LocalsOK
  <1>6. NoRescan'
    BY <1>1, <1>3 DEF NoRescan, Procs
  <1>7. IdsGivenOnce'
    BY <1>1, <1>2 DEF IdsGivenOnce
  <1>8. \A id, v : Known(id, v) => Known(id, v)'
    BY <1>2 DEF Known, OwnVector, TextsOf
  <1>9. \A q \in Servers : pc'[q] = "embed" => Known(loc[q].id, loc[q].text)'
    <2> SUFFICES ASSUME NEW q \in Servers, pc'[q] = "embed"
                 PROVE  Known(loc[q].id, loc[q].text)'
      OBVIOUS
    <2>1. loc'[q] = loc[q] /\ Known(loc[q].id, loc[q].text)
      BY <1>1, <1>3 DEF VectorsKnown, Procs
    <2> QED
      BY <1>8, <2>1 DEF Known, OwnVector
  <1>10. \A q \in Servers : cache'[q] # NotLoaded =>
            \A id \in DOMAIN cache'[q] : Known(id, cache[q][id])'
    BY <1>1, <1>2, <1>8 DEF VectorsKnown, Known, OwnVector
  <1>11. \A k \in Keys : rows'[k] # NoRow /\ rows'[k].vec # NoVec => rows'[k].vec \in TextsOf(k)'
    BY <1>1, <1>2 DEF VectorsKnown, TextsOf
  <1> QED
    BY <1>5, <1>6, <1>7, <1>9, <1>10, <1>11 DEF BeforeRescans, VectorsKnown

\* The embedding of a stored fact goes under the id that the upsert returned.
LEMMA StoreEmbeddingKeeps ==
    ASSUME BeforeRescans, NEW p \in Servers, StoreEmbedding(p)
    PROVE  BeforeRescans'
  <1> DEFINE i == loc[p].id
             t == loc[p].text
  <1>1. HybridTypes /\ NoRescan /\ IdsGivenOnce /\ VectorsKnown
    BY DEF BeforeRescans
  <1>2. /\ UNCHANGED <<log, nextId>> /\ p \in Procs
        /\ pc[p] = "embed"
        /\ cache' = [cache EXCEPT ![p] =
                        IF @ = NotLoaded THEN NotLoaded
                        ELSE [id \in DOMAIN @ \cup {i} |-> IF id = i THEN t ELSE @[id]]]
    BY DEF StoreEmbedding, Procs
  <1>3. Known(i, t)
    BY <1>1, <1>2 DEF VectorsKnown
  <1>4. ASSUME NEW k \in Keys
        PROVE  /\ rows'[k] \in Rows \cup {NoRow}
               /\ rows'[k] = NoRow <=> rows[k] = NoRow
               /\ rows'[k] # NoRow => rows'[k].id = rows[k].id
               /\ rows'[k] # NoRow /\ rows'[k].vec # NoVec => rows'[k].vec \in TextsOf(k)
    <2>1. CASE rows'[k] = rows[k]
      BY <1>1, <2>1 DEF HybridTypes, VectorsKnown
    <2>2. CASE rows[k] # NoRow /\ rows[k].id = i /\ rows'[k] = [rows[k] EXCEPT !.vec = t]
      <3>1. rows[k] \in Rows /\ t \in TextsOf(k)
        BY <1>1, <1>3, <2>2 DEF HybridTypes, Known, OwnVector
      <3>2. t \in Texts \cup {NoVec}
        <4>1. PICK j \in DOMAIN log : t = log[j].text
          BY <3>1 DEF TextsOf
        <4>2. log[j] \in Entries
          BY <1>1 DEF HybridTypes
        <4> QED
          BY <4>1, <4>2 DEF Entries
      <3>3. rows'[k] \in Rows /\ rows'[k].id = rows[k].id /\ rows'[k].vec = t
        BY <2>2, <3>1, <3>2 DEF Rows
      <3> QED
        BY <2>2, <3>1, <3>3, RowsAssumption
    <2>3. \/ rows'[k] = rows[k]
          \/ rows[k] # NoRow /\ rows[k].id = i /\ rows'[k] = [rows[k] EXCEPT !.vec = t]
      <3>1. CASE UNCHANGED rows
        BY <3>1
      <3>2. CASE rows' = [l \in Keys |-> IF rows[l] # NoRow /\ rows[l].id = i
                                        THEN [rows[l] EXCEPT !.vec = t] ELSE rows[l]]
        BY <3>2
      <3> QED
        BY <3>1, <3>2 DEF StoreEmbedding
    <2> QED
      BY <2>1, <2>2, <2>3
  <1>5. rows' \in [Keys -> Rows \cup {NoRow}]
    <2>1. DOMAIN rows' = Keys /\ rows' = [k \in Keys |-> rows'[k]]
      <3>1. CASE UNCHANGED rows
        BY <1>1, <3>1 DEF HybridTypes
      <3>2. CASE rows' = [l \in Keys |-> IF rows[l] # NoRow /\ rows[l].id = i
                                        THEN [rows[l] EXCEPT !.vec = t] ELSE rows[l]]
        BY <3>2
      <3> QED
        BY <3>1, <3>2 DEF StoreEmbedding
    <2> QED
      BY <1>4, <2>1
  <1>6. /\ pc' \in [Procs -> Places] /\ pc'[p] = "idle" /\ DOMAIN loc' = Procs
        /\ \A q \in Procs : q # p => pc'[q] = pc[q] /\ loc'[q] = loc[q]
        /\ loc'[p] = NoLocals
    BY <1>1, <1>2 DEF StoreEmbedding, Return, Goto, HybridTypes, Places
  <1>7. HybridTypes' /\ NoRescan'
    <2>1. {"id", "text"} \subseteq DOMAIN loc'[p]
      BY <1>6 DEF NoLocals
    <2> QED
      BY <1>1, <1>2, <1>5, <1>6, <2>1 DEF HybridTypes, LocalsOK, NoRescan, Procs
  <1>8. IdsGivenOnce'
    BY <1>1, <1>2, <1>4 DEF IdsGivenOnce
  <1>9. \A id, v : Known(id, v) => Known(id, v)'
    <2>1. \A k \in Keys : TextsOf(k)' = TextsOf(k)
      BY <1>2 DEF TextsOf
    <2> QED
      BY <1>2, <1>4, <2>1 DEF Known, OwnVector
  <1>10. \A k \in Keys : rows'[k] # NoRow /\ rows'[k].vec # NoVec => rows'[k].vec \in TextsOf(k)'
    BY <1>2, <1>4 DEF TextsOf
  <1>11. \A q \in Servers : pc'[q] = "embed" => Known(loc[q].id, loc[q].text)'
    <2> SUFFICES ASSUME NEW q \in Servers, pc'[q] = "embed"
                 PROVE  Known(loc[q].id, loc[q].text)'
      OBVIOUS
    <2>1. loc'[q] = loc[q] /\ Known(loc[q].id, loc[q].text)
      BY <1>1, <1>6 DEF VectorsKnown, Procs
    <2> QED
      BY <1>9, <2>1 DEF Known, OwnVector
  <1>12. ASSUME NEW q \in Servers, cache'[q] # NotLoaded, NEW id \in DOMAIN cache'[q]
         PROVE  Known(id, cache[q][id])'
    <2> DEFINE v == cache'[q][id]
    <2>1. Known(id, v)
      <3>1. CASE q # p
        BY <1>1, <1>2, <1>12, <3>1 DEF HybridTypes, VectorsKnown
      <3>2. CASE q = p
        <4>1. /\ cache[p] # NotLoaded
              /\ cache'[p] = [j \in DOMAIN cache[p] \cup {i} |-> IF j = i THEN t ELSE cache[p][j]]
          BY <1>1, <1>2, <1>12, <3>2 DEF HybridTypes
        <4>2. CASE id = i
          BY <1>3, <3>2, <4>1, <4>2
        <4>3. CASE id # i
          BY <1>1, <1>12, <3>2, <4>1, <4>3 DEF VectorsKnown
        <4> QED
          BY <4>2, <4>3
      <3> QED
        BY <3>1, <3>2
    <2> QED
      BY <1>9, <2>1 DEF Known, OwnVector
  <1> QED
    BY <1>7, <1>8, <1>10, <1>11, <1>12 DEF BeforeRescans, VectorsKnown

\* A tombstone changes no id and no vector.
LEMMA ForgetKeeps ==
    ASSUME BeforeRescans, NEW p \in Servers, NEW K \in Keys, Forget(p, K)
    PROVE  BeforeRescans'
  <1> DEFINE e == [op |-> "delete", key |-> K, text |-> NoVec, temp |-> FALSE]
  <1>1. HybridTypes /\ NoRescan /\ IdsGivenOnce /\ VectorsKnown
    BY DEF BeforeRescans
  <1>2. /\ e \in Entries /\ log' = Append(log, e)
        /\ rows' = [rows EXCEPT ![K] = IF @ = NoRow THEN NoRow ELSE [@ EXCEPT !.deleted = TRUE]]
        /\ UNCHANGED <<nextId, cache, pc, loc>>
    BY DEF Forget, Entries
  <1>3. log' \in Seq(Entries) /\ \A k \in Keys : TextsOf(k) \subseteq TextsOf(k)'
    <2> HIDE DEF e
    <2> QED
      BY <1>1, <1>2, TextsGrow DEF HybridTypes
  <1>4. ASSUME NEW k \in Keys
        PROVE  /\ rows'[k] \in Rows \cup {NoRow}
               /\ rows'[k] = NoRow <=> rows[k] = NoRow
               /\ rows'[k] # NoRow => rows'[k].id = rows[k].id /\ rows'[k].vec = rows[k].vec
    <2>1. CASE rows'[k] = rows[k]
      BY <1>1, <2>1 DEF HybridTypes
    <2>2. CASE rows[k] # NoRow /\ rows'[k] = [rows[k] EXCEPT !.deleted = TRUE]
      <3>1. rows[k] \in Rows
        BY <1>1, <2>2 DEF HybridTypes
      <3>2. rows'[k] \in Rows /\ rows'[k].id = rows[k].id /\ rows'[k].vec = rows[k].vec
        BY <2>2, <3>1 DEF Rows
      <3> QED
        BY <2>2, <3>2, RowsAssumption
    <2> QED
      BY <1>1, <1>2, <2>1, <2>2 DEF HybridTypes
  <1>5. HybridTypes' /\ NoRescan'
    <2>1. rows' \in [Keys -> Rows \cup {NoRow}]
      <3>1. DOMAIN rows' = Keys /\ rows' = [k \in Keys |-> rows'[k]]
        BY <1>1, <1>2 DEF HybridTypes
      <3> QED
        BY <1>4, <3>1
    <2> QED
      BY <1>1, <1>2, <1>3, <2>1 DEF HybridTypes, LocalsOK, NoRescan
  <1>6. IdsGivenOnce'
    BY <1>1, <1>2, <1>4 DEF IdsGivenOnce
  <1>7. \A id, v : Known(id, v) => Known(id, v)'
    BY <1>1, <1>2, <1>3, <1>4, KnownStays DEF HybridTypes
  <1>8. \A k \in Keys : rows'[k] # NoRow /\ rows'[k].vec # NoVec => rows'[k].vec \in TextsOf(k)'
    BY <1>1, <1>3, <1>4 DEF VectorsKnown
  <1>9. ASSUME NEW q \in Servers, pc'[q] = "embed" PROVE Known(loc[q].id, loc[q].text)'
    <2>1. loc' = loc /\ Known(loc[q].id, loc[q].text)
      BY <1>1, <1>2, <1>9 DEF VectorsKnown
    <2> QED
      BY <1>7, <2>1 DEF Known, OwnVector
  <1>10. ASSUME NEW q \in Servers, cache'[q] # NotLoaded, NEW id \in DOMAIN cache'[q]
         PROVE  Known(id, cache[q][id])'
    <2>1. cache' = cache
      BY <1>2
    <2>2. Known(id, cache[q][id])
      BY <1>1, <1>10, <2>1 DEF VectorsKnown
    <2> QED
      BY <1>7, <2>1, <2>2 DEF Known, OwnVector
  <1> QED
    BY <1>5, <1>6, <1>8, <1>9, <1>10 DEF BeforeRescans, VectorsKnown

\* What is loaded into a cache are the vectors of the rows, by the ids of the rows.
LEMMA LoadEmbeddingsKeeps ==
    ASSUME BeforeRescans, NEW p \in Servers, LoadEmbeddings(p)
    PROVE  BeforeRescans'
  <1> DEFINE embedded == {k \in LiveFacts : rows[k].vec # NoVec}
  <1>1. HybridTypes /\ NoRescan /\ IdsGivenOnce /\ VectorsKnown
    BY DEF BeforeRescans
  <1>2. /\ UNCHANGED <<log, rows, nextId, loc>> /\ p \in Procs
        /\ pc' = [pc EXCEPT ![p] = "cosine"]
        /\ DOMAIN cache' = Servers
        /\ \A q \in Servers : q # p => cache'[q] = cache[q]
    BY <1>1 DEF LoadEmbeddings, HybridTypes, table, Goto, Procs
  <1>3. \/ cache'[p] = <<>>
        \/ cache'[p] = [id \in {rows[k].id : k \in embedded} |->
                           rows[CHOOSE k \in embedded : rows[k].id = id].vec]
    BY <1>1 DEF LoadEmbeddings, HybridTypes
  <1>4. HybridTypes'
    BY <1>1, <1>2 DEF HybridTypes, LocalsOK, Places
  <1>5. NoRescan'
    BY <1>1, <1>2, HybridProcsAssumption DEF NoRescan, HybridTypes, Procs
  <1>6. IdsGivenOnce'
    BY <1>1, <1>2 DEF IdsGivenOnce
  <1>7. \A id, v : Known(id, v) => Known(id, v)'
    BY <1>2 DEF Known, OwnVector, TextsOf
  <1>8. \A k \in Keys : rows'[k] # NoRow /\ rows'[k].vec # NoVec => rows'[k].vec \in TextsOf(k)'
    BY <1>1, <1>2 DEF VectorsKnown, TextsOf
  <1>9. ASSUME NEW q \in Servers, pc'[q] = "embed" PROVE Known(loc[q].id, loc[q].text)'
    <2>1. loc' = loc /\ Known(loc[q].id, loc[q].text)
      BY <1>1, <1>2, <1>9 DEF HybridTypes, VectorsKnown
    <2> QED
      BY <1>7, <2>1 DEF Known, OwnVector
  <1>10. ASSUME NEW id \in {rows[k].id : k \in embedded}
         PROVE  Known(id, rows[CHOOSE k \in embedded : rows[k].id = id].vec)
    <2> DEFINE K == CHOOSE k \in embedded : rows[k].id = id
    <2>1. K \in embedded /\ rows[K].id = id
      <3>1. \E k \in embedded : rows[k].id = id
        OBVIOUS
      <3> QED
        BY <3>1
    <2>2. K \in Keys /\ rows[K] # NoRow /\ rows[K].vec # NoVec
      BY <2>1 DEF LiveFacts, Live
    <2> HIDE DEF K
    <2>3. rows[K].vec \in TextsOf(K) /\ id < nextId /\ id \in Nat
      BY <1>1, <2>1, <2>2 DEF HybridTypes, VectorsKnown, IdsGivenOnce, Rows
    <2>4. \A k \in Keys : rows[k] # NoRow /\ rows[k].id = id => k = K
      BY <1>1, <2>1, <2>2 DEF IdsGivenOnce
    <2>5. Known(id, rows[K].vec)
      BY <2>3, <2>4 DEF Known, OwnVector
    <2> QED
      BY <2>5 DEF K
  <1>11. ASSUME NEW q \in Servers, cache'[q] # NotLoaded, NEW id \in DOMAIN cache'[q]
         PROVE  Known(id, cache[q][id])'
    <2>1. Known(id, cache'[q][id])
      <3>1. CASE q # p
        BY <1>1, <1>2, <1>11, <3>1 DEF VectorsKnown
      <3>2. CASE q = p /\ cache'[p] = <<>>
        BY <1>11, <3>2
      <3>3. CASE q = p /\ cache'[p] = [j \in {rows[k].id : k \in embedded} |->
                                          rows[CHOOSE k \in embedded : rows[k].id = j].vec]
        <4>1. id \in {rows[k].id : k \in embedded}
          BY <1>11, <3>3
        <4>2. cache'[p][id] = rows[CHOOSE k \in embedded : rows[k].id = id].vec
          BY <3>3, <4>1
        <4> QED
          BY <1>10, <3>3, <4>1, <4>2
      <3> QED
        BY <1>3, <3>1, <3>2, <3>3
    <2> QED
      BY <1>7, <2>1 DEF Known, OwnVector
  <1> QED
    BY <1>4, <1>5, <1>6, <1>8, <1>9, <1>11 DEF BeforeRescans, VectorsKnown
\* A start of another process adds a column, a prune takes rows away.
LEMMA OpenKeeps ==
    ASSUME BeforeRescans, UNCHANGED <<log, rows, nextId, cache, pc, loc>>
    PROVE  BeforeRescans'
  BY DEF BeforeRescans, HybridTypes, LocalsOK, NoRescan, IdsGivenOnce, VectorsKnown, Known,
         OwnVector, TextsOf

LEMMA PruneKeeps ==
    ASSUME BeforeRescans, Prune
    PROVE  BeforeRescans'
  <1>1. HybridTypes /\ NoRescan /\ IdsGivenOnce /\ VectorsKnown
    BY DEF BeforeRescans
  <1>2. /\ UNCHANGED <<log, nextId, cache, pc, loc>>
        /\ rows' = [k \in Keys |-> IF rows[k] # NoRow /\ rows[k].temp THEN NoRow ELSE rows[k]]
    BY DEF Prune
  <1>3. \A k \in Keys : rows'[k] # NoRow => rows'[k] = rows[k]
    BY <1>2
  <1>4. HybridTypes' /\ NoRescan'
    BY <1>1, <1>2 DEF HybridTypes, LocalsOK, NoRescan
  <1>5. IdsGivenOnce'
    BY <1>1, <1>2, <1>3 DEF IdsGivenOnce
  <1>6. \A id, v : Known(id, v) => Known(id, v)'
    <2>1. \A k \in Keys : TextsOf(k)' = TextsOf(k)
      BY <1>2 DEF TextsOf
    <2> QED
      BY <1>2, <1>3, <2>1 DEF Known, OwnVector
  <1>7. \A k \in Keys : rows'[k] # NoRow /\ rows'[k].vec # NoVec => rows'[k].vec \in TextsOf(k)'
    BY <1>1, <1>2, <1>3 DEF VectorsKnown, TextsOf
  <1>8. ASSUME NEW q \in Servers, pc'[q] = "embed" PROVE Known(loc[q].id, loc[q].text)'
    <2>1. loc' = loc /\ Known(loc[q].id, loc[q].text)
      BY <1>1, <1>2, <1>8 DEF VectorsKnown
    <2> QED
      BY <1>6, <2>1 DEF Known, OwnVector
  <1>9. ASSUME NEW q \in Servers, cache'[q] # NotLoaded, NEW id \in DOMAIN cache'[q]
        PROVE  Known(id, cache[q][id])'
    <2>1. cache' = cache
      BY <1>2
    <2>2. Known(id, cache[q][id])
      BY <1>1, <1>9, <2>1 DEF VectorsKnown
    <2> QED
      BY <1>6, <2>1, <2>2 DEF Known, OwnVector
  <1> QED
    BY <1>4, <1>5, <1>7, <1>8, <1>9 DEF BeforeRescans, VectorsKnown
-----------------------------------------------------------------------------
(* The theorem *)

\* The steps of a search other than LoadEmbeddings write local variables only.
LEMMA SearchKeeps ==
    ASSUME BeforeRescans, NEW p \in Searchers, Search(p)
    PROVE  BeforeRescans'
  <1>1. p \in Servers /\ p \in Procs /\ p \notin Rescanners
    BY HybridProcsAssumption DEF Procs
  <1>2. DOMAIN loc = Procs /\ {"id", "text"} \subseteq DOMAIN loc[p]
    BY <1>1 DEF BeforeRescans, HybridTypes, LocalsOK
  <1>3. ASSUME NEW q \in Queries, KeywordSearch(p, q) PROVE BeforeRescans'
    <2>1. PICK ks : loc' = [loc EXCEPT ![p] = [NoLocals EXCEPT
                    !.query = q, !.since = rescans, !.from = Len(log),
                    !.keyword = Facts(ks), !.hits = Facts(ks)]]
      BY <1>3 DEF KeywordSearch
    <2>2. /\ {"id", "text"} \subseteq DOMAIN loc'[p] /\ DOMAIN loc' = Procs
          /\ \A r \in Procs : r # p => loc'[r] = loc[r]
      BY <1>1, <1>2, <2>1 DEF NoLocals
    <2>3. UNCHANGED <<log, rows, nextId, cache>> /\ pc' = [pc EXCEPT ![p] = "answer"]
      BY <1>3 DEF KeywordSearch, Goto, table
    <2> QED
      BY <1>1, <2>2, <2>3, QuietKeeps DEF Places
  <1>4. ASSUME NEW q \in Queries, Bm25(p, q) PROVE BeforeRescans'
    <2>1. PICK ks : loc' = [loc EXCEPT ![p] = [NoLocals EXCEPT
                    !.query = q, !.since = rescans, !.from = Len(log),
                    !.keyword = Facts(ks)]]
      BY <1>4 DEF Bm25
    <2>2. /\ {"id", "text"} \subseteq DOMAIN loc'[p] /\ DOMAIN loc' = Procs
          /\ \A r \in Procs : r # p => loc'[r] = loc[r]
      BY <1>1, <1>2, <2>1 DEF NoLocals
    <2>3. UNCHANGED <<log, rows, nextId, cache>>
      BY <1>4 DEF Bm25, table
    <2>4. PICK place \in {"load", "cosine"} : pc' = [pc EXCEPT ![p] = place]
      BY <1>4 DEF Bm25, Goto
    <2> QED
      BY <1>1, <2>2, <2>3, <2>4, QuietKeeps DEF Places
  <1>5. ASSUME FetchAndMerge(p) PROVE BeforeRescans'
    <2>1. \E cos, hits : loc' = [loc EXCEPT ![p].cosine = cos, ![p].hits = hits]
      BY <1>5 DEF FetchAndMerge
    <2>2. /\ {"id", "text"} \subseteq DOMAIN loc'[p] /\ DOMAIN loc' = Procs
          /\ \A r \in Procs : r # p => loc'[r] = loc[r]
      BY <1>1, <1>2, <2>1
    <2>3. UNCHANGED <<log, rows, nextId, cache>> /\ pc' = [pc EXCEPT ![p] = "answer"]
      BY <1>5 DEF FetchAndMerge, Goto, table
    <2> QED
      BY <1>1, <2>2, <2>3, QuietKeeps DEF Places
  <1>6. ASSUME Answer(p) PROVE BeforeRescans'
    BY <1>1, <1>6, ReturnKeeps DEF Answer, table
  <1> QED
    BY <1>1, <1>3, <1>4, <1>5, <1>6, LoadEmbeddingsKeeps DEF Search

\* No step breaks the invariant: before the first rescan by the lemmas above, and a
\* rescan is counted before it changes anything.
LEMMA OwnStep == OwnInv /\ [Next]_vars => OwnInv'
  <1> SUFFICES ASSUME OwnInv, [Next]_vars PROVE OwnInv'
    OBVIOUS
  <1>1. rescans \in Nat /\ (rescans = 0 => BeforeRescans)
    BY DEF OwnInv
  <1>2. ASSUME NEW p \in Servers, Write(p) PROVE OwnInv'
    <2>1. UNCHANGED rescans
      BY <1>2 DEF Write, Put, Forget, EmbedFails, StoreEmbedding, table
    <2>2. ASSUME BeforeRescans, EmbedFails(p) PROVE BeforeRescans'
      BY <2>2, ReturnKeeps DEF EmbedFails, table, Procs
    <2> QED
      BY <1>1, <1>2, <2>1, <2>2, PutKeeps, ForgetKeeps, StoreEmbeddingKeeps DEF Write, OwnInv
  <1>3. ASSUME NEW p \in Servers, Restart(p) PROVE OwnInv'
    BY <1>1, <1>3, RestartKeeps DEF Restart, OwnInv
  <1>4. ASSUME NEW p \in Searchers, Search(p) PROVE OwnInv'
    <2>1. UNCHANGED rescans
      BY <1>4 DEF Search, KeywordSearch, Bm25, LoadEmbeddings, FetchAndMerge, Answer, table
    <2> QED
      BY <1>1, <1>4, <2>1, SearchKeeps DEF OwnInv
  <1>5. ASSUME NEW p \in Rescanners, Rescan(p) PROVE OwnInv'
    <2>1. CASE Reset(p)
      BY <1>1, <2>1 DEF Reset, OwnInv
    <2>2. CASE Parse(p) \/ Replay(p) \/ RescanReturns(p)
      <3>1. UNCHANGED rescans /\ pc[p] # "idle"
        BY <2>2 DEF Parse, Replay, RescanReturns, table
      <3>2. rescans # 0
        BY <1>1, <3>1 DEF BeforeRescans, NoRescan
      <3> QED
        BY <1>1, <3>1, <3>2 DEF OwnInv
    <2> QED
      BY <1>5, <2>1, <2>2 DEF Rescan
  <1>6. CASE Open \/ UNCHANGED vars
    <2>1. UNCHANGED <<log, rows, nextId, rescans, cache, pc, loc>>
      BY <1>6 DEF vars, table, Open
    <2> QED
      BY <1>1, <2>1, OpenKeeps DEF OwnInv
  <1>7. CASE Prune
    BY <1>1, <1>7, PruneKeeps DEF Prune, OwnInv
  <1> QED
    BY <1>2, <1>3, <1>4, <1>5, <1>6, <1>7 DEF Next

\* HYB5 for every number of servers, keys and calls, with failing embeddings,
\* failing statements and restarts: until a rescan gives the row ids out again, no
\* vector, in the table or in the memory of any process, is that of another fact.
THEOREM VectorsAreOfOwnKey == Spec => []VectorsOfOwnKey
  <1>1. OwnInv /\ [Next]_vars => OwnInv'
    BY OwnStep
  <1> QED
    BY OwnInit, <1>1, OwnImplies, PTL DEF Spec
-----------------------------------------------------------------------------
(* Rankings *)

\* A list without repetitions.
IsRanking(s) == s \in Seq(Range(s)) /\ IsInjective(s)

\* What Rankings enumerates.
LEMMA RankingsAre ==
    ASSUME NEW S, NEW n \in Nat, NEW s \in Rankings(S, n)
    PROVE  IsRanking(s) /\ Range(s) \subseteq S /\ Len(s) <= n
  <1>1. PICK m \in 0 .. n : s \in [1 .. m -> S] /\ IsInjective(s)
    BY DEF Rankings
  <1>2. m \in Nat /\ s \in Seq(S) /\ Len(s) = m /\ DOMAIN s = 1 .. m
    BY <1>1
  <1>3. s \in [1 .. m -> Range(s)]
    BY <1>1 DEF Range
  <1>4. s \in Seq(Range(s))
    BY <1>2, <1>3
  <1>5. Range(s) \subseteq S
    BY <1>1 DEF Range
  <1> QED
    BY <1>1, <1>2, <1>4, <1>5 DEF IsRanking

\* The members of a ranking are as many as its places.
LEMMA RankingSize ==
    ASSUME NEW s, IsRanking(s)
    PROVE  IsFiniteSet(Range(s)) /\ Cardinality(Range(s)) = Len(s) /\ Len(s) \in Nat
  <1>1. Len(s) \in Nat /\ DOMAIN s = 1 .. Len(s) /\ s \in [1 .. Len(s) -> Range(s)]
    BY DEF IsRanking
  <1>2. s \in Surjection(1 .. Len(s), Range(s))
    BY <1>1, Fun_RangeProperties
  <1>3. s \in Injection(1 .. Len(s), Range(s))
    BY <1>1, Fun_IsInj DEF IsRanking, IsInjective
  <1>4. IsFiniteSet(1 .. Len(s)) /\ Cardinality(1 .. Len(s)) = Len(s)
    <2>1. IsFiniteSet(1 .. Len(s)) /\ Cardinality(1 .. Len(s)) = IF 1 > Len(s) THEN 0 ELSE Len(s) - 1 + 1
      BY <1>1, FS_Interval
    <2> QED
      BY <1>1, <2>1
  <1> QED
    BY <1>1, <1>2, <1>3, <1>4, FS_Surjection

\* The place of an id in a list that has it, and 0 for any other id.
LEMMA RankInIs ==
    ASSUME NEW s, s \in Seq(Range(s)), NEW id
    PROVE  /\ RankIn(s, id) \in Nat
           /\ RankIn(s, id) # 0 <=> id \in Range(s)
           /\ RankIn(s, id) # 0 => RankIn(s, id) \in DOMAIN s /\ s[RankIn(s, id)] = id
  <1>1. DOMAIN s = 1 .. Len(s) /\ Len(s) \in Nat
    OBVIOUS
  <1>2. CASE \E i \in DOMAIN s : s[i] = id
    <2>1. RankIn(s, id) \in DOMAIN s /\ s[RankIn(s, id)] = id
      BY <1>2 DEF RankIn
    <2>2. id \in Range(s)
      BY <1>2 DEF Range
    <2> QED
      BY <1>1, <2>1, <2>2
  <1>3. CASE ~\E i \in DOMAIN s : s[i] = id
    BY <1>3 DEF RankIn, Range
  <1> QED
    BY <1>2, <1>3

\* In a ranking each place is the place of its member.
LEMMA RankOfPlace ==
    ASSUME NEW s, IsRanking(s), NEW i \in DOMAIN s
    PROVE  RankIn(s, s[i]) = i
  <1>1. s[i] \in Range(s)
    BY DEF Range
  <1>2. RankIn(s, s[i]) \in DOMAIN s /\ s[RankIn(s, s[i])] = s[i]
    BY <1>1, RankInIs DEF IsRanking
  <1> QED
    BY <1>2 DEF IsRanking, IsInjective

\* What is kept of a ranking: a ranking of the members that S has, in the same order.
LEMMA KeptIs ==
    ASSUME NEW m, IsRanking(m), NEW S, NEW kept \in KeptOf(m, S)
    PROVE  /\ IsRanking(kept) /\ Range(kept) = S \cap Range(m)
           /\ \A a, b \in Range(kept) : RankIn(m, a) < RankIn(m, b) => RankIn(kept, a) < RankIn(kept, b)
  <1> DEFINE places == {i \in DOMAIN m : m[i] \in S}
  <1>1. PICK f \in Rankings(places, Len(m)) :
          /\ Range(f) = places
          /\ \A i, j \in DOMAIN f : i < j => f[i] < f[j]
          /\ kept = [i \in DOMAIN f |-> m[f[i]]]
    BY DEF KeptOf
  <1>2. Len(m) \in Nat /\ DOMAIN m = 1 .. Len(m)
    BY DEF IsRanking
  <1>3. IsRanking(f) /\ Range(f) \subseteq places
    BY <1>1, <1>2, RankingsAre
  <1>4. /\ Len(f) \in Nat /\ DOMAIN f = 1 .. Len(f)
        /\ \A i \in DOMAIN f : f[i] \in places
    BY <1>3 DEF IsRanking, Range
  <1>5. DOMAIN kept = 1 .. Len(f) /\ \A i \in DOMAIN f : kept[i] = m[f[i]]
    BY <1>1, <1>4
  <1>6. kept \in [1 .. Len(f) -> Range(kept)]
    BY <1>1, <1>4 DEF Range
  <1>7. kept \in Seq(Range(kept))
    BY <1>4, <1>6
  <1>8. IsInjective(kept)
    BY <1>3, <1>4, <1>5 DEF IsRanking, IsInjective
  <1>9. Range(kept) = S \cap Range(m)
    <2>1. Range(kept) \subseteq S \cap Range(m)
      BY <1>4, <1>5 DEF Range
    <2>2. ASSUME NEW x \in S \cap Range(m) PROVE x \in Range(kept)
      <3>1. PICK i \in DOMAIN m : m[i] = x
        BY <2>2 DEF Range
      <3>2. i \in Range(f)
        BY <1>1, <2>2, <3>1
      <3>3. PICK j \in DOMAIN f : f[j] = i
        BY <3>2 DEF Range
      <3> QED
        BY <1>4, <1>5, <3>1, <3>3 DEF Range
    <2> QED
      BY <2>1, <2>2
  <1>10. ASSUME NEW a \in Range(kept), NEW b \in Range(kept), RankIn(m, a) < RankIn(m, b)
         PROVE  RankIn(kept, a) < RankIn(kept, b)
    <2>1. PICK i \in DOMAIN f : kept[i] = a
      BY <1>4, <1>5 DEF Range
    <2>2. PICK j \in DOMAIN f : kept[j] = b
      BY <1>4, <1>5 DEF Range
    <2>3. RankIn(kept, a) = i /\ RankIn(kept, b) = j
      BY <1>4, <1>5, <1>7, <1>8, <2>1, <2>2, RankOfPlace DEF IsRanking
    <2>4. RankIn(m, a) = f[i] /\ RankIn(m, b) = f[j]
      BY <1>4, <1>5, <2>1, <2>2, RankOfPlace
    <2>5. i \in Nat /\ j \in Nat /\ f[i] \in Nat /\ f[j] \in Nat
      BY <1>2, <1>4
    <2>6. f[i] < f[j]
      BY <1>10, <2>4
    <2>7. ~(j < i)
      BY <1>1, <2>5, <2>6
    <2>8. i # j
      BY <2>5, <2>6
    <2> QED
      BY <2>3, <2>5, <2>7, <2>8
  <1> QED
    BY <1>7, <1>8, <1>9, <1>10 DEF IsRanking
-----------------------------------------------------------------------------
(* Scores *)

\* What stands above another in one ranking, and above it or alone in the other,
\* has the higher score.
LEMMA AgreementScores ==
    ASSUME NEW kw, NEW cos, kw \in Seq(Range(kw)), cos \in Seq(Range(cos)),
           NEW a \in Range(kw), NEW b \in Range(kw) \cup Range(cos),
           Before(RankIn(kw, a), RankIn(kw, b)),
           RankIn(cos, b) = 0 \/ Before(RankIn(cos, a), RankIn(cos, b))
    PROVE  Exceeds(Score(kw, cos, a), Score(kw, cos, b))
  <1> DEFINE ra == RankIn(kw, a)
             rb == RankIn(kw, b)
             sa == RankIn(cos, a)
             sb == RankIn(cos, b)
  <1>1. /\ ra \in Nat /\ rb \in Nat /\ sa \in Nat /\ sb \in Nat
        /\ ra # 0 /\ (rb # 0 \/ sb # 0)
        /\ rb = 0 \/ ra < rb
        /\ sb = 0 \/ (sa # 0 /\ sa < sb)
    BY RankInIs DEF Before
  <1>2. /\ Score(kw, cos, a) = IF sa = 0 THEN Share(ra) ELSE Plus(Share(ra), Share(sa))
        /\ Score(kw, cos, b) = IF sb = 0 THEN Share(rb)
                               ELSE IF rb = 0 THEN Share(sb) ELSE Plus(Share(rb), Share(sb))
    BY <1>1 DEF Score
  <1> HIDE DEF ra, rb, sa, sb
  <1> DEFINE A == 60 + ra
             B == 60 + rb
             C == 60 + sa
             D == 60 + sb
  <1>3. A \in Nat /\ B \in Nat /\ C \in Nat /\ D \in Nat /\ A > 0 /\ B > 0 /\ C > 0 /\ D > 0
        /\ (ra < rb => A < B) /\ (sa < sb => C < D)
    BY <1>1
  <1>4. /\ Share(ra) = [num |-> 1, den |-> A] /\ Share(rb) = [num |-> 1, den |-> B]
        /\ Share(sa) = [num |-> 1, den |-> C] /\ Share(sb) = [num |-> 1, den |-> D]
    BY DEF Share
  <1> HIDE DEF A, B, C, D
  <1>5. /\ Plus(Share(ra), Share(sa)) = [num |-> C + A, den |-> A * C]
        /\ Plus(Share(rb), Share(sb)) = [num |-> D + B, den |-> B * D]
    BY <1>3, <1>4 DEF Plus
  <1>6. CASE sb = 0 /\ sa = 0
    BY <1>1, <1>2, <1>3, <1>4, <1>6 DEF Exceeds
  <1>7. CASE sb = 0 /\ sa # 0
    <2>1. A * B + C * B > A * C
      <3>1. A * B + C * B = C * A + C * (B - A) + A * B
        BY <1>3
      <3>2. C * (B - A) > 0 /\ A * B > 0
        BY <1>1, <1>3, <1>7
      <3> QED
        BY <1>3, <3>1, <3>2
    <2> QED
      BY <1>2, <1>3, <1>4, <1>5, <1>7, <2>1 DEF Exceeds
  <1>8. CASE sb # 0 /\ rb = 0
    <2>1. (C + A) * D > A * C
      <3>1. (C + A) * D = C * D + A * C + A * (D - C)
        BY <1>3
      <3>2. A * (D - C) > 0 /\ C * D > 0
        BY <1>1, <1>3, <1>8
      <3> QED
        BY <1>3, <3>1, <3>2
    <2> QED
      BY <1>1, <1>2, <1>3, <1>4, <1>5, <1>8, <2>1 DEF Exceeds
  <1>9. CASE sb # 0 /\ rb # 0
    <2>1. (C + A) * (B * D) > (D + B) * (A * C)
      <3>1. (C + A) * (B * D) - (D + B) * (A * C) = (C * D) * (B - A) + (A * B) * (D - C)
        BY <1>3
      <3>2. C * D > 0 /\ A * B > 0 /\ B - A > 0 /\ D - C > 0
        BY <1>1, <1>3, <1>9
      <3>3. (C * D) * (B - A) > 0 /\ (A * B) * (D - C) > 0
        BY <1>3, <3>2
      <3> QED
        BY <1>3, <3>1, <3>3
    <2> QED
      BY <1>1, <1>2, <1>3, <1>5, <1>9, <2>1 DEF Exceeds
  <1> QED
    BY <1>6, <1>7, <1>8, <1>9

\* A member of the keyword ranking has a higher score than what only the cosine
\* ranking has, at a later place.
LEMMA KeywordScores ==
    ASSUME NEW kw, NEW cos, kw \in Seq(Range(kw)), cos \in Seq(Range(cos)),
           NEW a \in Range(kw), NEW b \in Range(cos) \ Range(kw),
           RankIn(kw, a) < RankIn(cos, b)
    PROVE  Exceeds(Score(kw, cos, a), Score(kw, cos, b))
  <1> DEFINE ra == RankIn(kw, a)
             sa == RankIn(cos, a)
             sb == RankIn(cos, b)
  <1>1. ra \in Nat /\ sa \in Nat /\ sb \in Nat /\ ra # 0 /\ sb # 0 /\ RankIn(kw, b) = 0 /\ ra < sb
    BY RankInIs
  <1>2. /\ Score(kw, cos, a) = IF sa = 0 THEN Share(ra) ELSE Plus(Share(ra), Share(sa))
        /\ Score(kw, cos, b) = Share(sb)
    BY <1>1 DEF Score
  <1> HIDE DEF ra, sa, sb
  <1> DEFINE A == 60 + ra
             C == 60 + sa
             D == 60 + sb
  <1>3. A \in Nat /\ C \in Nat /\ D \in Nat /\ A > 0 /\ C > 0 /\ D > 0 /\ A < D
    BY <1>1
  <1>4. /\ Share(ra) = [num |-> 1, den |-> A] /\ Share(sa) = [num |-> 1, den |-> C]
        /\ Share(sb) = [num |-> 1, den |-> D]
    BY DEF Share
  <1> HIDE DEF A, C, D
  <1>5. Plus(Share(ra), Share(sa)) = [num |-> C + A, den |-> A * C]
    BY <1>3, <1>4 DEF Plus
  <1>6. CASE sa = 0
    BY <1>2, <1>3, <1>4, <1>6 DEF Exceeds
  <1>7. CASE sa # 0
    <2>1. (C + A) * D > A * C
      <3>1. (C + A) * D = C * A + C * (D - A) + A * D
        BY <1>3
      <3>2. C * (D - A) > 0 /\ A * D > 0
        BY <1>3
      <3> QED
        BY <1>3, <3>1, <3>2
    <2> QED
      BY <1>2, <1>3, <1>4, <1>5, <1>7, <2>1 DEF Exceeds
  <1> QED
    BY <1>6, <1>7
-----------------------------------------------------------------------------
(* The merge *)

\* What is merged: two rankings, of which the first names known facts only.
Merging(kw, cos, limit, m, known, kept) ==
    /\ IsRanking(kw) /\ IsRanking(cos) /\ limit \in Nat \ {0}
    /\ m \in Merges(kw, cos, limit)
    /\ Range(kw) \subseteq known
    /\ kept \in KeptOf(m, known)

\* A merge is a ranking of as many members as the limit admits, none of which
\* stands below one with a lower score or has a lower score than one left out.
LEMMA MergesAre ==
    ASSUME NEW kw, NEW cos, IsRanking(kw), IsRanking(cos),
           NEW limit \in Nat \ {0}, NEW m \in Merges(kw, cos, limit)
    PROVE  /\ IsRanking(m) /\ Range(m) \subseteq Range(kw) \cup Range(cos)
           /\ Len(m) = AtMost(limit, Range(kw) \cup Range(cos))
           /\ \A a, b \in Range(m) :
                 Exceeds(Score(kw, cos, a), Score(kw, cos, b)) => RankIn(m, a) <= RankIn(m, b)
           /\ \A a \in (Range(kw) \cup Range(cos)) \ Range(m), b \in Range(m) :
                 ~Exceeds(Score(kw, cos, a), Score(kw, cos, b))
  <1> DEFINE ids == Range(kw) \cup Range(cos)
  <1>1. /\ m \in Rankings(ids, limit)
        /\ Len(m) = AtMost(limit, ids)
        /\ \A i, j \in DOMAIN m : i < j => ~Exceeds(Score(kw, cos, m[j]), Score(kw, cos, m[i]))
        /\ \A i \in DOMAIN m, id \in ids \ Range(m) :
              ~Exceeds(Score(kw, cos, id), Score(kw, cos, m[i]))
    BY DEF Merges
  <1>2. IsRanking(m) /\ Range(m) \subseteq ids
    BY <1>1, RankingsAre
  <1>3. \A a \in Range(m) : RankIn(m, a) \in DOMAIN m /\ RankIn(m, a) \in Nat /\ m[RankIn(m, a)] = a
    BY <1>2, RankInIs DEF IsRanking
  <1>4. ASSUME NEW a \in Range(m), NEW b \in Range(m), Exceeds(Score(kw, cos, a), Score(kw, cos, b))
        PROVE  RankIn(m, a) <= RankIn(m, b)
    <2>1. ~(RankIn(m, b) < RankIn(m, a))
      BY <1>1, <1>3, <1>4
    <2> QED
      BY <1>3, <2>1
  <1>5. ASSUME NEW a \in ids \ Range(m), NEW b \in Range(m)
        PROVE  ~Exceeds(Score(kw, cos, a), Score(kw, cos, b))
    BY <1>1, <1>3, <1>5
  <1> QED
    BY <1>1, <1>2, <1>4, <1>5

\* What both rankings put above a kept id is kept above it.
LEMMA MergedAgreement ==
    ASSUME NEW kw, NEW cos, NEW limit, NEW m, NEW known, NEW kept,
           Merging(kw, cos, limit, m, known, kept),
           NEW a \in Range(kw), NEW b \in Range(kept),
           Before(RankIn(kw, a), RankIn(kw, b)),
           RankIn(cos, b) = 0 \/ Before(RankIn(cos, a), RankIn(cos, b))
    PROVE  Before(RankIn(kept, a), RankIn(kept, b))
  <1>1. /\ IsRanking(m) /\ Range(m) \subseteq Range(kw) \cup Range(cos)
        /\ \A x, y \in Range(m) :
              Exceeds(Score(kw, cos, x), Score(kw, cos, y)) => RankIn(m, x) <= RankIn(m, y)
        /\ \A x \in (Range(kw) \cup Range(cos)) \ Range(m), y \in Range(m) :
              ~Exceeds(Score(kw, cos, x), Score(kw, cos, y))
    BY MergesAre DEF Merging
  <1>2. /\ IsRanking(kept) /\ Range(kept) = known \cap Range(m)
        /\ \A x, y \in Range(kept) : RankIn(m, x) < RankIn(m, y) => RankIn(kept, x) < RankIn(kept, y)
    BY <1>1, KeptIs DEF Merging
  <1>3. Exceeds(Score(kw, cos, a), Score(kw, cos, b))
    BY <1>1, <1>2, AgreementScores DEF Merging, IsRanking
  <1>4. a \in Range(kept)
    BY <1>1, <1>2, <1>3 DEF Merging
  <1>5. RankIn(m, a) <= RankIn(m, b)
    BY <1>1, <1>2, <1>3, <1>4
  <1>6. a # b
    BY RankInIs DEF Merging, IsRanking, Before
  <1>7. RankIn(m, a) # RankIn(m, b) /\ RankIn(m, a) \in Nat /\ RankIn(m, b) \in Nat
    BY <1>1, <1>2, <1>4, <1>6, RankInIs DEF IsRanking
  <1>8. RankIn(kept, a) < RankIn(kept, b)
    BY <1>2, <1>4, <1>5, <1>7
  <1> QED
    BY <1>2, <1>4, <1>8, RankInIs DEF Before, IsRanking

\* There are h members of a ranking at most that have one of the first h places.
LEMMA FirstPlaces ==
    ASSUME NEW s, IsRanking(s), NEW h \in Nat, NEW S, S \subseteq Range(s),
           \A x \in S : RankIn(s, x) <= h
    PROVE  IsFiniteSet(S) /\ Cardinality(S) <= h
  <1>1. \A x \in S : RankIn(s, x) \in 1 .. h /\ s[RankIn(s, x)] = x
    BY RankInIs DEF IsRanking
  <1> DEFINE f == [x \in S |-> RankIn(s, x)]
  <1>2. f \in [S -> 1 .. h] /\ \A x, y \in S : f[x] = f[y] => x = y
    BY <1>1
  <1> HIDE DEF f
  <1>3. f \in Injection(S, 1 .. h)
    BY <1>2, Fun_IsInj
  <1>4. IsFiniteSet(1 .. h) /\ Cardinality(1 .. h) = h
    <2>1. IsFiniteSet(1 .. h) /\ Cardinality(1 .. h) = IF 1 > h THEN 0 ELSE h - 1 + 1
      BY FS_Interval
    <2> QED
      BY <2>1
  <1> QED
    BY <1>3, <1>4, FS_Injection

\* The first h members of a ranking that has as many.
LEMMA FirstMembers ==
    ASSUME NEW s, IsRanking(s), NEW h \in Nat, h <= Len(s)
    PROVE  LET first == {x \in Range(s) : RankIn(s, x) <= h}
           IN  IsFiniteSet(first) /\ Cardinality(first) = h
  <1> DEFINE first == {x \in Range(s) : RankIn(s, x) <= h}
             f == [i \in 1 .. h |-> s[i]]
  <1>1. IsFiniteSet(first) /\ Cardinality(first) <= h
    BY FirstPlaces
  <1>2. DOMAIN s = 1 .. Len(s) /\ Len(s) \in Nat
    BY DEF IsRanking
  <1>3. f \in [1 .. h -> first] /\ \A i, j \in 1 .. h : f[i] = f[j] => i = j
    <2>1. ASSUME NEW i \in 1 .. h PROVE s[i] \in Range(s) /\ RankIn(s, s[i]) = i /\ i \in DOMAIN s
      <3>1. i \in DOMAIN s
        BY <1>2
      <3> QED
        BY <3>1, RankOfPlace DEF Range
    <2>2. ASSUME NEW i \in 1 .. h PROVE s[i] \in first
      BY <2>1
    <2>3. \A i, j \in 1 .. h : s[i] = s[j] => i = j
      BY <2>1
    <2> QED
      BY <2>2, <2>3
  <1>4. f \in Injection(1 .. h, first)
    <2> HIDE DEF f, first
    <2> QED
      BY <1>3, Fun_IsInj
  <1>5. Cardinality(1 .. h) <= Cardinality(first)
    <2> HIDE DEF f, first
    <2> QED
      BY <1>1, <1>4, FS_Injection
  <1>6. Cardinality(1 .. h) = h
    <2>1. Cardinality(1 .. h) = IF 1 > h THEN 0 ELSE h - 1 + 1
      BY FS_Interval
    <2> QED
      BY <2>1
  <1>7. Cardinality(first) \in Nat
    BY <1>1, FS_CardinalityType
  <1>8. Cardinality(first) = h
    <2> HIDE DEF f, first
    <2> QED
      BY <1>1, <1>5, <1>6, <1>7
  <1> QED
    BY <1>1, <1>8

\* A merge holds h members of the keyword ranking, if that has as many and the limit
\* is not below 2 * h.
LEMMA MergedKeywords ==
    ASSUME NEW kw, NEW cos, NEW limit, NEW m, NEW known, NEW kept,
           Merging(kw, cos, limit, m, known, kept),
           NEW h \in Nat, h <= Len(kw), 2 * h <= limit
    PROVE  h <= Cardinality(Range(m) \cap Range(kw))
  <1> DEFINE ids == Range(kw) \cup Range(cos)
             first == {x \in Range(kw) : RankIn(kw, x) <= h}
             shared == Range(m) \cap Range(kw)
             others == Range(m) \ Range(kw)
  <1>1. /\ IsRanking(m) /\ Range(m) \subseteq ids /\ Len(m) = AtMost(limit, ids)
        /\ \A a \in ids \ Range(m), b \in Range(m) : ~Exceeds(Score(kw, cos, a), Score(kw, cos, b))
    BY MergesAre DEF Merging
  <1>2. IsFiniteSet(Range(m)) /\ Cardinality(Range(m)) = Len(m) /\ Len(m) \in Nat
    BY <1>1, RankingSize
  <1>3. /\ IsFiniteSet(shared) /\ IsFiniteSet(others)
        /\ Cardinality(shared) \in Nat /\ Cardinality(others) \in Nat
        /\ Cardinality(others) = Len(m) - Cardinality(shared)
    <2>1. IsFiniteSet(shared)
      BY <1>2, FS_Intersection
    <2>2. IsFiniteSet(others) /\ Cardinality(others) = Len(m) - Cardinality(shared)
      BY <1>2, FS_Difference
    <2> QED
      BY <2>1, <2>2, FS_CardinalityType
  <1>4. CASE first \subseteq Range(m)
    <2>1. Cardinality(first) = h
      BY FirstMembers DEF Merging
    <2>2. first \in SUBSET shared
      BY <1>4
    <2>3. Cardinality(first) <= Cardinality(shared)
      <3> HIDE DEF first, shared
      <3> QED
        BY <1>3, <2>2, FS_Subset
    <2> QED
      BY <2>1, <2>3
  <1>5. CASE ~(first \subseteq Range(m))
    <2>1. PICK a \in first : a \notin Range(m)
      BY <1>5
    <2>2. a \in ids /\ a \in Range(kw) /\ RankIn(kw, a) <= h /\ RankIn(kw, a) \in Nat
      BY RankInIs DEF Merging, IsRanking
    <2>3. Len(m) = limit
      <3>1. IsFiniteSet(ids)
        BY RankingSize, FS_Union DEF Merging
      <3>2. Cardinality(Range(m)) # Cardinality(ids)
        <4>1. Range(m) \in SUBSET ids /\ Range(m) # ids
          BY <1>1, <2>1, <2>2
        <4> HIDE DEF ids
        <4> QED
          BY <3>1, <4>1, FS_Subset
      <3> QED
        BY <1>1, <1>2, <3>2 DEF AtMost
    <2>4. \A b \in others : RankIn(cos, b) <= h
      <3> SUFFICES ASSUME NEW b \in others PROVE RankIn(cos, b) <= h
        OBVIOUS
      <3>1. b \in Range(cos) \ Range(kw)
        BY <1>1
      <3>2. ~(RankIn(kw, a) < RankIn(cos, b))
        BY <1>1, <2>1, <2>2, <3>1, KeywordScores DEF Merging, IsRanking
      <3>3. RankIn(cos, b) \in Nat
        BY RankInIs DEF Merging, IsRanking
      <3> QED
        BY <2>2, <3>2, <3>3
    <2>5. others \subseteq Range(cos)
      BY <1>1
    <2>6. Cardinality(others) <= h
      <3> HIDE DEF others
      <3> QED
        BY <2>4, <2>5, FirstPlaces DEF Merging
    <2>7. limit \in Nat
      BY DEF Merging
    <2>8. h <= Cardinality(shared)
      <3> HIDE DEF shared, others
      <3> QED
        BY <1>3, <2>3, <2>6, <2>7
    <2> QED
      BY <2>8
  <1> QED
    BY <1>4, <1>5

\* Half of the limit is not lost to ids that are no live fact.
LEMMA MergedHalf ==
    ASSUME NEW kw, NEW cos, NEW limit, NEW m, NEW known, NEW kept,
           Merging(kw, cos, limit, m, known, kept)
    PROVE  Len(kept) >= LET half == limit \div 2 IN IF Len(kw) < half THEN Len(kw) ELSE half
  <1> DEFINE half == limit \div 2
             h == IF Len(kw) < half THEN Len(kw) ELSE half
             shared == Range(m) \cap Range(kw)
  <1>1. h \in Nat /\ h <= Len(kw) /\ 2 * h <= limit
    BY DEF Merging, IsRanking
  <1>2. IsRanking(m)
    BY MergesAre DEF Merging
  <1>3. IsRanking(kept) /\ Range(kept) = known \cap Range(m)
    BY <1>2, KeptIs DEF Merging
  <1>4. IsFiniteSet(Range(kept)) /\ Cardinality(Range(kept)) = Len(kept)
    BY <1>3, RankingSize
  <1>5. shared \in SUBSET Range(kept)
    BY <1>3 DEF Merging
  <1>6. h <= Cardinality(shared)
    <2> HIDE DEF h
    <2> QED
      BY <1>1, MergedKeywords
  <1>7. Cardinality(shared) <= Cardinality(Range(kept))
    <2> HIDE DEF shared
    <2> QED
      BY <1>4, <1>5, FS_Subset
  <1>8. Cardinality(shared) \in Nat /\ Len(kept) \in Nat
    <2>1. IsFiniteSet(shared)
      <3> HIDE DEF shared
      <3> QED
        BY <1>4, <1>5, FS_Subset
    <2> QED
      BY <1>3, <2>1, FS_CardinalityType, RankingSize
  <1>9. h <= Len(kept)
    <2> HIDE DEF h, shared
    <2> QED
      BY <1>1, <1>4, <1>6, <1>7, <1>8
  <1> QED
    BY <1>1, <1>8, <1>9
-----------------------------------------------------------------------------
(* The invariant of a search *)

\* The entries that are written: a store has a text.
Written == {e \in Entries : e.op = "store" => e.text \in Texts}

CallTypes(l) ==
    /\ DOMAIN l = DOMAIN NoLocals
    /\ l.id \in Nat /\ l.text \in Texts \cup {NoVec}
    /\ l.query.limit \in Nat \ {0}
    /\ l.keyword \in Seq([id : Nat, key : Keys])
    /\ l.since \in Nat /\ l.from \in Nat
    /\ l.todo \in Seq(Written)

TableOK ==
    /\ log \in Seq(Written)
    /\ rows \in [Keys -> Rows \cup {NoRow}]
    /\ nextId \in Nat /\ rescans \in Nat
    /\ pc \in [Procs -> Places]
    /\ DOMAIN loc = Procs /\ \A p \in Procs : CallTypes(loc[p])
    /\ IdsGivenOnce

\* Before the first rescan the index shows no fact that the log has deleted.
LiveRows ==
    rescans = 0 =>
        NoRescan /\ \A k \in Keys : Live(rows[k]) => LiveAfter(Len(log), k)

\* k was live after some entry from the n-th on.
LiveSince(n, k) == \E i \in n .. Len(log) : LiveAfter(i, k)

IdsOf(hits) == [i \in DOMAIN hits |-> hits[i].id]

\* The row of k has the id, or k was once stored with a TTL.
HasKept(k, id) == StoredWithTtl(k) \/ (rows[k] # NoRow /\ rows[k].id = id)

\* The keyword ranking names facts that are different, that still have their ids
\* if no rescan has begun and no TTL was given, and that were live when the search
\* began.
FoundOK(p) ==
    /\ loc[p].since <= rescans /\ loc[p].from <= Len(log)
    /\ IsRanking(IdsOf(loc[p].keyword))
    /\ loc[p].since = rescans =>
          \A f \in Range(loc[p].keyword) : HasKept(f.key, f.id)
    /\ rescans = 0 => \A f \in Range(loc[p].keyword) : LiveSince(loc[p].from, f.key)

\* The properties HYB1, HYB2 and HYB3 of the record of one call.
Half(l) ==
    Len(l.hits) >= LET half == l.query.limit \div 2
                   IN  IF Len(l.keyword) < half THEN Len(l.keyword) ELSE half

Agree(l) ==
    \A a \in Range(IdsOf(l.keyword)), b \in Range(IdsOf(l.hits)) :
        /\ Before(RankIn(IdsOf(l.keyword), a), RankIn(IdsOf(l.keyword), b))
        /\ RankIn(l.cosine, b) = 0 \/ Before(RankIn(l.cosine, a), RankIn(l.cosine, b))
        => Before(RankIn(IdsOf(l.hits), a), RankIn(IdsOf(l.hits), b))

Distinct(l) ==
    \A i, j \in DOMAIN l.hits :
        l.hits[i].key = l.hits[j].key => i = j \/ StoredWithTtl(l.hits[i].key)

AnswerOK(p) ==
    /\ Half(loc[p]) /\ Agree(loc[p])
    /\ loc[p].since = rescans => Distinct(loc[p])
    /\ rescans = 0 => \A f \in Range(loc[p].hits) : LiveSince(loc[p].from, f.key)

SearchOK(p) ==
    /\ pc[p] \in {"load", "cosine", "answer"} => FoundOK(p)
    /\ pc[p] = "answer" => AnswerOK(p)

SearchInv == TableOK /\ LiveRows /\ \A p \in Servers : SearchOK(p)
-----------------------------------------------------------------------------
(* What the steps of others do to a search *)

\* Rescans are counted, rows keep their ids between them but for those that had a
\* TTL, and the log grows at its end.
Onward ==
    /\ rescans <= rescans'
    /\ rescans' = rescans =>
          \A k \in Keys : rows[k] # NoRow =>
             StoredWithTtl(k) \/ (rows'[k] # NoRow /\ rows'[k].id = rows[k].id)
    /\ \A k : StoredWithTtl(k) => StoredWithTtl(k)'
    /\ Len(log) <= Len(log')
    /\ \A n \in 0 .. Len(log) : \A k : LiveAfter(n, k) => LiveAfter(n, k)'

\* What a list of hits has.
LEMMA HitsTyped ==
    ASSUME NEW hits \in Seq([id : Nat, key : Keys]), NEW f \in Range(hits)
    PROVE  f.id \in Nat /\ f.key \in Keys
  <1>1. PICK i \in DOMAIN hits : f = hits[i]
    BY DEF Range
  <1>2. hits[i] \in [id : Nat, key : Keys]
    <2> DEFINE H == [id : Nat, key : Keys]
    <2>1. hits \in Seq(H)
      OBVIOUS
    <2> HIDE DEF H
    <2>2. hits[i] \in H
      BY <2>1
    <2> QED
      BY <2>2 DEF H
  <1> QED
    BY <1>1, <1>2

\* A search that does not step keeps what it has.
LEMMA OthersKeep ==
    ASSUME TableOK, TableOK', Onward, NEW q \in Servers, SearchOK(q),
           pc'[q] = pc[q], loc'[q] = loc[q]
    PROVE  SearchOK(q)'
  <1>1. /\ q \in Procs /\ CallTypes(loc[q])
        /\ rescans \in Nat /\ rescans' \in Nat /\ Len(log) \in Nat /\ Len(log') \in Nat
    BY DEF Procs, TableOK
  <1>2. loc[q].since \in Nat /\ loc[q].from \in Nat /\ loc[q].keyword \in Seq([id : Nat, key : Keys])
    BY <1>1 DEF CallTypes
  <1>3. ASSUME NEW k, LiveSince(loc[q].from, k) PROVE LiveSince(loc[q].from, k)'
    <2>1. PICK i \in loc[q].from .. Len(log) : LiveAfter(i, k)
      BY <1>3 DEF LiveSince
    <2>2. i \in 0 .. Len(log) /\ i \in loc'[q].from .. Len(log')
      BY <1>1, <1>2, <2>1 DEF Onward
    <2>3. LiveAfter(i, k)'
      BY <2>1, <2>2 DEF Onward
    <2> QED
      BY <2>2, <2>3 DEF LiveSince
  <1>4. ASSUME FoundOK(q) PROVE FoundOK(q)'
    <2>1. loc'[q].since <= rescans' /\ loc'[q].from <= Len(log')
      BY <1>1, <1>2, <1>4 DEF FoundOK, Onward
    <2>2. IsRanking(IdsOf(loc'[q].keyword))
      BY <1>4 DEF FoundOK
    <2>3. ASSUME loc'[q].since = rescans', NEW f \in Range(loc'[q].keyword)
          PROVE  HasKept(f.key, f.id)'
      <3>1. rescans' = rescans /\ loc[q].since = rescans
        BY <1>1, <1>2, <1>4, <2>3 DEF FoundOK, Onward
      <3>2. f \in Range(loc[q].keyword)
        BY <2>3
      <3>3. f.key \in Keys
        BY <1>2, <3>2, HitsTyped
      <3>4. HasKept(f.key, f.id)
        BY <1>4, <3>1, <3>2 DEF FoundOK
      <3> QED
        BY <3>1, <3>3, <3>4 DEF HasKept, Onward
    <2>4. ASSUME rescans' = 0, NEW f \in Range(loc'[q].keyword)
          PROVE  LiveSince(loc[q].from, f.key)'
      <3>1. rescans = 0
        BY <1>1, <2>4 DEF Onward
      <3> QED
        BY <1>3, <1>4, <2>4, <3>1 DEF FoundOK
    <2> QED
      BY <2>1, <2>2, <2>3, <2>4 DEF FoundOK
  <1>5. ASSUME FoundOK(q), AnswerOK(q) PROVE AnswerOK(q)'
    <2>1. Half(loc'[q]) /\ Agree(loc'[q])
      BY <1>5 DEF AnswerOK
    <2>2. ASSUME loc'[q].since = rescans' PROVE Distinct(loc[q])'
      <3>1. Distinct(loc[q])
        BY <1>1, <1>2, <1>5, <2>2 DEF AnswerOK, FoundOK, Onward
      <3> QED
        BY <1>1, <3>1 DEF Distinct, Onward
    <2>3. ASSUME rescans' = 0, NEW f \in Range(loc'[q].hits) PROVE LiveSince(loc[q].from, f.key)'
      <3>1. rescans = 0
        BY <1>1, <2>3 DEF Onward
      <3> QED
        BY <1>3, <1>5, <2>3, <3>1 DEF AnswerOK
    <2> QED
      BY <2>1, <2>2, <2>3 DEF AnswerOK
  <1> QED
    BY <1>4, <1>5 DEF SearchOK

\* An entry is appended: what was live after an earlier entry was so whatever follows.
LEMMA LogAppends ==
    ASSUME log \in Seq(Written), NEW e \in Written, log' = Append(log, e)
    PROVE  /\ log' \in Seq(Written) /\ Len(log) <= Len(log')
           /\ \A n \in 0 .. Len(log) : \A k : LiveAfter(n, k) => LiveAfter(n, k)'
           /\ \A k : e.key # k /\ LiveAfter(Len(log), k) => LiveAfter(Len(log), k)'
           /\ e.op = "store" /\ ~e.temp => LiveAfter(Len(log), e.key)'
           /\ \A k : StoredWithTtl(k) => StoredWithTtl(k)'
           /\ e.op = "store" /\ e.temp => StoredWithTtl(e.key)'
  <1>1. log' \in Seq(Written) /\ Len(log') = Len(log) + 1 /\ Len(log) \in Nat
    OBVIOUS
  <1>2. /\ \A i \in 1 .. Len(log) : log'[i] = log[i]
        /\ log'[Len(log) + 1] = e
    OBVIOUS
  <1>3. ASSUME NEW n \in 0 .. Len(log), NEW k, LiveAfter(n, k) PROVE LiveAfter(n, k)'
    <2>1. \A i \in 1 .. n : log'[i] = log[i]
      BY <1>1, <1>2
    <2>2. \A i \in 1 .. n : \A j \in i + 1 .. n : log'[j] = log[j]
      BY <1>1, <2>1
    <2> QED
      BY <1>3, <2>1, <2>2 DEF LiveAfter
  <1>4. ASSUME NEW k, e.key # k, LiveAfter(Len(log), k) PROVE LiveAfter(Len(log), k)'
    <2>1. PICK i \in 1 .. Len(log) :
            /\ log[i].key = k /\ log[i].op = "store" /\ ~log[i].temp
            /\ \A j \in i + 1 .. Len(log) : log[j].key # k
      BY <1>4 DEF LiveAfter
    <2>2. i \in 1 .. Len(log') /\ log'[i] = log[i]
      BY <1>1, <1>2
    <2>3. ASSUME NEW j \in i + 1 .. Len(log') PROVE log'[j].key # k
      <3>1. CASE j = Len(log) + 1
        BY <1>2, <1>4, <3>1
      <3>2. CASE j # Len(log) + 1
        <4>1. j \in i + 1 .. Len(log) /\ j \in 1 .. Len(log)
          BY <1>1, <3>2
        <4> QED
          BY <1>2, <2>1, <4>1
      <3> QED
        BY <3>1, <3>2
    <2> QED
      BY <2>1, <2>2, <2>3 DEF LiveAfter
  <1>5. ASSUME e.op = "store", ~e.temp PROVE LiveAfter(Len(log), e.key)'
    <2>1. Len(log') \in 1 .. Len(log') /\ log'[Len(log')] = e /\ Len(log') + 1 .. Len(log') = {}
      BY <1>1, <1>2
    <2> QED
      BY <1>5, <2>1 DEF LiveAfter
  <1>6. \A k : StoredWithTtl(k) => StoredWithTtl(k)'
    BY <1>1, <1>2 DEF StoredWithTtl
  <1>7. ASSUME e.op = "store", e.temp PROVE StoredWithTtl(e.key)'
    <2>1. Len(log) + 1 \in DOMAIN log' /\ log'[Len(log) + 1] = e
      BY <1>1, <1>2
    <2> QED
      BY <1>7, <2>1 DEF StoredWithTtl
  <1> QED
    BY <1>1, <1>3, <1>4, <1>5, <1>6, <1>7

\* An upsert: the row of K keeps its id or gets one that was not given out.
LEMMA UpsertKeepsIds ==
    ASSUME TableOK, NEW K \in Keys, NEW e, e.text \in Texts, e.temp \in BOOLEAN,
           rows' = [rows EXCEPT ![K] = Upserted(@, e)], nextId' = nextId + 1
    PROVE  /\ rows' \in [Keys -> Rows \cup {NoRow}] /\ nextId' \in Nat /\ IdsGivenOnce'
           /\ \A k \in Keys : rows[k] # NoRow => rows'[k] # NoRow /\ rows'[k].id = rows[k].id
           /\ \A k \in Keys : k # K => rows'[k] = rows[k]
           /\ Live(rows'[K]) => ~e.temp
  <1> DEFINE new == Upserted(rows[K], e)
  <1>1. rows \in [Keys -> Rows \cup {NoRow}] /\ nextId \in Nat /\ IdsGivenOnce
    BY DEF TableOK
  <1>2. /\ new \in Rows /\ new.temp = e.temp
        /\ rows[K] # NoRow => new.id = rows[K].id
        /\ rows[K] = NoRow => new.id = nextId
    <2>1. rows[K] \in Rows \/ rows[K] = NoRow
      BY <1>1
    <2> QED
      BY <1>1, <2>1 DEF Upserted, Rows
  <1> HIDE DEF new
  <1>3. rows'[K] = new /\ \A k \in Keys : k # K => rows'[k] = rows[k]
    BY <1>1 DEF new
  <1>4. rows' \in [Keys -> Rows \cup {NoRow}]
    BY <1>1, <1>2 DEF new
  <1>5. \A k \in Keys : rows[k] # NoRow => rows[k].id \in Nat /\ rows[k].id < nextId
    BY <1>1 DEF IdsGivenOnce, Rows
  <1>6. \A k \in Keys : rows'[k] # NoRow =>
             (rows[k] # NoRow /\ rows'[k].id = rows[k].id) \/ (k = K /\ rows'[k].id = nextId)
    BY <1>2, <1>3
  <1>7. IdsGivenOnce'
    BY <1>1, <1>5, <1>6 DEF IdsGivenOnce
  <1>8. Live(rows'[K]) => ~e.temp
    BY <1>2, <1>3 DEF Live
  <1> QED
    BY <1>1, <1>2, <1>3, <1>4, <1>7, <1>8, RowsAssumption

\* A soft deletion changes one column.
LEMMA DeletedRow ==
    ASSUME NEW r \in Rows, NEW d, d = [r EXCEPT !.deleted = TRUE]
    PROVE  d \in Rows /\ d.id = r.id /\ d.deleted = TRUE
  BY DEF Rows

\* A soft deletion.
LEMMA DeletionKeepsIds ==
    ASSUME TableOK, NEW K \in Keys,
           rows' = [rows EXCEPT ![K] = IF @ = NoRow THEN NoRow ELSE [@ EXCEPT !.deleted = TRUE]],
           nextId' = nextId
    PROVE  /\ rows' \in [Keys -> Rows \cup {NoRow}] /\ nextId' \in Nat /\ IdsGivenOnce'
           /\ \A k \in Keys : rows[k] # NoRow => rows'[k] # NoRow /\ rows'[k].id = rows[k].id
           /\ \A k \in Keys : k # K => rows'[k] = rows[k]
           /\ ~Live(rows'[K])
  <1>1. rows \in [Keys -> Rows \cup {NoRow}] /\ nextId \in Nat /\ IdsGivenOnce
    BY DEF TableOK
  <1>2. \A k \in Keys : k # K => rows'[k] = rows[k]
    BY <1>1
  <1>3. CASE rows[K] = NoRow
    <2>1. rows'[K] = NoRow
      BY <1>1, <1>3
    <2>2. rows' = rows
      BY <1>1, <1>3
    <2> QED
      BY <1>1, <1>2, <2>1, <2>2 DEF Live, IdsGivenOnce
  <1>4. CASE rows[K] # NoRow
    <2>1. rows'[K] = [rows[K] EXCEPT !.deleted = TRUE] /\ rows[K] \in Rows
      BY <1>1, <1>4
    <2>2. rows'[K] \in Rows /\ rows'[K].id = rows[K].id /\ rows'[K].deleted = TRUE
      BY <2>1, DeletedRow
    <2>3. rows' \in [Keys -> Rows \cup {NoRow}]
      BY <1>1, <1>4, <2>2
    <2>4. \A k \in Keys : (rows'[k] = NoRow <=> rows[k] = NoRow)
                          /\ (rows[k] # NoRow => rows'[k].id = rows[k].id)
      BY <1>2, <1>4, <2>2, RowsAssumption
    <2>5. IdsGivenOnce'
      BY <1>1, <2>4 DEF IdsGivenOnce
    <2> QED
      BY <1>1, <1>2, <2>2, <2>3, <2>4, <2>5 DEF Live
  <1> QED
    BY <1>3, <1>4

\* A step of p, of which the others see the tables only.
LEMMA StepKeeps ==
    ASSUME SearchInv, NEW p \in Procs,
           log' \in Seq(Written), rows' \in [Keys -> Rows \cup {NoRow}],
           nextId' \in Nat, rescans' \in Nat, IdsGivenOnce',
           pc' \in [Procs -> Places], DOMAIN loc' = Procs, CallTypes(loc'[p]),
           \A q \in Procs : q # p => pc'[q] = pc[q] /\ loc'[q] = loc[q],
           LiveRows', Onward, p \in Servers => SearchOK(p)'
    PROVE  SearchInv'
  <1>1. TableOK /\ \A q \in Servers : SearchOK(q)
    BY DEF SearchInv
  <1>2. \A q \in Procs : CallTypes(loc'[q])
    BY <1>1 DEF TableOK
  <1>3. TableOK'
    BY <1>2 DEF TableOK
  <1>4. ASSUME NEW q \in Servers, q # p PROVE SearchOK(q)'
    BY <1>1, <1>3, <1>4, OthersKeep DEF Procs
  <1> QED
    BY <1>3, <1>4 DEF SearchInv

\* A call that returns, or begins, has the locals of no call.
LEMMA NoLocalsTyped == CallTypes(NoLocals)
  <1>1. \A S : <<>> \in Seq(S)
    OBVIOUS
  <1> QED
    BY <1>1 DEF CallTypes, NoLocals

\* The id and the text of a store are typed.
LEMMA StoreTyped ==
    ASSUME NEW l, CallTypes(l), NEW l2, DOMAIN l2 = DOMAIN l,
           l2.id \in Nat, l2.text \in Texts,
           \A x \in DOMAIN l : x \notin {"id", "text"} => l2[x] = l[x]
    PROVE  CallTypes(l2)
  <1>1. {"query", "keyword", "since", "from", "todo"} \subseteq DOMAIN l
    BY DEF CallTypes, NoLocals
  <1>2. /\ l2.query = l.query /\ l2.keyword = l.keyword /\ l2.since = l.since
        /\ l2.from = l.from /\ l2.todo = l.todo
    BY <1>1
  <1> QED
    BY <1>2 DEF CallTypes

\* memory_store.
LEMMA PutSearch ==
    ASSUME SearchInv, NEW p \in Servers, NEW call \in Stores, Put(p, call)
    PROVE  SearchInv'
  <1> DEFINE e == [op |-> "store", key |-> call.key, text |-> call.text, temp |-> call.temp]
             K == call.key
  <1>1. call \in [key : Keys, text : Texts, temp : BOOLEAN] /\ K \in Keys
    BY StoresAssumption
  <1>2. /\ e \in Written /\ e.key = K /\ e.op = "store"
        /\ e.text \in Texts /\ e.temp \in BOOLEAN
    BY <1>1 DEF Entries, Written
  <1>3. /\ log' = Append(log, e)
        /\ rows' = [rows EXCEPT ![K] = Upserted(@, e)]
        /\ nextId' = nextId + 1
        /\ loc' = [loc EXCEPT ![p].id = SavedId(e), ![p].text = e.text]
        /\ pc' = [pc EXCEPT ![p] = "embed"]
        /\ UNCHANGED rescans
    BY <1>2 DEF Put, Goto
  <1>4. TableOK /\ LiveRows /\ p \in Procs
    BY DEF SearchInv, Procs
  <1>5. SavedId(e) \in Nat
    <2>1. rows[K] \in Rows \/ rows[K] = NoRow
      BY <1>1, <1>4 DEF TableOK
    <2> QED
      BY <1>2, <1>4, <2>1 DEF TableOK, SavedId, Upserted, Rows
  <1> HIDE DEF e, K
  <1>6. /\ log' \in Seq(Written) /\ Len(log) <= Len(log')
        /\ \A n \in 0 .. Len(log) : \A k : LiveAfter(n, k) => LiveAfter(n, k)'
        /\ \A k : K # k /\ LiveAfter(Len(log), k) => LiveAfter(Len(log), k)'
        /\ ~e.temp => LiveAfter(Len(log), K)'
        /\ \A k : StoredWithTtl(k) => StoredWithTtl(k)'
    BY <1>2, <1>3, <1>4, LogAppends DEF TableOK
  <1>7. /\ rows' \in [Keys -> Rows \cup {NoRow}] /\ nextId' \in Nat /\ IdsGivenOnce'
        /\ \A k \in Keys : rows[k] # NoRow => rows'[k] # NoRow /\ rows'[k].id = rows[k].id
        /\ \A k \in Keys : k # K => rows'[k] = rows[k]
        /\ Live(rows'[K]) => ~e.temp
    <2>1. K \in Keys
      BY <1>1 DEF K
    <2> QED
      BY <1>2, <1>3, <1>4, <2>1, UpsertKeepsIds
  <1>8. Onward
    BY <1>3, <1>4, <1>6, <1>7 DEF Onward, TableOK
  <1>9. /\ pc' \in [Procs -> Places] /\ pc'[p] = "embed" /\ DOMAIN loc' = Procs
        /\ loc'[p] = [loc[p] EXCEPT !.id = SavedId(e), !.text = e.text]
        /\ \A q \in Procs : q # p => pc'[q] = pc[q] /\ loc'[q] = loc[q]
    BY <1>3, <1>4 DEF TableOK, Places
  <1>10. CallTypes(loc'[p])
    <2>1. CallTypes(loc[p])
      BY <1>4 DEF TableOK
    <2>2. {"id", "text"} \subseteq DOMAIN loc[p]
      BY <2>1 DEF CallTypes, NoLocals
    <2>3. /\ DOMAIN loc'[p] = DOMAIN loc[p]
          /\ loc'[p].id \in Nat /\ loc'[p].text \in Texts
          /\ \A x \in DOMAIN loc[p] : x \notin {"id", "text"} => loc'[p][x] = loc[p][x]
      BY <1>2, <1>5, <1>9, <2>2
    <2> QED
      BY <2>1, <2>3, StoreTyped
  <1>11. LiveRows'
    <2>1. NoRescan => NoRescan'
      BY <1>4, <1>9, HybridProcsAssumption DEF NoRescan, Procs
    <2>2. rescans = 0 => \A k \in Keys : Live(rows'[k]) => LiveAfter(Len(log), k)'
      BY <1>4, <1>6, <1>7 DEF LiveRows
    <2> QED
      BY <1>3, <1>4, <2>1, <2>2 DEF LiveRows
  <1>12. SearchOK(p)'
    BY <1>9 DEF SearchOK
  <1> QED
    BY <1>3, <1>4, <1>6, <1>7, <1>8, <1>9, <1>10, <1>11, <1>12, StepKeeps DEF TableOK

\* memory_forget.
LEMMA ForgetSearch ==
    ASSUME SearchInv, NEW p \in Servers, NEW K \in Keys, Forget(p, K)
    PROVE  SearchInv'
  <1> DEFINE e == [op |-> "delete", key |-> K, text |-> NoVec, temp |-> FALSE]
  <1>1. /\ e \in Written /\ e.key = K
        /\ log' = Append(log, e)
        /\ rows' = [rows EXCEPT ![K] = IF @ = NoRow THEN NoRow ELSE [@ EXCEPT !.deleted = TRUE]]
        /\ UNCHANGED <<nextId, rescans, pc, loc>>
    BY DEF Forget, Entries, Written
  <1>2. TableOK /\ LiveRows /\ p \in Procs /\ pc[p] = "idle"
    BY DEF SearchInv, Procs, Forget
  <1> HIDE DEF e
  <1>3. /\ log' \in Seq(Written) /\ Len(log) <= Len(log')
        /\ \A n \in 0 .. Len(log) : \A k : LiveAfter(n, k) => LiveAfter(n, k)'
        /\ \A k : K # k /\ LiveAfter(Len(log), k) => LiveAfter(Len(log), k)'
        /\ \A k : StoredWithTtl(k) => StoredWithTtl(k)'
    BY <1>1, <1>2, LogAppends DEF TableOK
  <1>4. /\ rows' \in [Keys -> Rows \cup {NoRow}] /\ nextId' \in Nat /\ IdsGivenOnce'
        /\ \A k \in Keys : rows[k] # NoRow => rows'[k] # NoRow /\ rows'[k].id = rows[k].id
        /\ \A k \in Keys : k # K => rows'[k] = rows[k]
        /\ ~Live(rows'[K])
    BY <1>1, <1>2, DeletionKeepsIds
  <1>5. Onward
    BY <1>1, <1>2, <1>3, <1>4 DEF Onward, TableOK
  <1>6. LiveRows'
    <2>1. NoRescan => NoRescan'
      BY <1>1 DEF NoRescan
    <2>2. rescans = 0 => \A k \in Keys : Live(rows'[k]) => LiveAfter(Len(log), k)'
      BY <1>2, <1>3, <1>4 DEF LiveRows
    <2> QED
      BY <1>1, <1>2, <2>1, <2>2 DEF LiveRows
  <1>7. SearchOK(p)'
    BY <1>1, <1>2 DEF SearchOK
  <1> QED
    BY <1>1, <1>2, <1>3, <1>4, <1>5, <1>6, <1>7, StepKeeps DEF TableOK

\* A step that leaves the tables as they are.
LEMMA QuietSearch ==
    ASSUME SearchInv, NEW p \in Procs, NEW place \in Places,
           UNCHANGED <<log, rows, nextId, rescans>>,
           pc' = [pc EXCEPT ![p] = place], p \in Rescanners /\ rescans = 0 => place = "idle",
           DOMAIN loc' = Procs, CallTypes(loc'[p]), \A q \in Procs : q # p => loc'[q] = loc[q],
           p \in Servers => SearchOK(p)'
    PROVE  SearchInv'
  <1>1. TableOK /\ LiveRows
    BY DEF SearchInv
  <1>2. /\ log' \in Seq(Written) /\ rows' \in [Keys -> Rows \cup {NoRow}]
        /\ nextId' \in Nat /\ rescans' \in Nat
    BY <1>1 DEF TableOK
  <1>3. IdsGivenOnce'
    BY <1>1 DEF TableOK, IdsGivenOnce
  <1>4. /\ pc' \in [Procs -> Places] /\ pc'[p] = place
        /\ \A q \in Procs : q # p => pc'[q] = pc[q] /\ loc'[q] = loc[q]
    BY <1>1 DEF TableOK
  <1>5. Onward
    <2>1. \A n, k : LiveAfter(n, k) => LiveAfter(n, k)'
      BY DEF LiveAfter
    <2>2. Len(log) \in Nat
      BY <1>1 DEF TableOK
    <2> QED
      BY <1>1, <2>1, <2>2 DEF Onward, TableOK, StoredWithTtl
  <1>6. LiveRows'
    <2>1. rescans = 0 /\ NoRescan => NoRescan'
      BY <1>4 DEF NoRescan, Procs
    <2>2. \A k \in Keys : Live(rows'[k]) => Live(rows[k])
      OBVIOUS
    <2>3. \A k \in Keys : LiveAfter(Len(log), k) => LiveAfter(Len(log), k)'
      BY DEF LiveAfter
    <2> QED
      BY <1>1, <2>1, <2>2, <2>3 DEF LiveRows
  <1> QED
    BY <1>2, <1>3, <1>4, <1>5, <1>6, StepKeeps

\* A call that returns.
LEMMA ReturnSearch ==
    ASSUME SearchInv, NEW p \in Procs, Return(p), UNCHANGED <<log, rows, nextId, rescans>>
    PROVE  SearchInv'
  <1>1. DOMAIN loc = Procs /\ pc \in [Procs -> Places]
    BY DEF SearchInv, TableOK
  <1>2. /\ pc' = [pc EXCEPT ![p] = "idle"] /\ pc'[p] = "idle" /\ "idle" \in Places
        /\ DOMAIN loc' = Procs /\ loc'[p] = NoLocals
        /\ \A q \in Procs : q # p => loc'[q] = loc[q]
    BY <1>1 DEF Return, Goto, Places
  <1>3. CallTypes(loc'[p])
    BY <1>2, NoLocalsTyped
  <1>4. SearchOK(p)'
    BY <1>2 DEF SearchOK
  <1> QED
    BY <1>2, <1>3, <1>4, QuietSearch

\* The vector of a fact arrives: its row keeps its id and stays live or dead.
LEMMA StoreEmbeddingSearch ==
    ASSUME SearchInv, NEW p \in Servers, StoreEmbedding(p)
    PROVE  SearchInv'
  <1>1. TableOK /\ LiveRows /\ p \in Procs
    BY DEF SearchInv, Procs
  <1>2. /\ UNCHANGED <<log, nextId, rescans>> /\ Return(p)
        /\ \/ rows' = rows
           \/ rows' = [k \in Keys |-> IF rows[k] # NoRow /\ rows[k].id = loc[p].id
                                      THEN [rows[k] EXCEPT !.vec = loc[p].text] ELSE rows[k]]
    BY DEF StoreEmbedding
  <1>3. CASE rows' = rows
    BY <1>1, <1>2, <1>3, ReturnSearch
  <1>4. CASE rows' = [k \in Keys |-> IF rows[k] # NoRow /\ rows[k].id = loc[p].id
                                     THEN [rows[k] EXCEPT !.vec = loc[p].text] ELSE rows[k]]
    <2>1. loc[p].text \in Texts \cup {NoVec}
      BY <1>1 DEF TableOK, CallTypes
    <2>2. ASSUME NEW k \in Keys
          PROVE  /\ rows'[k] \in Rows \cup {NoRow}
                 /\ rows'[k] = NoRow <=> rows[k] = NoRow
                 /\ rows[k] # NoRow => rows'[k].id = rows[k].id
                 /\ Live(rows'[k]) => Live(rows[k])
      <3>1. CASE rows'[k] = rows[k]
        BY <1>1, <3>1 DEF TableOK
      <3>2. CASE rows[k] # NoRow /\ rows'[k] = [rows[k] EXCEPT !.vec = loc[p].text]
        <4>1. rows[k] \in Rows
          BY <1>1, <3>2 DEF TableOK
        <4>2. /\ rows'[k] \in Rows /\ rows'[k].id = rows[k].id
              /\ rows'[k].deleted = rows[k].deleted /\ rows'[k].temp = rows[k].temp
          BY <2>1, <3>2, <4>1 DEF Rows
        <4> QED
          BY <3>2, <4>2, RowsAssumption DEF Live
      <3> QED
        BY <1>4, <3>1, <3>2
    <2>3. rows' \in [Keys -> Rows \cup {NoRow}]
      <3>1. rows' = [k \in Keys |-> rows'[k]]
        BY <1>4
      <3> QED
        BY <2>2, <3>1
    <2>4. IdsGivenOnce'
      BY <1>1, <1>2, <2>2 DEF TableOK, IdsGivenOnce
    <2>5. /\ pc' \in [Procs -> Places] /\ pc'[p] = "idle"
          /\ DOMAIN loc' = Procs /\ loc'[p] = NoLocals
          /\ \A q \in Procs : q # p => pc'[q] = pc[q] /\ loc'[q] = loc[q]
      BY <1>1, <1>2 DEF Return, Goto, Places, TableOK
    <2>6. CallTypes(loc'[p]) /\ SearchOK(p)'
      BY <2>5, NoLocalsTyped DEF SearchOK
    <2>7. /\ log' \in Seq(Written) /\ nextId' \in Nat /\ rescans' \in Nat
          /\ rescans' = rescans /\ Len(log) \in Nat
      BY <1>1, <1>2 DEF TableOK
    <2>8. \A n, k : LiveAfter(n, k) => LiveAfter(n, k)'
      BY <1>2 DEF LiveAfter
    <2>9. Onward
      BY <1>2, <2>2, <2>7, <2>8 DEF Onward, StoredWithTtl
    <2>10. LiveRows'
      <3>1. NoRescan => NoRescan'
        BY <2>5 DEF NoRescan, Procs
      <3>2. \A k \in Keys : LiveAfter(Len(log), k) => LiveAfter(Len(log), k)'
        BY <1>2 DEF LiveAfter
      <3> QED
        BY <1>1, <2>2, <2>7, <3>1, <3>2 DEF LiveRows
    <2> QED
      BY <1>1, <2>3, <2>4, <2>5, <2>6, <2>7, <2>9, <2>10, StepKeeps
  <1> QED
    BY <1>2, <1>3, <1>4

LEMMA WriteSearch ==
    ASSUME SearchInv, NEW p \in Servers, Write(p) \/ Restart(p)
    PROVE  SearchInv'
  <1>1. ASSUME EmbedFails(p) \/ Restart(p) PROVE SearchInv'
    BY <1>1, ReturnSearch DEF EmbedFails, Restart, table, Procs
  <1> QED
    BY <1>1, PutSearch, ForgetSearch, StoreEmbeddingSearch DEF Write
-----------------------------------------------------------------------------
(* Rescans *)

\* Reset: the tables begin anew, and no search claims anything of them until then.
LEMMA ResetSearch ==
    ASSUME SearchInv, NEW p \in Rescanners, Reset(p)
    PROVE  SearchInv'
  <1>1. TableOK /\ p \in Procs /\ p \notin Servers
    BY HybridProcsAssumption DEF SearchInv, Procs
  <1>2. /\ rescans' = rescans + 1 /\ rows' = [k \in Keys |-> NoRow] /\ nextId' = 1
        /\ pc' = [pc EXCEPT ![p] = "parse"] /\ UNCHANGED <<log, loc>>
    BY DEF Reset, Goto
  <1>3. /\ log' \in Seq(Written) /\ rows' \in [Keys -> Rows \cup {NoRow}]
        /\ nextId' \in Nat /\ rescans' \in Nat /\ rescans' # 0 /\ rescans' # rescans
        /\ rescans <= rescans' /\ Len(log) \in Nat
    BY <1>1, <1>2 DEF TableOK
  <1>4. IdsGivenOnce'
    BY <1>2 DEF IdsGivenOnce
  <1>5. /\ pc' \in [Procs -> Places] /\ DOMAIN loc' = Procs /\ CallTypes(loc'[p])
        /\ \A q \in Procs : q # p => pc'[q] = pc[q] /\ loc'[q] = loc[q]
    BY <1>1, <1>2 DEF TableOK, Places
  <1>6. \A n, k : LiveAfter(n, k) => LiveAfter(n, k)'
    BY <1>2 DEF LiveAfter
  <1>7. Onward
    BY <1>2, <1>3, <1>6 DEF Onward, StoredWithTtl
  <1>8. LiveRows'
    BY <1>3 DEF LiveRows
  <1> QED
    BY <1>1, <1>3, <1>4, <1>5, <1>7, <1>8, StepKeeps

\* The entries to replay are typed.
LEMMA TodoTyped ==
    ASSUME NEW l, CallTypes(l), NEW t \in Seq(Written), NEW l2, l2 = [l EXCEPT !.todo = t]
    PROVE  CallTypes(l2)
  <1>1. {"id", "text", "query", "keyword", "since", "from", "todo"} \subseteq DOMAIN l
    BY DEF CallTypes, NoLocals
  <1>2. /\ DOMAIN l2 = DOMAIN l /\ l2.id = l.id /\ l2.text = l.text /\ l2.query = l.query
        /\ l2.keyword = l.keyword /\ l2.since = l.since /\ l2.from = l.from /\ l2.todo = t
    BY <1>1
  <1> QED
    BY <1>2 DEF CallTypes

\* The replay of one entry gives ids out again, none of them twice.
LEMMA ReplaySearch ==
    ASSUME SearchInv, NEW p \in Rescanners, Replay(p)
    PROVE  SearchInv'
  <1>1. TableOK /\ p \in Procs /\ p \notin Servers
    BY HybridProcsAssumption DEF SearchInv, Procs
  <1>2. rescans # 0
    BY DEF SearchInv, LiveRows, NoRescan, Replay
  <1>3. CallTypes(loc[p]) /\ loc[p].todo \in Seq(Written) /\ loc[p].todo # <<>>
    BY <1>1 DEF TableOK, CallTypes, Replay
  <1>4. PICK e : e = Head(loc[p].todo)
    OBVIOUS
  <1>5. e \in Written /\ Tail(loc[p].todo) \in Seq(Written)
    BY <1>3, <1>4
  <1>6. /\ loc' = [loc EXCEPT ![p].todo = Tail(@)] /\ UNCHANGED <<log, rescans, pc>>
        /\ \/ /\ e.op = "store"
              /\ rows' = [rows EXCEPT ![e.key] = Upserted(@, e)]
              /\ nextId' = nextId + 1
           \/ UNCHANGED <<rows, nextId>>
           \/ /\ rows' = [rows EXCEPT ![e.key] =
                            IF @ = NoRow THEN NoRow ELSE [@ EXCEPT !.deleted = TRUE]]
              /\ nextId' = nextId
    BY <1>4 DEF Replay
  <1>7. e.key \in Keys /\ e.temp \in BOOLEAN /\ (e.op = "store" => e.text \in Texts)
    BY <1>5 DEF Written, Entries
  <1>8. /\ rows' \in [Keys -> Rows \cup {NoRow}] /\ nextId' \in Nat /\ IdsGivenOnce'
        /\ \A k \in Keys : rows[k] # NoRow => rows'[k] # NoRow /\ rows'[k].id = rows[k].id
    <2>1. CASE e.op = "store" /\ rows' = [rows EXCEPT ![e.key] = Upserted(@, e)]
               /\ nextId' = nextId + 1
      BY <1>1, <1>7, <2>1, UpsertKeepsIds
    <2>2. CASE UNCHANGED <<rows, nextId>>
      BY <1>1, <2>2 DEF TableOK, IdsGivenOnce
    <2>3. CASE /\ rows' = [rows EXCEPT ![e.key] =
                             IF @ = NoRow THEN NoRow ELSE [@ EXCEPT !.deleted = TRUE]]
               /\ nextId' = nextId
      BY <1>1, <1>7, <2>3, DeletionKeepsIds
    <2> QED
      BY <1>6, <2>1, <2>2, <2>3
  <1>9. /\ pc' \in [Procs -> Places] /\ DOMAIN loc' = Procs
        /\ loc'[p] = [loc[p] EXCEPT !.todo = Tail(loc[p].todo)]
        /\ \A q \in Procs : q # p => pc'[q] = pc[q] /\ loc'[q] = loc[q]
    <2>1. "todo" \in DOMAIN loc[p]
      BY <1>3 DEF CallTypes, NoLocals
    <2> QED
      BY <1>1, <1>6, <2>1 DEF TableOK
  <1>10. CallTypes(loc'[p])
    BY <1>3, <1>5, <1>9, TodoTyped
  <1>11. /\ log' \in Seq(Written) /\ rescans' \in Nat /\ rescans' # 0 /\ rescans' = rescans
         /\ Len(log) \in Nat
    BY <1>1, <1>2, <1>6 DEF TableOK
  <1>12. \A n, k : LiveAfter(n, k) => LiveAfter(n, k)'
    BY <1>6 DEF LiveAfter
  <1>13. Onward
    BY <1>6, <1>8, <1>11, <1>12 DEF Onward, StoredWithTtl
  <1>14. LiveRows'
    BY <1>11 DEF LiveRows
  <1> QED
    BY <1>1, <1>8, <1>9, <1>10, <1>11, <1>13, <1>14, StepKeeps

LEMMA RescanSearch ==
    ASSUME SearchInv, NEW p \in Rescanners, Rescan(p)
    PROVE  SearchInv'
  <1>1. TableOK /\ p \in Procs /\ p \notin Servers
    BY HybridProcsAssumption DEF SearchInv, Procs
  <1>2. ASSUME Parse(p) PROVE SearchInv'
    <2>1. /\ UNCHANGED <<log, rows, nextId, rescans>> /\ pc' = [pc EXCEPT ![p] = "replay"]
          /\ loc' = [loc EXCEPT ![p].todo = log] /\ pc[p] = "parse"
      BY <1>2 DEF Parse, Goto, table
    <2>2. rescans # 0
      BY <2>1 DEF SearchInv, LiveRows, NoRescan
    <2>3. CallTypes(loc[p]) /\ "todo" \in DOMAIN loc[p]
      BY <1>1 DEF TableOK, CallTypes, NoLocals
    <2>4. /\ DOMAIN loc' = Procs /\ loc'[p] = [loc[p] EXCEPT !.todo = log]
          /\ \A q \in Procs : q # p => loc'[q] = loc[q]
      BY <1>1, <2>1 DEF TableOK
    <2>5. CallTypes(loc'[p])
      BY <1>1, <2>3, <2>4, TodoTyped DEF TableOK
    <2> QED
      BY <1>1, <2>1, <2>2, <2>4, <2>5, QuietSearch DEF Places
  <1>3. ASSUME RescanReturns(p) PROVE SearchInv'
    BY <1>1, <1>3, ReturnSearch DEF RescanReturns, table
  <1> QED
    BY <1>2, <1>3, ResetSearch, ReplaySearch DEF Rescan
-----------------------------------------------------------------------------
(* The steps of a search *)

\* A list of facts and the list of their ids.
LEMMA IdsOfHits ==
    ASSUME NEW hits, NEW S, hits \in Seq(S)
    PROVE  /\ IdsOf(hits) \in Seq(Range(IdsOf(hits))) /\ Len(IdsOf(hits)) = Len(hits)
           /\ Len(hits) \in Nat /\ DOMAIN hits = 1 .. Len(hits)
           /\ DOMAIN IdsOf(hits) = DOMAIN hits
           /\ \A i \in DOMAIN hits : IdsOf(hits)[i] = hits[i].id
  <1>1. Len(hits) \in Nat /\ DOMAIN hits = 1 .. Len(hits)
    OBVIOUS
  <1>2. /\ DOMAIN IdsOf(hits) = 1 .. Len(hits)
        /\ \A i \in DOMAIN hits : IdsOf(hits)[i] = hits[i].id
    BY <1>1 DEF IdsOf
  <1>3. IdsOf(hits) \in [1 .. Len(hits) -> Range(IdsOf(hits))]
    BY <1>1, <1>2 DEF IdsOf, Range
  <1>4. IdsOf(hits) \in Seq(Range(IdsOf(hits))) /\ Len(IdsOf(hits)) = Len(hits)
    BY <1>1, <1>3
  <1> QED
    BY <1>1, <1>2, <1>4

\* What a keyword search finds: live facts, each once.
LEMMA Finds ==
    ASSUME TableOK, NEW q \in Queries, NEW n \in Nat, NEW ks \in Rankings(Searchable(q), n)
    PROVE  /\ Facts(ks) \in Seq([id : Nat, key : Keys])
           /\ IsRanking(IdsOf(Facts(ks)))
           /\ \A f \in Range(Facts(ks)) : Live(rows[f.key]) /\ f.key \in Keys /\ rows[f.key].id = f.id
           /\ \A i, j \in DOMAIN Facts(ks) : Facts(ks)[i].key = Facts(ks)[j].key => i = j
  <1> DEFINE kw == Facts(ks)
             H == [id : Nat, key : Keys]
  <1>1. IsRanking(ks) /\ Range(ks) \subseteq Searchable(q)
    BY RankingsAre
  <1>2. /\ Len(ks) \in Nat /\ DOMAIN ks = 1 .. Len(ks)
        /\ \A i \in DOMAIN ks : ks[i] \in Keys /\ Live(rows[ks[i]])
    BY <1>1 DEF IsRanking, Range, Searchable, LiveFacts
  <1>3. /\ DOMAIN kw = 1 .. Len(ks)
        /\ \A i \in DOMAIN ks : kw[i] = [id |-> rows[ks[i]].id, key |-> ks[i]]
    BY <1>2 DEF Facts, Fact
  <1>4. \A i \in DOMAIN ks : rows[ks[i]] # NoRow /\ rows[ks[i]].id \in Nat
    BY <1>2 DEF Live, TableOK, Rows
  <1>5. kw \in [1 .. Len(ks) -> H]
    BY <1>2, <1>3, <1>4 DEF Facts
  <1>6. kw \in Seq(H)
    <2> HIDE DEF kw, H
    <2> QED
      BY <1>2, <1>5
  <1>7. IsRanking(IdsOf(kw))
    <2>1. \A i \in DOMAIN kw : IdsOf(kw)[i] = rows[ks[i]].id
      BY <1>2, <1>3 DEF IdsOf
    <2>2. DOMAIN IdsOf(kw) = DOMAIN kw /\ IdsOf(kw) \in Seq(Range(IdsOf(kw)))
      <3> HIDE DEF kw, H
      <3> QED
        BY <1>6, IdsOfHits
    <2>3. ASSUME NEW i \in DOMAIN kw, NEW j \in DOMAIN kw, IdsOf(kw)[i] = IdsOf(kw)[j]
          PROVE  i = j
      <3>1. ks[i] = ks[j]
        BY <1>2, <1>3, <1>4, <2>1, <2>3 DEF TableOK, IdsGivenOnce
      <3> QED
        BY <1>1, <1>2, <1>3, <3>1 DEF IsRanking, IsInjective
    <2> QED
      BY <2>2, <2>3 DEF IsRanking, IsInjective
  <1>8. ASSUME NEW f \in Range(kw)
        PROVE  Live(rows[f.key]) /\ f.key \in Keys /\ rows[f.key].id = f.id
    <2>1. PICK i \in DOMAIN kw : f = kw[i]
      BY DEF Range
    <2> QED
      BY <1>2, <1>3, <2>1
  <1>9. \A i, j \in DOMAIN kw : kw[i].key = kw[j].key => i = j
    BY <1>1, <1>2, <1>3 DEF IsRanking, IsInjective
  <1> QED
    BY <1>6, <1>7, <1>8, <1>9

\* The local variables of a search that begins with the keyword ranking kw.
Begun(l, q, kw) ==
    /\ DOMAIN l = DOMAIN NoLocals /\ l.id = 0 /\ l.text = NoVec /\ l.todo = <<>>
    /\ l.query = q /\ l.keyword = kw

\* A search that begins has facts that are live now.
LEMMA BeginSearch ==
    ASSUME SearchInv, NEW p \in Servers, NEW q \in Queries, NEW n \in Nat,
           NEW ks \in Rankings(Searchable(q), n),
           DOMAIN loc' = Procs, Begun(loc'[p], q, Facts(ks)),
           loc'[p].since = rescans, loc'[p].from = Len(log),
           UNCHANGED <<log, rows, rescans>>
    PROVE  CallTypes(loc'[p]) /\ FoundOK(p)'
  <1> DEFINE kw == Facts(ks)
  <1>1. TableOK /\ LiveRows
    BY DEF SearchInv
  <1>2. rescans \in Nat /\ Len(log) \in Nat
    BY <1>1 DEF TableOK
  <1>3. /\ kw \in Seq([id : Nat, key : Keys]) /\ IsRanking(IdsOf(kw))
        /\ \A f \in Range(kw) : Live(rows[f.key]) /\ f.key \in Keys /\ rows[f.key].id = f.id
    <2>1. Facts(ks) \in Seq([id : Nat, key : Keys])
      BY <1>1, Finds
    <2>2. IsRanking(IdsOf(Facts(ks)))
      BY <1>1, Finds
    <2>3. \A f \in Range(Facts(ks)) :
             Live(rows[f.key]) /\ f.key \in Keys /\ rows[f.key].id = f.id
      BY <1>1, Finds
    <2> QED
      BY <2>1, <2>2, <2>3
  <1> HIDE DEF kw
  <1>4. CallTypes(loc'[p])
    <2>1. <<>> \in Seq(Written)
      OBVIOUS
    <2>2. q.limit \in Nat \ {0}
      BY QueriesAssumption
    <2> QED
      BY <1>2, <1>3, <2>1, <2>2 DEF CallTypes, Begun, kw
  <1>5. loc'[p].keyword = kw
    BY DEF Begun, kw
  <1>6. ASSUME rescans = 0, NEW f \in Range(kw) PROVE LiveSince(loc[p].from, f.key)'
    <2>1. LiveAfter(Len(log), f.key)
      BY <1>1, <1>3, <1>6 DEF LiveRows
    <2>2. LiveAfter(Len(log), f.key)'
      BY <2>1 DEF LiveAfter
    <2>3. Len(log') \in loc'[p].from .. Len(log')
      BY <1>2
    <2> QED
      BY <2>2, <2>3 DEF LiveSince
  <1>7. FoundOK(p)'
    <2>1. \A f \in Range(kw) : rows'[f.key] # NoRow /\ rows'[f.key].id = f.id
      BY <1>3 DEF Live
    <2> QED
      BY <1>2, <1>3, <1>5, <1>6, <2>1 DEF FoundOK, HasKept
  <1> QED
    BY <1>4, <1>7

LEMMA KeywordSearchSearch ==
    ASSUME SearchInv, NEW p \in Servers, NEW q \in Queries, KeywordSearch(p, q)
    PROVE  SearchInv'
  <1>1. TableOK /\ p \in Procs /\ p \notin Rescanners
    BY HybridProcsAssumption DEF SearchInv, Procs
  <1>2. q.limit \in Nat /\ q.limit # 0
    BY QueriesAssumption
  <1>3. PICK ks \in Rankings(Searchable(q), q.limit) :
          loc' = [loc EXCEPT ![p] = [NoLocals EXCEPT
                     !.query = q, !.since = rescans, !.from = Len(log),
                     !.keyword = Facts(ks), !.hits = Facts(ks)]]
    BY DEF KeywordSearch
  <1>4. UNCHANGED <<log, rows, nextId, rescans>> /\ pc' = [pc EXCEPT ![p] = "answer"]
    BY DEF KeywordSearch, Goto, table
  <1>5. /\ DOMAIN loc' = Procs /\ \A r \in Procs : r # p => loc'[r] = loc[r]
        /\ Begun(loc'[p], q, Facts(ks)) /\ loc'[p].hits = Facts(ks)
        /\ loc'[p].since = rescans /\ loc'[p].from = Len(log)
    <2>1. DOMAIN loc' = Procs /\ \A r \in Procs : r # p => loc'[r] = loc[r]
      BY <1>1, <1>3 DEF TableOK
    <2>2. loc'[p] = [NoLocals EXCEPT
                     !.query = q, !.since = rescans, !.from = Len(log),
                     !.keyword = Facts(ks), !.hits = Facts(ks)]
      BY <1>1, <1>3 DEF TableOK
    <2> QED
      BY <2>1, <2>2 DEF Begun, NoLocals
  <1>6. CallTypes(loc'[p]) /\ FoundOK(p)'
    BY <1>2, <1>4, <1>5, BeginSearch
  <1>7. loc'[p].hits = loc'[p].keyword /\ loc'[p].query = q
    BY <1>5 DEF Begun
  <1>8. AnswerOK(p)'
    <2>1. Half(loc'[p])
      <3>1. Len(loc'[p].keyword) \in Nat
        BY <1>6 DEF CallTypes
      <3> QED
        BY <1>2, <1>7, <3>1 DEF Half
    <2>2. Agree(loc'[p])
      BY <1>7 DEF Agree
    <2>3. Distinct(loc[p])'
      BY <1>1, <1>2, <1>5, Finds DEF Distinct
    <2>4. rescans' = 0 => \A f \in Range(loc'[p].hits) : LiveSince(loc[p].from, f.key)'
      BY <1>6, <1>7 DEF FoundOK
    <2> QED
      BY <2>1, <2>2, <2>3, <2>4 DEF AnswerOK
  <1>9. SearchOK(p)'
    BY <1>6, <1>8 DEF SearchOK
  <1> QED
    BY <1>1, <1>4, <1>5, <1>6, <1>9, QuietSearch DEF Places

LEMMA Bm25Search ==
    ASSUME SearchInv, NEW p \in Servers, NEW q \in Queries, Bm25(p, q)
    PROVE  SearchInv'
  <1>1. TableOK /\ p \in Procs /\ p \notin Rescanners
    BY HybridProcsAssumption DEF SearchInv, Procs
  <1>2. 2 * q.limit \in Nat
    BY QueriesAssumption
  <1>3. PICK ks \in Rankings(Searchable(q), 2 * q.limit) :
          loc' = [loc EXCEPT ![p] = [NoLocals EXCEPT
                     !.query = q, !.since = rescans, !.from = Len(log), !.keyword = Facts(ks)]]
    BY DEF Bm25
  <1>4. UNCHANGED <<log, rows, nextId, rescans>>
    BY DEF Bm25, table
  <1>5. PICK place \in {"load", "cosine"} : pc' = [pc EXCEPT ![p] = place]
    BY DEF Bm25, Goto
  <1>6. /\ DOMAIN loc' = Procs /\ \A r \in Procs : r # p => loc'[r] = loc[r]
        /\ Begun(loc'[p], q, Facts(ks))
        /\ loc'[p].since = rescans /\ loc'[p].from = Len(log)
    <2>1. DOMAIN loc' = Procs /\ \A r \in Procs : r # p => loc'[r] = loc[r]
      BY <1>1, <1>3 DEF TableOK
    <2>2. loc'[p] = [NoLocals EXCEPT
                     !.query = q, !.since = rescans, !.from = Len(log), !.keyword = Facts(ks)]
      BY <1>1, <1>3 DEF TableOK
    <2> QED
      BY <2>1, <2>2 DEF Begun, NoLocals
  <1>7. CallTypes(loc'[p]) /\ FoundOK(p)'
    BY <1>2, <1>4, <1>6, BeginSearch
  <1>8. pc'[p] = place
    BY <1>1, <1>5 DEF TableOK
  <1>9. SearchOK(p)'
    BY <1>5, <1>7, <1>8 DEF SearchOK
  <1> QED
    BY <1>1, <1>4, <1>5, <1>6, <1>7, <1>9, QuietSearch DEF Places

\* The cache is loaded: the search keeps what it has.
LEMMA LoadSearch ==
    ASSUME SearchInv, NEW p \in Servers, LoadEmbeddings(p)
    PROVE  SearchInv'
  <1>1. TableOK /\ p \in Procs /\ p \notin Rescanners /\ SearchOK(p)
    BY HybridProcsAssumption DEF SearchInv, Procs
  <1>2. /\ UNCHANGED <<log, rows, nextId, rescans, loc>> /\ pc[p] = "load"
        /\ pc' = [pc EXCEPT ![p] = "cosine"]
    BY DEF LoadEmbeddings, Goto, table
  <1>3. DOMAIN loc' = Procs /\ CallTypes(loc'[p]) /\ pc'[p] = "cosine"
    BY <1>1, <1>2 DEF TableOK
  <1>4. FoundOK(p)'
    <2>1. FoundOK(p)
      BY <1>1, <1>2 DEF SearchOK
    <2> QED
      BY <1>2, <2>1 DEF FoundOK, LiveSince, LiveAfter, HasKept, StoredWithTtl
  <1>5. SearchOK(p)'
    BY <1>3, <1>4 DEF SearchOK
  <1> QED
    BY <1>1, <1>2, <1>3, <1>5, QuietSearch DEF Places

\* FetchByIDs finds live facts under the ids that it is asked for.
LEMMA Fetched ==
    ASSUME NEW ids, NEW f \in FetchByIDs(ids)
    PROVE  f.key \in Keys /\ Live(rows[f.key]) /\ rows[f.key].id = f.id
  <1>1. PICK k \in LiveFacts : f = Fact(k)
    BY DEF FetchByIDs
  <1> QED
    BY <1>1 DEF Fact, LiveFacts

\* The merge: the answer has the properties HYB1 to HYB4.
LEMMA MergeSearch ==
    ASSUME SearchInv, NEW p \in Servers, FetchAndMerge(p)
    PROVE  SearchInv'
  <1>1. /\ TableOK /\ LiveRows /\ p \in Procs /\ p \notin Rescanners /\ SearchOK(p)
        /\ CallTypes(loc[p])
    BY HybridProcsAssumption DEF SearchInv, TableOK, Procs
  <1> DEFINE kw == loc[p].keyword
             kwIds == [i \in DOMAIN kw |-> kw[i].id]
             limit == loc[p].query.limit
  <1>2. kwIds = IdsOf(kw)
    BY DEF IdsOf
  <1>3. PICK cos \in CosineRankings(p) :
          LET facts == Range(kw) \cup FetchByIDs(Range(cos) \ Range(kwIds))
              known == {f.id : f \in facts}
          IN  \E m \in Merges(kwIds, cos, limit) : \E kept \in KeptOf(m, known) :
                 loc' = [loc EXCEPT ![p].cosine = cos,
                               ![p].hits = [i \in DOMAIN kept |-> CHOOSE f \in facts : f.id = kept[i]]]
    BY DEF FetchAndMerge
  <1> DEFINE facts == Range(kw) \cup FetchByIDs(Range(cos) \ Range(kwIds))
             known == {f.id : f \in facts}
  <1>4. PICK m \in Merges(kwIds, cos, limit) : \E kept \in KeptOf(m, known) :
          loc' = [loc EXCEPT ![p].cosine = cos,
                     ![p].hits = [i \in DOMAIN kept |-> CHOOSE f \in facts : f.id = kept[i]]]
    BY <1>3
  <1>5. PICK kept \in KeptOf(m, known) :
          loc' = [loc EXCEPT ![p].cosine = cos,
                     ![p].hits = [i \in DOMAIN kept |-> CHOOSE f \in facts : f.id = kept[i]]]
    BY <1>4
  <1> DEFINE hits == [i \in DOMAIN kept |-> CHOOSE f \in facts : f.id = kept[i]]
  <1>6. loc' = [loc EXCEPT ![p].cosine = cos, ![p].hits = hits]
    BY <1>5
  <1> HIDE DEF kw, kwIds, limit, facts, known, hits
  <1>7. loc[p].query.limit = limit /\ loc[p].keyword = kw
    BY DEF kw, limit
  <1>8. /\ limit \in Nat \ {0} /\ kw \in Seq([id : Nat, key : Keys]) /\ FoundOK(p)
        /\ IsRanking(kwIds) /\ loc[p].since \in Nat /\ loc[p].from \in Nat
    <2>1. FoundOK(p)
      BY <1>1 DEF SearchOK, FetchAndMerge
    <2> QED
      BY <1>1, <1>2, <1>7, <2>1 DEF CallTypes, FoundOK
  <1>9. /\ loc'[p].cosine = cos /\ loc'[p].hits = hits /\ DOMAIN loc'[p] = DOMAIN loc[p]
        /\ \A x \in DOMAIN loc[p] : x \notin {"cosine", "hits"} => loc'[p][x] = loc[p][x]
        /\ DOMAIN loc' = Procs /\ \A r \in Procs : r # p => loc'[r] = loc[r]
    <2>1. DOMAIN loc = Procs /\ {"cosine", "hits"} \subseteq DOMAIN loc[p]
      BY <1>1 DEF TableOK, CallTypes, NoLocals
    <2> QED
      BY <1>1, <1>6, <2>1
  <1>10. /\ loc'[p].keyword = kw /\ loc'[p].query.limit = limit
         /\ loc'[p].since = loc[p].since /\ loc'[p].from = loc[p].from
         /\ loc'[p].id = loc[p].id /\ loc'[p].text = loc[p].text /\ loc'[p].todo = loc[p].todo
         /\ DOMAIN loc'[p] = DOMAIN NoLocals
    BY <1>1, <1>7, <1>9 DEF CallTypes, NoLocals
  <1>11. CallTypes(loc'[p])
    BY <1>1, <1>8, <1>10 DEF CallTypes
  <1>12. UNCHANGED <<log, rows, nextId, rescans>> /\ pc' = [pc EXCEPT ![p] = "answer"]
    BY DEF FetchAndMerge, Goto, table
  <1>13. FoundOK(p)'
    <2>1. \A k, id : HasKept(k, id) => HasKept(k, id)'
      BY <1>12 DEF HasKept, StoredWithTtl
    <2>2. \A n, k : LiveSince(n, k) => LiveSince(n, k)'
      BY <1>12 DEF LiveSince, LiveAfter
    <2> QED
      BY <1>7, <1>8, <1>10, <1>12, <2>1, <2>2 DEF FoundOK
  <1>14. Merging(kwIds, cos, limit, m, known, kept)
    <2>1. IsRanking(cos)
      BY <1>7, <1>8, RankingsAre DEF CosineRankings
    <2>2. Range(kwIds) \subseteq known
      <3>1. ASSUME NEW i \in DOMAIN kw PROVE kwIds[i] \in known
        <4>1. kw[i] \in facts
          BY <3>1 DEF Range, facts
        <4>2. kwIds[i] = kw[i].id
          BY <3>1 DEF kwIds
        <4> QED
          BY <4>1, <4>2 DEF known
      <3>2. DOMAIN kwIds = DOMAIN kw
        BY DEF kwIds
      <3> QED
        BY <3>1, <3>2 DEF Range
    <2> QED
      BY <1>8, <2>1, <2>2 DEF Merging
  <1>15. IsRanking(kept) /\ Range(kept) \subseteq known
    <2>1. IsRanking(m)
      BY <1>14, MergesAre DEF Merging
    <2> QED
      BY <2>1, KeptIs
  <1>16. /\ Len(kept) \in Nat /\ DOMAIN kept = 1 .. Len(kept)
         /\ DOMAIN hits = DOMAIN kept
         /\ \A i \in DOMAIN kept : hits[i] \in facts /\ hits[i].id = kept[i]
    <2>1. Len(kept) \in Nat /\ DOMAIN kept = 1 .. Len(kept)
      BY <1>15 DEF IsRanking
    <2>2. ASSUME NEW i \in DOMAIN kept PROVE hits[i] \in facts /\ hits[i].id = kept[i]
      <3>1. kept[i] \in known
        BY <1>15 DEF Range
      <3>2. \E f \in facts : f.id = kept[i]
        BY <3>1 DEF known
      <3> QED
        BY <3>2 DEF hits
    <2> QED
      BY <2>1, <2>2 DEF hits
  <1>17. hits \in Seq(facts) /\ Len(hits) = Len(kept) /\ IdsOf(hits) = kept
    <2>1. hits \in [1 .. Len(kept) -> facts]
      BY <1>16 DEF hits
    <2>2. hits \in Seq(facts) /\ Len(hits) = Len(kept)
      BY <1>16, <2>1
    <2>3. IdsOf(hits) = [i \in 1 .. Len(kept) |-> kept[i]]
      BY <1>16 DEF IdsOf
    <2>4. kept = [i \in 1 .. Len(kept) |-> kept[i]]
      BY <1>15, <1>16 DEF IsRanking
    <2> QED
      BY <2>2, <2>3, <2>4
  <1>18. Half(loc'[p])
    <2>1. Len(kwIds) = Len(kw)
      BY <1>2, <1>8, IdsOfHits
    <2> QED
      BY <1>9, <1>10, <1>14, <1>17, <2>1, MergedHalf DEF Half
  <1>19. Agree(loc'[p])
    BY <1>2, <1>9, <1>10, <1>14, <1>17, MergedAgreement DEF Agree
  <1>20. ASSUME NEW f \in facts
         PROVE  /\ rescans = 0 => LiveSince(loc[p].from, f.key)
                /\ loc[p].since = rescans => f.key \in Keys /\ HasKept(f.key, f.id)
    <2>1. CASE f \in Range(kw)
      BY <1>7, <1>8, <2>1, HitsTyped DEF FoundOK
    <2>2. CASE f \notin Range(kw)
      <3>1. f.key \in Keys /\ Live(rows[f.key]) /\ rows[f.key].id = f.id
        BY <2>2, Fetched DEF facts
      <3>2. rescans = 0 => LiveAfter(Len(log), f.key)
        BY <1>1, <3>1 DEF LiveRows
      <3>3. Len(log) \in loc[p].from .. Len(log)
        BY <1>1, <1>8 DEF FoundOK, TableOK
      <3> QED
        BY <3>1, <3>2, <3>3 DEF LiveSince, HasKept, Live
    <2> QED
      BY <2>1, <2>2
  <1>21. loc'[p].since = rescans' => Distinct(loc[p])'
    <2> SUFFICES ASSUME loc[p].since = rescans, NEW i \in DOMAIN hits, NEW j \in DOMAIN hits,
                        hits[i].key = hits[j].key, ~StoredWithTtl(hits[i].key)
                 PROVE  i = j
      BY <1>9, <1>10, <1>12 DEF Distinct, StoredWithTtl
    <2>1. kept[i] = kept[j]
      BY <1>16, <1>20 DEF HasKept
    <2> QED
      BY <1>15, <1>16, <2>1 DEF IsRanking, IsInjective
  <1>22. ASSUME rescans' = 0, NEW f \in Range(loc'[p].hits) PROVE LiveSince(loc[p].from, f.key)'
    <2>1. f \in facts
      BY <1>9, <1>16, <1>22 DEF Range
    <2>2. LiveSince(loc[p].from, f.key)
      BY <1>12, <1>20, <1>22, <2>1
    <2> QED
      BY <1>10, <1>12, <2>2 DEF LiveSince, LiveAfter
  <1>23. AnswerOK(p)'
    BY <1>18, <1>19, <1>21, <1>22 DEF AnswerOK
  <1>24. SearchOK(p)'
    BY <1>13, <1>23 DEF SearchOK
  <1> QED
    BY <1>1, <1>9, <1>11, <1>12, <1>24, QuietSearch DEF Places
-----------------------------------------------------------------------------
(* Starts and prunes of other processes *)

\* A fact with a TTL, in the table or about to be replayed, is in the log.
TempLogged(e) == e.op = "store" /\ e.temp => StoredWithTtl(e.key)

TempsLogged ==
    /\ \A k \in Keys : rows[k] # NoRow /\ rows[k].temp => StoredWithTtl(k)
    /\ \A p \in Rescanners : \A i \in DOMAIN loc[p].todo : TempLogged(loc[p].todo[i])

\* An upsert of a logged entry, and a soft deletion.
LEMMA UpsertLogged ==
    ASSUME TableOK, TempsLogged, NEW e, e.key \in Keys, e.op = "store",
           rows' = [rows EXCEPT ![e.key] = Upserted(@, e)],
           \A k : StoredWithTtl(k) => StoredWithTtl(k)', e.temp => StoredWithTtl(e.key)'
    PROVE  \A k \in Keys : rows'[k] # NoRow /\ rows'[k].temp => StoredWithTtl(k)'
  <1> SUFFICES ASSUME NEW k \in Keys, rows'[k] # NoRow, rows'[k].temp
               PROVE  StoredWithTtl(k)'
    OBVIOUS
  <1>1. CASE k = e.key
    <2>1. rows'[k] = Upserted(rows[k], e)
      BY <1>1 DEF TableOK
    <2>2. rows'[k].temp = e.temp
      BY <2>1 DEF Upserted
    <2>3. PICK K : K = e.key
      OBVIOUS
    <2> QED
      BY <1>1, <2>2
  <1>2. CASE k # e.key
    BY <1>2 DEF TableOK, TempsLogged
  <1> QED
    BY <1>1, <1>2

LEMMA DeletionLogged ==
    ASSUME TableOK, TempsLogged, NEW K \in Keys,
           rows' = [rows EXCEPT ![K] = IF @ = NoRow THEN NoRow ELSE [@ EXCEPT !.deleted = TRUE]],
           \A k : StoredWithTtl(k) => StoredWithTtl(k)'
    PROVE  \A k \in Keys : rows'[k] # NoRow /\ rows'[k].temp => StoredWithTtl(k)'
  <1> SUFFICES ASSUME NEW k \in Keys, rows'[k] # NoRow, rows'[k].temp
               PROVE  StoredWithTtl(k)'
    OBVIOUS
  <1>1. rows[k] # NoRow /\ rows[k].temp
    BY DEF TableOK, Rows
  <1> QED
    BY <1>1 DEF TempsLogged

LEMMA TempsNext ==
    ASSUME SearchInv, TempsLogged, [Next]_vars
    PROVE  TempsLogged'
  <1>1. TableOK /\ \A p \in Rescanners : p \in Procs /\ p \notin Servers
    BY HybridProcsAssumption DEF SearchInv, Procs
  <1>2. ASSUME \A k \in Keys : rows'[k] # NoRow /\ rows'[k].temp => StoredWithTtl(k)',
               \A k : StoredWithTtl(k) => StoredWithTtl(k)',
               \A p \in Rescanners : loc'[p] = loc[p]
        PROVE  TempsLogged'
    BY <1>2 DEF TempsLogged, TempLogged
  <1>3. ASSUME log' = log PROVE \A k : StoredWithTtl(k) => StoredWithTtl(k)'
    BY <1>3 DEF StoredWithTtl
  <1>4. ASSUME rows' = rows, log' = log, \A p \in Rescanners : loc'[p] = loc[p]
        PROVE  TempsLogged'
    BY <1>2, <1>3, <1>4 DEF TempsLogged
  <1>5. ASSUME NEW p \in Servers, NEW call \in Stores, Put(p, call) PROVE TempsLogged'
    <2> DEFINE e == [op |-> "store", key |-> call.key, text |-> call.text, temp |-> call.temp]
    <2>1. e \in Written /\ e.key \in Keys /\ e.op = "store"
      BY StoresAssumption DEF Written, Entries
    <2>2. /\ log' = Append(log, e) /\ rows' = [rows EXCEPT ![e.key] = Upserted(@, e)]
          /\ \A q \in Rescanners : loc'[q] = loc[q]
      BY <1>1, <1>5 DEF Put, TableOK
    <2>3. PICK f : f = e
      OBVIOUS
    <2> HIDE DEF e
    <2>4. /\ \A k : StoredWithTtl(k) => StoredWithTtl(k)'
          /\ f.op = "store" /\ f.temp => StoredWithTtl(f.key)'
      BY <1>1, <2>1, <2>2, <2>3, LogAppends DEF TableOK
    <2>5. \A k \in Keys : rows'[k] # NoRow /\ rows'[k].temp => StoredWithTtl(k)'
      BY <1>1, <2>1, <2>2, <2>3, <2>4, UpsertLogged
    <2> QED
      BY <1>2, <2>2, <2>4, <2>5
  <1>6. ASSUME NEW p \in Servers, NEW K \in Keys, Forget(p, K) PROVE TempsLogged'
    <2> DEFINE e == [op |-> "delete", key |-> K, text |-> NoVec, temp |-> FALSE]
    <2>1. e \in Written /\ log' = Append(log, e) /\ loc' = loc
      BY <1>6 DEF Forget, Written, Entries
    <2>2. rows' = [rows EXCEPT ![K] = IF @ = NoRow THEN NoRow ELSE [@ EXCEPT !.deleted = TRUE]]
      BY <1>6 DEF Forget
    <2> HIDE DEF e
    <2>3. \A k : StoredWithTtl(k) => StoredWithTtl(k)'
      BY <1>1, <2>1, LogAppends DEF TableOK
    <2>4. \A k \in Keys : rows'[k] # NoRow /\ rows'[k].temp => StoredWithTtl(k)'
      BY <1>1, <2>2, <2>3, DeletionLogged
    <2> QED
      BY <1>2, <2>1, <2>3, <2>4
  <1>7. ASSUME NEW p \in Servers, EmbedFails(p) \/ Restart(p) \/ Search(p) PROVE TempsLogged'
    <2>1. rows' = rows /\ log' = log
      BY <1>7 DEF EmbedFails, Restart, Search, KeywordSearch, Bm25, LoadEmbeddings, FetchAndMerge,
                  Answer, table
    <2>2. \A q \in Rescanners : loc'[q] = loc[q]
      BY <1>1, <1>7 DEF EmbedFails, Restart, Search, KeywordSearch, Bm25, LoadEmbeddings,
                  FetchAndMerge, Answer, Return, TableOK
    <2> QED
      BY <1>4, <2>1, <2>2
  <1>8. ASSUME NEW p \in Servers, StoreEmbedding(p) PROVE TempsLogged'
    <2>1. log' = log /\ \A q \in Rescanners : loc'[q] = loc[q]
      BY <1>1, <1>8 DEF StoreEmbedding, Return, TableOK
    <2>2. ASSUME NEW k \in Keys, rows'[k] # NoRow, rows'[k].temp PROVE rows[k] # NoRow /\ rows[k].temp
      <3>1. \/ rows' = rows
            \/ rows' = [l \in Keys |-> IF rows[l] # NoRow /\ rows[l].id = loc[p].id
                                        THEN [rows[l] EXCEPT !.vec = loc[p].text] ELSE rows[l]]
        BY <1>8 DEF StoreEmbedding
      <3>2. \/ rows'[k] = rows[k]
            \/ rows[k] # NoRow /\ rows'[k] = [rows[k] EXCEPT !.vec = loc[p].text]
        BY <3>1
      <3> QED
        BY <1>1, <2>2, <3>2 DEF TableOK, Rows
    <2> QED
      BY <1>2, <1>3, <2>1, <2>2 DEF TempsLogged
  <1>9. ASSUME NEW p \in Rescanners, Reset(p) PROVE TempsLogged'
    BY <1>2, <1>3, <1>9 DEF Reset
  <1>10. ASSUME NEW p \in Rescanners, Parse(p) PROVE TempsLogged'
    <2>1. rows' = rows /\ log' = log /\ loc' = [loc EXCEPT ![p].todo = log]
      BY <1>10 DEF Parse, table
    <2>2. \A i \in DOMAIN log : TempLogged(log[i])
      BY DEF TempLogged, StoredWithTtl
    <2>3. \A q \in Rescanners : loc'[q].todo = IF q = p THEN log ELSE loc[q].todo
      BY <1>1, <2>1 DEF TableOK, CallTypes, NoLocals
    <2>4. \A e : TempLogged(e)' <=> TempLogged(e)
      BY <2>1 DEF TempLogged, StoredWithTtl
    <2>5. \A q \in Rescanners : \A i \in DOMAIN loc'[q].todo : TempLogged(loc'[q].todo[i])
      BY <2>2, <2>3 DEF TempsLogged
    <2> QED
      BY <2>1, <2>5 DEF TempsLogged, TempLogged, StoredWithTtl
  <1>11. ASSUME NEW p \in Rescanners, Replay(p) PROVE TempsLogged'
    <2>1. /\ log' = log /\ loc' = [loc EXCEPT ![p].todo = Tail(@)] /\ loc[p].todo # <<>>
          /\ loc[p].todo \in Seq(Written) /\ "todo" \in DOMAIN loc[p] /\ DOMAIN loc = Procs
      BY <1>1, <1>11 DEF Replay, TableOK, CallTypes, NoLocals
    <2>2. PICK e : e = Head(loc[p].todo)
      OBVIOUS
    <2>3. e \in Written /\ e.key \in Keys /\ TempLogged(e)
      <3>1. 1 \in DOMAIN loc[p].todo /\ e = loc[p].todo[1] /\ e \in Written
        BY <2>1, <2>2
      <3> QED
        BY <3>1 DEF TempsLogged, Written, Entries
    <2>4. \A k : StoredWithTtl(k) => StoredWithTtl(k)'
      BY <1>3, <2>1
    <2>5. \A k \in Keys : rows'[k] # NoRow /\ rows'[k].temp => StoredWithTtl(k)'
      <3>1. \/ e.op = "store" /\ rows' = [rows EXCEPT ![e.key] = Upserted(@, e)]
            \/ rows' = rows
            \/ rows' = [rows EXCEPT ![e.key] =
                           IF @ = NoRow THEN NoRow ELSE [@ EXCEPT !.deleted = TRUE]]
        BY <1>11, <2>2 DEF Replay
      <3>2. CASE e.op = "store" /\ rows' = [rows EXCEPT ![e.key] = Upserted(@, e)]
        BY <1>1, <2>3, <2>4, <3>2, UpsertLogged DEF TempLogged
      <3>3. CASE rows' = rows
        BY <2>4, <3>3 DEF TempsLogged
      <3>4. CASE rows' = [rows EXCEPT ![e.key] =
                            IF @ = NoRow THEN NoRow ELSE [@ EXCEPT !.deleted = TRUE]]
        BY <1>1, <2>3, <2>4, <3>4, DeletionLogged
      <3> QED
        BY <3>1, <3>2, <3>3, <3>4
    <2>6. \A q \in Rescanners : loc'[q].todo = IF q = p THEN Tail(loc[p].todo) ELSE loc[q].todo
      BY <1>1, <2>1
    <2>7. ASSUME NEW q \in Rescanners, NEW i \in DOMAIN loc'[q].todo
          PROVE  TempLogged(loc'[q].todo[i])
      <3>1. CASE q # p
        BY <2>6, <2>7, <3>1 DEF TempsLogged
      <3>2. CASE q = p
        <4>1. i + 1 \in DOMAIN loc[p].todo /\ Tail(loc[p].todo)[i] = loc[p].todo[i + 1]
          <5> DEFINE t == loc[p].todo
          <5>1. t \in Seq(Written) /\ t # <<>> /\ i \in DOMAIN Tail(t)
            BY <2>1, <2>6, <2>7, <3>2
          <5> HIDE DEF t
          <5>2. i + 1 \in DOMAIN t /\ Tail(t)[i] = t[i + 1]
            BY <5>1
          <5> QED
            BY <5>2 DEF t
        <4> QED
          BY <2>6, <3>2, <4>1 DEF TempsLogged
      <3> QED
        BY <3>1, <3>2
    <2> QED
      BY <2>1, <2>5, <2>7 DEF TempsLogged, TempLogged, StoredWithTtl
  <1>12. ASSUME NEW p \in Rescanners, RescanReturns(p) PROVE TempsLogged'
    <2>1. rows' = rows /\ log' = log /\ loc' = [loc EXCEPT ![p] = NoLocals]
      BY <1>12 DEF RescanReturns, Return, table
    <2>2. \A q \in Rescanners : loc'[q].todo = IF q = p THEN <<>> ELSE loc[q].todo
      BY <1>1, <2>1 DEF TableOK, NoLocals
    <2> QED
      BY <2>1, <2>2 DEF TempsLogged, TempLogged, StoredWithTtl
  <1>13. CASE Open \/ UNCHANGED vars
    BY <1>4, <1>13 DEF Open, vars, table
  <1>14. CASE Prune
    BY <1>2, <1>3, <1>14 DEF Prune, TempsLogged
  <1> QED
    BY <1>5, <1>6, <1>7, <1>8, <1>9, <1>10, <1>11, <1>12, <1>13, <1>14, HybridProcsAssumption
       DEF Next, Write, Rescan

\* What the others see of a step that moves no process: some rows may be gone, of
\* keys that were once stored with a TTL.
LEMMA TableSearch ==
    ASSUME SearchInv, UNCHANGED <<log, nextId, rescans, pc, loc>>,
           rows' \in [Keys -> Rows \cup {NoRow}],
           \A k \in Keys : rows'[k] = rows[k] \/ (rows'[k] = NoRow /\ StoredWithTtl(k))
    PROVE  SearchInv'
  <1>1. TableOK /\ LiveRows /\ \A q \in Servers : SearchOK(q)
    BY DEF SearchInv
  <1>2. TableOK'
    <2>1. IdsGivenOnce'
      BY <1>1 DEF TableOK, IdsGivenOnce
    <2> QED
      BY <1>1, <2>1 DEF TableOK
  <1>3. Onward
    <2>1. \A n, k : LiveAfter(n, k) => LiveAfter(n, k)'
      BY DEF LiveAfter
    <2>2. Len(log) \in Nat /\ rescans \in Nat
      BY <1>1 DEF TableOK
    <2> QED
      BY <2>1, <2>2 DEF Onward, StoredWithTtl
  <1>4. LiveRows'
    <2>1. \A k \in Keys : Live(rows'[k]) => Live(rows[k])
      BY DEF Live
    <2> QED
      BY <1>1, <2>1 DEF LiveRows, NoRescan, LiveAfter
  <1>5. \A q \in Servers : SearchOK(q)'
    BY <1>1, <1>2, <1>3, OthersKeep
  <1> QED
    BY <1>2, <1>4, <1>5 DEF SearchInv
-----------------------------------------------------------------------------
(* The theorems *)

LEMMA SearchInit == Init => SearchInv
  <1> SUFFICES ASSUME Init PROVE SearchInv
    OBVIOUS
  <1>1. /\ log = <<>> /\ rows = [k \in Keys |-> NoRow] /\ nextId = 1 /\ rescans = 0
        /\ pc = [p \in Procs |-> "idle"] /\ loc = [p \in Procs |-> NoLocals]
    BY DEF Init
  <1>2. log \in Seq(Written)
    BY <1>1
  <1>3. TableOK
    BY <1>1, <1>2, NoLocalsTyped DEF TableOK, Places, IdsGivenOnce
  <1>4. LiveRows
    BY <1>1 DEF LiveRows, NoRescan, Live, Procs
  <1>5. \A p \in Servers : SearchOK(p)
    BY <1>1 DEF SearchOK, Procs
  <1> QED
    BY <1>3, <1>4, <1>5 DEF SearchInv

FoundInv == SearchInv /\ TempsLogged

LEMMA FoundInit == Init => FoundInv
  <1>1. Init => TempsLogged
    BY DEF Init, TempsLogged, NoLocals, Procs
  <1> QED
    BY <1>1, SearchInit DEF FoundInv

LEMMA FoundNext == FoundInv /\ [Next]_vars => FoundInv'
  <1> SUFFICES ASSUME SearchInv, TempsLogged, [Next]_vars PROVE SearchInv'
    BY TempsNext DEF FoundInv
  <1>1. ASSUME NEW p \in Searchers, Search(p) PROVE SearchInv'
    <2>1. p \in Servers /\ p \in Procs
      BY HybridProcsAssumption DEF Procs
    <2>2. ASSUME Answer(p) PROVE SearchInv'
      BY <2>1, <2>2, ReturnSearch DEF Answer, table
    <2> QED
      BY <1>1, <2>1, <2>2, KeywordSearchSearch, Bm25Search, LoadSearch, MergeSearch DEF Search
  <1>2. CASE Open \/ UNCHANGED vars
    BY <1>2, TableSearch DEF Open, vars, table, SearchInv, TableOK
  <1>3. CASE Prune
    <2>1. /\ UNCHANGED <<log, nextId, rescans, pc, loc>>
          /\ rows' = [k \in Keys |-> IF rows[k] # NoRow /\ rows[k].temp THEN NoRow ELSE rows[k]]
      BY <1>3 DEF Prune
    <2>2. rows' \in [Keys -> Rows \cup {NoRow}]
      BY <2>1 DEF SearchInv, TableOK
    <2>3. \A k \in Keys : rows'[k] = rows[k] \/ (rows'[k] = NoRow /\ StoredWithTtl(k))
      BY <2>1 DEF TempsLogged
    <2> QED
      BY <2>1, <2>2, <2>3, TableSearch
  <1> QED
    BY <1>1, <1>2, <1>3, WriteSearch, RescanSearch DEF Next

\* HYB1 for every limit and every state of the cache: ids that are no live fact take
\* half of an answer at most, with rescans of other processes at any point.
THEOREM HalfIsKept == Spec => []HalfTheAnswerIsSafe
  <1>1. FoundInv => HalfTheAnswerIsSafe
    BY DEF FoundInv, SearchInv, SearchOK, AnswerOK, Half, HalfTheAnswerIsSafe, Answering
  <1> QED
    BY <1>1, FoundInit, FoundNext, PTL DEF Spec

\* HYB2 for any two rankings of any length: by the scores of mergeRRF, what both
\* rankings put above another stands above it.
THEOREM MergeRespectsAgreement == Spec => []AgreementKept
  <1>1. FoundInv => AgreementKept
    BY DEF FoundInv, SearchInv, SearchOK, AnswerOK, Agree, AgreementKept, Answering, KeywordIds, HitIds, IdsOf
  <1> QED
    BY <1>1, FoundInit, FoundNext, PTL DEF Spec

\* HYB3: the rankings are of two states of the table, but the id of a key that never
\* had a TTL does not change between them unless a rescan begins, whatever others
\* store, forget, prune and replay.
THEOREM FactsAreFoundOnce == Spec => []OneHitPerFact
  <1>1. FoundInv => OneHitPerFact
    BY DEF FoundInv, SearchInv, SearchOK, AnswerOK, Distinct, OneHitPerFact, Answering
  <1> QED
    BY <1>1, FoundInit, FoundNext, PTL DEF Spec

\* HYB4: until a rescan begins, every hit was live at some point of the search,
\* whatever vectors the cache holds.
THEOREM ForgottenStaysForgotten == Spec => []ForgottenNotFound
  <1>1. FoundInv => ForgottenNotFound
    BY DEF FoundInv, SearchInv, SearchOK, AnswerOK, LiveSince, ForgottenNotFound, Answering
  <1> QED
    BY <1>1, FoundInit, FoundNext, PTL DEF Spec
=============================================================================
