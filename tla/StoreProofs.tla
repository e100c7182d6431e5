---------------------------- MODULE StoreProofs ----------------------------
(***************************************************************************)
(* Theorems about Store for every number of processes, keys, tags and      *)
(* values, every length of the log and every number of faults: types, then *)
(* the safety that holds with any number of processes and crashes, all but *)
(* CeilingIsSoft and TagsAreOwn with rescans too; then, where one process  *)
(* has the directory to itself: the index is the state that the log        *)
(* describes, a rescan restores it after any failures, deletions by tags   *)
(* hit facts with those tags, and, where no statement fails, Store         *)
(* implements module KeyValue, step by step.                               *)
(***************************************************************************)
EXTENDS StoreProperties, FiniteSetTheorems, TLAPS

\* The strengthening that makes TypeOK inductive: a process that is about to
\* look up or upsert holds a store entry, and it replays entries of the log.
PlacesOK ==
    \A p \in Procs :
        /\ pc[p] \in {"lookup", "upsert"} => loc[p].ent.op = "store"
        /\ loc[p].todo \subseteq 1 .. Len(log)

TypeInv == TypeOK /\ PlacesOK

-----------------------------------------------------------------------------
(* The functions of Facts return what their names say *)

LEMMA BlankEntryType == BlankEntry \in Entries
  BY NoAgentAssumption DEF BlankEntry, Entries, EntryRecords

LEMMA NoLocalsType == NoLocals \in Locals
  BY BlankEntryType DEF NoLocals, Locals

LEMMA ReadBackType ==
  ASSUME NEW e \in Entries
  PROVE  /\ ReadBack(e) \in Entries
         /\ ReadBack(e).op = e.op
<1>1. e \in EntryRecords
  BY DEF Entries
<1>2. CASE e.op = "store"
  <2>1. /\ e.key \in Keys /\ e.val \in Values
        /\ ParsedBody[e.val] \in Values
        /\ WrittenTtl(e.ttl) \in Int
    BY <1>1, <1>2, ParsedBodyAssumption DEF Entries, EntryRecords, WrittenTtl
  <2>2. ReadBack(e) = [e EXCEPT !.val = ParsedBody[e.val], !.ttl = WrittenTtl(e.ttl)]
    BY <1>2 DEF ReadBack
  <2> QED
    BY <1>1, <1>2, <2>1, <2>2 DEF Entries, EntryRecords
<1>3. CASE e.op # "store"
  BY <1>3 DEF ReadBack
<1> QED
  BY <1>2, <1>3

LEMMA UpsertedType ==
  ASSUME NEW old \in Rows \cup {NoRow}, NEW id \in Nat,
         NEW e \in Entries, e.op = "store"
  PROVE  Upserted(old, id, e) \in Rows
  BY NoRowAssumption DEF Upserted, Rows, Entries, EntryRecords

LEMMA SoftDeletedType ==
  ASSUME NEW row \in Rows
  PROVE  SoftDeleted(row) \in Rows
  BY DEF SoftDeleted, Rows

LEMMA TombstoneType ==
  ASSUME NEW t \in Nat
  PROVE  /\ \A k \in Keys \cup {NoKey} : KeyTombstone(k, t) \in Entries
         /\ \A T \in SUBSET Tags : TagsTombstone(T, t) \in Entries
<1>1. BlankEntry \in EntryRecords
  BY BlankEntryType DEF Entries
<1>2. ASSUME NEW k \in Keys \cup {NoKey}
      PROVE  KeyTombstone(k, t) \in Entries
  BY <1>1, <1>2 DEF KeyTombstone, Entries, EntryRecords
<1>3. ASSUME NEW T \in SUBSET Tags
      PROVE  TagsTombstone(T, t) \in Entries
  BY <1>1, <1>3 DEF TagsTombstone, Entries, EntryRecords
<1> QED
  BY <1>2, <1>3

LEMMA StampedType ==
  ASSUME NEW e \in Entries, e.op = "store", NEW old \in Rows \cup {NoRow},
         now \in Nat
  PROVE  Stamped(e, old) \in Entries /\ Stamped(e, old).op = "store"
<1>1. CASE Live(old, now)
  <2>1. old \in Rows
    BY <1>1 DEF Live
  <2>2. old.created \in Nat /\ old.agent \in Agents
    BY <2>1 DEF Rows
  <2> QED
    BY <1>1, <2>2 DEF Stamped, Entries, EntryRecords
<1>2. CASE ~Live(old, now)
  BY <1>2 DEF Stamped, Entries, EntryRecords
<1> QED
  BY <1>1, <1>2

-----------------------------------------------------------------------------
(* Type correctness *)

LEMMA ReturnType ==
  ASSUME TypeInv, NEW p \in Procs, Return(p)
  PROVE  /\ pc' \in [Procs -> Places]
         /\ loc' \in [Procs -> Locals]
         /\ \A q \in Procs : q # p => pc'[q] = pc[q] /\ loc'[q] = loc[q]
         /\ pc'[p] = "idle" /\ loc'[p] = NoLocals
  BY NoLocalsType DEF Return, Goto, TypeInv, TypeOK, Places

LEMMA InitType == Init => TypeInv
<1>1. SUFFICES ASSUME Init PROVE TypeInv
  OBVIOUS
<1>2. TypeOK
  BY <1>1, NoLocalsType, NoRowAssumption DEF Init, TypeOK, Places
<1>3. PlacesOK
  BY <1>1 DEF Init, PlacesOK, NoLocals
<1> QED
  BY <1>2, <1>3 DEF TypeInv

LEMMA StoreType ==
  ASSUME TypeInv, NEW p \in Procs,
         \/ \E call \in StoreCalls : BeginStore(p, call)
         \/ LookUp(p) \/ AppendEntry(p) \/ AppendFails(p)
  PROVE  TypeInv'
<1> USE DEF TypeInv
<1>1. ASSUME NEW call \in StoreCalls, BeginStore(p, call)
      PROVE  TypeInv'
  <2> DEFINE e == [BlankEntry EXCEPT !.op = "store", !.key = call.key,
                      !.val = call.val, !.tags = call.tags,
                      !.agent = call.agent, !.ttl = call.ttl]
  <2>1. e \in Entries /\ e.op = "store"
    BY StoreCallsAssumption DEF BlankEntry, Entries, EntryRecords
  <2>2. loc' = [loc EXCEPT ![p].ent = e, ![p].full = LiveCount >= MaxEntries]
    BY <1>1 DEF BeginStore
  <2> HIDE DEF e
  <2>3. (LiveCount >= MaxEntries) \in BOOLEAN
    OBVIOUS
  <2>4. /\ loc' \in [Procs -> Locals]
        /\ loc'[p].ent = e /\ loc'[p].todo = loc[p].todo
    BY <2>1, <2>2, <2>3 DEF TypeOK, Locals
  <2>5. pc' = [pc EXCEPT ![p] = "lookup"] /\ UNCHANGED <<now, disk, faults>>
    BY <1>1 DEF BeginStore, Goto
  <2>6. TypeOK'
    BY <2>4, <2>5 DEF TypeOK, Places, disk
  <2>7. PlacesOK'
    BY <2>1, <2>2, <2>4, <2>5 DEF TypeOK, PlacesOK, disk
  <2> QED
    BY <2>6, <2>7
<1>2. ASSUME LookUp(p)
      PROVE  TypeInv'
  <2> DEFINE e == loc[p].ent
             old == facts[e.key]
  <2>1. e \in Entries /\ e.op = "store" /\ e.key \in Keys
    BY <1>2 DEF LookUp, TypeOK, PlacesOK, Locals, Entries
  <2>2. old \in Rows \cup {NoRow} /\ now \in Nat
    BY <2>1 DEF TypeOK
  <2>3. Stamped(e, old) \in Entries /\ Stamped(e, old).op = "store"
    BY <2>1, <2>2, StampedType
  <2>4. UNCHANGED <<now, disk, faults>>
    BY <1>2 DEF LookUp
  <2>5. CASE Return(p)
    BY <2>4, <2>5, ReturnType DEF TypeOK, PlacesOK, NoLocals, disk
  <2>6. CASE /\ loc' = [loc EXCEPT ![p].ent = Stamped(e, old)]
             /\ Goto(p, "append")
    <3> HIDE DEF e, old
    <3>1. /\ loc' \in [Procs -> Locals]
          /\ loc'[p].todo = loc[p].todo
          /\ pc' \in [Procs -> Places] /\ pc'[p] = "append"
          /\ \A q \in Procs : q # p => pc'[q] = pc[q] /\ loc'[q] = loc[q]
      BY <2>3, <2>6 DEF TypeOK, Locals, Goto, Places
    <3> QED
      BY <2>4, <3>1 DEF TypeOK, PlacesOK, disk
  <2> QED
    BY <1>2, <2>5, <2>6 DEF LookUp
<1>3. ASSUME AppendEntry(p)
      PROVE  TypeInv'
  <2>1. loc[p].ent \in Entries
    BY DEF TypeOK, Locals
  <2>2. log' \in Seq(Entries) /\ Len(log') = Len(log) + 1
    BY <1>3, <2>1 DEF AppendEntry, TypeOK
  <2>3. TypeOK'
    BY <1>3, <2>2 DEF AppendEntry, TypeOK, Goto, Places
  <2>4. PlacesOK'
    BY <1>3, <2>2 DEF AppendEntry, TypeOK, PlacesOK, Goto
  <2> QED
    BY <2>3, <2>4
<1>4. ASSUME AppendFails(p)
      PROVE  TypeInv'
  BY <1>4, ReturnType DEF AppendFails, TypeOK, PlacesOK, NoLocals, disk
<1> QED
  BY <1>1, <1>2, <1>3, <1>4

LEMMA PutReturnsType ==
  ASSUME TypeInv, NEW p \in Procs, PutReturns(p)
  PROVE  /\ pc' \in [Procs -> Places]
         /\ loc' \in [Procs -> Locals]
         /\ pc'[p] \in {"idle", "next"}
         /\ loc'[p].todo \subseteq loc[p].todo
         /\ \A q \in Procs : q # p => pc'[q] = pc[q] /\ loc'[q] = loc[q]
<1>1. CASE loc[p].replay
  <2>1. /\ pc' = [pc EXCEPT ![p] = "next"]
        /\ loc' = [loc EXCEPT ![p].ent = BlankEntry, ![p].rowid = 0, ![p].pend = {}]
    BY <1>1 DEF PutReturns, Goto
  <2>2. /\ loc' \in [Procs -> Locals]
        /\ loc'[p].todo = loc[p].todo
        /\ \A q \in Procs : q # p => loc'[q] = loc[q]
    BY <2>1, BlankEntryType DEF TypeInv, TypeOK, Locals
  <2> QED
    BY <2>1, <2>2 DEF TypeInv, TypeOK, Places
<1>2. CASE ~loc[p].replay
  BY <1>2, ReturnType DEF PutReturns, NoLocals
<1> QED
  BY <1>1, <1>2

LEMMA PutType ==
  ASSUME TypeInv, NEW p \in Procs, Upsert(p) \/ ClearTags(p) \/ InsertTag(p)
  PROVE  TypeInv'
<1> USE DEF TypeInv
<1>1. ASSUME Upsert(p)
      PROVE  TypeInv'
  <2> DEFINE e == loc[p].ent
             row == Upserted(facts[e.key], nextId, e)
  <2>1. e \in Entries /\ e.op = "store" /\ e.key \in Keys /\ e.tags \subseteq Tags
    BY <1>1 DEF Upsert, TypeOK, PlacesOK, Locals, Entries, EntryRecords
  <2>2. row \in Rows /\ row.id \in Nat
    BY <2>1, UpsertedType DEF TypeOK, Rows
  <2>3. /\ facts' = [facts EXCEPT ![e.key] = row]
        /\ nextId' = nextId + 1
        /\ loc' = [loc EXCEPT ![p].rowid = row.id, ![p].pend = e.tags]
        /\ pc' = [pc EXCEPT ![p] = "clear_tags"]
        /\ UNCHANGED <<now, log, tables, factTags, faults>>
    BY <1>1 DEF Upsert, Goto
  <2> HIDE DEF e, row
  <2>4. loc' \in [Procs -> Locals] /\ loc'[p].todo = loc[p].todo
    BY <2>1, <2>2, <2>3 DEF TypeOK, Locals
  <2>5. facts' \in [Keys -> Rows \cup {NoRow}]
    BY <2>1, <2>2, <2>3 DEF TypeOK
  <2>6. TypeOK'
    BY <2>3, <2>4, <2>5 DEF TypeOK, Places
  <2>7. PlacesOK'
    BY <2>3, <2>4 DEF TypeOK, PlacesOK
  <2> QED
    BY <2>6, <2>7
<1>2. ASSUME ClearTags(p)
      PROVE  TypeInv'
  <2>1. CASE PutReturns(p)
    BY <1>2, <2>1, PutReturnsType DEF ClearTags, TypeOK, PlacesOK
  <2>2. CASE Goto(p, "insert_tag") /\ UNCHANGED loc
    BY <1>2, <2>2 DEF ClearTags, TypeOK, PlacesOK, Goto, Places
  <2> QED
    BY <1>2, <2>1, <2>2 DEF ClearTags
<1>3. ASSUME InsertTag(p)
      PROVE  TypeInv'
  <2>1. PICK tag \in loc[p].pend :
            /\ factTags' = factTags \cup {<<loc[p].rowid, tag>>}
            /\ IF loc[p].pend = {tag}
               THEN PutReturns(p)
               ELSE /\ loc' = [loc EXCEPT ![p].pend = @ \ {tag}]
                    /\ UNCHANGED pc
    BY <1>3 DEF InsertTag
  <2>2. factTags' \subseteq Nat \X Tags
    BY <2>1 DEF TypeOK, Locals
  <2>3. UNCHANGED <<now, log, tables, facts, nextId, faults>>
    BY <1>3 DEF InsertTag
  <2>4. CASE PutReturns(p)
    BY <2>2, <2>3, <2>4, PutReturnsType DEF TypeOK, PlacesOK
  <2>5. CASE /\ loc' = [loc EXCEPT ![p].pend = @ \ {tag}]
             /\ UNCHANGED pc
    BY <2>2, <2>3, <2>5 DEF TypeOK, PlacesOK, Locals
  <2> QED
    BY <2>1, <2>4, <2>5
<1> QED
  BY <1>1, <1>2, <1>3

LEMMA DeleteReturnsType ==
  ASSUME TypeInv, NEW p \in Procs, DeleteReturns(p)
  PROVE  /\ pc' \in [Procs -> Places]
         /\ loc' \in [Procs -> Locals]
         /\ pc'[p] \in {"idle", "next", "append"}
         /\ loc'[p].todo \subseteq loc[p].todo
         /\ \A q \in Procs : q # p => pc'[q] = pc[q] /\ loc'[q] = loc[q]
<1>1. CASE loc[p].replay
  <2>1. /\ pc' = [pc EXCEPT ![p] = "next"]
        /\ loc' = [loc EXCEPT ![p].ent = BlankEntry]
    BY <1>1 DEF DeleteReturns, Goto
  <2>2. /\ loc' \in [Procs -> Locals]
        /\ loc'[p].todo = loc[p].todo
        /\ \A q \in Procs : q # p => loc'[q] = loc[q]
    BY <2>1, BlankEntryType DEF TypeInv, TypeOK, Locals
  <2> QED
    BY <2>1, <2>2 DEF TypeInv, TypeOK, Places
<1>2. CASE ~loc[p].replay /\ loc[p].pend # {}
  <2> DEFINE e == TagsTombstone(loc[p].pend, loc[p].ent.time)
  <2>1. e \in Entries
    BY TombstoneType DEF TypeInv, TypeOK, Locals, Entries, EntryRecords
  <2>2. /\ pc' = [pc EXCEPT ![p] = "append"]
        /\ loc' = [loc EXCEPT ![p].pend = {}, ![p].ent = e]
    BY <1>2 DEF DeleteReturns, Goto
  <2> HIDE DEF e
  <2>3. /\ loc' \in [Procs -> Locals]
        /\ loc'[p].todo = loc[p].todo
        /\ \A q \in Procs : q # p => loc'[q] = loc[q]
    BY <2>1, <2>2 DEF TypeInv, TypeOK, Locals
  <2> QED
    BY <2>2, <2>3 DEF TypeInv, TypeOK, Places
<1>3. CASE ~loc[p].replay /\ loc[p].pend = {}
  <2>1. Return(p)
    BY <1>3 DEF DeleteReturns
  <2> QED
    BY <2>1, ReturnType DEF NoLocals
<1> QED
  BY <1>1, <1>2, <1>3

LEMMA ForgetType ==
  ASSUME TypeInv, NEW p \in Procs,
         \/ \E call \in ForgetCalls : BeginForget(p, call)
         \/ DeleteByEntity(p) \/ DeleteByTags(p)
  PROVE  TypeInv'
<1> USE DEF TypeInv
<1>1. ASSUME NEW call \in ForgetCalls, BeginForget(p, call)
      PROVE  TypeInv'
  <2> DEFINE e == IF call.key # NoKey THEN KeyTombstone(call.key, now)
                                      ELSE TagsTombstone(call.tags, now)
             T == IF call.key # NoKey THEN call.tags ELSE {}
  <2>1. call.key \in Keys \cup {NoKey} /\ call.tags \subseteq Tags
    BY ForgetCallsAssumption
  <2>2. e \in Entries
    BY <2>1, TombstoneType DEF TypeOK
  <2>3. T \subseteq Tags
    BY <2>1
  <2>4. /\ loc' = [loc EXCEPT ![p].ent = e, ![p].pend = T]
        /\ pc' = [pc EXCEPT ![p] = "append"]
        /\ UNCHANGED <<now, disk, faults>>
    BY <1>1 DEF BeginForget, Goto
  <2> HIDE DEF e, T
  <2>5. loc' \in [Procs -> Locals] /\ loc'[p].todo = loc[p].todo
    BY <2>2, <2>3, <2>4 DEF TypeOK, Locals
  <2>6. TypeOK'
    BY <2>4, <2>5 DEF TypeOK, Places, disk
  <2>7. PlacesOK'
    BY <2>4, <2>5 DEF TypeOK, PlacesOK, disk
  <2> QED
    BY <2>6, <2>7
<1>2. ASSUME DeleteByEntity(p)
      PROVE  TypeInv'
  <2>1. facts' \in [Keys -> Rows \cup {NoRow}]
    BY <1>2, SoftDeletedType DEF DeleteByEntity, TypeOK
  <2>2. DeleteReturns(p) /\ UNCHANGED <<now, log, tables, factTags, nextId, faults>>
    BY <1>2 DEF DeleteByEntity
  <2> QED
    BY <2>1, <2>2, DeleteReturnsType DEF TypeOK, PlacesOK
<1>3. ASSUME DeleteByTags(p)
      PROVE  TypeInv'
  <2>1. facts' \in [Keys -> Rows \cup {NoRow}]
    BY <1>3, SoftDeletedType DEF DeleteByTags, TypeOK
  <2>2. DeleteReturns(p) /\ UNCHANGED <<now, log, tables, factTags, nextId, faults>>
    BY <1>3 DEF DeleteByTags
  <2> QED
    BY <2>1, <2>2, DeleteReturnsType DEF TypeOK, PlacesOK
<1> QED
  BY <1>1, <1>2, <1>3

LEMMA ResetType ==
  ASSUME TypeInv, NEW p \in Procs,
         \/ BeginRescan(p) \/ DropFacts(p) \/ CreateFacts(p) \/ CreateFactTags(p)
         \/ Prune(p)
  PROVE  TypeInv'
<1> USE DEF TypeInv
<1>1. ASSUME BeginRescan(p)
      PROVE  TypeInv'
  <2>1. loc' = [loc EXCEPT ![p].replay = TRUE]
    BY <1>1 DEF BeginRescan
  <2>2. /\ loc' \in [Procs -> Locals]
        /\ \A q \in Procs : loc'[q].todo = loc[q].todo /\ loc'[q].ent = loc[q].ent
    BY <2>1 DEF TypeOK, Locals
  <2>3. TypeOK'
    BY <1>1, <2>2 DEF BeginRescan, Goto, TypeOK, Places
  <2>4. PlacesOK'
    BY <1>1, <2>2 DEF BeginRescan, Goto, TypeOK, PlacesOK
  <2> QED
    BY <2>3, <2>4
<1>2. ASSUME DropFacts(p)
      PROVE  TypeInv'
  BY <1>2 DEF DropFacts, Goto, TypeOK, PlacesOK, Places
<1>3. ASSUME CreateFacts(p)
      PROVE  TypeInv'
  BY <1>3 DEF CreateFacts, Goto, TypeOK, PlacesOK, Places
<1>4. ASSUME CreateFactTags(p)
      PROVE  TypeInv'
  BY <1>4 DEF CreateFactTags, Goto, TypeOK, PlacesOK, Places
<1>5. ASSUME Prune(p)
      PROVE  TypeInv'
  BY <1>5 DEF Prune, TypeOK, PlacesOK
<1> QED
  BY <1>1, <1>2, <1>3, <1>4, <1>5

LEMMA ReplayType ==
  ASSUME TypeInv, NEW p \in Procs,
         \/ Parse(p) \/ SkipExpired(p) \/ Replay(p)
         \/ EndOfReplay(p) \/ RescanReturns(p)
  PROVE  TypeInv'
<1> USE DEF TypeInv
<1>1. ASSUME Parse(p)
      PROVE  TypeInv'
  <2>1. /\ loc' = [loc EXCEPT ![p].todo = 1 .. Len(log), ![p].asof = now]
        /\ pc' = [pc EXCEPT ![p] = "next"]
        /\ UNCHANGED <<now, disk, faults>>
    BY <1>1 DEF Parse, Goto
  <2>2. 1 .. Len(log) \in SUBSET Nat
    BY DEF TypeOK
  <2>3. /\ loc' \in [Procs -> Locals]
        /\ loc'[p].todo = 1 .. Len(log)
    BY <2>1, <2>2 DEF TypeOK, Locals
  <2>4. TypeOK'
    BY <2>1, <2>3 DEF TypeOK, Places, disk
  <2>5. PlacesOK'
    BY <2>1, <2>3 DEF TypeOK, PlacesOK, disk
  <2> QED
    BY <2>4, <2>5
<1>2. ASSUME SkipExpired(p)
      PROVE  TypeInv'
  <2>1. PICK i \in loc[p].todo : loc' = [loc EXCEPT ![p].todo = @ \ {i}]
    BY <1>2 DEF SkipExpired
  <2>2. loc' \in [Procs -> Locals]
    BY <2>1 DEF TypeOK, Locals
  <2>3. \A q \in Procs : loc'[q].todo \subseteq loc[q].todo /\ loc'[q].ent = loc[q].ent
    BY <2>1 DEF TypeOK, Locals
  <2> QED
    BY <1>2, <2>2, <2>3 DEF SkipExpired, TypeOK, PlacesOK, disk
<1>3. ASSUME Replay(p)
      PROVE  TypeInv'
  <2>1. PICK i \in loc[p].todo :
            /\ loc' = [loc EXCEPT ![p].todo = @ \ {i}, ![p].ent = ReadBack(log[i])]
            /\ pc' = [pc EXCEPT ![p] = IF log[i].op = "store" THEN "upsert" ELSE "delete"]
    BY <1>3 DEF Replay, Goto
  <2>2. log[i] \in Entries
    BY <2>1 DEF TypeOK, PlacesOK
  <2> DEFINE e == ReadBack(log[i])
  <2>3. e \in Entries /\ e.op = log[i].op
    BY <2>2, ReadBackType
  <2>4. UNCHANGED <<now, disk, faults>>
    BY <1>3 DEF Replay
  <2> HIDE DEF e
  <2>5. /\ loc' \in [Procs -> Locals]
        /\ loc'[p].ent = e /\ loc'[p].todo \subseteq loc[p].todo
    BY <2>1, <2>3 DEF e, TypeOK, Locals
  <2>6. TypeOK'
    BY <2>1, <2>4, <2>5 DEF TypeOK, Places, disk
  <2>7. PlacesOK'
    BY <2>1, <2>3, <2>4, <2>5 DEF TypeOK, PlacesOK, disk
  <2> QED
    BY <2>6, <2>7
<1>4. ASSUME EndOfReplay(p)
      PROVE  TypeInv'
  BY <1>4 DEF EndOfReplay, Goto, TypeOK, PlacesOK, Places, disk
<1>5. ASSUME RescanReturns(p)
      PROVE  TypeInv'
  BY <1>5, ReturnType DEF RescanReturns, TypeOK, PlacesOK, NoLocals, disk
<1> QED
  BY <1>1, <1>2, <1>3, <1>4, <1>5

LEMMA FailureType ==
  ASSUME TypeInv, NEW p \in Procs,
         NoSuchTable(p) \/ StepFails(p) \/ Crash(p) \/ Restart(p)
  PROVE  TypeInv'
<1> USE DEF TypeInv
<1>1. ASSUME NoSuchTable(p)
      PROVE  TypeInv'
  BY <1>1, ReturnType DEF NoSuchTable, TypeOK, PlacesOK, NoLocals, disk
<1>2. ASSUME StepFails(p)
      PROVE  TypeInv'
  BY <1>2, ReturnType DEF StepFails, TypeOK, PlacesOK, NoLocals, disk
<1>3. ASSUME Crash(p)
      PROVE  TypeInv'
  BY <1>3, NoLocalsType DEF Crash, Goto, Places, TypeOK, PlacesOK, NoLocals, disk
<1>4. ASSUME Restart(p)
      PROVE  TypeInv'
  BY <1>4 DEF Restart, Goto, Places, TypeOK, PlacesOK
<1> QED
  BY <1>1, <1>2, <1>3, <1>4

LEMMA NextType == TypeInv /\ [Next]_vars => TypeInv'
<1>1. SUFFICES ASSUME TypeInv, [Next]_vars PROVE TypeInv'
  OBVIOUS
<1>2. ASSUME NEW p \in Procs, Step(p)
      PROVE  TypeInv'
  BY <1>1, <1>2, StoreType, PutType, ForgetType, ResetType, ReplayType, FailureType
     DEF Step
<1>3. ASSUME NEW p \in Procs, Begin(p)
      PROVE  TypeInv'
  BY <1>1, <1>3, StoreType, ForgetType, ResetType DEF Begin
<1>4. ASSUME NEW p \in Procs, Fault(p) \/ Restart(p)
      PROVE  TypeInv'
  BY <1>1, <1>4, StoreType, FailureType DEF Fault
<1>5. CASE Tick \/ ClockStepsBack
  <2>1. UNCHANGED <<log, tables, facts, factTags, nextId, pc, loc>>
    BY <1>5 DEF Tick, ClockStepsBack, disk
  <2>2. now' \in Nat /\ faults' \in Nat
    BY <1>1, <1>5 DEF Tick, ClockStepsBack, TypeInv, TypeOK
  <2> QED
    BY <1>1, <2>1, <2>2 DEF TypeInv, TypeOK, PlacesOK
<1>6. CASE UNCHANGED vars
  BY <1>1, <1>6 DEF vars, TypeInv, TypeOK, PlacesOK, disk
<1> QED
  BY <1>1, <1>2, <1>3, <1>4, <1>5, <1>6 DEF Next

\* Every variable keeps its type in every behaviour: the rows of the index are
\* well-formed facts, and so are the entries that a rescan replays into it.
THEOREM TypeCorrect == Spec => []TypeOK
<1>1. TypeInv => TypeOK
  BY DEF TypeInv
<1> QED
  BY <1>1, InitType, NextType, PTL DEF Spec
-----------------------------------------------------------------------------
\* The steps that write the table facts; every other step leaves it alone.
WritesFacts(p) ==
    \/ Upsert(p) \/ DeleteByEntity(p) \/ DeleteByTags(p)
    \/ Prune(p) \/ DropFacts(p)

LEMMA FactsFrame ==
  ASSUME [Next]_vars
  PROVE  \/ \E p \in Procs : WritesFacts(p)
         \/ UNCHANGED <<facts, nextId>>
<1>1. ASSUME NEW p \in Procs, Step(p), ~WritesFacts(p)
      PROVE  UNCHANGED <<facts, nextId>>
  BY <1>1 DEF Step, WritesFacts, disk, LookUp, AppendEntry, ClearTags, InsertTag,
              CreateFacts, CreateFactTags, Parse, SkipExpired, Replay,
              EndOfReplay, RescanReturns, NoSuchTable
<1>2. ASSUME NEW p \in Procs, Begin(p), ~WritesFacts(p)
      PROVE  UNCHANGED <<facts, nextId>>
  BY <1>2 DEF Begin, WritesFacts, disk, BeginStore, BeginForget, BeginRescan
<1>3. ASSUME NEW p \in Procs, Fault(p) \/ Restart(p)
      PROVE  UNCHANGED <<facts, nextId>>
  BY <1>3 DEF Fault, disk, AppendFails, StepFails, Crash, Restart
<1>4. ASSUME Tick \/ ClockStepsBack \/ UNCHANGED vars
      PROVE  UNCHANGED <<facts, nextId>>
  BY <1>4 DEF Tick, ClockStepsBack, vars, disk
<1> QED
  BY <1>1, <1>2, <1>3, <1>4 DEF Next

-----------------------------------------------------------------------------
(* Identifiers *)

\* Ids are the primary key of facts, and the sequence gives them out upwards.
IdsUnique ==
    \A k, l \in Keys :
        facts[k] # NoRow =>
            /\ facts[k].id < nextId
            /\ k # l /\ facts[l] # NoRow => facts[k].id # facts[l].id

LEMMA IdsInit == Init => IdsUnique
  BY DEF Init, IdsUnique

\* A statement that only removes rows, or keeps their ids, keeps ids distinct.
LEMMA IdsKept ==
  ASSUME IdsUnique, nextId' = nextId,
         \A k \in Keys : \/ facts'[k] = NoRow
                         \/ facts[k] # NoRow /\ facts'[k].id = facts[k].id
  PROVE  IdsUnique'
  BY DEF IdsUnique

LEMMA IdsNext == TypeInv /\ IdsUnique /\ [Next]_vars => IdsUnique'
<1>1. SUFFICES ASSUME TypeInv, IdsUnique, [Next]_vars PROVE IdsUnique'
  OBVIOUS
<1>2. ASSUME NEW p \in Procs, Upsert(p)
      PROVE  IdsUnique'
  <2> DEFINE e == loc[p].ent
             row == Upserted(facts[e.key], nextId, e)
  <2>1. e \in Entries /\ e.op = "store" /\ e.key \in Keys
    BY <1>1, <1>2 DEF Upsert, TypeInv, TypeOK, PlacesOK, Locals, Entries
  <2>2. row.id = IF facts[e.key] = NoRow THEN nextId ELSE facts[e.key].id
    BY DEF Upserted
  <2>3. /\ facts' = [facts EXCEPT ![e.key] = row]
        /\ nextId' = nextId + 1
    BY <1>2 DEF Upsert
  <2>4. /\ nextId \in Nat /\ facts \in [Keys -> Rows \cup {NoRow}]
        /\ \A k \in Keys : facts[k] # NoRow => facts[k].id \in Nat
    BY <1>1 DEF TypeInv, TypeOK, Rows
  <2> HIDE DEF e, row
  <2> QED
    BY <1>1, <2>1, <2>2, <2>3, <2>4 DEF IdsUnique
<1>3. ASSUME NEW p \in Procs, DeleteByEntity(p) \/ DeleteByTags(p)
      PROVE  IdsUnique'
  <2>1. \A row \in Rows : SoftDeleted(row).id = row.id
    BY DEF SoftDeleted, Rows
  <2>2. \A k \in Keys : facts[k] \in Rows \cup {NoRow}
    BY <1>1 DEF TypeInv, TypeOK
  <2>3. nextId' = nextId
    BY <1>3 DEF DeleteByEntity, DeleteByTags
  <2>4. PICK S \in SUBSET Keys :
            facts' = [k \in Keys |-> IF facts[k] # NoRow /\ k \in S
                                     THEN SoftDeleted(facts[k]) ELSE facts[k]]
    <3>1. CASE DeleteByEntity(p)
      <4> DEFINE S == {k \in Keys : k = loc[p].ent.key}
      <4>1. facts' = [k \in Keys |-> IF facts[k] # NoRow /\ k \in S
                                     THEN SoftDeleted(facts[k]) ELSE facts[k]]
        BY <3>1 DEF DeleteByEntity
      <4>2. S \in SUBSET Keys
        OBVIOUS
      <4> HIDE DEF S
      <4> QED
        BY <4>1, <4>2
    <3>2. CASE DeleteByTags(p)
      <4> DEFINE S == {k \in Keys : TaggedWithAll(facts[k], loc[p].ent.tags, factTags)}
      <4>1. facts' = [k \in Keys |-> IF facts[k] # NoRow /\ k \in S
                                     THEN SoftDeleted(facts[k]) ELSE facts[k]]
        BY <3>2 DEF DeleteByTags
      <4>2. S \in SUBSET Keys
        OBVIOUS
      <4> HIDE DEF S
      <4> QED
        BY <4>1, <4>2
    <3> QED
      BY <1>3, <3>1, <3>2
  <2>5. \A k \in Keys : \/ facts'[k] = NoRow
                        \/ facts[k] # NoRow /\ facts'[k].id = facts[k].id
    BY <2>1, <2>2, <2>4
  <2> QED
    BY <1>1, <2>3, <2>5, IdsKept
<1>4. ASSUME NEW p \in Procs, Prune(p)
      PROVE  IdsUnique'
  BY <1>1, <1>4, IdsKept DEF Prune
<1>5. ASSUME NEW p \in Procs, DropFacts(p)
      PROVE  IdsUnique'
  BY <1>5 DEF DropFacts, IdsUnique
<1>6. CASE UNCHANGED <<facts, nextId>>
  BY <1>1, <1>6 DEF IdsUnique
<1> QED
  BY <1>1, <1>2, <1>3, <1>4, <1>5, <1>6, FactsFrame DEF WritesFacts

-----------------------------------------------------------------------------
(* Write-ahead *)

\* Log entry i is the one that stored the fact e.
LoggedAs(e, i) ==
    /\ log[i].op = "store"
    /\ log[i].key = e.key
    /\ e.val \in {log[i].val, ParsedBody[log[i].val]}
    /\ log[i].tags = e.tags
    /\ e.ttl \in {log[i].ttl, WrittenTtl(log[i].ttl)}
    /\ log[i].time = e.time

\* What a process is about to write to the index is in the log.
InFlightLogged ==
    \A p \in Procs :
        /\ pc[p] = "upsert" => \E i \in 1 .. Len(log) : LoggedAs(loc[p].ent, i)
        /\ pc[p] = "delete" => \E i \in 1 .. Len(log) : log[i] = loc[p].ent

NeverAheadInv == TypeInv /\ InFlightLogged /\ IndexNeverAhead

\* The two facts that IndexNeverAhead states of a row.
RowLogged(k, row) == \E i \in StoresOf(k) : HoldsEntry(row, i)

TombstoneLogged(k) ==
    \E j \in 1 .. Len(log) :
        \/ log[j].op = "delete" /\ log[j].key = k
        \/ log[j].op = "delete_tags"

LEMMA NeverAheadByRow ==
  IndexNeverAhead <=>
    \A k \in Keys : facts[k] # NoRow =>
        RowLogged(k, facts[k]) /\ (facts[k].deleted => TombstoneLogged(k))
  BY DEF IndexNeverAhead, RowLogged, TombstoneLogged

\* Only AppendEntry writes the log.
LEMMA LogFrame ==
  ASSUME [Next]_vars
  PROVE  log' = log \/ \E p \in Procs : AppendEntry(p)
<1>1. ASSUME NEW p \in Procs, Step(p), ~AppendEntry(p)
      PROVE  log' = log
  BY <1>1 DEF Step, disk, LookUp, Upsert, ClearTags, InsertTag, DeleteByEntity,
              DeleteByTags, DropFacts, CreateFacts, CreateFactTags, Parse,
              SkipExpired, Replay, EndOfReplay, RescanReturns, NoSuchTable
<1>2. ASSUME NEW p \in Procs, Begin(p) \/ Fault(p) \/ Restart(p)
      PROVE  log' = log
  BY <1>2 DEF Begin, Fault, disk, BeginStore, BeginForget, BeginRescan, Prune,
              AppendFails, StepFails, Crash, Restart
<1>3. ASSUME Tick \/ ClockStepsBack \/ UNCHANGED vars
      PROVE  log' = log
  BY <1>3 DEF Tick, ClockStepsBack, vars, disk
<1> QED
  BY <1>1, <1>2, <1>3 DEF Next

\* The log only grows: no step rewrites an entry.
LEMMA LogGrows ==
  ASSUME TypeInv, [Next]_vars
  PROVE  /\ Len(log) \in Nat /\ Len(log') \in Nat /\ Len(log) <= Len(log')
         /\ \A i \in 1 .. Len(log) : i \in 1 .. Len(log') /\ log'[i] = log[i]
<1>1. CASE log' = log
  BY <1>1 DEF TypeInv, TypeOK
<1>2. ASSUME NEW p \in Procs, AppendEntry(p)
      PROVE  /\ Len(log) \in Nat /\ Len(log') \in Nat /\ Len(log) <= Len(log')
             /\ \A i \in 1 .. Len(log) : i \in 1 .. Len(log') /\ log'[i] = log[i]
  <2>1. log \in Seq(Entries) /\ loc[p].ent \in Entries /\ log' = Append(log, loc[p].ent)
    BY <1>2 DEF AppendEntry, TypeInv, TypeOK, Locals
  <2> QED
    BY <2>1
<1> QED
  BY <1>1, <1>2, LogFrame

\* What is logged stays logged.
LEMMA StaysLogged ==
  ASSUME TypeInv, [Next]_vars
  PROVE  /\ \A k \in Keys, row \in Rows : RowLogged(k, row) => RowLogged(k, row)'
         /\ \A k \in Keys : TombstoneLogged(k) => TombstoneLogged(k)'
         /\ \A e \in Entries, i \in 1 .. Len(log) : LoggedAs(e, i) => LoggedAs(e, i)'
<1>1. \A i \in 1 .. Len(log) : i \in 1 .. Len(log') /\ log'[i] = log[i]
  BY LogGrows
<1>2. ASSUME NEW k \in Keys, NEW row \in Rows, RowLogged(k, row)
      PROVE  RowLogged(k, row)'
  BY <1>1, <1>2 DEF RowLogged, StoresOf, HoldsEntry
<1>3. ASSUME NEW k \in Keys, TombstoneLogged(k)
      PROVE  TombstoneLogged(k)'
  BY <1>1, <1>3 DEF TombstoneLogged
<1>4. ASSUME NEW e \in Entries, NEW i \in 1 .. Len(log), LoggedAs(e, i)
      PROVE  LoggedAs(e, i)'
  BY <1>1, <1>4 DEF LoggedAs
<1> QED
  BY <1>2, <1>3, <1>4

\* A process comes to an index write by the append of the entry, or by taking
\* an entry of the log to replay; until then it keeps the entry it holds.
LEMMA WayToIndex ==
  ASSUME TypeInv, [Next]_vars, NEW q \in Procs, pc'[q] \in {"upsert", "delete"}
  PROVE  \/ AppendEntry(q) \/ Replay(q)
         \/ pc'[q] = pc[q] /\ loc'[q] = loc[q]
<1> DEFINE Kept == pc'[q] = pc[q] /\ loc'[q] = loc[q]
<1> USE DEF TypeInv, TypeOK
<1>1. ASSUME NEW p \in Procs, AppendEntry(p) \/ Replay(p), p # q
      PROVE  Kept
  <2>1. CASE AppendEntry(p)
    BY <1>1, <2>1 DEF AppendEntry, Goto
  <2>2. CASE Replay(p)
    BY <1>1, <2>2 DEF Replay, Goto
  <2> QED
    BY <1>1, <2>1, <2>2
<1>2. ASSUME NEW p \in Procs, LookUp(p) \/ NoSuchTable(p) \/ RescanReturns(p)
      PROVE  Kept
  <2>1. CASE Return(p)
    BY <2>1, ReturnType
  <2>2. CASE LookUp(p) /\ ~Return(p)
    BY <2>2 DEF LookUp, Goto
  <2> QED
    BY <1>2, <2>1, <2>2 DEF NoSuchTable, RescanReturns
<1>3. ASSUME NEW p \in Procs, Upsert(p)
      PROVE  Kept
  BY <1>3 DEF Upsert, Goto
<1>4. ASSUME NEW p \in Procs, ClearTags(p) \/ InsertTag(p)
      PROVE  Kept
  <2>1. CASE PutReturns(p)
    BY <2>1, PutReturnsType
  <2>2. CASE ClearTags(p) /\ ~PutReturns(p)
    BY <2>2 DEF ClearTags, Goto
  <2>3. CASE InsertTag(p) /\ ~PutReturns(p)
    <3>1. /\ pc' = pc /\ pc[p] = "insert_tag"
          /\ \E tag \in loc[p].pend : loc' = [loc EXCEPT ![p].pend = @ \ {tag}]
      BY <2>3 DEF InsertTag
    <3> QED
      BY <3>1
  <2> QED
    BY <1>4, <2>1, <2>2, <2>3
<1>5. ASSUME NEW p \in Procs, DeleteByEntity(p) \/ DeleteByTags(p)
      PROVE  Kept
  <2>1. DeleteReturns(p)
    BY <1>5 DEF DeleteByEntity, DeleteByTags
  <2> QED
    BY <2>1, DeleteReturnsType
<1>6. ASSUME NEW p \in Procs, DropFacts(p) \/ CreateFacts(p) \/ CreateFactTags(p)
      PROVE  Kept
  BY <1>6 DEF DropFacts, CreateFacts, CreateFactTags, Goto
<1>7. ASSUME NEW p \in Procs, Parse(p) \/ EndOfReplay(p)
      PROVE  Kept
  BY <1>7 DEF Parse, EndOfReplay, Goto
<1>8. ASSUME NEW p \in Procs, SkipExpired(p)
      PROVE  Kept
  <2>1. /\ pc' = pc /\ pc[p] = "next"
        /\ \E i \in loc[p].todo : loc' = [loc EXCEPT ![p].todo = @ \ {i}]
    BY <1>8 DEF SkipExpired
  <2> QED
    BY <2>1
<1>9. ASSUME NEW p \in Procs, Begin(p)
      PROVE  Kept
  BY <1>9 DEF Begin, BeginStore, BeginForget, BeginRescan, Prune, Goto
<1>10. ASSUME NEW p \in Procs, Fault(p) \/ Restart(p)
       PROVE  Kept
  <2>1. CASE Return(p)
    BY <2>1, ReturnType
  <2>2. CASE Crash(p) \/ Restart(p)
    BY <2>2 DEF Crash, Restart, Goto
  <2> QED
    BY <1>10, <2>1, <2>2 DEF Fault, AppendFails, StepFails
<1>11. CASE Tick \/ ClockStepsBack \/ UNCHANGED vars
  BY <1>11 DEF Tick, ClockStepsBack, vars
<1> QED
  BY <1>1, <1>2, <1>3, <1>4, <1>5, <1>6, <1>7, <1>8, <1>9, <1>10, <1>11 DEF Next, Step

LEMMA InFlightNext == TypeInv /\ InFlightLogged /\ [Next]_vars => InFlightLogged'
<1>1. SUFFICES ASSUME TypeInv, InFlightLogged, [Next]_vars,
                      NEW q \in Procs, pc'[q] \in {"upsert", "delete"}
               PROVE  /\ pc'[q] = "upsert" =>
                            \E i \in 1 .. Len(log') : LoggedAs(loc[q].ent, i)'
                      /\ pc'[q] = "delete" =>
                            \E i \in 1 .. Len(log') : log'[i] = loc'[q].ent
  BY DEF InFlightLogged
<1> DEFINE e == loc[q].ent
<1>2. e \in Entries
  BY <1>1 DEF TypeInv, TypeOK, Locals
<1>3. \A i \in 1 .. Len(log) : i \in 1 .. Len(log') /\ log'[i] = log[i]
  BY <1>1, LogGrows
<1>4. CASE AppendEntry(q)
  <2>1. /\ log' = Append(log, e) /\ log \in Seq(Entries) /\ loc' = loc
        /\ pc'[q] = "upsert" => e.op = "store"
    BY <1>1, <1>4 DEF AppendEntry, Goto, TypeInv, TypeOK
  <2>2. Len(log') \in 1 .. Len(log') /\ log'[Len(log')] = e
    BY <1>2, <2>1
  <2>3. PICK n \in 1 .. Len(log') : log'[n] = e
    BY <2>2
  <2>4. loc'[q].ent = e
    BY <2>1
  <2>5. e.op = "store" => LoggedAs(loc[q].ent, n)'
    BY <2>3, <2>4 DEF LoggedAs
  <2> HIDE DEF e
  <2> QED
    BY <2>1, <2>3, <2>4, <2>5
<1>5. CASE Replay(q)
  <2>1. PICK i \in loc[q].todo :
            /\ loc' = [loc EXCEPT ![q].todo = @ \ {i}, ![q].ent = ReadBack(log[i])]
            /\ pc' = [pc EXCEPT ![q] = IF log[i].op = "store" THEN "upsert" ELSE "delete"]
    BY <1>5 DEF Replay, Goto
  <2>2. i \in 1 .. Len(log) /\ log[i] \in Entries
    BY <1>1, <2>1 DEF TypeInv, TypeOK, PlacesOK
  <2>3. /\ loc'[q].ent = ReadBack(log[i])
        /\ pc'[q] = "upsert" <=> log[i].op = "store"
    BY <1>1, <2>1 DEF TypeInv, TypeOK, Locals
  <2>4. CASE log[i].op = "store"
    <3>1. /\ ReadBack(log[i]).key = log[i].key
          /\ ReadBack(log[i]).val = ParsedBody[log[i].val]
          /\ ReadBack(log[i]).tags = log[i].tags
          /\ ReadBack(log[i]).ttl = WrittenTtl(log[i].ttl)
          /\ ReadBack(log[i]).time = log[i].time
      BY <2>2, <2>4 DEF ReadBack, Entries, EntryRecords
    <3>2. LoggedAs(loc[q].ent, i)'
      BY <1>3, <2>2, <2>3, <2>4, <3>1 DEF LoggedAs
    <3> QED
      BY <1>1, <1>3, <2>2, <2>3, <2>4, <3>2
  <2>5. CASE log[i].op # "store"
    <3>1. ReadBack(log[i]) = log[i]
      BY <2>5 DEF ReadBack
    <3> QED
      BY <1>1, <1>3, <2>2, <2>3, <2>5, <3>1
  <2> QED
    BY <2>4, <2>5
<1>6. CASE pc'[q] = pc[q] /\ loc'[q] = loc[q]
  <2>1. CASE pc[q] = "upsert"
    <3>1. PICK i \in 1 .. Len(log) : LoggedAs(e, i)
      BY <1>1, <2>1 DEF InFlightLogged
    <3>2. LoggedAs(loc[q].ent, i)'
      BY <1>3, <1>6, <3>1 DEF LoggedAs
    <3> QED
      BY <1>3, <1>6, <2>1, <3>2
  <2>2. CASE pc[q] = "delete"
    <3>1. PICK i \in 1 .. Len(log) : log[i] = e
      BY <1>1, <2>2 DEF InFlightLogged
    <3> QED
      BY <1>3, <1>6, <2>2, <3>1
  <2> QED
    BY <1>1, <1>6, <2>1, <2>2
<1> QED
  BY <1>1, <1>4, <1>5, <1>6, WayToIndex

LEMMA NeverAheadInit == Init => NeverAheadInv
<1>1. Init => InFlightLogged /\ IndexNeverAhead
  BY DEF Init, InFlightLogged, IndexNeverAhead
<1> QED
  BY <1>1, InitType DEF NeverAheadInv

LEMMA NeverAheadNext == NeverAheadInv /\ [Next]_vars => NeverAheadInv'
<1>1. SUFFICES ASSUME NeverAheadInv, [Next]_vars PROVE IndexNeverAhead'
  BY NextType, InFlightNext DEF NeverAheadInv
<1>2. SUFFICES ASSUME NEW k \in Keys, facts'[k] # NoRow
               PROVE  /\ RowLogged(k, facts[k])'
                      /\ facts'[k].deleted => TombstoneLogged(k)'
  BY DEF IndexNeverAhead, RowLogged, TombstoneLogged
<1>3. TypeInv /\ InFlightLogged /\ TypeInv'
  BY <1>1, NextType DEF NeverAheadInv
<1>4. /\ facts[k] \in Rows \cup {NoRow} /\ facts'[k] \in Rows
      /\ facts \in [Keys -> Rows \cup {NoRow}]
  BY <1>2, <1>3 DEF TypeInv, TypeOK
<1>5. facts[k] # NoRow =>
         RowLogged(k, facts[k]) /\ (facts[k].deleted => TombstoneLogged(k))
  BY <1>1, NeverAheadByRow DEF NeverAheadInv
<1>6. \A i \in 1 .. Len(log) : i \in 1 .. Len(log') /\ log'[i] = log[i]
  BY <1>1, <1>3, LogGrows
<1>7. CASE facts'[k] = facts[k]
  BY <1>1, <1>2, <1>3, <1>4, <1>5, <1>7, StaysLogged DEF RowLogged, HoldsEntry
<1>8. ASSUME NEW p \in Procs, Upsert(p), facts'[k] # facts[k]
      PROVE  /\ RowLogged(k, facts[k])'
             /\ facts'[k].deleted => TombstoneLogged(k)'
  <2> DEFINE e == loc[p].ent
  <2>1. e.key = k /\ facts'[k] = Upserted(facts[k], nextId, e)
    BY <1>4, <1>8 DEF Upsert
  <2>2. /\ facts'[k].object = e.val /\ facts'[k].tags = e.tags
        /\ facts'[k].ttl = e.ttl /\ facts'[k].updated = e.time
        /\ facts'[k].deleted = FALSE
    BY <2>1 DEF Upserted
  <2>3. PICK i \in 1 .. Len(log) : LoggedAs(e, i)
    BY <1>3, <1>8 DEF InFlightLogged, Upsert
  <2>4. i \in StoresOf(k)' /\ HoldsEntry(facts[k], i)'
    BY <1>6, <2>1, <2>2, <2>3 DEF LoggedAs, StoresOf, HoldsEntry
  <2> QED
    BY <2>2, <2>4 DEF RowLogged
<1>9. ASSUME NEW p \in Procs, DeleteByEntity(p) \/ DeleteByTags(p), facts'[k] # facts[k]
      PROVE  /\ RowLogged(k, facts[k])'
             /\ facts'[k].deleted => TombstoneLogged(k)'
  <2>1. PICK j \in 1 .. Len(log) : log[j] = loc[p].ent
    BY <1>3, <1>9 DEF InFlightLogged, DeleteByEntity, DeleteByTags
  <2>2. /\ facts[k] # NoRow /\ facts'[k] = SoftDeleted(facts[k])
        /\ \/ log[j].op = "delete" /\ log[j].key = k
           \/ log[j].op = "delete_tags"
    <3>1. CASE DeleteByEntity(p)
      BY <1>9, <2>1, <3>1 DEF DeleteByEntity
    <3>2. CASE DeleteByTags(p)
      BY <1>9, <2>1, <3>2 DEF DeleteByTags
    <3> QED
      BY <1>9, <3>1, <3>2
  <2>3. TombstoneLogged(k)'
    BY <1>6, <2>2 DEF TombstoneLogged
  <2>4. /\ facts'[k].object = facts[k].object /\ facts'[k].tags = facts[k].tags
        /\ facts'[k].ttl = facts[k].ttl /\ facts'[k].updated = facts[k].updated
    BY <1>4, <2>2 DEF SoftDeleted, Rows
  <2>5. PICK i \in StoresOf(k) : HoldsEntry(facts[k], i)
    BY <1>5, <2>2 DEF RowLogged
  <2>6. i \in StoresOf(k)' /\ HoldsEntry(facts[k], i)'
    BY <1>6, <2>4, <2>5 DEF StoresOf, HoldsEntry
  <2> QED
    BY <2>3, <2>6 DEF RowLogged
<1>10. ASSUME NEW p \in Procs, Prune(p) \/ DropFacts(p)
       PROVE  facts'[k] = facts[k]
  BY <1>2, <1>10 DEF Prune, DropFacts
<1> QED
  BY <1>1, <1>7, <1>8, <1>9, <1>10, FactsFrame DEF WritesFacts

\* The log is written ahead of the index: whatever the processes, their
\* rescans, failures and crashes, each row of the index holds what some entry
\* of the log stored for its key, and nothing is deleted that no tombstone of
\* the log can have deleted.
THEOREM IndexIsNeverAhead == Spec => []IndexNeverAhead
<1>1. NeverAheadInv => IndexNeverAhead
  BY DEF NeverAheadInv
<1> QED
  BY <1>1, NeverAheadInit, NeverAheadNext, PTL DEF Spec

-----------------------------------------------------------------------------
(* The ceiling *)

\* A step of one process leaves the call of another alone.
LEMMA OthersKeepPlace ==
  ASSUME TypeInv, NEW p \in Procs, Step(p) \/ Begin(p) \/ Fault(p) \/ Restart(p),
         NEW q \in Procs, q # p
  PROVE  pc'[q] = pc[q] /\ loc'[q] = loc[q]
<1> USE DEF TypeInv, TypeOK
<1>1. CASE LookUp(p) \/ NoSuchTable(p) \/ RescanReturns(p)
  BY <1>1, ReturnType DEF LookUp, NoSuchTable, RescanReturns, Goto
<1>2. CASE AppendEntry(p) \/ Upsert(p)
  BY <1>2 DEF AppendEntry, Upsert, Goto
<1>3. CASE ClearTags(p) \/ InsertTag(p)
  <2>1. \/ PutReturns(p)
        \/ Goto(p, "insert_tag") /\ UNCHANGED loc
        \/ UNCHANGED pc /\ \E tag \in loc[p].pend : loc' = [loc EXCEPT ![p].pend = @ \ {tag}]
    BY <1>3 DEF ClearTags, InsertTag
  <2> QED
    BY <2>1, PutReturnsType DEF Goto
<1>4. CASE DeleteByEntity(p) \/ DeleteByTags(p)
  BY <1>4, DeleteReturnsType DEF DeleteByEntity, DeleteByTags
<1>5. CASE DropFacts(p) \/ CreateFacts(p) \/ CreateFactTags(p) \/ Parse(p) \/ EndOfReplay(p)
  BY <1>5 DEF DropFacts, CreateFacts, CreateFactTags, Parse, EndOfReplay, Goto
<1>6. CASE SkipExpired(p) \/ Replay(p)
  BY <1>6 DEF SkipExpired, Replay, Goto
<1>7. CASE Begin(p)
  BY <1>7 DEF Begin, BeginStore, BeginForget, BeginRescan, Prune, Goto
<1>8. CASE Fault(p) \/ Restart(p)
  BY <1>8, ReturnType DEF Fault, AppendFails, StepFails, Crash, Restart, Goto
<1> QED
  BY <1>1, <1>2, <1>3, <1>4, <1>5, <1>6, <1>7, <1>8 DEF Step

\* A row with a TTL is never live: its expiry is an INTEGER, the clock is TEXT.
LEMMA LiveRow ==
  ASSUME NEW row, NEW t
  PROVE  Live(row, t) <=> row # NoRow /\ ~row.deleted /\ row.ttl = 0
  BY DEF Live, Outlives, SqlGreater, SqlInteger, SqlText

\* No process is within a rescan.
NoReplay ==
    \A p \in Procs :
        /\ pc[p] \notin {"drop_facts", "create_facts", "create_fact_tags", "parse", "next", "count"}
        /\ ~loc[p].replay

\* Only BeginRescan leads into a rescan.
LEMMA NoReplayNext ==
  ASSUME Rescanners = {}, TypeInv, NoReplay, [Next]_vars
  PROVE  NoReplay'
<1> DEFINE Outside(p) ==
      /\ pc[p] \notin {"drop_facts", "create_facts", "create_fact_tags", "parse", "next", "count"}
      /\ ~loc[p].replay
<1>1. /\ pc \in [Procs -> Places] /\ loc \in [Procs -> Locals]
      /\ \A p \in Procs : Outside(p)
  BY DEF TypeInv, TypeOK, NoReplay
<1>2. ASSUME NEW p \in Procs, Return(p)
      PROVE  Outside(p)'
  BY <1>1, <1>2, ReturnType DEF NoLocals
<1>3. ASSUME NEW p \in Procs, LookUp(p) \/ AppendEntry(p) \/ Upsert(p) \/ NoSuchTable(p)
      PROVE  Outside(p)'
  BY <1>1, <1>2, <1>3 DEF LookUp, AppendEntry, Upsert, NoSuchTable, Goto, Locals
<1>4. ASSUME NEW p \in Procs, ClearTags(p) \/ InsertTag(p)
      PROVE  Outside(p)'
  <2>1. PutReturns(p) => Return(p)
    BY <1>1 DEF PutReturns
  <2>2. \/ PutReturns(p)
        \/ Goto(p, "insert_tag") /\ UNCHANGED loc
        \/ UNCHANGED pc /\ \E tag \in loc[p].pend : loc' = [loc EXCEPT ![p].pend = @ \ {tag}]
    BY <1>4 DEF ClearTags, InsertTag
  <2> QED
    BY <1>1, <1>2, <2>1, <2>2 DEF Goto, Locals
<1>5. ASSUME NEW p \in Procs, DeleteByEntity(p) \/ DeleteByTags(p)
      PROVE  Outside(p)'
  <2>1. DeleteReturns(p)
    BY <1>5 DEF DeleteByEntity, DeleteByTags
  <2>2. \/ Return(p)
        \/ /\ Goto(p, "append")
           /\ loc' = [loc EXCEPT ![p].pend = {},
                        ![p].ent = TagsTombstone(loc[p].pend, loc[p].ent.time)]
    BY <1>1, <2>1 DEF DeleteReturns
  <2> QED
    BY <1>1, <1>2, <2>2 DEF Goto, Locals
<1>6. ASSUME NEW p \in Procs,
             \/ DropFacts(p) \/ CreateFacts(p) \/ CreateFactTags(p) \/ Parse(p)
             \/ SkipExpired(p) \/ Replay(p) \/ EndOfReplay(p) \/ RescanReturns(p)
      PROVE  FALSE
  BY <1>1, <1>6 DEF DropFacts, CreateFacts, CreateFactTags, Parse, SkipExpired, Replay,
                    EndOfReplay, RescanReturns
<1>7. ASSUME NEW p \in Procs, Begin(p)
      PROVE  Outside(p)'
  <2>1. ASSUME NEW call \in StoreCalls, BeginStore(p, call)
        PROVE  Outside(p)'
    BY <1>1, <2>1 DEF BeginStore, Goto, Locals
  <2>2. ASSUME NEW call \in ForgetCalls, BeginForget(p, call)
        PROVE  Outside(p)'
    BY <1>1, <2>2 DEF BeginForget, Goto, Locals
  <2> QED
    BY <1>1, <1>7, <2>1, <2>2 DEF Begin, BeginRescan, Prune
<1>8. ASSUME NEW p \in Procs, Fault(p) \/ Restart(p)
      PROVE  Outside(p)'
  BY <1>1, <1>2, <1>8 DEF Fault, AppendFails, StepFails, Crash, Restart, Goto, NoLocals
<1>9. ASSUME NEW p \in Procs, Step(p) \/ Begin(p) \/ Fault(p) \/ Restart(p)
      PROVE  NoReplay'
  <2>1. Outside(p)'
    BY <1>3, <1>4, <1>5, <1>6, <1>7, <1>8, <1>9 DEF Step
  <2>2. \A q \in Procs : q # p => Outside(q)'
    BY <1>1, <1>9, OthersKeepPlace
  <2> QED
    BY <2>1, <2>2 DEF NoReplay
<1>10. CASE Tick \/ ClockStepsBack \/ UNCHANGED vars
  BY <1>10 DEF NoReplay, Tick, ClockStepsBack, vars
<1> QED
  BY <1>9, <1>10 DEF Next

\* p has passed the capacity check, or has found room, and may add its key.
Adding(p) ==
    \/ pc[p] = "lookup" /\ ~loc[p].full
    \/ pc[p] \in {"append", "upsert"} /\ loc[p].ent.op = "store"

\* The keys that are live, and those that calls in flight may make live.
Occupied == LiveKeys \cup {loc[p].ent.key : p \in {q \in Procs : Adding(q)}}

CeilingInv ==
    /\ TypeInv /\ NoReplay
    /\ IsFiniteSet(Occupied)
    /\ Cardinality(Occupied) <= MaxEntries + Cardinality(Procs) - 1

\* A key becomes live by an upsert, and the call that makes it was adding it.
LEMMA BecomesLive ==
  ASSUME TypeInv, [Next]_vars, NEW k \in LiveKeys'
  PROVE  k \in Occupied
<1>1. facts \in [Keys -> Rows \cup {NoRow}] /\ k \in Keys
  BY DEF TypeInv, TypeOK, LiveKeys
<1>2. facts'[k] # NoRow /\ ~facts'[k].deleted /\ facts'[k].ttl = 0
  BY LiveRow DEF LiveKeys
<1>3. CASE facts'[k] = facts[k]
  BY <1>1, <1>2, <1>3, LiveRow DEF Occupied, LiveKeys
<1>4. ASSUME NEW p \in Procs, Upsert(p), facts'[k] # facts[k]
      PROVE  k \in Occupied
  <2>1. k = loc[p].ent.key
    BY <1>1, <1>4 DEF Upsert
  <2>2. Adding(p)
    BY <1>4 DEF Upsert, Adding, TypeInv, PlacesOK
  <2> QED
    BY <2>1, <2>2 DEF Occupied
<1>5. ASSUME NEW p \in Procs, DeleteByEntity(p) \/ DeleteByTags(p), facts'[k] # facts[k]
      PROVE  FALSE
  <2>1. facts[k] # NoRow /\ facts'[k] = SoftDeleted(facts[k])
    BY <1>1, <1>5 DEF DeleteByEntity, DeleteByTags
  <2> QED
    BY <1>1, <1>2, <2>1 DEF SoftDeleted, Rows
<1>6. ASSUME NEW p \in Procs, Prune(p) \/ DropFacts(p)
      PROVE  facts'[k] = facts[k]
  BY <1>1, <1>2, <1>6 DEF Prune, DropFacts
<1> QED
  BY <1>3, <1>4, <1>5, <1>6, FactsFrame DEF WritesFacts

\* A call that comes to add a key was adding it, or has found the key live, or has
\* begun and counted fewer live facts than the limit.
LEMMA BecomesAdding ==
  ASSUME TypeInv, NoReplay, IsFiniteSet(Occupied), [Next]_vars,
         NEW q \in Procs, Adding(q)'
  PROVE  \/ loc'[q].ent.key \in Occupied
         \/ LiveCount < MaxEntries /\ UNCHANGED <<now, facts>>
<1>1. /\ pc \in [Procs -> Places] /\ loc \in [Procs -> Locals]
      /\ pc[q] # "next" /\ ~loc[q].replay
  BY DEF TypeInv, TypeOK, NoReplay
<1>2. CASE pc'[q] = pc[q] /\ loc'[q] = loc[q]
  BY <1>2 DEF Adding, Occupied
<1>3. ASSUME NEW call \in StoreCalls, BeginStore(q, call)
      PROVE  LiveCount < MaxEntries /\ UNCHANGED <<now, facts>>
  <2>1. loc'[q].full = (LiveCount >= MaxEntries) /\ pc'[q] = "lookup"
    BY <1>1, <1>3 DEF BeginStore, Goto, Locals
  <2>2. ~(LiveCount >= MaxEntries)
    BY <2>1 DEF Adding
  <2>3. LiveCount \in Nat
    BY FS_Subset, FS_CardinalityType DEF LiveCount, Occupied
  <2> QED
    BY <1>3, <2>2, <2>3, BoundsAssumption DEF BeginStore, disk
<1>4. CASE LookUp(q)
  <2> DEFINE e == loc[q].ent
  <2>1. e \in Entries /\ e.op = "store"
    BY <1>1, <1>4 DEF LookUp, TypeInv, PlacesOK, Locals
  <2>2. pc'[q] # "idle"
    BY DEF Adding
  <2>3. /\ Live(facts[e.key], now) \/ ~loc[q].full
        /\ loc' = [loc EXCEPT ![q].ent = Stamped(e, facts[e.key])]
    BY <1>1, <1>4, <2>2, ReturnType DEF LookUp
  <2>4. e.key \in Keys /\ Stamped(e, facts[e.key]).key = e.key
    BY <2>1 DEF Stamped, Entries, EntryRecords
  <2>5. e.key \in LiveKeys \/ Adding(q)
    BY <1>4, <2>3, <2>4 DEF LiveKeys, Adding, LookUp
  <2>6. loc'[q].ent.key = e.key
    BY <1>1, <2>3, <2>4 DEF Locals
  <2> QED
    BY <2>5, <2>6 DEF Occupied
<1>5. CASE AppendEntry(q)
  BY <1>1, <1>5 DEF AppendEntry, Adding, Goto, Occupied
<1>6. ASSUME DeleteByEntity(q) \/ DeleteByTags(q)
      PROVE  FALSE
  <2>1. DeleteReturns(q)
    BY <1>6 DEF DeleteByEntity, DeleteByTags
  <2>2. pc'[q] \notin {"idle", "upsert", "lookup"}
    BY <1>1, <2>1, DeleteReturnsType DEF Adding, DeleteReturns, Return, Goto
  <2>3. loc' = [loc EXCEPT ![q].pend = {},
                  ![q].ent = TagsTombstone(loc[q].pend, loc[q].ent.time)]
    BY <1>1, <2>1, <2>2 DEF DeleteReturns, Return, Goto
  <2>4. loc'[q].ent.op = "delete_tags"
    BY <1>1, <2>3 DEF Locals, TagsTombstone, BlankEntry
  <2> QED
    BY <2>2, <2>4 DEF Adding
<1>7. ASSUME NEW call \in ForgetCalls, BeginForget(q, call)
      PROVE  FALSE
  <2>1. loc'[q].ent \in {KeyTombstone(call.key, now), TagsTombstone(call.tags, now)}
        /\ pc'[q] = "append"
    BY <1>1, <1>7 DEF BeginForget, Goto, Locals
  <2>2. loc'[q].ent.op # "store"
    BY <2>1 DEF KeyTombstone, TagsTombstone, BlankEntry
  <2> QED
    BY <2>1, <2>2 DEF Adding
<1>8. ASSUME \/ Upsert(q) \/ ClearTags(q) \/ InsertTag(q) \/ Return(q) \/ BeginRescan(q)
             \/ DropFacts(q) \/ CreateFacts(q) \/ CreateFactTags(q) \/ Parse(q)
             \/ EndOfReplay(q) \/ SkipExpired(q) \/ Replay(q) \/ Crash(q)
             \/ Restart(q)
      PROVE  FALSE
  <2>1. PutReturns(q) => Return(q)
    BY <1>1 DEF PutReturns
  <2>2. Return(q) => pc'[q] = "idle"
    BY ReturnType
  <2>3. \/ Return(q) \/ pc'[q] \notin {"lookup", "append", "upsert"}
    BY <1>1, <1>8, <2>1 DEF Upsert, ClearTags, InsertTag, BeginRescan, DropFacts, CreateFacts,
       CreateFactTags, Parse, EndOfReplay, SkipExpired, Replay, Crash, Restart, Goto
  <2> QED
    BY <2>2, <2>3 DEF Adding
<1>9. ASSUME Prune(q) \/ Tick \/ ClockStepsBack \/ UNCHANGED vars
      PROVE  pc'[q] = pc[q] /\ loc'[q] = loc[q]
  BY <1>9 DEF Prune, Tick, ClockStepsBack, vars
<1>10. ASSUME NEW p \in Procs, p # q, Step(p) \/ Begin(p) \/ Fault(p) \/ Restart(p)
       PROVE  pc'[q] = pc[q] /\ loc'[q] = loc[q]
  BY <1>10, OthersKeepPlace
<1>11. CASE Step(q) \/ Begin(q) \/ Fault(q) \/ Restart(q)
  BY <1>3, <1>4, <1>5, <1>6, <1>7, <1>8, <1>2, <1>9, <1>11
     DEF Step, Begin, Fault, NoSuchTable, RescanReturns, AppendFails, StepFails
<1> QED
  BY <1>2, <1>9, <1>10, <1>11 DEF Next

\* Each process adds one key at most.
LEMMA OneKeyEach ==
  ASSUME IsFiniteSet(Procs), NEW L, IsFiniteSet(L), NEW pending,
         NEW S \in SUBSET (L \cup {pending[p] : p \in Procs})
  PROVE  /\ IsFiniteSet(S)
         /\ Cardinality(S) <= Cardinality(L) + Cardinality(Procs)
<1> DEFINE f == [p \in Procs |-> pending[p]]
           T == {f[p] : p \in Procs}
<1>1. f \in Surjection(Procs, T)
  BY DEF Surjection
<1>2. S \subseteq L \cup T
  OBVIOUS
<1> HIDE DEF T, f
<1>3. IsFiniteSet(T) /\ Cardinality(T) <= Cardinality(Procs)
  BY <1>1, FS_Surjection
<1>4. IsFiniteSet(L \cap T)
  BY <1>3, FS_Intersection
<1>5. /\ Cardinality(T) \in Nat /\ Cardinality(L) \in Nat /\ Cardinality(Procs) \in Nat
      /\ Cardinality(L \cap T) \in Nat
      /\ IsFiniteSet(L \cup T)
      /\ Cardinality(L \cup T) = Cardinality(L) + Cardinality(T) - Cardinality(L \cap T)
  BY <1>3, <1>4, FS_CardinalityType, FS_Union
<1>6. /\ IsFiniteSet(S) /\ Cardinality(S) <= Cardinality(L \cup T)
  BY <1>2, <1>5, FS_Subset
<1>7. Cardinality(S) \in Nat
  BY <1>6, FS_CardinalityType
<1> QED
  BY <1>3, <1>5, <1>6, <1>7

LEMMA CeilingInit ==
  ASSUME IsFiniteSet(Procs), Init
  PROVE  CeilingInv
<1>1. TypeInv /\ NoReplay
  BY InitType DEF Init, NoReplay, NoLocals
<1>2. Occupied = {}
  BY DEF Init, Occupied, Adding, LiveKeys, Live
<1> QED
  BY <1>1, <1>2, FS_EmptySet, FS_CardinalityType, BoundsAssumption DEF CeilingInv

LEMMA CeilingNext ==
  ASSUME IsFiniteSet(Procs), Rescanners = {}, CeilingInv, [Next]_vars
  PROVE  CeilingInv'
<1>1. TypeInv /\ NoReplay /\ TypeInv' /\ NoReplay'
  BY NextType, NoReplayNext DEF CeilingInv
<1>2. IsFiniteSet(Occupied) /\ Cardinality(Occupied) <= MaxEntries + Cardinality(Procs) - 1
  BY DEF CeilingInv
<1>3. CASE Occupied' \subseteq Occupied
  <2>1. /\ IsFiniteSet(Occupied') /\ Cardinality(Occupied') <= Cardinality(Occupied)
        /\ Cardinality(Occupied') \in Nat /\ Cardinality(Occupied) \in Nat
        /\ Cardinality(Procs) \in Nat
    BY <1>2, <1>3, FS_Subset, FS_CardinalityType
  <2> QED
    BY <1>1, <1>2, <2>1, BoundsAssumption DEF CeilingInv
<1>4. CASE LiveCount < MaxEntries /\ UNCHANGED <<now, facts>>
  <2>1. LiveKeys' = LiveKeys
    BY <1>4 DEF LiveKeys, Live, Outlives
  <2>2. IsFiniteSet(LiveKeys)
    BY <1>2, FS_Subset DEF Occupied
  <2> DEFINE pending == [p \in Procs |-> loc'[p].ent.key]
  <2>3. Occupied' \subseteq LiveKeys \cup {pending[p] : p \in Procs}
    BY <2>1 DEF Occupied
  <2> HIDE DEF pending
  <2>4. /\ IsFiniteSet(Occupied')
        /\ Cardinality(Occupied') <= Cardinality(LiveKeys) + Cardinality(Procs)
    BY <2>2, <2>3, OneKeyEach
  <2>5. /\ Cardinality(Occupied') \in Nat /\ Cardinality(LiveKeys) \in Nat
        /\ Cardinality(Procs) \in Nat
    BY <2>2, <2>4, FS_CardinalityType
  <2> QED
    BY <1>1, <1>4, <2>4, <2>5, BoundsAssumption DEF CeilingInv, LiveCount
<1>5. LiveKeys' \subseteq Occupied
  BY <1>1, BecomesLive
<1>6. ASSUME NEW q \in Procs, Adding(q)'
      PROVE  \/ loc'[q].ent.key \in Occupied
             \/ LiveCount < MaxEntries /\ UNCHANGED <<now, facts>>
  BY <1>1, <1>2, <1>6, BecomesAdding
<1> QED
  BY <1>3, <1>4, <1>5, <1>6 DEF Occupied

\* INV5 for any number of processes: where no process rescans, calls that pass the
\* capacity check together exceed MEM7_MAX_ENTRIES by less than their number, though
\* they count, look the key up, append and insert in separate steps, and although a
\* fact that one of them replaces may be forgotten by another in between.
THEOREM CeilingIsSoft ==
  ASSUME IsFiniteSet(Procs), Rescanners = {}
  PROVE  Spec => []SoftCeiling
<1>1. CeilingInv => SoftCeiling
  <2> SUFFICES ASSUME CeilingInv PROVE SoftCeiling
    OBVIOUS
  <2>1. LiveKeys \subseteq Occupied /\ IsFiniteSet(Occupied)
    BY DEF CeilingInv, Occupied
  <2>2. /\ Cardinality(LiveKeys) <= Cardinality(Occupied) /\ Cardinality(LiveKeys) \in Nat
        /\ Cardinality(Occupied) \in Nat /\ Cardinality(Procs) \in Nat
    BY <2>1, FS_Subset, FS_CardinalityType
  <2> QED
    BY <2>2, BoundsAssumption DEF CeilingInv, SoftCeiling, LiveCount
<1>2. Init => CeilingInv
  BY CeilingInit
<1>3. CeilingInv /\ [Next]_vars => CeilingInv'
  BY CeilingNext
<1> QED
  BY <1>1, <1>2, <1>3, PTL DEF Spec
-----------------------------------------------------------------------------
(* Tags in the join table *)

\* Without a reset a row keeps its id, or goes, or comes with a new id.
LEMMA IdsMoveOn ==
  ASSUME TypeInv, NoReplay, [Next]_vars
  PROVE  /\ nextId \in Nat /\ nextId' \in Nat /\ nextId <= nextId'
         /\ \A k \in Keys : facts'[k] # NoRow =>
              facts'[k].id = nextId \/ (facts[k] # NoRow /\ facts'[k].id = facts[k].id)
<1>1. /\ nextId \in Nat
      /\ facts \in [Keys -> Rows \cup {NoRow}]
  BY DEF TypeInv, TypeOK
<1>2. ASSUME NEW p \in Procs, Upsert(p)
      PROVE  /\ nextId' = nextId + 1
             /\ \A k \in Keys : facts'[k] # NoRow =>
                  facts'[k].id = nextId \/ (facts[k] # NoRow /\ facts'[k].id = facts[k].id)
  <2> DEFINE e == loc[p].ent
             row == Upserted(facts[e.key], nextId, e)
  <2>1. e.key \in Keys
    BY <1>2 DEF Upsert, TypeInv, TypeOK, PlacesOK, Locals, Entries
  <2>2. row.id = IF facts[e.key] = NoRow THEN nextId ELSE facts[e.key].id
    BY DEF Upserted
  <2>3. facts' = [facts EXCEPT ![e.key] = row] /\ nextId' = nextId + 1
    BY <1>2 DEF Upsert
  <2> HIDE DEF e, row
  <2> QED
    BY <1>1, <2>1, <2>2, <2>3
<1>3. ASSUME NEW p \in Procs, DeleteByEntity(p) \/ DeleteByTags(p)
      PROVE  /\ nextId' = nextId
             /\ \A k \in Keys : facts'[k] # NoRow => facts[k] # NoRow /\ facts'[k].id = facts[k].id
  <2>1. \A row \in Rows : SoftDeleted(row).id = row.id
    BY DEF SoftDeleted, Rows
  <2>2. nextId' = nextId
    BY <1>3 DEF DeleteByEntity, DeleteByTags
  <2>3. ASSUME NEW k \in Keys
        PROVE  facts'[k] = facts[k] \/ (facts[k] # NoRow /\ facts'[k] = SoftDeleted(facts[k]))
    BY <1>3 DEF DeleteByEntity, DeleteByTags
  <2> QED
    BY <1>1, <2>1, <2>2, <2>3
<1>4. ASSUME NEW p \in Procs, Prune(p)
      PROVE  /\ nextId' = nextId
             /\ \A k \in Keys : facts'[k] # NoRow => facts'[k] = facts[k]
  BY <1>4 DEF Prune
<1>5. \A p \in Procs : ~DropFacts(p)
  BY DEF NoReplay, DropFacts
<1> QED
  BY <1>1, <1>2, <1>3, <1>4, <1>5, FactsFrame DEF WritesFacts

\* The tag was stored under the key.
Given(k, tag) == \E i \in StoresOf(k) : tag \in log[i].tags

\* The id was given out, and if a row has it, then the tag was stored under its key.
TagFits(id, tag) ==
    /\ id \in Nat /\ id < nextId
    /\ \A k \in Keys : facts[k] # NoRow /\ facts[k].id = id => Given(k, tag)

\* Put is between its upsert and the last of its writes to fact_tags.
Putting == {"clear_tags", "insert_tag"}

\* So it is with the tags that are joined, and with those that a Put is to join to
\* the id its upsert returned, whatever has become of the row since.
TagsFit ==
    /\ \A ft \in factTags : TagFits(ft[1], ft[2])
    /\ \A p \in Procs : pc[p] \in Putting => \A tag \in loc[p].pend : TagFits(loc[p].rowid, tag)

TagsInv == TypeInv /\ IdsUnique /\ InFlightLogged /\ NoReplay /\ TagsFit

LEMMA TagStaysFit ==
  ASSUME TypeInv, NoReplay, [Next]_vars
  PROVE  \A id, tag : TagFits(id, tag) => TagFits(id, tag)'
<1>1. /\ nextId \in Nat /\ nextId' \in Nat /\ nextId <= nextId'
      /\ \A k \in Keys : facts'[k] # NoRow =>
           facts'[k].id = nextId \/ (facts[k] # NoRow /\ facts'[k].id = facts[k].id)
  BY IdsMoveOn
<1>2. \A i \in 1 .. Len(log) : i \in 1 .. Len(log') /\ log'[i] = log[i]
  BY LogGrows
<1>3. \A k, tag : Given(k, tag) => Given(k, tag)'
  BY <1>2 DEF Given, StoresOf
<1> QED
  BY <1>1, <1>3 DEF TagFits

\* The join table is written by Put and by Reset.
LEMMA JoinsFrame ==
  ASSUME [Next]_vars
  PROVE  \/ factTags' = factTags
         \/ \E p \in Procs : ClearTags(p) \/ InsertTag(p) \/ BeginRescan(p)
<1>1. ASSUME NEW p \in Procs, Step(p), ~ClearTags(p), ~InsertTag(p)
      PROVE  factTags' = factTags
  BY <1>1 DEF Step, disk, LookUp, AppendEntry, Upsert, DeleteByEntity, DeleteByTags,
              DropFacts, CreateFacts, CreateFactTags, Parse, SkipExpired, Replay,
              EndOfReplay, RescanReturns, NoSuchTable
<1>2. ASSUME NEW p \in Procs, Begin(p) \/ Fault(p) \/ Restart(p), ~BeginRescan(p)
      PROVE  factTags' = factTags
  BY <1>2 DEF Begin, Fault, disk, BeginStore, BeginForget, Prune, AppendFails, StepFails,
              Crash, Restart
<1>3. ASSUME Tick \/ ClockStepsBack \/ UNCHANGED vars
      PROVE  factTags' = factTags
  BY <1>3 DEF Tick, ClockStepsBack, vars, disk
<1> QED
  BY <1>1, <1>2, <1>3 DEF Next

\* A Put comes to its tags by the upsert; from there it keeps the id and loses tags.
LEMMA WayToTags ==
  ASSUME TypeInv, [Next]_vars, NEW q \in Procs, pc'[q] \in Putting
  PROVE  \/ Upsert(q)
         \/ /\ pc[q] \in Putting
            /\ loc'[q].rowid = loc[q].rowid /\ loc'[q].pend \subseteq loc[q].pend
<1> DEFINE Kept == /\ pc[q] \in Putting
                   /\ loc'[q].rowid = loc[q].rowid /\ loc'[q].pend \subseteq loc[q].pend
<1>1. /\ pc \in [Procs -> Places] /\ loc \in [Procs -> Locals]
  BY DEF TypeInv, TypeOK
<1>2. CASE pc'[q] = pc[q] /\ loc'[q] = loc[q]
  BY <1>2
<1>3. ~Return(q)
  <2> SUFFICES ASSUME Return(q) PROVE FALSE
    OBVIOUS
  <2>1. pc'[q] = "idle"
    BY ReturnType
  <2> QED
    BY <2>1 DEF Putting
<1>4. ~PutReturns(q) /\ ~DeleteReturns(q)
  BY PutReturnsType, DeleteReturnsType DEF Putting
<1>5. ASSUME ClearTags(q) \/ InsertTag(q)
      PROVE  Kept
  <2>1. pc[q] \in Putting
    BY <1>5 DEF ClearTags, InsertTag, Putting
  <2>2. \/ loc' = loc
        \/ \E tag \in loc[q].pend : loc' = [loc EXCEPT ![q].pend = @ \ {tag}]
    BY <1>4, <1>5 DEF ClearTags, InsertTag
  <2>3. CASE loc' = loc
    BY <2>1, <2>3
  <2>4. ASSUME NEW tag, loc' = [loc EXCEPT ![q].pend = @ \ {tag}]
        PROVE  Kept
    <3>1. loc[q] \in Locals
      BY <1>1
    <3>2. loc'[q] = [loc[q] EXCEPT !.pend = @ \ {tag}]
      BY <1>1, <2>4
    <3>3. loc'[q].rowid = loc[q].rowid /\ loc'[q].pend = loc[q].pend \ {tag}
      BY <3>1, <3>2 DEF Locals
    <3> QED
      BY <2>1, <3>3
  <2> QED
    BY <2>2, <2>3, <2>4
<1>6. ASSUME Step(q), ~Upsert(q), ~ClearTags(q), ~InsertTag(q)
      PROVE  FALSE
  BY <1>1, <1>3, <1>4, <1>6 DEF Step, Goto, Putting, LookUp, AppendEntry, DeleteByEntity,
     DeleteByTags, DropFacts, CreateFacts, CreateFactTags, Parse, SkipExpired, Replay,
     EndOfReplay, RescanReturns, NoSuchTable
<1>7. ASSUME Begin(q) \/ Fault(q) \/ Restart(q)
      PROVE  FALSE
  BY <1>1, <1>3, <1>7 DEF Begin, Fault, Goto, Putting, BeginStore, BeginForget, BeginRescan,
     Prune, AppendFails, StepFails, Crash, Restart
<1>8. ASSUME NEW p \in Procs, p # q, Step(p) \/ Begin(p) \/ Fault(p) \/ Restart(p)
      PROVE  pc'[q] = pc[q] /\ loc'[q] = loc[q]
  BY <1>8, OthersKeepPlace
<1>9. CASE Tick \/ ClockStepsBack \/ UNCHANGED vars
  BY <1>2, <1>9 DEF Tick, ClockStepsBack, vars
<1> QED
  BY <1>2, <1>5, <1>6, <1>7, <1>8, <1>9 DEF Next

\* What the upsert of a Put is about to join fits: the entry was logged before.
LEMMA UpsertFits ==
  ASSUME TypeInv, IdsUnique, InFlightLogged, NEW p \in Procs, Upsert(p), [Next]_vars,
         NEW tag \in loc'[p].pend
  PROVE  TagFits(loc[p].rowid, tag)'
<1> DEFINE e == loc[p].ent
           row == Upserted(facts[e.key], nextId, e)
<1>1. e \in Entries /\ e.op = "store" /\ e.key \in Keys
  BY DEF Upsert, TypeInv, TypeOK, PlacesOK, Locals, Entries
<1>2. /\ facts' = [facts EXCEPT ![e.key] = row]
      /\ loc'[p].rowid = row.id /\ loc'[p].pend = e.tags
  BY DEF Upsert, TypeInv, TypeOK, Locals
<1>3. IdsUnique'
  BY IdsNext
<1>4. facts'[e.key] = row /\ row # NoRow
  <2>1. row \in Rows
    BY <1>1, UpsertedType DEF TypeInv, TypeOK
  <2> QED
    BY <1>1, <1>2, <2>1, NoRowAssumption DEF TypeInv, TypeOK
<1>5. PICK i \in 1 .. Len(log) : LoggedAs(e, i)
  BY DEF InFlightLogged, Upsert
<1>6. PICK key \in Keys : key = e.key
  BY <1>1
<1>7. Given(key, tag)'
  <2>1. i \in 1 .. Len(log') /\ log'[i] = log[i]
    BY LogGrows
  <2>2. log[i].op = "store" /\ log[i].key = key /\ tag \in log[i].tags
    BY <1>2, <1>5, <1>6 DEF LoggedAs
  <2> HIDE DEF e, row
  <2> QED
    BY <2>1, <2>2 DEF Given, StoresOf
<1>8. PICK id : id = row.id
  OBVIOUS
<1> HIDE DEF e, row
<1>9. id \in Nat /\ id < nextId'
  BY <1>1, <1>3, <1>4, <1>8, NextType DEF IdsUnique, TypeInv, TypeOK, Rows
<1>10. \A k \in Keys : facts'[k] # NoRow /\ facts'[k].id = id => k = key
  BY <1>1, <1>3, <1>4, <1>6, <1>8 DEF IdsUnique
<1>11. loc'[p].rowid = id
  BY <1>2, <1>8
<1> QED
  BY <1>7, <1>9, <1>10, <1>11 DEF TagFits

LEMMA TagsNext ==
  ASSUME Rescanners = {}, TagsInv, [Next]_vars
  PROVE  TagsInv'
<1>1. /\ TypeInv /\ IdsUnique /\ InFlightLogged /\ NoReplay /\ TagsFit
      /\ TypeInv' /\ IdsUnique' /\ InFlightLogged' /\ NoReplay'
  BY NextType, IdsNext, InFlightNext, NoReplayNext DEF TagsInv
<1>2. \A id, tag : TagFits(id, tag) => TagFits(id, tag)'
  BY <1>1, TagStaysFit
<1>3. ASSUME NEW ft \in factTags'
      PROVE  TagFits(ft[1], ft[2])'
  <2>1. CASE ft \in factTags
    BY <1>1, <1>2, <2>1 DEF TagsFit
  <2>2. CASE ft \notin factTags
    <3>1. PICK p \in Procs : InsertTag(p)
      BY <1>3, <2>2, JoinsFrame DEF ClearTags, BeginRescan
    <3>2. PICK tag \in loc[p].pend : ft = <<loc[p].rowid, tag>>
      BY <1>3, <2>2, <3>1 DEF InsertTag
    <3>3. TagFits(loc[p].rowid, tag)
      BY <1>1, <3>1 DEF TagsFit, InsertTag, Putting
    <3> QED
      BY <1>2, <3>2, <3>3 DEF TagFits
  <2> QED
    BY <2>1, <2>2
<1>4. ASSUME NEW q \in Procs, pc'[q] \in Putting, NEW tag \in loc'[q].pend
      PROVE  TagFits(loc[q].rowid, tag)'
  <2>1. CASE Upsert(q)
    BY <1>1, <1>4, <2>1, UpsertFits
  <2>2. CASE /\ pc[q] \in Putting
             /\ loc'[q].rowid = loc[q].rowid /\ loc'[q].pend \subseteq loc[q].pend
    <3>1. TagFits(loc[q].rowid, tag)
      BY <1>1, <1>4, <2>2 DEF TagsFit
    <3> QED
      BY <1>2, <2>2, <3>1 DEF TagFits
  <2> QED
    BY <1>1, <1>4, <2>1, <2>2, WayToTags
<1>5. TagsFit'
  BY <1>3, <1>4 DEF TagsFit
<1> QED
  BY <1>1, <1>5 DEF TagsInv

\* INV4 for any number of processes and faults: where no process rescans, no row
\* comes to tags that were never stored under its key, although a Put joins them in
\* separate statements by the id its upsert returned, while others store, forget and
\* prune, and although prunes and half-done calls leave tags behind: the entry of a
\* tag is logged before the tag is joined, and no id is given to a second key.
THEOREM TagsAreOwn ==
  ASSUME Rescanners = {}
  PROVE  Spec => []TagsOfOwnKey
<1>1. Init => TagsInv
  <2>1. Init => InFlightLogged /\ NoReplay /\ TagsFit
    BY DEF Init, InFlightLogged, NoReplay, TagsFit, NoLocals, Putting
  <2> QED
    BY <2>1, InitType, IdsInit DEF TagsInv
<1>2. TagsInv /\ [Next]_vars => TagsInv'
  BY TagsNext
<1>3. TagsInv => TagsOfOwnKey
  <2> SUFFICES ASSUME TagsInv, NEW k \in Keys, facts[k] # NoRow, NEW tag \in Tags,
                      <<facts[k].id, tag>> \in factTags
               PROVE  \E i \in StoresOf(k) : tag \in log[i].tags
    BY DEF TagsOfOwnKey
  <2>1. TagFits(facts[k].id, tag)
    BY DEF TagsInv, TagsFit
  <2> QED
    BY <2>1 DEF TagFits, Given
<1> QED
  BY <1>1, <1>2, <1>3, PTL DEF Spec
-----------------------------------------------------------------------------
(* One process with the directory to itself *)

Entered == 1 .. Len(log)

\* i is the newest of the entries S, or the oldest.
IsNewest(i, S) == i \in S /\ \A j \in S \ {i} : EarlierIn(log, j, i)
IsOldest(i, S) == i \in S /\ \A j \in S \ {i} : EarlierIn(log, i, j)

\* The entries among D that stored k.
StoresIn(D, k) == {i \in D : log[i].op = "store" /\ log[i].key = k}

\* What ReflectsLog says of k, of the entries D instead of the whole log, with
\* the newest and the oldest of them known to exist.
Holds(D, k) ==
    \E i \in StoresIn(D, k) :
        /\ IsNewest(i, StoresIn(D, k))
        /\ HoldsEntry(facts[k], i)
        /\ facts[k].deleted = \E j \in D : Buries(j, i)

Dates(D, k) ==
    \E i \in StoresIn(D, k) :
        IsOldest(i, StoresIn(D, k)) /\ facts[k].created = log[i].created

Named(D, k) == {i \in StoresIn(D, k) : log[i].agent # NoAgent}

Names(D, k) ==
    IF Named(D, k) = {} THEN facts[k].agent = NoAgent
    ELSE \E i \in Named(D, k) : IsNewest(i, Named(D, k)) /\ facts[k].agent = log[i].agent

Reflects(D, k) ==
    IF StoresIn(D, k) = {} THEN facts[k] = NoRow
    ELSE facts[k] # NoRow /\ Holds(D, k) /\ Dates(D, k) /\ Names(D, k)

\* The entries that the call of p leaves to be applied by later steps, beside the
\* one that it holds.
Left(p) == IF loc[p].replay THEN loc[p].todo ELSE {}

\* The keys whose rows p keeps up with the log: a replay skips expired entries.
Tracked(p) == IF loc[p].replay THEN UnexpiredKeys(loc[p].asof) ELSE PermanentKeys

\* Log entry m is the one that p is about to apply: all others before it are.
Holding(p, m) ==
    /\ m \in Entered \ Left(p)
    /\ loc[p].ent \in {log[m], ReadBack(log[m])}
    /\ \A i \in Entered \ (Left(p) \cup {m}) : EarlierIn(log, i, m)

\* A replay has emptied the tables, or no failure has disturbed the index.
Resetting == {"drop_facts", "create_facts", "create_fact_tags", "parse"}
InOrder(p) == IF loc[p].replay THEN pc[p] \notin Resetting ELSE faults = 0

\* Where a call is, and what it has done to the tables.
CallOK(p) ==
    /\ pc[p] \in {"idle", "down", "lookup", "append"} => ~loc[p].replay
    /\ pc[p] \in Resetting \cup {"next", "count"} => loc[p].replay
    /\ pc[p] \in Resetting \ {"drop_facts"} => facts = [k \in Keys |-> NoRow]
    /\ pc[p] = "create_fact_tags" => "facts" \in tables
    /\ pc[p] = "parse" \/ InOrder(p) => tables = {"facts", "fact_tags"}
    /\ pc[p] = "count" => loc[p].todo = {}

\* Without failures the clock orders the log as it was written, and what is to be
\* appended next.
TimesOrdered(p) ==
    faults = 0 =>
        /\ \A i \in Entered : log[i].time <= now
        /\ \A i, j \in Entered : i < j => log[i].time <= log[j].time
        /\ pc[p] = "append" => /\ loc[p].ent.time <= now
                               /\ \A i \in Entered : log[i].time <= loc[p].ent.time

\* The row that a Put has upserted and whose tags it has yet to join.
TagsPut(p) ==
    LET row == facts[loc[p].ent.key] IN
    pc[p] \in Putting =>
        /\ loc[p].ent.op = "store" /\ row # NoRow /\ row.id = loc[p].rowid
        /\ pc[p] = "clear_tags" => loc[p].pend = row.tags
        /\ pc[p] = "insert_tag" =>
              /\ loc[p].pend \subseteq row.tags
              /\ {tag \in Tags : <<row.id, tag>> \in factTags} = row.tags \ loc[p].pend

\* Every other row has its tags.
OthersJoined(p) ==
    \A k \in Keys : (pc[p] \in Putting /\ k = loc[p].ent.key) \/ TagsJoined(k)

\* The entries that are left to apply are later than the others.
InTurn(p) == \A i \in Entered \ Left(p), j \in Left(p) : EarlierIn(log, i, j)

\* The rows hold what the entries applied so far describe.
RowsReflect(p) ==
    IF pc[p] \in {"upsert", "delete"}
    THEN \E m \in Entered :
            /\ Holding(p, m)
            /\ \A k \in Tracked(p) : Reflects(Entered \ (Left(p) \cup {m}), k)
    ELSE \A k \in Tracked(p) : Reflects(Entered \ Left(p), k)

IndexOK(p) ==
    InOrder(p) => OthersJoined(p) /\ TagsPut(p) /\ InTurn(p) /\ RowsReflect(p)

SoloInv(p) ==
    /\ TypeInv /\ IdsUnique
    /\ CallOK(p) /\ TimesOrdered(p) /\ IndexOK(p)

-----------------------------------------------------------------------------
(* The order of a replay *)

LEMMA EarlierOrders ==
  ASSUME TypeInv, NEW i \in Entered, NEW j \in Entered
  PROVE  /\ ~(EarlierIn(log, i, j) /\ EarlierIn(log, j, i))
         /\ \A l \in Entered : EarlierIn(log, i, j) /\ EarlierIn(log, j, l) => EarlierIn(log, i, l)
<1>1. \A l \in Entered : l \in Nat /\ log[l].time \in Nat
  BY DEF TypeInv, TypeOK, Entered, Entries, EntryRecords
<1> QED
  BY <1>1 DEF EarlierIn

LEMMA NewestIsUnique ==
  ASSUME TypeInv, NEW S \in SUBSET Entered, NEW i, IsNewest(i, S)
  PROVE  Newest(S) = i
<1>1. Newest(S) \in S /\ \A j \in S \ {Newest(S)} : EarlierIn(log, j, Newest(S))
  BY DEF IsNewest, Newest
<1> QED
  BY <1>1, EarlierOrders DEF IsNewest

LEMMA OldestIsUnique ==
  ASSUME TypeInv, NEW S \in SUBSET Entered, NEW i, IsOldest(i, S)
  PROVE  Oldest(S) = i
<1>1. Oldest(S) \in S /\ \A j \in S \ {Oldest(S)} : EarlierIn(log, Oldest(S), j)
  BY DEF IsOldest, Oldest
<1> QED
  BY <1>1, EarlierOrders DEF IsOldest

\* Of the whole log, Reflects is what ReflectsLog says.
LEMMA ReflectsAll ==
  ASSUME TypeInv, NEW k \in Keys, Reflects(Entered, k)
  PROVE  ReflectsLog(k)
<1> DEFINE S == StoresOf(k)
<1>1. S = StoresIn(Entered, k) /\ S \subseteq Entered
  BY DEF StoresOf, StoresIn, Entered
<1>2. CASE S = {}
  BY <1>1, <1>2 DEF Reflects, ReflectsLog
<1>3. CASE S # {}
  <2>1. facts[k] # NoRow /\ Holds(Entered, k) /\ Dates(Entered, k) /\ Names(Entered, k)
    BY <1>1, <1>3 DEF Reflects
  <2>2. HoldsEntry(facts[k], Newest(S)) /\ facts[k].deleted = Buried(Newest(S))
    <3>1. PICK i \in S : /\ IsNewest(i, S)
                         /\ HoldsEntry(facts[k], i)
                         /\ facts[k].deleted = \E j \in Entered : Buries(j, i)
      BY <1>1, <2>1 DEF Holds
    <3>2. Newest(S) = i
      BY <1>1, <3>1, NewestIsUnique
    <3> QED
      BY <3>1, <3>2 DEF Buried, Entered
  <2>3. facts[k].created = log[Oldest(S)].created
    BY <1>1, <2>1, OldestIsUnique DEF Dates
  <2>4. facts[k].agent = AgentOf(S)
    <3>1. Named(Entered, k) = {i \in S : log[i].agent # NoAgent}
      BY <1>1 DEF Named
    <3>2. CASE Named(Entered, k) = {}
      BY <2>1, <3>1, <3>2 DEF Names, AgentOf
    <3>3. CASE Named(Entered, k) # {}
      <4>1. PICK i \in Named(Entered, k) :
                IsNewest(i, Named(Entered, k)) /\ facts[k].agent = log[i].agent
        BY <2>1, <3>3 DEF Names
      <4>2. Newest(Named(Entered, k)) = i
        BY <1>1, <3>1, <4>1, NewestIsUnique
      <4> QED
        BY <3>1, <3>3, <4>1, <4>2 DEF AgentOf
    <3> QED
      BY <3>2, <3>3
  <2> QED
    BY <1>3, <2>1, <2>2, <2>3, <2>4 DEF ReflectsLog
<1> QED
  BY <1>2, <1>3

-----------------------------------------------------------------------------
(* What a statement does to the row of a key *)

\* A row stays as the entries D describe it while it and they stay.
LEMMA ReflectsKept ==
  ASSUME NEW D \in SUBSET Entered, NEW k \in Keys, Reflects(D, k),
         facts'[k] = facts[k], \A i \in D : log'[i] = log[i]
  PROVE  Reflects(D, k)'
<1>1. StoresIn(D, k)' = StoresIn(D, k) /\ Named(D, k)' = Named(D, k)
  BY DEF StoresIn, Named
<1>2. StoresIn(D, k) \subseteq D /\ Named(D, k) \subseteq D
  BY DEF StoresIn, Named
<1>3. \A i, j \in D : /\ EarlierIn(log, i, j)' = EarlierIn(log, i, j)
                      /\ Buries(j, i)' = Buries(j, i)
                      /\ HoldsEntry(facts[k], i)' = HoldsEntry(facts[k], i)
  BY DEF EarlierIn, Buries, HoldsEntry
<1>4. ASSUME NEW S \in SUBSET D, NEW i \in D
      PROVE  IsNewest(i, S)' = IsNewest(i, S) /\ IsOldest(i, S)' = IsOldest(i, S)
  BY <1>3 DEF IsNewest, IsOldest
<1>5. Holds(D, k) => Holds(D, k)'
  BY <1>1, <1>2, <1>3, <1>4 DEF Holds
<1>6. Dates(D, k) => Dates(D, k)'
  BY <1>1, <1>2, <1>4 DEF Dates
<1>7. Names(D, k) => Names(D, k)'
  BY <1>1, <1>2, <1>4 DEF Names
<1> QED
  BY <1>1, <1>5, <1>6, <1>7 DEF Reflects

\* An entry that stores another key says nothing of k.
LEMMA OtherStore ==
  ASSUME NEW D \in SUBSET Entered, NEW k \in Keys, Reflects(D, k),
         NEW m \in Entered, log[m].op = "store", log[m].key # k
  PROVE  Reflects(D \cup {m}, k)
<1>1. /\ StoresIn(D \cup {m}, k) = StoresIn(D, k)
      /\ Named(D \cup {m}, k) = Named(D, k)
  BY DEF StoresIn, Named
<1>2. \A i : ~Buries(m, i)
  BY DEF Buries
<1>3. \A i : (\E j \in D \cup {m} : Buries(j, i)) = (\E j \in D : Buries(j, i))
  BY <1>2
<1> QED
  BY <1>1, <1>3 DEF Reflects, Holds, Dates, Names

\* The upsert of a store entry that is later than D.
LEMMA ApplyStore ==
  ASSUME TypeInv, NEW D \in SUBSET Entered, NEW k \in Keys, Reflects(D, k),
         NEW m \in Entered \ D, \A i \in D : EarlierIn(log, i, m),
         log[m].op = "store", log[m].key = k,
         NEW e \in {log[m], ReadBack(log[m])}, NEW id \in Nat,
         log' = log, facts'[k] = Upserted(facts[k], id, e)
  PROVE  Reflects(D \cup {m}, k)'
<1> DEFINE row == Upserted(facts[k], id, e)
<1>0. PICK S \in SUBSET D, N \in SUBSET D : S = StoresIn(D, k) /\ N = Named(D, k)
  BY DEF StoresIn, Named
<1>1. log[m] \in EntryRecords
  BY DEF TypeInv, TypeOK, Entered, Entries
<1>2. /\ e.key = k /\ e.op = "store" /\ e.tags = log[m].tags /\ e.agent = log[m].agent
      /\ e.created = log[m].created /\ e.time = log[m].time
      /\ e.val \in {log[m].val, ParsedBody[log[m].val]}
      /\ e.ttl \in {log[m].ttl, WrittenTtl(log[m].ttl)}
  BY <1>1 DEF ReadBack, EntryRecords
<1>3. /\ StoresIn(D \cup {m}, k)' = S \cup {m}
      /\ Named(D \cup {m}, k)' = IF log[m].agent # NoAgent THEN N \cup {m} ELSE N
  BY <1>0 DEF StoresIn, Named
<1>4. /\ row.object = e.val /\ row.tags = e.tags /\ row.ttl = e.ttl
      /\ row.updated = e.time /\ row.deleted = FALSE
      /\ row.agent = IF facts[k] # NoRow /\ e.agent = NoAgent THEN facts[k].agent ELSE e.agent
      /\ row.created = IF facts[k] = NoRow THEN e.created ELSE facts[k].created
  BY DEF Upserted
<1>5. row # NoRow
  <2>1. e \in Entries
    BY ReadBackType DEF TypeInv, TypeOK, Entered
  <2>2. row \in Rows
    BY <1>2, <2>1, UpsertedType DEF TypeInv, TypeOK
  <2> QED
    BY <2>2, NoRowAssumption
<1>6. facts'[k] = row /\ \A i, j \in Entered : EarlierIn(log, i, j)' = EarlierIn(log, i, j)
  BY DEF EarlierIn
<1> HIDE DEF row
<1>7. \A i \in D : ~EarlierIn(log, m, i)
  BY EarlierOrders
<1>8. Holds(D \cup {m}, k)'
  <2>1. IsNewest(m, S \cup {m})'
    BY <1>3, <1>6 DEF IsNewest
  <2>2. HoldsEntry(facts[k], m)'
    BY <1>2, <1>4, <1>6 DEF HoldsEntry
  <2>3. ~EarlierIn(log, m, m)
    BY EarlierOrders
  <2>4. \A j \in D \cup {m} : ~Buries(j, m)'
    BY <1>6, <1>7, <2>3 DEF Buries
  <2> QED
    BY <1>3, <1>4, <1>6, <2>1, <2>2, <2>4 DEF Holds
<1>9. Dates(D \cup {m}, k)'
  <2>1. CASE facts[k] = NoRow
    <3>1. S = {}
      BY <1>0, <2>1 DEF Reflects
    <3>2. IsOldest(m, S \cup {m})'
      BY <3>1 DEF IsOldest
    <3> QED
      BY <1>2, <1>3, <1>4, <1>6, <2>1, <3>2 DEF Dates
  <2>2. CASE facts[k] # NoRow
    <3>1. PICK i \in S : IsOldest(i, S) /\ facts[k].created = log[i].created
      BY <1>0, <2>2 DEF Reflects, Dates
    <3>2. IsOldest(i, S \cup {m})'
      BY <1>3, <1>6, <3>1 DEF IsOldest
    <3> QED
      BY <1>3, <1>4, <1>6, <2>2, <3>1, <3>2 DEF Dates
  <2> QED
    BY <2>1, <2>2
<1>10. Names(D \cup {m}, k)'
  <2>1. CASE log[m].agent # NoAgent
    <3>1. IsNewest(m, N \cup {m})'
      BY <1>3, <1>6 DEF IsNewest
    <3> QED
      BY <1>2, <1>3, <1>4, <1>6, <2>1, <3>1 DEF Names
  <2>2. CASE log[m].agent = NoAgent
    <3>1. Named(D \cup {m}, k)' = N
      BY <1>3, <2>2
    <3>2. CASE N = {}
      <4>1. facts[k] # NoRow => facts[k].agent = NoAgent
        BY <1>0, <3>2 DEF Reflects, Names
      <4> QED
        BY <1>2, <1>4, <1>6, <2>2, <3>1, <3>2, <4>1 DEF Names
    <3>3. CASE N # {}
      <4>1. facts[k] # NoRow
        BY <1>0, <3>3 DEF Reflects, Named
      <4>2. PICK i \in N :
                IsNewest(i, N) /\ facts[k].agent = log[i].agent
        BY <1>0, <3>3, <4>1 DEF Reflects, Names
      <4>3. IsNewest(i, N)'
        BY <1>3, <1>6, <3>1, <4>2 DEF IsNewest
      <4> QED
        BY <1>2, <1>4, <1>6, <2>2, <3>1, <3>3, <4>1, <4>2, <4>3 DEF Names
    <3> QED
      BY <3>2, <3>3
  <2> QED
    BY <2>1, <2>2
<1> QED
  BY <1>3, <1>5, <1>6, <1>8, <1>9, <1>10 DEF Reflects

\* A tombstone later than D deletes the row if it covers what the row holds.
LEMMA ApplyTombstone ==
  ASSUME TypeInv, NEW D \in SUBSET Entered, NEW k \in Keys, Reflects(D, k),
         NEW m \in Entered \ D, \A i \in D : EarlierIn(log, i, m),
         log[m].op # "store", log' = log,
         facts[k] = NoRow => facts'[k] = NoRow,
         facts[k] # NoRow =>
            facts'[k] = IF \/ log[m].op = "delete" /\ log[m].key = k
                           \/ log[m].op = "delete_tags" /\ log[m].tags \subseteq facts[k].tags
                        THEN SoftDeleted(facts[k]) ELSE facts[k]
  PROVE  Reflects(D \cup {m}, k)'
<1>0. PICK S \in SUBSET D, N \in SUBSET D : S = StoresIn(D, k) /\ N = Named(D, k)
  BY DEF StoresIn, Named
<1>1. /\ StoresIn(D \cup {m}, k)' = S
      /\ Named(D \cup {m}, k)' = N
  BY <1>0 DEF StoresIn, Named
<1>2. \A i, j \in Entered : EarlierIn(log, i, j)' = EarlierIn(log, i, j)
  BY DEF EarlierIn
<1>3. CASE S = {}
  BY <1>0, <1>1, <1>3 DEF Reflects
<1>4. CASE S # {}
  <2>1. facts[k] # NoRow /\ Holds(D, k) /\ Dates(D, k) /\ Names(D, k)
    BY <1>0, <1>4 DEF Reflects
  <2>2. facts[k] \in Rows
    BY <2>1 DEF TypeInv, TypeOK
  <2>3. /\ facts'[k] \in Rows
        /\ facts'[k].object = facts[k].object /\ facts'[k].tags = facts[k].tags
        /\ facts'[k].ttl = facts[k].ttl /\ facts'[k].updated = facts[k].updated
        /\ facts'[k].created = facts[k].created /\ facts'[k].agent = facts[k].agent
        /\ facts'[k].deleted = \/ facts[k].deleted
                               \/ log[m].op = "delete" /\ log[m].key = k
                               \/ log[m].op = "delete_tags" /\ log[m].tags \subseteq facts[k].tags
    BY <2>1, <2>2 DEF SoftDeleted, Rows
  <2>4. facts'[k] # NoRow
    BY <2>3, NoRowAssumption
  <2>5. Holds(D \cup {m}, k)'
    <3>1. PICK i \in S : /\ IsNewest(i, S)
                         /\ HoldsEntry(facts[k], i)
                         /\ facts[k].deleted = \E j \in D : Buries(j, i)
      BY <1>0, <2>1 DEF Holds
    <3>2. i \in D /\ log[i].key = k /\ log[i].tags = facts[k].tags
      BY <1>0, <3>1 DEF StoresIn, HoldsEntry
    <3>3. IsNewest(i, S)'
      BY <1>1, <1>2, <3>1 DEF IsNewest
    <3>4. HoldsEntry(facts[k], i)'
      BY <2>3, <3>1 DEF HoldsEntry
    <3>5. \A j \in D : Buries(j, i)' = Buries(j, i)
      BY <1>2, <3>2 DEF Buries
    <3>6. Buries(m, i)' = \/ log[m].op = "delete" /\ log[m].key = k
                          \/ log[m].op = "delete_tags" /\ log[m].tags \subseteq facts[k].tags
      BY <1>2, <3>2 DEF Buries
    <3>7. facts'[k].deleted = \E j \in D \cup {m} : Buries(j, i)'
      BY <2>3, <3>1, <3>5, <3>6
    <3> QED
      BY <1>1, <3>3, <3>4, <3>7 DEF Holds
  <2>6. Dates(D \cup {m}, k)'
    <3>1. PICK i \in S : IsOldest(i, S) /\ facts[k].created = log[i].created
      BY <1>0, <2>1 DEF Dates
    <3>2. IsOldest(i, S)'
      BY <1>1, <1>2, <3>1 DEF IsOldest
    <3> QED
      BY <1>1, <2>3, <3>1, <3>2 DEF Dates
  <2>7. Names(D \cup {m}, k)'
    <3>1. CASE N = {}
      BY <1>0, <1>1, <2>1, <2>3, <3>1 DEF Names
    <3>2. CASE N # {}
      <4>1. PICK i \in N :
                IsNewest(i, N) /\ facts[k].agent = log[i].agent
        BY <1>0, <2>1, <3>2 DEF Names
      <4>2. IsNewest(i, N)'
        BY <1>1, <1>2, <4>1 DEF IsNewest
      <4> QED
        BY <1>1, <2>3, <3>2, <4>1, <4>2 DEF Names
    <3> QED
      BY <3>1, <3>2
  <2> QED
    BY <1>1, <1>4, <2>4, <2>5, <2>6, <2>7 DEF Reflects
<1> QED
  BY <1>3, <1>4

-----------------------------------------------------------------------------
(* Steps *)

LEMMA TrackedKeys ==
  ASSUME TypeInv, NEW p \in Procs
  PROVE  /\ Tracked(p) \subseteq Keys
         /\ \A t : PermanentKeys \subseteq UnexpiredKeys(t)
  BY DEF Tracked, PermanentKeys, UnexpiredKeys

\* A step that writes no row and is no end of one: the rows still reflect the log.
LEMMA RowsKept ==
  ASSUME TypeInv, NEW p \in Procs, RowsReflect(p), log' = log, facts' = facts,
         pc[p] \notin {"upsert", "delete"}, pc'[p] \notin {"upsert", "delete"},
         Left(p)' = Left(p), Tracked(p)' \subseteq Tracked(p)
  PROVE  RowsReflect(p)'
<1>1. PICK D \in SUBSET Entered : D = Entered \ Left(p)
  OBVIOUS
<1>2. D = (Entered \ Left(p))'
  BY <1>1 DEF Entered
<1>3. \A k \in Tracked(p) : Reflects(D, k)
  BY <1>1 DEF RowsReflect
<1>4. \A k \in Tracked(p) : Reflects(D, k)'
  BY <1>3, ReflectsKept, TrackedKeys
<1> QED
  BY <1>2, <1>4 DEF RowsReflect

\* A step that leaves the log and the index alone, and begins no write of the
\* index nor ends one.
LEMMA IndexKept ==
  ASSUME TypeInv, NEW p \in Procs, IndexOK(p), InOrder(p),
         log' = log, facts' = facts, factTags' = factTags,
         Left(p)' = Left(p), Tracked(p)' \subseteq Tracked(p),
         pc[p] \notin {"upsert", "delete"} \cup Putting,
         pc'[p] \notin {"upsert", "delete"} \cup Putting
  PROVE  IndexOK(p)'
<1>1. OthersJoined(p)' /\ TagsPut(p)'
  BY DEF IndexOK, OthersJoined, TagsPut, TagsJoined
<1>2. InTurn(p)'
  BY DEF IndexOK, InTurn, Entered, EarlierIn
<1>3. RowsReflect(p)'
  BY RowsKept DEF IndexOK
<1> QED
  BY <1>1, <1>2, <1>3 DEF IndexOK

LEMMA TrackedByLog ==
  ASSUME log' = log
  PROVE  /\ PermanentKeys' = PermanentKeys
         /\ \A t : UnexpiredKeys(t)' = UnexpiredKeys(t)
  BY DEF PermanentKeys, UnexpiredKeys, StoresOf

\* What Put and the deletes leave of the call.
LEMMA AfterWrite ==
  ASSUME TypeInv, NEW p \in Procs, log' = log, PutReturns(p) \/ DeleteReturns(p)
  PROVE  /\ Left(p)' = Left(p) /\ Tracked(p)' = Tracked(p)
         /\ loc'[p].replay = loc[p].replay
         /\ IF loc[p].replay THEN pc'[p] = "next"
            ELSE \/ pc'[p] = "idle"
                 \/ pc'[p] = "append" /\ DeleteReturns(p) /\ loc'[p].ent.time = loc[p].ent.time
<1>1. CASE Return(p) /\ ~loc[p].replay
  <2>1. pc'[p] = "idle" /\ loc'[p].replay = loc[p].replay
    BY <1>1, ReturnType DEF NoLocals, TypeInv, TypeOK, Locals
  <2> QED
    BY <1>1, <2>1, TrackedByLog DEF Left, Tracked
<1>2. CASE loc[p].replay
  <2>1. /\ pc' = [pc EXCEPT ![p] = "next"]
        /\ \/ loc' = [loc EXCEPT ![p].ent = BlankEntry, ![p].rowid = 0, ![p].pend = {}]
           \/ loc' = [loc EXCEPT ![p].ent = BlankEntry]
    <3>1. DeleteReturns(p) => /\ pc' = [pc EXCEPT ![p] = "next"]
                              /\ loc' = [loc EXCEPT ![p].ent = BlankEntry]
      BY <1>2 DEF DeleteReturns, Goto
    <3> QED
      BY <1>2, <3>1 DEF PutReturns, Goto
  <2>2. /\ loc'[p].replay = loc[p].replay /\ loc'[p].todo = loc[p].todo
        /\ loc'[p].asof = loc[p].asof
    BY <2>1 DEF TypeInv, TypeOK, Locals
  <2>3. pc'[p] = "next"
    BY <2>1 DEF TypeInv, TypeOK
  <2> QED
    BY <1>2, <2>2, <2>3, TrackedByLog DEF Left, Tracked
<1>3. CASE ~loc[p].replay /\ DeleteReturns(p) /\ ~Return(p)
  <2> DEFINE e == TagsTombstone(loc[p].pend, loc[p].ent.time)
  <2>1. pc' = [pc EXCEPT ![p] = "append"] /\ loc' = [loc EXCEPT ![p].pend = {}, ![p].ent = e]
    BY <1>3 DEF DeleteReturns, Goto
  <2>2. e.time = loc[p].ent.time
    BY DEF TagsTombstone, BlankEntry
  <2> HIDE DEF e
  <2>3. /\ pc'[p] = "append" /\ loc'[p].replay = loc[p].replay
        /\ loc'[p].ent = e
    BY <2>1 DEF TypeInv, TypeOK, Locals
  <2> QED
    BY <1>3, <2>2, <2>3, TrackedByLog DEF Left, Tracked
<1> QED
  BY <1>1, <1>2, <1>3 DEF PutReturns

\* The entry that p holds, as far as the writes of the index go.
LEMMA HeldEntry ==
  ASSUME TypeInv, NEW p \in Procs, NEW m \in Entered, Holding(p, m)
  PROVE  /\ loc[p].ent.op = log[m].op /\ loc[p].ent.time = log[m].time
         /\ loc[p].ent.key = log[m].key /\ loc[p].ent.tags = log[m].tags
         /\ log[m] \in Entries
<1>1. log[m] \in Entries /\ log[m] \in EntryRecords
  BY DEF TypeInv, TypeOK, Entered, Entries
<1> QED
  BY <1>1 DEF Holding, ReadBack, EntryRecords

LEMMA UpsertIndex ==
  ASSUME TypeInv, IdsUnique, NEW p \in Procs, IndexOK(p), InOrder(p), Upsert(p)
  PROVE  IndexOK(p)'
<1> DEFINE e == loc[p].ent
           row == Upserted(facts[e.key], nextId, e)
<1>1. /\ e.op = "store" /\ e.key \in Keys /\ e \in Entries
      /\ facts \in [Keys -> Rows \cup {NoRow}] /\ nextId \in Nat /\ pc[p] = "upsert"
  BY DEF Upsert, TypeInv, TypeOK, PlacesOK, Locals, Entries
<1>2. /\ facts' = [facts EXCEPT ![e.key] = row]
      /\ loc' = [loc EXCEPT ![p].rowid = row.id, ![p].pend = e.tags]
      /\ pc' = [pc EXCEPT ![p] = "clear_tags"]
      /\ log' = log /\ factTags' = factTags
  BY DEF Upsert, Goto
<1>3. row \in Rows /\ row # NoRow /\ row.tags = e.tags /\ facts'[e.key] = row
  <2>1. row \in Rows
    BY <1>1, UpsertedType
  <2>2. row.tags = e.tags
    BY DEF Upserted
  <2> HIDE DEF row
  <2> QED
    BY <1>1, <1>2, <2>1, <2>2, NoRowAssumption
<1> HIDE DEF row
<1>4. /\ pc'[p] = "clear_tags" /\ loc'[p].rowid = row.id /\ loc'[p].pend = e.tags
      /\ loc'[p].ent = e /\ loc'[p].replay = loc[p].replay /\ loc'[p].todo = loc[p].todo
      /\ loc'[p].asof = loc[p].asof
  BY <1>2 DEF TypeInv, TypeOK, Locals
<1>5. Left(p)' = Left(p) /\ Tracked(p)' = Tracked(p) /\ Entered' = Entered
  BY <1>2, <1>4, TrackedByLog DEF Left, Tracked, Entered
<1>6. OthersJoined(p)'
  <2>1. ASSUME NEW k \in Keys, k # e.key
        PROVE  TagsJoined(k)'
    <3>1. TagsJoined(k)
      BY <1>1, <2>1 DEF IndexOK, OthersJoined, Putting
    <3> QED
      BY <1>1, <1>2, <2>1, <3>1 DEF TagsJoined
  <2> QED
    BY <1>4, <2>1 DEF OthersJoined, Putting
<1>7. TagsPut(p)'
  BY <1>1, <1>3, <1>4 DEF TagsPut
<1>8. InTurn(p)'
  BY <1>2, <1>5 DEF IndexOK, InTurn, EarlierIn
<1>9. RowsReflect(p)'
  <2>1. PICK m \in Entered :
            /\ Holding(p, m)
            /\ \A k \in Tracked(p) : Reflects(Entered \ (Left(p) \cup {m}), k)
    BY <1>1 DEF IndexOK, RowsReflect
  <2>2. PICK D \in SUBSET Entered : D = Entered \ (Left(p) \cup {m})
    OBVIOUS
  <2>3. /\ m \in Entered \ D /\ \A i \in D : EarlierIn(log, i, m)
        /\ e \in {log[m], ReadBack(log[m])}
        /\ log[m].op = "store" /\ log[m].key = e.key
        /\ Entered \ Left(p) = D \cup {m}
    BY <1>1, <2>1, <2>2, HeldEntry DEF Holding
  <2>4. ASSUME NEW k \in Tracked(p)
        PROVE  Reflects(D \cup {m}, k)'
    <3>1. k \in Keys /\ Reflects(D, k)
      BY <2>1, <2>2, <2>4, TrackedKeys
    <3>2. CASE k = e.key
      BY <1>1, <1>2, <1>3, <2>3, <3>1, <3>2, ApplyStore DEF row
    <3>3. CASE k # e.key
      <4>1. Reflects(D \cup {m}, k)
        BY <2>3, <3>1, <3>3, OtherStore
      <4> QED
        BY <1>1, <1>2, <2>3, <3>1, <3>3, <4>1, ReflectsKept
    <3> QED
      BY <3>2, <3>3
  <2> QED
    BY <1>4, <1>5, <2>3, <2>4 DEF RowsReflect
<1> QED
  BY <1>6, <1>7, <1>8, <1>9 DEF IndexOK

\* The statements on fact_tags, which give the row of the entry its tags.
LEMMA TagIndex ==
  ASSUME TypeInv, IdsUnique, NEW p \in Procs, IndexOK(p), InOrder(p),
         ClearTags(p) \/ InsertTag(p)
  PROVE  IndexOK(p)'
<1> DEFINE Joined(id) == {tag \in Tags : <<id, tag>> \in factTags}
<1>1. PICK k0 \in Keys : k0 = loc[p].ent.key
  BY DEF ClearTags, InsertTag, IndexOK, TagsPut, Putting, TypeInv, TypeOK, Locals, Entries
<1>2. /\ pc[p] \in Putting /\ log' = log /\ facts' = facts
      /\ loc[p].ent.op = "store" /\ facts[k0] # NoRow
  BY <1>1 DEF ClearTags, InsertTag, IndexOK, TagsPut, Putting
<1>3. facts[k0] \in Rows
  BY <1>2 DEF TypeInv, TypeOK
<1>4. PICK id \in Nat, T \in SUBSET Tags :
         /\ facts[k0].id = id /\ facts[k0].tags = T /\ loc[p].rowid = id
         /\ pc[p] = "clear_tags" => loc[p].pend = T
         /\ pc[p] = "insert_tag" => loc[p].pend \subseteq T /\ Joined(id) = T \ loc[p].pend
  BY <1>1, <1>2, <1>3 DEF IndexOK, TagsPut, Putting, Rows
<1>5. ASSUME NEW k \in Keys, k # k0
      PROVE  TagsJoined(k)'
  <2>1. facts[k] # NoRow => facts[k].id # id /\ TagsJoined(k)
    BY <1>1, <1>2, <1>4, <1>5 DEF IdsUnique, IndexOK, OthersJoined
  <2>2. CASE ClearTags(p)
    BY <1>2, <1>4, <2>1, <2>2 DEF ClearTags, TagsJoined
  <2>3. CASE InsertTag(p)
    BY <1>2, <1>4, <2>1, <2>3 DEF InsertTag, TagsJoined
  <2> QED
    BY <2>2, <2>3
<1>6. ASSUME PutReturns(p), Joined(id)' = T
      PROVE  IndexOK(p)'
  <2>1. /\ Left(p)' = Left(p) /\ Tracked(p)' = Tracked(p)
        /\ pc'[p] \in {"next", "idle"}
    BY <1>2, <1>6, AfterWrite, PutReturnsType
  <2>2. OthersJoined(p)' /\ TagsPut(p)'
    <3>1. TagsJoined(k0)'
      BY <1>2, <1>4, <1>6 DEF TagsJoined
    <3> QED
      BY <1>5, <2>1, <3>1 DEF OthersJoined, TagsPut, Putting
  <2>3. InTurn(p)'
    BY <1>2, <2>1 DEF IndexOK, InTurn, Entered, EarlierIn
  <2>4. RowsReflect(p)'
    BY <1>2, <2>1, RowsKept DEF IndexOK, Putting
  <2> QED
    BY <2>2, <2>3, <2>4 DEF IndexOK
<1>7. ASSUME pc'[p] = "insert_tag", loc'[p].ent = loc[p].ent, loc'[p].rowid = id,
             loc'[p].replay = loc[p].replay, loc'[p].todo = loc[p].todo,
             loc'[p].asof = loc[p].asof,
             loc'[p].pend \subseteq T, Joined(id)' = T \ loc'[p].pend
      PROVE  IndexOK(p)'
  <2>1. Left(p)' = Left(p) /\ Tracked(p)' = Tracked(p)
    BY <1>2, <1>7, TrackedByLog DEF Left, Tracked
  <2>2. OthersJoined(p)'
    BY <1>1, <1>5, <1>7 DEF OthersJoined, Putting
  <2>3. TagsPut(p)'
    BY <1>1, <1>2, <1>4, <1>7 DEF TagsPut
  <2>4. InTurn(p)'
    BY <1>2, <2>1 DEF IndexOK, InTurn, Entered, EarlierIn
  <2>5. RowsReflect(p)'
    BY <1>2, <1>7, <2>1, RowsKept DEF IndexOK, Putting
  <2> QED
    BY <2>2, <2>3, <2>4, <2>5 DEF IndexOK
<1>8. CASE ClearTags(p)
  <2>1. Joined(id)' = {} /\ loc[p].pend = T
    BY <1>4, <1>8 DEF ClearTags
  <2>2. CASE loc[p].pend = {}
    BY <1>6, <1>8, <2>1, <2>2 DEF ClearTags
  <2>3. CASE loc[p].pend # {}
    BY <1>4, <1>7, <1>8, <2>1, <2>3 DEF ClearTags, Goto, TypeInv, TypeOK
  <2> QED
    BY <2>2, <2>3
<1>9. CASE InsertTag(p)
  <2>1. PICK tag \in loc[p].pend :
            /\ factTags' = factTags \cup {<<loc[p].rowid, tag>>}
            /\ IF loc[p].pend = {tag}
               THEN PutReturns(p)
               ELSE /\ loc' = [loc EXCEPT ![p].pend = @ \ {tag}]
                    /\ UNCHANGED pc
    BY <1>9 DEF InsertTag
  <2>2. /\ pc[p] = "insert_tag" /\ loc[p].pend \subseteq T
        /\ Joined(id) = T \ loc[p].pend
    BY <1>4, <1>9 DEF InsertTag
  <2>3. Joined(id)' = (T \ loc[p].pend) \cup {tag}
    BY <1>4, <2>1, <2>2
  <2>4. CASE loc[p].pend = {tag}
    BY <1>6, <2>1, <2>2, <2>3, <2>4
  <2>5. CASE loc[p].pend # {tag}
    <3>1. /\ pc' = pc /\ loc'[p].pend = loc[p].pend \ {tag}
          /\ loc'[p].ent = loc[p].ent /\ loc'[p].rowid = id
          /\ loc'[p].replay = loc[p].replay /\ loc'[p].todo = loc[p].todo
          /\ loc'[p].asof = loc[p].asof
      BY <1>4, <2>1, <2>5 DEF TypeInv, TypeOK, Locals
    <3> QED
      BY <1>7, <2>2, <2>3, <3>1
  <2> QED
    BY <2>4, <2>5
<1> QED
  BY <1>8, <1>9

\* Where all tags are joined, an UPDATE by tags finds the rows that have them.
LEMMA DeletedRows ==
  ASSUME TypeInv, NEW p \in Procs, \A k \in Keys : TagsJoined(k),
         DeleteByEntity(p) \/ DeleteByTags(p), NEW k \in Keys
  PROVE  /\ facts[k] = NoRow => facts'[k] = NoRow
         /\ facts[k] # NoRow =>
               facts'[k] = IF \/ loc[p].ent.op = "delete" /\ loc[p].ent.key = k
                              \/ /\ loc[p].ent.op = "delete_tags"
                                 /\ loc[p].ent.tags \subseteq facts[k].tags
                           THEN SoftDeleted(facts[k]) ELSE facts[k]
         /\ facts'[k] # NoRow => facts'[k].id = facts[k].id /\ facts'[k].tags = facts[k].tags
<1>1. facts[k] \in Rows \cup {NoRow} /\ loc[p].ent.tags \subseteq Tags
  BY DEF TypeInv, TypeOK, Locals, Entries, EntryRecords
<1>2. ASSUME facts[k] # NoRow
      PROVE  TaggedWithAll(facts[k], loc[p].ent.tags, factTags)
                <=> loc[p].ent.tags \subseteq facts[k].tags
  <2>1. facts[k].tags = {tag \in Tags : <<facts[k].id, tag>> \in factTags}
    BY <1>2 DEF TagsJoined
  <2> QED
    BY <1>1, <2>1 DEF TaggedWithAll
<1>3. /\ facts[k] = NoRow => facts'[k] = NoRow
      /\ facts[k] # NoRow =>
            facts'[k] = IF \/ loc[p].ent.op = "delete" /\ loc[p].ent.key = k
                           \/ /\ loc[p].ent.op = "delete_tags"
                              /\ loc[p].ent.tags \subseteq facts[k].tags
                        THEN SoftDeleted(facts[k]) ELSE facts[k]
  <2>1. CASE DeleteByEntity(p)
    BY <2>1 DEF DeleteByEntity
  <2>2. CASE DeleteByTags(p)
    BY <1>2, <2>2 DEF DeleteByTags
  <2> QED
    BY <2>1, <2>2
<1> QED
  BY <1>1, <1>3 DEF SoftDeleted, Rows

LEMMA DeleteIndex ==
  ASSUME TypeInv, NEW p \in Procs, IndexOK(p), InOrder(p),
         DeleteByEntity(p) \/ DeleteByTags(p)
  PROVE  IndexOK(p)'
<1>1. /\ pc[p] = "delete" /\ log' = log /\ factTags' = factTags /\ DeleteReturns(p)
      /\ loc[p].ent.op # "store"
  BY DEF DeleteByEntity, DeleteByTags
<1>2. /\ Left(p)' = Left(p) /\ Tracked(p)' = Tracked(p) /\ Entered' = Entered
      /\ pc'[p] \in {"next", "idle", "append"}
  BY <1>1, AfterWrite, DeleteReturnsType DEF Entered
<1>3. \A k \in Keys : TagsJoined(k)
  BY <1>1 DEF IndexOK, OthersJoined, Putting
<1>4. OthersJoined(p)' /\ TagsPut(p)'
  <2>1. ASSUME NEW k \in Keys
        PROVE  TagsJoined(k)'
    BY <1>1, <1>3, DeletedRows DEF TagsJoined
  <2> QED
    BY <1>2, <2>1 DEF OthersJoined, TagsPut, Putting
<1>5. InTurn(p)'
  BY <1>1, <1>2 DEF IndexOK, InTurn, EarlierIn
<1>6. RowsReflect(p)'
  <2>1. PICK m \in Entered :
            /\ Holding(p, m)
            /\ \A k \in Tracked(p) : Reflects(Entered \ (Left(p) \cup {m}), k)
    BY <1>1 DEF IndexOK, RowsReflect
  <2>2. PICK D \in SUBSET Entered : D = Entered \ (Left(p) \cup {m})
    OBVIOUS
  <2>3. /\ m \in Entered \ D /\ \A i \in D : EarlierIn(log, i, m)
        /\ log[m].op = loc[p].ent.op /\ log[m].key = loc[p].ent.key
        /\ log[m].tags = loc[p].ent.tags
        /\ Entered \ Left(p) = D \cup {m}
    BY <2>1, <2>2, HeldEntry DEF Holding
  <2>4. ASSUME NEW k \in Tracked(p)
        PROVE  Reflects(D \cup {m}, k)'
    <3>1. k \in Keys /\ Reflects(D, k)
      BY <2>1, <2>2, <2>4, TrackedKeys
    <3> QED
      BY <1>1, <1>3, <2>3, <3>1, DeletedRows, ApplyTombstone
  <2> QED
    BY <1>2, <2>3, <2>4 DEF RowsReflect
<1> QED
  BY <1>4, <1>5, <1>6 DEF IndexOK

\* The append of an entry that is no earlier than those of the log.
LEMMA AppendIndex ==
  ASSUME TypeInv, NEW p \in Procs, IndexOK(p), InOrder(p), CallOK(p), TimesOrdered(p),
         AppendEntry(p)
  PROVE  IndexOK(p)'
<1>0. PICK n \in Nat : n = Len(log) + 1
  BY DEF TypeInv, TypeOK
<1>1. /\ pc[p] = "append" /\ ~loc[p].replay /\ faults = 0 /\ loc[p].ent \in Entries
      /\ log \in Seq(Entries) /\ log' = Append(log, loc[p].ent)
      /\ facts' = facts /\ factTags' = factTags /\ loc' = loc
      /\ pc'[p] \in {"upsert", "delete"}
  BY DEF AppendEntry, CallOK, InOrder, Goto, TypeInv, TypeOK, Locals
<1>2. /\ Entered' = Entered \cup {n} /\ n \notin Entered /\ n \in Nat
      /\ log'[n] = loc[p].ent
      /\ \A i \in Entered : log'[i] = log[i] /\ i < n /\ i \in Nat
  BY <1>0, <1>1 DEF Entered
<1>3. Left(p) = {} /\ Left(p)' = {}
  BY <1>1 DEF Left
<1>4. Tracked(p)' \subseteq Tracked(p)
  BY <1>1, <1>2 DEF Tracked, PermanentKeys, StoresOf, Entered
<1>5. OthersJoined(p)' /\ TagsPut(p)' /\ InTurn(p)'
  BY <1>1, <1>3 DEF IndexOK, OthersJoined, TagsPut, InTurn, Putting, TagsJoined
<1>6. PICK D \in SUBSET Entered : D = Entered
  OBVIOUS
<1>7. Entered' = D \cup {n} /\ D = Entered' \ (Left(p)' \cup {n}) /\ n \in Entered'
  BY <1>2, <1>3, <1>6
<1>8. Holding(p, n)'
  <2>1. \A i \in Entered : log[i].time \in Nat /\ loc[p].ent.time \in Nat /\ log[i].time <= loc[p].ent.time
    BY <1>1 DEF TimesOrdered, Entered, TypeInv, TypeOK, Entries, EntryRecords
  <2>2. \A i \in Entered : EarlierIn(log, i, n)'
    BY <1>2, <2>1 DEF EarlierIn
  <2> QED
    BY <1>1, <1>2, <1>3, <1>6, <1>7, <2>2 DEF Holding
<1>9. \A k \in Tracked(p) : Reflects(D, k)'
  <2>1. \A k \in Tracked(p) : Reflects(D, k)
    BY <1>1, <1>3, <1>6 DEF IndexOK, RowsReflect
  <2> QED
    BY <1>1, <1>2, <1>6, <2>1, TrackedKeys, ReflectsKept
<1>10. RowsReflect(p)'
  BY <1>1, <1>4, <1>7, <1>8, <1>9 DEF RowsReflect
<1> QED
  BY <1>5, <1>10 DEF IndexOK

\* A prune removes rows with a TTL, and those reflect no permanent key.
LEMMA PruneIndex ==
  ASSUME TypeInv, NEW p \in Procs, IndexOK(p), InOrder(p), CallOK(p), Prune(p)
  PROVE  IndexOK(p)'
<1>1. /\ pc[p] = "idle" /\ ~loc[p].replay
      /\ UNCHANGED <<log, factTags, pc, loc>>
      /\ \A k \in Keys : facts'[k] = IF Purged(facts[k], now) THEN NoRow ELSE facts[k]
  BY DEF Prune, CallOK
<1>2. Left(p)' = Left(p) /\ Tracked(p)' = Tracked(p) /\ Entered' = Entered
  BY <1>1, TrackedByLog DEF Left, Tracked, Entered
<1>3. OthersJoined(p)' /\ TagsPut(p)' /\ InTurn(p)'
  BY <1>1, <1>2 DEF IndexOK, OthersJoined, TagsPut, TagsJoined, Putting, InTurn, EarlierIn
<1>4. PICK D \in SUBSET Entered : D = Entered \ Left(p)
  OBVIOUS
<1>5. ASSUME NEW k \in Tracked(p)
      PROVE  Reflects(D, k)'
  <2>1. k \in Keys /\ k \in PermanentKeys /\ Reflects(D, k)
    BY <1>1, <1>4, <1>5, TrackedKeys DEF IndexOK, RowsReflect, Tracked
  <2>2. ~Purged(facts[k], now)
    <3>1. SUFFICES ASSUME facts[k] # NoRow PROVE ~(facts[k].ttl > 0)
      BY DEF Purged
    <3>2. PICK i \in StoresIn(D, k) : HoldsEntry(facts[k], i)
      BY <2>1, <3>1 DEF Reflects, Holds
    <3>3. log[i].ttl <= 0 /\ log[i].ttl \in Int
      BY <1>4, <2>1, <3>2 DEF PermanentKeys, StoresOf, StoresIn, Entered, TypeInv, TypeOK,
                              Entries, EntryRecords
    <3> QED
      BY <3>2, <3>3 DEF HoldsEntry, WrittenTtl
  <2> QED
    BY <1>1, <1>4, <2>1, <2>2, ReflectsKept
<1>6. RowsReflect(p)'
  BY <1>1, <1>2, <1>4, <1>5 DEF RowsReflect
<1> QED
  BY <1>3, <1>6 DEF IndexOK

\* A TTL that time.Duration can hold is its own span.
LEMMA SpanHeld ==
  ASSUME NEW ttl \in Int, 0 < ttl, ttl < MaxSpan
  PROVE  Span(ttl) = ttl
<1>1. MaxSpan \in Nat /\ MaxSpan > 0
  BY MaxSpanAssumption
<1>2. ttl + MaxSpan \in 0 .. (2 * MaxSpan - 1)
  BY <1>1
<1>3. (ttl + MaxSpan) % (2 * MaxSpan) = ttl + MaxSpan
  BY <1>1, <1>2
<1> QED
  BY <1>1, <1>3 DEF Span

\* Rescan has emptied the tables and reads the log.
LEMMA ParseIndex ==
  ASSUME TypeInv, NEW p \in Procs, CallOK(p), Parse(p)
  PROVE  IndexOK(p)'
<1>1. /\ pc[p] = "parse" /\ loc' = [loc EXCEPT ![p].todo = 1 .. Len(log), ![p].asof = now]
      /\ pc' = [pc EXCEPT ![p] = "next"] /\ UNCHANGED disk
      /\ loc[p].replay
  BY DEF Parse, Goto, CallOK, Resetting
<1>2. /\ loc'[p].todo = Entered /\ loc'[p].replay /\ pc'[p] = "next"
      /\ facts' = [k \in Keys |-> NoRow] /\ log' = log
  BY <1>1 DEF TypeInv, TypeOK, Locals, Entered, disk, CallOK, Resetting
<1>3. Left(p)' = Entered' /\ Entered' \ Left(p)' = {}
  BY <1>2 DEF Left, Entered
<1>4. OthersJoined(p)' /\ TagsPut(p)' /\ InTurn(p)'
  BY <1>2, <1>3 DEF OthersJoined, TagsPut, TagsJoined, Putting, InTurn
<1>5. \A k \in Keys : Reflects({}, k)'
  BY <1>2 DEF Reflects, StoresIn
<1>6. RowsReflect(p)'
  BY <1>2, <1>3, <1>5 DEF RowsReflect, Tracked, UnexpiredKeys
<1> QED
  BY <1>4, <1>6 DEF IndexOK

\* The loop of Rescan takes the next entry, or skips it because it has expired.
LEMMA ReplayIndex ==
  ASSUME TypeInv, NEW p \in Procs, IndexOK(p), InOrder(p), CallOK(p),
         SkipExpired(p) \/ Replay(p)
  PROVE  IndexOK(p)'
<1>1. pc[p] = "next" /\ UNCHANGED disk /\ loc[p].replay /\ Left(p) = loc[p].todo
  BY DEF SkipExpired, Replay, CallOK, Left
<1>2. PICK m \in loc[p].todo :
         /\ NextInOrder(log, loc[p].todo, m)
         /\ \/ /\ SkipExpired(p) /\ log[m].op = "store" /\ MaySkip(log[m], loc[p].asof)
               /\ loc' = [loc EXCEPT ![p].todo = @ \ {m}] /\ pc' = pc
            \/ /\ Replay(p)
               /\ loc' = [loc EXCEPT ![p].todo = @ \ {m}, ![p].ent = ReadBack(log[m])]
               /\ pc' = [pc EXCEPT ![p] = IF log[m].op = "store" THEN "upsert" ELSE "delete"]
  BY DEF SkipExpired, Replay, Goto
<1>3. m \in Entered /\ log[m] \in Entries /\ loc[p].todo \subseteq Entered
  BY <1>2 DEF TypeInv, TypeOK, PlacesOK, Entered
<1>4. /\ loc'[p].todo = loc[p].todo \ {m} /\ loc'[p].replay = loc[p].replay
      /\ loc'[p].asof = loc[p].asof
      /\ Replay(p) => loc'[p].ent = ReadBack(log[m])
  <2> DEFINE e == ReadBack(log[m])
  <2>1. e \in Entries
    BY <1>3, ReadBackType
  <2> HIDE DEF e
  <2>2. \/ SkipExpired(p) /\ loc' = [loc EXCEPT ![p].todo = @ \ {m}] /\ pc' = pc
        \/ loc' = [loc EXCEPT ![p].todo = @ \ {m}, ![p].ent = e]
    BY <1>2 DEF e
  <2>3. SkipExpired(p) /\ pc' = pc => ~Replay(p)
    BY <1>1 DEF Replay, Goto, TypeInv, TypeOK
  <2> QED
    BY <2>2, <2>3 DEF TypeInv, TypeOK, Locals, e
<1>5. PICK D \in SUBSET Entered : D = Entered \ Left(p)
  OBVIOUS
<1>6. /\ Left(p)' = Left(p) \ {m} /\ Tracked(p)' = Tracked(p) /\ Entered' = Entered
      /\ D = Entered' \ (Left(p)' \cup {m}) /\ m \notin D
      /\ Entered' \ Left(p)' = D \cup {m}
  BY <1>1, <1>2, <1>3, <1>4, <1>5, TrackedByLog DEF Left, Tracked, Entered, disk
<1>7. /\ \A i \in D : EarlierIn(log, i, m)
      /\ \A j \in Left(p)' : EarlierIn(log, m, j)
      /\ \A i \in D, j \in Left(p)' : EarlierIn(log, i, j)
  BY <1>1, <1>2, <1>5, <1>6 DEF IndexOK, InTurn, NextInOrder
<1>8. InTurn(p)'
  BY <1>1, <1>6, <1>7 DEF InTurn, EarlierIn, disk
<1>9. \A k \in Tracked(p) : Reflects(D, k)
  BY <1>1, <1>5 DEF IndexOK, RowsReflect
<1>10. pc'[p] \notin Putting
  BY <1>1, <1>2 DEF Putting, TypeInv, TypeOK
<1>11. OthersJoined(p)' /\ TagsPut(p)'
  BY <1>1, <1>10 DEF IndexOK, OthersJoined, TagsPut, TagsJoined, Putting, disk
<1>12. RowsReflect(p)'
  <2>1. CASE Replay(p)
    <3>1. \A k \in Tracked(p) : Reflects(D, k)'
      BY <1>1, <1>9, TrackedKeys, ReflectsKept DEF disk
    <3>2. Holding(p, m)'
      BY <1>1, <1>3, <1>4, <1>5, <1>6, <1>7, <2>1 DEF Holding, EarlierIn, disk
    <3>3. pc'[p] \in {"upsert", "delete"}
      BY <2>1 DEF Replay, Goto, TypeInv, TypeOK
    <3>4. m \in Entered' /\ \A k \in Tracked(p)' : Reflects(Entered \ (Left(p) \cup {m}), k)'
      BY <1>3, <1>6, <3>1
    <3> QED
      BY <3>2, <3>3, <3>4 DEF RowsReflect
  <2>2. CASE ~Replay(p)
    <3>1. /\ log[m].op = "store" /\ MaySkip(log[m], loc[p].asof) /\ pc'[p] = "next"
      BY <1>1, <1>2, <2>2
    <3>2. log[m].key \notin Tracked(p)
      <4>1. log[m].ttl \in Int /\ log[m].time \in Nat /\ loc[p].asof \in Nat
        BY <1>3 DEF Entries, EntryRecords, TypeInv, TypeOK, Locals
      <4>2. /\ log[m].ttl > 0
            /\ log[m].ttl < MaxSpan => ~(log[m].time + log[m].ttl > loc[p].asof)
        BY <3>1, <4>1, SpanHeld DEF MaySkip
      <4>3. m \in StoresOf(log[m].key)
        BY <1>3, <3>1 DEF StoresOf, Entered
      <4> QED
        BY <1>1, <4>1, <4>2, <4>3 DEF Tracked, UnexpiredKeys
    <3>3. ASSUME NEW k \in Tracked(p)
          PROVE  Reflects(D \cup {m}, k)'
      <4>1. Reflects(D \cup {m}, k)
        BY <1>3, <1>9, <3>1, <3>2, <3>3, TrackedKeys, OtherStore
      <4> QED
        BY <1>1, <1>3, <3>3, <4>1, TrackedKeys, ReflectsKept DEF disk
    <3> QED
      BY <1>6, <3>1, <3>3 DEF RowsReflect
  <2> QED
    BY <2>1, <2>2
<1> QED
  BY <1>8, <1>11, <1>12 DEF IndexOK

\* A statement finds no table only where a failure has stopped a rescan before.
LEMMA TableMissing ==
  ASSUME TypeInv, NEW p \in Procs, CallOK(p), NoSuchTable(p)
  PROVE  faults # 0
<1>1. ~InOrder(p) \/ tables = {"facts", "fact_tags"}
  BY DEF CallOK
<1>2. Needs(p) \subseteq {"facts", "fact_tags"}
  BY DEF Needs
<1>3. pc[p] \in Resetting => Needs(p) = {}
  BY DEF Needs, Resetting
<1>4. ~InOrder(p) /\ pc[p] \notin Resetting
  BY <1>1, <1>2, <1>3 DEF NoSuchTable
<1> QED
  BY <1>4 DEF InOrder

LEMMA CallReturns ==
  ASSUME TypeInv, NEW p \in Procs, CallOK(p), Return(p), tables' = tables,
         faults' # 0 \/ (faults' = faults /\ InOrder(p))
  PROVE  CallOK(p)'
<1>1. pc'[p] = "idle" /\ loc'[p].replay = FALSE
  BY ReturnType DEF NoLocals
<1>2. InOrder(p)' => tables' = {"facts", "fact_tags"}
  BY <1>1 DEF InOrder, CallOK
<1> QED
  BY <1>1, <1>2 DEF CallOK, Resetting

LEMMA CallNext ==
  ASSUME NEW p \in Procs, Procs = {p}, TypeInv, CallOK(p), [Next]_vars
  PROVE  CallOK(p)'
<1>1. pc \in [Procs -> Places] /\ loc \in [Procs -> Locals]
  BY DEF TypeInv, TypeOK
<1> DEFINE Full == {"facts", "fact_tags"}
\* A step that stays within a call, and whose place says what the call must be.
<1>2. ASSUME loc'[p].replay = loc[p].replay, tables' = tables, faults' = faults,
             pc[p] \notin Resetting, pc'[p] \notin Resetting \cup {"count"},
             pc'[p] \in {"idle", "down", "lookup", "append"} => ~loc[p].replay,
             pc'[p] = "next" => loc[p].replay
      PROVE  CallOK(p)'
  BY <1>2 DEF CallOK, InOrder, Resetting
<1>3. CASE LookUp(p)
  <2>1. pc[p] = "lookup" /\ UNCHANGED <<tables, faults>>
    BY <1>3 DEF LookUp, disk
  <2>2. CASE Return(p)
    BY <2>1, <2>2, CallReturns DEF CallOK, InOrder
  <2>3. CASE ~Return(p)
    BY <1>1, <1>2, <1>3, <2>1, <2>3 DEF LookUp, Goto, Locals, CallOK, Resetting
  <2> QED
    BY <2>2, <2>3
<1>4. CASE AppendEntry(p) \/ Upsert(p)
  BY <1>1, <1>2, <1>4 DEF AppendEntry, Upsert, Goto, Locals, CallOK, Resetting
<1>5. CASE ClearTags(p) \/ InsertTag(p)
  <2>1. pc[p] \in Putting /\ UNCHANGED <<log, tables, faults>>
    BY <1>5 DEF ClearTags, InsertTag, Putting
  <2>2. CASE PutReturns(p)
    BY <1>2, <2>1, <2>2, AfterWrite, PutReturnsType DEF Putting, Resetting
  <2>3. CASE ~PutReturns(p)
    <3>1. pc'[p] = "insert_tag" /\ loc'[p].replay = loc[p].replay
      BY <1>1, <1>5, <2>3 DEF ClearTags, InsertTag, Goto, Locals
    <3> QED
      BY <1>2, <2>1, <3>1 DEF Putting, Resetting
  <2> QED
    BY <2>2, <2>3
<1>6. CASE DeleteByEntity(p) \/ DeleteByTags(p)
  <2>1. pc[p] = "delete" /\ DeleteReturns(p) /\ UNCHANGED <<log, tables, faults>>
    BY <1>6 DEF DeleteByEntity, DeleteByTags
  <2> QED
    BY <1>2, <2>1, AfterWrite, DeleteReturnsType DEF Resetting
<1>7. CASE DropFacts(p) \/ CreateFacts(p) \/ CreateFactTags(p)
  <2>1. pc[p] \in Resetting /\ loc' = loc /\ loc[p].replay
    BY <1>7 DEF DropFacts, CreateFacts, CreateFactTags, CallOK, Resetting
  <2>2. pc'[p] \in Resetting \ {"drop_facts"}
    BY <1>1, <1>7 DEF DropFacts, CreateFacts, CreateFactTags, Goto, Resetting
  <2>3. facts' = [k \in Keys |-> NoRow]
    BY <1>7 DEF DropFacts, CreateFacts, CreateFactTags, CallOK, Resetting
  <2>4. pc'[p] = "create_fact_tags" => "facts" \in tables'
    BY <1>1, <1>7 DEF DropFacts, CreateFacts, CreateFactTags, Goto
  <2>5. pc'[p] = "parse" => tables' = Full
    BY <1>1, <1>7 DEF DropFacts, CreateFacts, CreateFactTags, Goto, CallOK, TypeInv, TypeOK
  <2> QED
    BY <2>1, <2>2, <2>3, <2>4, <2>5 DEF CallOK, InOrder, Resetting
<1>8. CASE Parse(p) \/ SkipExpired(p) \/ Replay(p) \/ EndOfReplay(p)
  <2>1. /\ pc[p] \in {"parse", "next"} /\ UNCHANGED <<tables, faults>> /\ loc[p].replay
        /\ tables = Full
    BY <1>8 DEF Parse, SkipExpired, Replay, EndOfReplay, disk, CallOK, InOrder, Resetting
  <2>2. loc'[p].replay
    BY <1>1, <1>8, <2>1 DEF Parse, SkipExpired, Replay, EndOfReplay, Locals
  <2>3. pc'[p] \in {"upsert", "delete", "next", "count"}
    BY <1>1, <1>8 DEF Parse, SkipExpired, Replay, EndOfReplay, Goto
  <2>4. pc'[p] = "count" => loc'[p].todo = {}
    BY <1>1, <1>8 DEF Parse, SkipExpired, Replay, EndOfReplay, Goto
  <2> QED
    BY <2>1, <2>2, <2>3, <2>4 DEF CallOK, Resetting
<1>9. CASE RescanReturns(p)
  BY <1>9, CallReturns DEF RescanReturns, disk, CallOK, InOrder, Resetting
<1>10. CASE NoSuchTable(p) \/ AppendFails(p) \/ StepFails(p)
  <2>1. faults' # 0
    BY <1>10, TableMissing DEF NoSuchTable, AppendFails, StepFails, TypeInv, TypeOK
  <2> QED
    BY <1>10, <2>1, CallReturns DEF NoSuchTable, AppendFails, StepFails, disk
<1>11. ASSUME NEW call \in StoreCalls, BeginStore(p, call)
       PROVE  CallOK(p)'
  BY <1>1, <1>2, <1>11 DEF BeginStore, Goto, Locals, disk, CallOK, Resetting
<1>12. ASSUME NEW call \in ForgetCalls, BeginForget(p, call)
       PROVE  CallOK(p)'
  BY <1>1, <1>2, <1>12 DEF BeginForget, Goto, Locals, disk, CallOK, Resetting
<1>13. CASE BeginRescan(p)
  <2>1. pc'[p] = "drop_facts" /\ loc'[p].replay = TRUE
    BY <1>1, <1>13 DEF BeginRescan, Goto, Locals
  <2> QED
    BY <2>1 DEF CallOK, InOrder, Resetting
<1>14. CASE Prune(p)
  BY <1>2, <1>14 DEF Prune, CallOK, Resetting
<1>15. CASE Crash(p)
  <2>1. pc'[p] = "down" /\ loc'[p].replay = FALSE /\ faults' # 0
    BY <1>1, <1>15 DEF Crash, Goto, NoLocals, TypeInv, TypeOK
  <2> QED
    BY <2>1 DEF CallOK, InOrder, Resetting
<1>16. CASE Restart(p)
  <2>1. pc'[p] = "idle" /\ loc' = loc /\ tables' = Full /\ ~loc[p].replay
    BY <1>1, <1>16 DEF Restart, Goto, CallOK
  <2> QED
    BY <2>1 DEF CallOK, InOrder, Resetting
<1>17. CASE Tick \/ ClockStepsBack \/ UNCHANGED vars
  <2>1. UNCHANGED <<tables, facts, pc, loc>> /\ (faults' = faults \/ faults' # 0)
    BY <1>17 DEF Tick, ClockStepsBack, vars, disk, TypeInv, TypeOK
  <2> QED
    BY <2>1 DEF CallOK, InOrder
<1> QED
  BY <1>3, <1>4, <1>5, <1>6, <1>7, <1>8, <1>9, <1>10, <1>11, <1>12, <1>13, <1>14, <1>15,
     <1>16, <1>17 DEF Next, Step, Begin, Fault

LEMMA TimesNext ==
  ASSUME NEW p \in Procs, Procs = {p}, TypeInv, CallOK(p), TimesOrdered(p), IndexOK(p),
         [Next]_vars
  PROVE  TimesOrdered(p)'
<1>1. /\ pc \in [Procs -> Places] /\ loc \in [Procs -> Locals] /\ log \in Seq(Entries)
      /\ now \in Nat /\ faults \in Nat
  BY DEF TypeInv, TypeOK
<1>2. /\ \A i \in Entered : log[i].time \in Nat
      /\ loc[p].ent.time \in Nat
  BY DEF TypeInv, TypeOK, Locals, Entered, Entries, EntryRecords
\* A step that appends nothing and leaves the clock alone or lets it run.
<1>3. ASSUME log' = log, now' \in Nat, now <= now', faults = 0,
             pc'[p] = "append" =>
                 /\ loc'[p].ent.time \in Nat /\ loc'[p].ent.time <= now
                 /\ \A i \in Entered : log[i].time <= loc'[p].ent.time
      PROVE  TimesOrdered(p)'
  BY <1>1, <1>2, <1>3 DEF TimesOrdered, Entered
<1>4. ASSUME NEW t, t = now, faults = 0
      PROVE  t \in Nat /\ t <= now /\ \A i \in Entered : log[i].time <= t
  BY <1>1, <1>4 DEF TimesOrdered
<1>5. CASE faults' # 0
  BY <1>5 DEF TimesOrdered
<1>6. CASE AppendEntry(p)
  <2>1. /\ log' = Append(log, loc[p].ent) /\ now' = now /\ faults' = faults
        /\ pc'[p] # "append" /\ pc[p] = "append"
    BY <1>1, <1>6 DEF AppendEntry, Goto
  <2>2. PICK n \in Nat : n = Len(log) + 1
    BY <1>1
  <2>3. /\ Entered' = Entered \cup {n} /\ log'[n] = loc[p].ent
        /\ \A i \in Entered : log'[i] = log[i] /\ i < n /\ i \in Nat
    BY <1>1, <2>1, <2>2 DEF Entered, Locals
  <2>4. ASSUME faults = 0
        PROVE  /\ \A i \in Entered' : log'[i].time <= now
               /\ \A i, j \in Entered' : i < j => log'[i].time <= log'[j].time
    <3>1. /\ \A i \in Entered : log[i].time <= now /\ log[i].time <= loc[p].ent.time
          /\ \A i, j \in Entered : i < j => log[i].time <= log[j].time
          /\ loc[p].ent.time <= now
      BY <2>1, <2>4 DEF TimesOrdered
    <3> QED
      BY <1>2, <2>3, <3>1
  <2> QED
    BY <2>1, <2>4 DEF TimesOrdered
<1>7. CASE LookUp(p)
  <2>1. pc'[p] = "append" => loc'[p].ent.time = now
    <3>1. CASE Return(p)
      BY <3>1, ReturnType
    <3>2. CASE ~Return(p)
      <4> DEFINE e == Stamped(loc[p].ent, facts[loc[p].ent.key])
      <4>1. loc[p].ent \in EntryRecords
        BY <1>1 DEF Locals, Entries
      <4>2. e.time = now
        BY <4>1 DEF Stamped, EntryRecords
      <4>3. loc' = [loc EXCEPT ![p].ent = e]
        BY <1>7, <3>2 DEF LookUp
      <4> HIDE DEF e
      <4>4. loc'[p].ent = e
        BY <1>1, <4>3 DEF Locals
      <4> QED
        BY <4>2, <4>4
    <3> QED
      BY <3>1, <3>2
  <2> QED
    BY <1>1, <1>3, <1>4, <1>5, <1>7, <2>1 DEF LookUp, disk
<1>8. ASSUME NEW call \in ForgetCalls, BeginForget(p, call)
      PROVE  TimesOrdered(p)'
  <2> DEFINE e == IF call.key # NoKey THEN KeyTombstone(call.key, now)
                                      ELSE TagsTombstone(call.tags, now)
  <2>1. e.time = now
    BY DEF KeyTombstone, TagsTombstone, BlankEntry
  <2>2. loc' = [loc EXCEPT ![p].ent = e, ![p].pend = IF call.key # NoKey THEN call.tags ELSE {}]
    BY <1>8 DEF BeginForget
  <2> HIDE DEF e
  <2>3. loc'[p].ent = e
    BY <1>1, <2>2 DEF Locals
  <2> QED
    BY <1>1, <1>3, <1>4, <1>5, <1>8, <2>1, <2>3 DEF BeginForget, disk
<1>9. CASE DeleteByEntity(p) \/ DeleteByTags(p)
  <2>1. /\ pc[p] = "delete" /\ DeleteReturns(p) /\ UNCHANGED <<now, log, faults>>
    BY <1>9 DEF DeleteByEntity, DeleteByTags
  <2>2. ASSUME pc'[p] = "append", faults = 0
        PROVE  /\ loc'[p].ent.time = loc[p].ent.time /\ loc[p].ent.time <= now
               /\ \A i \in Entered : log[i].time <= loc[p].ent.time
    <3>1. ~loc[p].replay /\ loc'[p].ent.time = loc[p].ent.time
      BY <2>1, <2>2, AfterWrite
    <3>2. PICK m \in Entered : Holding(p, m)
      BY <2>1, <2>2, <3>1 DEF IndexOK, InOrder, RowsReflect
    <3>3. loc[p].ent.time = log[m].time /\ log[m].time <= now
      BY <2>2, <3>2, HeldEntry DEF TimesOrdered
    <3>4. \A i \in Entered \ {m} : EarlierIn(log, i, m)
      BY <3>1, <3>2 DEF Holding, Left
    <3> QED
      BY <1>2, <3>1, <3>3, <3>4 DEF EarlierIn
  <2> QED
    BY <1>1, <1>2, <1>3, <1>5, <2>1, <2>2
<1>10. ASSUME log' = log, now' \in Nat, now <= now', faults' = faults, pc'[p] # "append"
       PROVE  TimesOrdered(p)'
  BY <1>3, <1>5, <1>10
<1>11. CASE Upsert(p) \/ DropFacts(p) \/ CreateFacts(p) \/ CreateFactTags(p) \/ Parse(p)
            \/ EndOfReplay(p) \/ Restart(p) \/ BeginRescan(p) \/ Prune(p)
            \/ SkipExpired(p) \/ Replay(p)
  <2>1. UNCHANGED <<now, log, faults>>
    BY <1>11 DEF Upsert, DropFacts, CreateFacts, CreateFactTags, Parse, EndOfReplay,
       Restart, BeginRescan, Prune, SkipExpired, Replay, disk
  <2>2. pc'[p] # "append"
    BY <1>1, <1>11 DEF Upsert, DropFacts, CreateFacts, CreateFactTags, Parse, EndOfReplay,
       Restart, BeginRescan, Prune, SkipExpired, Replay, Goto
  <2> QED
    BY <1>1, <1>10, <2>1, <2>2
<1>12. CASE RescanReturns(p) \/ NoSuchTable(p)
  BY <1>1, <1>10, <1>12, ReturnType DEF RescanReturns, NoSuchTable, disk
<1>13. CASE ClearTags(p) \/ InsertTag(p)
  <2>1. \/ PutReturns(p)
        \/ Goto(p, "insert_tag")
        \/ UNCHANGED pc /\ pc[p] = "insert_tag"
    BY <1>13 DEF ClearTags, InsertTag
  <2>2. pc'[p] # "append"
    BY <1>1, <2>1, PutReturnsType DEF Goto
  <2> QED
    BY <1>1, <1>10, <1>13, <2>2 DEF ClearTags, InsertTag
<1>14. ASSUME NEW call \in StoreCalls, BeginStore(p, call)
       PROVE  TimesOrdered(p)'
  BY <1>1, <1>10, <1>14 DEF BeginStore, Goto, disk
<1>15. CASE Fault(p) \/ ClockStepsBack
  <2>1. faults' # 0
    BY <1>1, <1>15 DEF Fault, AppendFails, StepFails, Crash, ClockStepsBack
  <2> QED
    BY <1>5, <2>1
<1>16. CASE Tick
  BY <1>1, <1>2, <1>3, <1>5, <1>16 DEF Tick, disk, TimesOrdered
<1>17. CASE UNCHANGED vars
  BY <1>17 DEF vars, disk, TimesOrdered, Entered
<1> QED
  BY <1>6, <1>7, <1>8, <1>9, <1>11, <1>12, <1>13, <1>14, <1>15, <1>16, <1>17
     DEF Next, Step, Begin

LEMMA IndexNext ==
  ASSUME NEW p \in Procs, Procs = {p}, SoloInv(p), [Next]_vars
  PROVE  IndexOK(p)'
<1>1. /\ pc \in [Procs -> Places] /\ loc \in [Procs -> Locals]
      /\ TypeInv /\ IdsUnique /\ CallOK(p) /\ TimesOrdered(p) /\ IndexOK(p)
  BY DEF SoloInv, TypeInv, TypeOK
<1>2. CASE ~InOrder(p)'
  BY <1>2 DEF IndexOK
\* A step of a call in order that leaves the log and the index alone.
<1>3. ASSUME InOrder(p), UNCHANGED <<log, facts, factTags>>,
             pc[p] \notin {"upsert", "delete"} \cup Putting,
             pc'[p] \notin {"upsert", "delete"} \cup Putting,
             loc'[p].replay = loc[p].replay, loc'[p].todo = loc[p].todo,
             loc'[p].asof = loc[p].asof
      PROVE  IndexOK(p)'
  <2>1. Left(p)' = Left(p) /\ Tracked(p)' = Tracked(p)
    BY <1>3, TrackedByLog DEF Left, Tracked
  <2> QED
    BY <1>1, <1>3, <2>1, IndexKept
\* A call outside a rescan is in order after a step only if it was before.
<1>4. ASSUME ~loc[p].replay, InOrder(p)', faults' = faults, ~loc'[p].replay
      PROVE  InOrder(p)
  BY <1>4 DEF InOrder
<1>5. CASE LookUp(p)
  <2>1. /\ pc[p] = "lookup" /\ UNCHANGED <<log, facts, factTags, faults>> /\ ~loc[p].replay
    BY <1>1, <1>5 DEF LookUp, disk, CallOK
  <2>2. /\ pc'[p] \in {"idle", "append"}
        /\ loc'[p].replay = FALSE
        /\ Left(p)' = Left(p) /\ Tracked(p)' = Tracked(p)
    <3>1. CASE Return(p)
      BY <1>1, <2>1, <3>1, ReturnType, TrackedByLog DEF NoLocals, Left, Tracked
    <3>2. CASE ~Return(p)
      BY <1>1, <1>5, <2>1, <3>2, TrackedByLog DEF LookUp, Goto, Locals, Left, Tracked
    <3> QED
      BY <3>1, <3>2
  <2> QED
    BY <1>1, <1>2, <1>4, <2>1, <2>2, IndexKept DEF Putting
<1>6. CASE AppendEntry(p)
  <2>1. pc[p] = "append" /\ loc' = loc /\ faults' = faults /\ ~loc[p].replay
    BY <1>1, <1>6 DEF AppendEntry, CallOK
  <2> QED
    BY <1>1, <1>2, <1>4, <1>6, <2>1, AppendIndex
<1>7. CASE Upsert(p)
  <2>1. loc'[p].replay = loc[p].replay /\ faults' = faults /\ pc[p] = "upsert"
    BY <1>1, <1>7 DEF Upsert, Locals
  <2>2. InOrder(p)' => InOrder(p)
    BY <2>1 DEF InOrder, Resetting
  <2> QED
    BY <1>1, <1>2, <1>7, <2>2, UpsertIndex
<1>8. CASE ClearTags(p) \/ InsertTag(p)
  <2>1. log' = log /\ faults' = faults /\ pc[p] \in Putting
    BY <1>8 DEF ClearTags, InsertTag, Putting
  <2>2. loc'[p].replay = loc[p].replay
    <3>1. CASE PutReturns(p)
      BY <1>1, <2>1, <3>1, AfterWrite
    <3>2. CASE ~PutReturns(p)
      BY <1>1, <1>8, <3>2 DEF ClearTags, InsertTag, Locals
    <3> QED
      BY <3>1, <3>2
  <2>3. InOrder(p)' => InOrder(p)
    BY <2>1, <2>2 DEF InOrder, Resetting, Putting
  <2> QED
    BY <1>1, <1>2, <1>8, <2>3, TagIndex
<1>9. CASE DeleteByEntity(p) \/ DeleteByTags(p)
  <2>1. log' = log /\ faults' = faults /\ pc[p] = "delete" /\ DeleteReturns(p)
    BY <1>9 DEF DeleteByEntity, DeleteByTags
  <2>2. loc'[p].replay = loc[p].replay
    BY <1>1, <2>1, AfterWrite
  <2>3. InOrder(p)' => InOrder(p)
    BY <2>1, <2>2 DEF InOrder, Resetting
  <2> QED
    BY <1>1, <1>2, <1>9, <2>3, DeleteIndex
<1>10. CASE DropFacts(p) \/ CreateFacts(p) \/ CreateFactTags(p) \/ BeginRescan(p)
  <2>1. loc'[p].replay /\ pc'[p] \in Resetting
    BY <1>1, <1>10 DEF DropFacts, CreateFacts, CreateFactTags, BeginRescan, Goto, CallOK,
                       Resetting, Locals
  <2> QED
    BY <1>2, <2>1 DEF InOrder
<1>11. CASE Parse(p)
  BY <1>1, <1>11, ParseIndex
<1>12. CASE SkipExpired(p) \/ Replay(p)
  <2>1. InOrder(p)
    BY <1>1, <1>12 DEF SkipExpired, Replay, InOrder, CallOK, Resetting
  <2> QED
    BY <1>1, <1>12, <2>1, ReplayIndex
<1>13. CASE EndOfReplay(p)
  <2>1. /\ pc[p] = "next" /\ pc'[p] = "count" /\ loc' = loc
        /\ UNCHANGED <<log, facts, factTags>>
    BY <1>1, <1>13 DEF EndOfReplay, Goto, disk
  <2>2. InOrder(p)
    BY <1>1, <2>1 DEF InOrder, CallOK, Resetting
  <2> QED
    BY <1>3, <2>1, <2>2 DEF Putting
<1>14. CASE RescanReturns(p)
  <2>1. /\ pc[p] = "count" /\ pc'[p] = "idle" /\ ~loc'[p].replay
        /\ UNCHANGED <<log, facts, factTags>>
    BY <1>1, <1>14, ReturnType DEF RescanReturns, disk, NoLocals
  <2>2. InOrder(p) /\ loc[p].replay /\ loc[p].todo = {}
    BY <1>1, <2>1 DEF InOrder, CallOK, Resetting
  <2>3. Left(p)' = Left(p) /\ Tracked(p)' \subseteq Tracked(p)
    BY <1>1, <2>1, <2>2, TrackedKeys, TrackedByLog DEF Left, Tracked
  <2> QED
    BY <1>1, <2>1, <2>2, <2>3, IndexKept DEF Putting
<1>15. CASE NoSuchTable(p) \/ AppendFails(p) \/ StepFails(p) \/ Crash(p)
  <2>1. faults' # 0
    BY <1>1, <1>15, TableMissing DEF NoSuchTable, AppendFails, StepFails, Crash, TypeInv, TypeOK
  <2>2. ~loc'[p].replay
    BY <1>1, <1>15, ReturnType DEF NoSuchTable, AppendFails, StepFails, Crash, NoLocals
  <2> QED
    BY <1>2, <2>1, <2>2 DEF InOrder
<1>16. ASSUME NEW call \in StoreCalls, BeginStore(p, call)
       PROVE  IndexOK(p)'
  <2>1. /\ pc[p] = "idle" /\ ~loc[p].replay /\ pc'[p] = "lookup"
        /\ UNCHANGED <<log, facts, factTags, faults>>
        /\ loc'[p].replay = loc[p].replay /\ loc'[p].todo = loc[p].todo
        /\ loc'[p].asof = loc[p].asof
    BY <1>1, <1>16 DEF BeginStore, Goto, disk, CallOK, Locals
  <2> QED
    BY <1>2, <1>3, <1>4, <2>1 DEF Putting
<1>17. ASSUME NEW call \in ForgetCalls, BeginForget(p, call)
       PROVE  IndexOK(p)'
  <2>1. /\ pc[p] = "idle" /\ ~loc[p].replay /\ pc'[p] = "append"
        /\ UNCHANGED <<log, facts, factTags, faults>>
        /\ loc'[p].replay = loc[p].replay /\ loc'[p].todo = loc[p].todo
        /\ loc'[p].asof = loc[p].asof
    BY <1>1, <1>17 DEF BeginForget, Goto, disk, CallOK, Locals
  <2> QED
    BY <1>2, <1>3, <1>4, <2>1 DEF Putting
<1>18. CASE Prune(p)
  <2>1. pc[p] = "idle" /\ UNCHANGED <<pc, loc, faults>>
    BY <1>18 DEF Prune
  <2> QED
    BY <1>1, <1>2, <1>18, <2>1, PruneIndex DEF InOrder
<1>19. CASE Restart(p)
  <2>1. /\ pc[p] = "down" /\ pc'[p] = "idle" /\ ~loc[p].replay /\ loc' = loc
        /\ UNCHANGED <<log, facts, factTags, faults>>
    BY <1>1, <1>19 DEF Restart, Goto, CallOK
  <2> QED
    BY <1>2, <1>3, <1>4, <2>1 DEF Putting
\* The clock moves: a rescan goes by the time that it has read.
<1>20. CASE Tick \/ ClockStepsBack \/ UNCHANGED vars
  <2>1. /\ UNCHANGED <<log, facts, factTags, pc, loc>> /\ (faults' = faults \/ faults' # 0)
    BY <1>1, <1>20 DEF Tick, ClockStepsBack, vars, disk, TypeInv, TypeOK
  <2>2. InOrder(p)' => InOrder(p)
    BY <2>1 DEF InOrder
  <2>3. CASE pc[p] \notin {"upsert", "delete"} \cup Putting
    BY <1>2, <1>3, <2>1, <2>2, <2>3
  <2>4. /\ Left(p)' = Left(p) /\ Tracked(p)' = Tracked(p) /\ Entered' = Entered
    BY <2>1, TrackedByLog DEF Left, Tracked, Entered
  <2>5. OthersJoined(p)' = OthersJoined(p) /\ TagsPut(p)' = TagsPut(p) /\ InTurn(p)' = InTurn(p)
    BY <2>1, <2>4 DEF OthersJoined, TagsPut, TagsJoined, InTurn, EarlierIn
  <2>6. CASE pc[p] \in Putting
    <3>1. RowsReflect(p) => RowsReflect(p)'
      BY <1>1, <2>1, <2>4, <2>6, RowsKept DEF Putting
    <3> QED
      BY <1>1, <1>2, <2>2, <2>5, <3>1 DEF IndexOK
  <2>7. CASE pc[p] \in {"upsert", "delete"} /\ InOrder(p)'
    <3>1. PICK m \in Entered :
              /\ Holding(p, m)
              /\ \A k \in Tracked(p) : Reflects(Entered \ (Left(p) \cup {m}), k)
      BY <1>1, <2>2, <2>7 DEF IndexOK, RowsReflect
    <3>2. PICK D \in SUBSET Entered : D = Entered \ (Left(p) \cup {m})
      OBVIOUS
    <3>3. \A k \in Tracked(p) : Reflects(D, k)'
      BY <1>1, <2>1, <3>1, <3>2, TrackedKeys, ReflectsKept
    <3>4. Holding(p, m)'
      BY <2>1, <2>4, <3>1 DEF Holding, EarlierIn
    <3>5. /\ m \in Entered' /\ pc'[p] \in {"upsert", "delete"}
          /\ \A k \in Tracked(p)' : Reflects(Entered \ (Left(p) \cup {m}), k)'
      BY <2>1, <2>4, <2>7, <3>2, <3>3
    <3>6. RowsReflect(p)'
      BY <3>4, <3>5 DEF RowsReflect
    <3> QED
      BY <1>1, <2>2, <2>5, <2>7, <3>6 DEF IndexOK
  <2> QED
    BY <1>2, <2>3, <2>6, <2>7
<1> QED
  BY <1>5, <1>6, <1>7, <1>8, <1>9, <1>10, <1>11, <1>12, <1>13, <1>14, <1>15, <1>16, <1>17,
     <1>18, <1>19, <1>20 DEF Next, Step, Begin, Fault

LEMMA SoloInit ==
  ASSUME NEW p \in Procs, Init
  PROVE  SoloInv(p)
<1>1. TypeInv /\ IdsUnique
  BY InitType, IdsInit
<1>2. /\ pc[p] = "idle" /\ loc[p] = NoLocals /\ log = <<>> /\ Entered = {}
      /\ facts = [k \in Keys |-> NoRow] /\ tables = {"facts", "fact_tags"}
  BY DEF Init, Entered
<1>3. ~loc[p].replay /\ Left(p) = {}
  BY <1>2 DEF NoLocals, Left
<1>4. CallOK(p) /\ TimesOrdered(p)
  BY <1>2, <1>3 DEF CallOK, Resetting, TimesOrdered
<1>5. OthersJoined(p) /\ TagsPut(p) /\ InTurn(p)
  BY <1>2, <1>3 DEF OthersJoined, TagsPut, InTurn, TagsJoined, Putting
<1>6. RowsReflect(p)
  BY <1>1, <1>2, <1>3, TrackedKeys DEF RowsReflect, Reflects, StoresIn
<1> QED
  BY <1>1, <1>4, <1>5, <1>6 DEF SoloInv, IndexOK

LEMMA SoloNext ==
  ASSUME NEW p \in Procs, Procs = {p}, SoloInv(p), [Next]_vars
  PROVE  SoloInv(p)'
<1>1. TypeInv /\ IdsUnique /\ CallOK(p) /\ TimesOrdered(p) /\ IndexOK(p)
  BY DEF SoloInv
<1>2. TypeInv' /\ IdsUnique'
  BY <1>1, NextType, IdsNext
<1>3. CallOK(p)' /\ TimesOrdered(p)' /\ IndexOK(p)'
  BY <1>1, CallNext, TimesNext, IndexNext
<1> QED
  BY <1>2, <1>3 DEF SoloInv

\* Where no write of the index is under way, it is consistent on what is tracked.
LEMMA InOrderConsistent ==
  ASSUME NEW p \in Procs, SoloInv(p), InOrder(p), Left(p) = {},
         pc[p] \notin {"upsert", "delete"} \cup Putting
  PROVE  ConsistentOn(Tracked(p))
<1>1. TypeInv /\ IndexOK(p)
  BY DEF SoloInv
<1>2. \A k \in Keys : TagsJoined(k)
  BY <1>1 DEF IndexOK, OthersJoined
<1>3. \A k \in Tracked(p) : Reflects(Entered, k)
  BY <1>1 DEF IndexOK, RowsReflect
<1> QED
  BY <1>1, <1>2, <1>3, TrackedKeys, ReflectsAll DEF ConsistentOn

-----------------------------------------------------------------------------
(* What one process can rely on *)

\* INV1 for a process that has the directory to itself: between its calls the index
\* is exactly what the log describes, as to value, tags, agent, dates and deletion
\* of every fact that never had a TTL, after any number of stores, forgets, prunes
\* and rescans, and although a call writes the log and the two tables in steps.
THEOREM IndexIsDerived ==
  ASSUME NEW p, Procs = {p}
  PROVE  Spec => []IndexFollowsLog
<1>1. p \in Procs
  OBVIOUS
<1>2. SoloInv(p) => IndexFollowsLog
  <2> SUFFICES ASSUME SoloInv(p), Quiet, faults = 0 PROVE Consistent
    BY DEF IndexFollowsLog
  <2>1. pc[p] = "idle" /\ ~loc[p].replay
    BY <1>1 DEF Quiet, SoloInv, CallOK
  <2>2. ConsistentOn(Tracked(p))
    BY <1>1, <2>1, InOrderConsistent DEF InOrder, Left, Putting
  <2> QED
    BY <2>1, <2>2 DEF Consistent, Tracked
<1>3. Init => SoloInv(p)
  BY <1>1, SoloInit
<1>4. SoloInv(p) /\ [Next]_vars => SoloInv(p)'
  BY <1>1, SoloNext
<1> QED
  BY <1>2, <1>3, <1>4, PTL DEF Spec

\* INV2 for the same process: a Rescan that gets to its end has made the index what
\* the log describes again, with the facts whose TTL is still running, whatever
\* calls, rescans and prunes failed or crashed half-way before it, and however often
\* the clock was set back.
THEOREM RescanRecovers ==
  ASSUME NEW p, Procs = {p}
  PROVE  Spec => []RescanRestores
<1>1. p \in Procs
  OBVIOUS
<1>2. SoloInv(p) => RescanRestores
  <2> SUFFICES ASSUME SoloInv(p), pc[p] = "count"
               PROVE  ConsistentOn(UnexpiredKeys(loc[p].asof))
    BY DEF RescanRestores
  <2>1. loc[p].replay /\ loc[p].todo = {}
    BY DEF SoloInv, CallOK
  <2>2. ConsistentOn(Tracked(p))
    BY <1>1, <2>1, InOrderConsistent DEF InOrder, Left, Putting, Resetting
  <2> QED
    BY <2>1, <2>2 DEF Tracked
<1>3. Init => SoloInv(p)
  BY <1>1, SoloInit
<1>4. SoloInv(p) /\ [Next]_vars => SoloInv(p)'
  BY <1>1, SoloNext
<1> QED
  BY <1>2, <1>3, <1>4, PTL DEF Spec

LEMMA NoFaults ==
  ASSUME MaxFaults = 0, TypeInv, faults = 0, [Next]_vars
  PROVE  faults' = 0
<1>1. ASSUME NEW p \in Procs, Step(p)
      PROVE  faults' = faults
  BY <1>1 DEF Step, LookUp, AppendEntry, Upsert, ClearTags, InsertTag, DeleteByEntity,
     DeleteByTags, DropFacts, CreateFacts, CreateFactTags, Parse, SkipExpired, Replay,
     EndOfReplay, RescanReturns, NoSuchTable
<1>2. ASSUME NEW p \in Procs, Begin(p) \/ Restart(p)
      PROVE  faults' = faults
  BY <1>2 DEF Begin, BeginStore, BeginForget, BeginRescan, Prune, Restart
<1>3. ASSUME NEW p \in Procs, Fault(p)
      PROVE  FALSE
  BY <1>3 DEF Fault, AppendFails, StepFails, Crash
<1>4. ASSUME Tick \/ ClockStepsBack \/ UNCHANGED vars
      PROVE  faults' = faults
  BY <1>4 DEF Tick, ClockStepsBack, vars
<1> QED
  BY <1>1, <1>2, <1>3, <1>4 DEF Next

\* Where nothing fails, the soft deletion of memory_forget by tags, and its replay
\* too, hits only facts that carry all the tags asked for: the join table that the
\* UPDATE goes by is complete and has no tag left over at every moment at which one
\* is made.
THEOREM TagDeletionsAreExact ==
  ASSUME NEW q, Procs = {q}, MaxFaults = 0
  PROVE  Spec => TagDeletionsMatch
<1>1. q \in Procs
  OBVIOUS
<1> DEFINE Inv == SoloInv(q) /\ faults = 0
<1>2. Init => Inv
  BY <1>1, SoloInit DEF Init
<1>3. Inv /\ [Next]_vars => Inv'
  <2> SUFFICES ASSUME Inv, [Next]_vars PROVE Inv'
    OBVIOUS
  <2> QED
    BY <1>1, SoloNext, NoFaults DEF SoloInv
<1>4. ASSUME Inv, NEW k \in Keys, DeleteByTags(q), facts[k] # NoRow, facts'[k] # facts[k]
      PROVE  loc[q].ent.tags \subseteq facts[k].tags
  <2>1. TypeInv /\ IndexOK(q) /\ pc[q] = "delete" /\ loc[q].ent.op = "delete_tags"
    BY <1>4 DEF SoloInv, DeleteByTags
  <2>2. \A l \in Keys : TagsJoined(l)
    BY <1>4, <2>1 DEF IndexOK, InOrder, OthersJoined, Putting, Resetting
  <2> QED
    BY <1>1, <1>4, <2>1, <2>2, DeletedRows
<1>5. Inv /\ [Next]_vars => [\A p \in Procs, k \in Keys :
                 /\ DeleteByTags(p)
                 /\ facts[k] # NoRow
                 /\ facts'[k] # facts[k]
                 => loc[p].ent.tags \subseteq facts[k].tags]_vars
  BY <1>4
<1> HIDE DEF Inv
<1> QED
  BY <1>2, <1>3, <1>5, PTL DEF Spec, TagDeletionsMatch
-----------------------------------------------------------------------------
\* What the theorem is about: one process, whose statements do not fail; facts
\* without a TTL; bodies that parsing leaves as they are once it has parsed them.
Setting(p) ==
    /\ Procs = {p}
    /\ MaxFaults = 0
    /\ \A call \in StoreCalls : call.ttl = 0
    /\ \A v \in Values : ParsedBody[ParsedBody[v]] = ParsedBody[v]

Seen == [k \in Keys |-> IF Rescanning THEN LogMemory(k) ELSE IndexMemory(k)]

\* No entry of the log has a TTL, nor has one that is on its way there.
NoTtl(p) ==
    /\ \A i \in Entered : log[i].ttl = 0
    /\ loc[p].ent.ttl = 0

\* A store that has passed the capacity check still fits: its key is live, or the
\* table has room.
Fits(p) ==
    /\ pc[p] = "lookup" => loc[p].full = (LiveCount >= MaxEntries)
    /\ pc[p] \in {"append", "upsert"} /\ loc[p].ent.op = "store" /\ ~loc[p].replay =>
          loc[p].ent.key \in LiveKeys \/ LiveCount < MaxEntries

\* ToolForget buries no empty set of tags.
NamesTags(p) ==
    pc[p] \in {"append", "delete"} /\ loc[p].ent.op = "delete_tags" /\ ~loc[p].replay =>
        loc[p].ent.tags # {}

MemoryInv(p) ==
    /\ SoloInv(p) /\ faults = 0
    /\ NoTtl(p) /\ NamesTags(p)
    /\ IsFiniteSet(LiveKeys) /\ Fits(p)

-----------------------------------------------------------------------------
(* The invariant *)

LEMMA LiveByRows ==
  ASSUME facts' = facts
  PROVE  LiveKeys' = LiveKeys /\ LiveCount' = LiveCount
<1>1. LiveKeys' = LiveKeys
  BY LiveRow DEF LiveKeys
<1> QED
  BY <1>1 DEF LiveCount

LEMMA LiveFinite ==
  ASSUME NEW p \in Procs, Procs = {p}, TypeInv, [Next]_vars, IsFiniteSet(LiveKeys)
  PROVE  IsFiniteSet(LiveKeys)'
<1>1. LiveKeys' \subseteq LiveKeys \cup {loc[p].ent.key}
  BY BecomesLive DEF Occupied
<1>2. IsFiniteSet(LiveKeys \cup {loc[p].ent.key})
  BY FS_AddElement
<1> QED
  BY <1>1, <1>2, FS_Subset

\* A step that leaves the log alone and ends at no lookup, append or write.
LEMMA ElsewhereKept ==
  ASSUME NEW p \in Procs, NoTtl(p), log' = log, loc'[p].ent.ttl = 0,
         pc'[p] \notin {"lookup", "append", "upsert", "delete"}
  PROVE  NoTtl(p)' /\ NamesTags(p)' /\ Fits(p)'
  BY DEF NoTtl, NamesTags, Fits, Entered

LEMMA NoTtlOf ==
  /\ NoLocals.ent.ttl = 0 /\ NoLocals.ent.op = "none" /\ BlankEntry.ttl = 0
  /\ \A k, t : KeyTombstone(k, t).ttl = 0 /\ KeyTombstone(k, t).op = "delete"
  /\ \A T, t : /\ TagsTombstone(T, t).ttl = 0 /\ TagsTombstone(T, t).op = "delete_tags"
               /\ TagsTombstone(T, t).tags = T
  BY DEF NoLocals, BlankEntry, KeyTombstone, TagsTombstone

LEMMA MemoryInvNext ==
  ASSUME NEW p \in Procs, Setting(p), MemoryInv(p), [Next]_vars
  PROVE  MemoryInv(p)'
<1>1. /\ TypeInv /\ SoloInv(p) /\ faults = 0 /\ NoTtl(p) /\ NamesTags(p) /\ Fits(p)
      /\ IsFiniteSet(LiveKeys) /\ Procs = {p}
      /\ pc \in [Procs -> Places] /\ loc \in [Procs -> Locals] /\ log \in Seq(Entries)
  BY DEF MemoryInv, SoloInv, TypeInv, TypeOK, Setting
<1>2. SoloInv(p)' /\ faults' = 0 /\ IsFiniteSet(LiveKeys)'
  BY <1>1, SoloNext, NoFaults, LiveFinite DEF Setting
<1>3. SUFFICES NoTtl(p)' /\ NamesTags(p)' /\ Fits(p)'
  BY <1>2 DEF MemoryInv
<1>4. LiveCount \in Nat
  BY <1>1, FS_CardinalityType DEF LiveCount
<1>5. CASE Return(p) /\ log' = log
  BY <1>1, <1>5, ReturnType, NoTtlOf, ElsewhereKept
<1>6. ASSUME NEW call \in StoreCalls, BeginStore(p, call)
      PROVE  NoTtl(p)' /\ NamesTags(p)' /\ Fits(p)'
  <2> DEFINE e == [BlankEntry EXCEPT !.op = "store", !.key = call.key,
                      !.val = call.val, !.tags = call.tags,
                      !.agent = call.agent, !.ttl = call.ttl]
  <2>1. e.ttl = 0
    BY DEF Setting, BlankEntry
  <2>2. /\ loc' = [loc EXCEPT ![p].ent = e, ![p].full = LiveCount >= MaxEntries]
        /\ pc' = [pc EXCEPT ![p] = "lookup"] /\ UNCHANGED <<now, disk>>
    BY <1>6 DEF BeginStore, Goto
  <2> HIDE DEF e
  <2>3. loc'[p].ent = e /\ loc'[p].full = (LiveCount >= MaxEntries) /\ pc'[p] = "lookup"
    BY <1>1, <2>2 DEF Locals
  <2>4. log' = log /\ LiveCount' = LiveCount
    BY <2>2, LiveByRows DEF disk
  <2> QED
    BY <1>1, <2>1, <2>3, <2>4 DEF NoTtl, NamesTags, Fits, Entered
<1>7. CASE LookUp(p) /\ ~Return(p)
  <2> DEFINE old == facts[loc[p].ent.key]
             e == Stamped(loc[p].ent, old)
  <2>1. /\ loc[p].ent \in EntryRecords /\ loc[p].ent.key \in Keys
        /\ loc[p].ent.op = "store" /\ loc[p].ent.ttl = 0
    BY <1>1, <1>7 DEF Locals, Entries, LookUp, TypeInv, PlacesOK, NoTtl
  <2>2. e.ttl = 0 /\ e.key = loc[p].ent.key /\ e.op = "store"
    BY <2>1 DEF Stamped, EntryRecords
  <2>3. /\ loc' = [loc EXCEPT ![p].ent = e] /\ pc' = [pc EXCEPT ![p] = "append"]
        /\ UNCHANGED <<now, disk>> /\ pc[p] = "lookup"
        /\ Live(old, now) \/ ~loc[p].full
    BY <1>7 DEF LookUp, Goto
  <2>4. LiveKeys' = LiveKeys /\ LiveCount' = LiveCount /\ log' = log
    BY <2>3, LiveByRows DEF disk
  <2>5. loc[p].ent.key \in LiveKeys \/ LiveCount < MaxEntries
    <3>1. Live(old, now) => loc[p].ent.key \in LiveKeys
      BY <2>1 DEF LiveKeys
    <3>2. ~loc[p].full => ~(LiveCount >= MaxEntries)
      BY <1>1, <2>3 DEF Fits
    <3>3. ~loc[p].full => LiveCount < MaxEntries
      BY <1>4, <3>2, BoundsAssumption
    <3> QED
      BY <2>3, <3>1, <3>3
  <2> HIDE DEF e, old
  <2>6. loc'[p].ent = e /\ pc'[p] = "append"
    BY <1>1, <2>3 DEF Locals
  <2> QED
    BY <1>1, <2>2, <2>4, <2>5, <2>6 DEF NoTtl, NamesTags, Fits, Entered
<1>8. CASE AppendEntry(p)
  <2>1. /\ log' = Append(log, loc[p].ent) /\ loc' = loc /\ facts' = facts
        /\ pc[p] = "append"
        /\ pc' = [pc EXCEPT ![p] = IF loc[p].ent.op = "store" THEN "upsert" ELSE "delete"]
    BY <1>8 DEF AppendEntry, Goto
  <2>2. loc[p].ent \in Entries
    BY <1>1 DEF Locals
  <2>3. \A i \in 1 .. Len(log') : log'[i].ttl = 0
    BY <1>1, <2>1, <2>2 DEF NoTtl, Entered
  <2>4. NoTtl(p)'
    BY <1>1, <2>1, <2>3 DEF NoTtl, Entered
  <2>5. LiveKeys' = LiveKeys /\ LiveCount' = LiveCount
    BY <2>1, LiveByRows
  <2>6. pc'[p] # "lookup" /\ pc'[p] # "append"
    BY <1>1, <2>1
  <2> QED
    BY <1>1, <2>1, <2>4, <2>5, <2>6 DEF NamesTags, Fits
<1>9. ASSUME NEW call \in ForgetCalls, BeginForget(p, call)
      PROVE  NoTtl(p)' /\ NamesTags(p)' /\ Fits(p)'
  <2> DEFINE e == IF call.key # NoKey THEN KeyTombstone(call.key, now)
                                      ELSE TagsTombstone(call.tags, now)
  <2>1. /\ e.ttl = 0 /\ e.op # "store"
        /\ e.op = "delete_tags" => e.tags # {}
    BY NoTtlOf, ForgetCallsAssumption
  <2>2. /\ loc' = [loc EXCEPT ![p].ent = e, ![p].pend = IF call.key # NoKey THEN call.tags ELSE {}]
        /\ pc' = [pc EXCEPT ![p] = "append"] /\ log' = log
    BY <1>9 DEF BeginForget, Goto, disk
  <2> HIDE DEF e
  <2>3. loc'[p].ent = e /\ pc'[p] = "append"
    BY <1>1, <2>2 DEF Locals
  <2> QED
    BY <1>1, <2>1, <2>2, <2>3 DEF NoTtl, NamesTags, Fits, Entered
<1>10. CASE DeleteReturns(p) /\ log' = log
  <2>1. CASE loc[p].replay
    <3>1. loc'[p].ent = BlankEntry /\ pc'[p] = "next"
      BY <1>1, <1>10, <2>1 DEF DeleteReturns, Goto, Locals
    <3> QED
      BY <1>1, <1>10, <3>1, NoTtlOf, ElsewhereKept
  <2>2. CASE ~loc[p].replay /\ loc[p].pend # {}
    <3> DEFINE e == TagsTombstone(loc[p].pend, loc[p].ent.time)
    <3>1. e.ttl = 0 /\ e.op = "delete_tags" /\ e.tags # {}
      BY <2>2, NoTtlOf
    <3>2. /\ loc' = [loc EXCEPT ![p].pend = {}, ![p].ent = e]
          /\ pc' = [pc EXCEPT ![p] = "append"]
      BY <1>10, <2>2 DEF DeleteReturns, Goto
    <3> HIDE DEF e
    <3>3. loc'[p].ent = e /\ pc'[p] = "append"
      BY <1>1, <3>2 DEF Locals
    <3> QED
      BY <1>1, <1>10, <3>1, <3>3 DEF NoTtl, NamesTags, Fits, Entered
  <2> QED
    BY <1>5, <1>10, <2>1, <2>2 DEF DeleteReturns
<1>11. CASE Replay(p)
  <2>1. PICK i \in loc[p].todo :
            /\ loc' = [loc EXCEPT ![p].todo = @ \ {i}, ![p].ent = ReadBack(log[i])]
            /\ pc' = [pc EXCEPT ![p] = IF log[i].op = "store" THEN "upsert" ELSE "delete"]
    BY <1>11 DEF Replay, Goto
  <2>2. i \in Entered /\ log[i] \in EntryRecords /\ log[i].ttl = 0
    BY <1>1, <2>1 DEF TypeInv, PlacesOK, Entered, Entries, NoTtl
  <2> DEFINE e == ReadBack(log[i])
  <2>3. e.ttl = 0
    BY <2>2 DEF ReadBack, WrittenTtl, EntryRecords
  <2>4. loc[p].replay /\ log' = log
    BY <1>1, <1>11 DEF Replay, SoloInv, CallOK, disk
  <2> HIDE DEF e
  <2>5. loc'[p].ent = e /\ loc'[p].replay
    BY <1>1, <2>1, <2>4 DEF e, Locals
  <2>6. pc'[p] \in {"upsert", "delete"}
    BY <1>1, <2>1
  <2> QED
    BY <1>1, <2>3, <2>4, <2>5, <2>6 DEF NoTtl, NamesTags, Fits, Entered
<1>12. CASE PutReturns(p) /\ log' = log
  <2>1. CASE loc[p].replay
    <3>1. loc'[p].ent = BlankEntry /\ pc'[p] = "next"
      BY <1>1, <1>12, <2>1, BlankEntryType DEF PutReturns, Goto, Locals
    <3> QED
      BY <1>1, <1>12, <3>1, NoTtlOf, ElsewhereKept
  <2> QED
    BY <1>5, <1>12, <2>1 DEF PutReturns
<1>13. ASSUME \/ Upsert(p) \/ DropFacts(p) \/ CreateFacts(p) \/ CreateFactTags(p) \/ Parse(p)
              \/ EndOfReplay(p) \/ BeginRescan(p) \/ SkipExpired(p)
              \/ Restart(p)
              \/ (ClearTags(p) \/ InsertTag(p)) /\ ~PutReturns(p)
       PROVE  NoTtl(p)' /\ NamesTags(p)' /\ Fits(p)'
  <2>1. log' = log
    BY <1>13 DEF Upsert, DropFacts, CreateFacts, CreateFactTags, Parse, EndOfReplay,
       BeginRescan, SkipExpired, ClearTags, InsertTag, Restart, disk
  <2>2. pc'[p] \notin {"lookup", "append", "upsert", "delete"}
    BY <1>1, <1>13 DEF Upsert, DropFacts, CreateFacts, CreateFactTags, Parse, EndOfReplay,
       BeginRescan, SkipExpired, ClearTags, InsertTag, Restart, Goto
  <2>3. loc'[p].ent = loc[p].ent
    BY <1>1, <1>13 DEF Upsert, DropFacts, CreateFacts, CreateFactTags, Parse, EndOfReplay,
       BeginRescan, SkipExpired, ClearTags, InsertTag, Restart, Locals
  <2> QED
    BY <1>1, <2>1, <2>2, <2>3, ElsewhereKept DEF NoTtl
<1>14. CASE Prune(p)
  <2>1. UNCHANGED <<log, pc, loc>> /\ pc[p] = "idle"
    BY <1>14 DEF Prune
  <2> QED
    BY <1>1, <2>1, ElsewhereKept DEF NoTtl
<1>15. CASE Tick \/ UNCHANGED vars
  <2>1. UNCHANGED <<log, facts, pc, loc>>
    BY <1>15 DEF Tick, vars, disk
  <2>2. LiveKeys' = LiveKeys /\ LiveCount' = LiveCount
    BY <2>1, LiveByRows
  <2> QED
    BY <1>1, <2>1, <2>2 DEF NoTtl, NamesTags, Fits, Entered
<1>16. ASSUME Fault(p) \/ ClockStepsBack
       PROVE  FALSE
  BY <1>1, <1>16 DEF Fault, AppendFails, StepFails, Crash, ClockStepsBack, Setting
<1>17. ASSUME RescanReturns(p) \/ NoSuchTable(p) \/ (LookUp(p) /\ Return(p))
       PROVE  NoTtl(p)' /\ NamesTags(p)' /\ Fits(p)'
  BY <1>5, <1>17 DEF RescanReturns, NoSuchTable, LookUp, disk
<1>18. ASSUME (ClearTags(p) \/ InsertTag(p)) /\ PutReturns(p)
       PROVE  NoTtl(p)' /\ NamesTags(p)' /\ Fits(p)'
  BY <1>12, <1>18 DEF ClearTags, InsertTag
<1>19. ASSUME DeleteByEntity(p) \/ DeleteByTags(p)
       PROVE  NoTtl(p)' /\ NamesTags(p)' /\ Fits(p)'
  BY <1>10, <1>19 DEF DeleteByEntity, DeleteByTags
<1> QED
  BY <1>1, <1>6, <1>7, <1>8, <1>9, <1>11, <1>13, <1>14, <1>15, <1>16, <1>17, <1>18, <1>19
     DEF Next, Step, Begin

LEMMA MemoryInvInit ==
  ASSUME NEW p \in Procs, Init
  PROVE  MemoryInv(p)
<1>1. /\ pc[p] = "idle" /\ loc[p] = NoLocals /\ Entered = {} /\ faults = 0
      /\ LiveKeys = {}
  BY DEF Init, Entered, LiveKeys, Live
<1> QED
  BY <1>1, SoloInit, NoTtlOf, FS_EmptySet DEF MemoryInv, NoTtl, NamesTags, Fits

-----------------------------------------------------------------------------
(* The map that a client sees *)

LEMMA SeenInRescan ==
  ASSUME NEW p, Procs = {p}
  PROVE  Seen = [k \in Keys |-> IF loc[p].replay THEN LogMemory(k) ELSE IndexMemory(k)]
  BY DEF Seen, Rescanning

\* The log has the same memory while nothing is appended, and the index while its
\* rows stay, or only rows go that are not live.
LEMMA LogMemoryKept ==
  ASSUME log' = log
  PROVE  \A k : LogMemory(k)' = LogMemory(k)
  BY DEF LogMemory, StoresOf, Buried, Buries, Newest, EarlierIn

LEMMA IndexMemoryOfRow ==
  ASSUME NEW k
  PROVE  IndexMemory(k) = IF facts[k] = NoRow \/ facts[k].deleted \/ facts[k].ttl # 0 THEN NoRow
                          ELSE [val |-> ParsedBody[facts[k].object], tags |-> facts[k].tags]
  BY LiveRow DEF IndexMemory

\* Where the index reflects the log, both hold the same memory.
LEMMA SameMemory ==
  ASSUME NEW p \in Procs, Setting(p), MemoryInv(p), NEW k \in Keys, Reflects(Entered, k)
  PROVE  LogMemory(k) = IndexMemory(k)
<1> DEFINE S == StoresOf(k)
<1>1. TypeInv /\ ReflectsLog(k) /\ S = StoresIn(Entered, k) /\ S \subseteq Entered
  BY ReflectsAll DEF MemoryInv, SoloInv, StoresOf, StoresIn, Entered
<1>2. CASE S = {}
  BY <1>1, <1>2 DEF LogMemory, IndexMemory, ReflectsLog, Live
<1>3. CASE S # {}
  <2>1. PICK n \in S : IsNewest(n, S)
    BY <1>1, <1>3 DEF Reflects, Holds
  <2>2. Newest(S) = n
    BY <1>1, <2>1, NewestIsUnique
  <2>3. /\ facts[k] # NoRow /\ HoldsEntry(facts[k], n) /\ facts[k].deleted = Buried(n)
    BY <1>1, <1>3, <2>2 DEF ReflectsLog
  <2>4. /\ log[n].ttl = 0 /\ log[n].val \in Values
    BY <1>1, <2>1 DEF MemoryInv, NoTtl, StoresOf, TypeInv, TypeOK, Entered, Entries
  <2>5. facts[k].ttl = 0
    BY <2>3, <2>4 DEF HoldsEntry, WrittenTtl
  <2>6. ParsedBody[facts[k].object] = ParsedBody[log[n].val] /\ facts[k].tags = log[n].tags
    BY <2>3, <2>4 DEF HoldsEntry, Setting
  <2> HIDE DEF S
  <2>7. LogMemory(k) = IF Buried(n) THEN NoRow
                       ELSE [val |-> ParsedBody[log[n].val], tags |-> log[n].tags]
    BY <1>3, <2>2 DEF LogMemory, S
  <2>8. IndexMemory(k) = IF facts[k].deleted THEN NoRow
                         ELSE [val |-> ParsedBody[facts[k].object], tags |-> facts[k].tags]
    BY <2>3, <2>5, IndexMemoryOfRow
  <2> QED
    BY <2>3, <2>6, <2>7, <2>8
<1> QED
  BY <1>2, <1>3

LEMMA SameMemories ==
  ASSUME NEW p \in Procs, Setting(p), MemoryInv(p), pc[p] \in {"idle", "count"}
  PROVE  \A k \in Keys : LogMemory(k) = IndexMemory(k)
<1>1. /\ CallOK(p) /\ IndexOK(p) /\ TypeInv
  BY DEF MemoryInv, SoloInv
<1>2. InOrder(p) /\ Left(p) = {}
  BY <1>1 DEF CallOK, InOrder, Left, Resetting, MemoryInv
<1>3. Tracked(p) = Keys
  <2>1. PermanentKeys = Keys
    BY DEF MemoryInv, NoTtl, PermanentKeys, StoresOf, Entered
  <2> QED
    BY <1>1, <2>1, TrackedKeys DEF Tracked
<1>4. \A k \in Keys : Reflects(Entered, k)
  BY <1>1, <1>2, <1>3 DEF IndexOK, RowsReflect
<1> QED
  BY <1>4, SameMemory

\* The abstract steps, on the map that a client sees.
LEMMA SeenPresent ==
  ASSUME NEW p \in Procs, Procs = {p}, ~loc[p].replay, TypeInv
  PROVE  /\ Seen = [k \in Keys |-> IndexMemory(k)]
         /\ Memory!Present = LiveKeys
         /\ \A k \in LiveKeys : Seen[k].tags = facts[k].tags
<1>1. Seen = [k \in Keys |-> IndexMemory(k)]
  BY SeenInRescan
<1>2. \A k \in Keys : IndexMemory(k) # NoRow <=> k \in LiveKeys
  <2> SUFFICES ASSUME NEW k \in Keys PROVE IndexMemory(k) # NoRow <=> k \in LiveKeys
    OBVIOUS
  <2>1. CASE Live(facts[k], now)
    <3>1. facts[k] \in Rows
      BY <2>1 DEF TypeInv, TypeOK, Live
    <3>2. [val |-> ParsedBody[facts[k].object], tags |-> facts[k].tags]
            \in [val : Values, tags : SUBSET Tags]
      BY <3>1, ParsedBodyAssumption DEF Rows
    <3> QED
      BY <2>1, <3>2, AbsentAssumption DEF IndexMemory, LiveKeys
  <2>2. CASE ~Live(facts[k], now)
    BY <2>2 DEF IndexMemory, LiveKeys
  <2> QED
    BY <2>1, <2>2
<1>3. Memory!Present = {k \in Keys : Seen[k] # NoRow}
  BY DEF Memory!Present, Seen
<1> QED
  BY <1>1, <1>2, <1>3 DEF IndexMemory, LiveKeys

-----------------------------------------------------------------------------
(* Steps *)

\* What a row shows of the memory.
RowMemory(row) ==
    IF row = NoRow \/ row.deleted \/ row.ttl # 0 THEN NoRow
    ELSE [val |-> ParsedBody[row.object], tags |-> row.tags]

LEMMA RowMemories ==
  \A k : IndexMemory(k) = RowMemory(facts[k]) /\ IndexMemory(k)' = RowMemory(facts'[k])
BY LiveRow DEF IndexMemory, RowMemory

\* A step within a rescan, or within a call of another kind.
LEMMA SeenKept ==
  ASSUME NEW p, Procs = {p}, loc'[p].replay = loc[p].replay,
         IF loc[p].replay THEN log' = log
         ELSE \A k \in Keys : RowMemory(facts'[k]) = RowMemory(facts[k])
  PROVE  Seen' = Seen
<1>1. /\ Seen = [k \in Keys |-> IF loc[p].replay THEN LogMemory(k) ELSE IndexMemory(k)]
      /\ Seen' = [k \in Keys |-> IF loc'[p].replay THEN LogMemory(k)' ELSE IndexMemory(k)']
  BY DEF Seen, Rescanning
<1>2. CASE loc[p].replay
  BY <1>1, <1>2, LogMemoryKept
<1>3. CASE ~loc[p].replay
  BY <1>1, <1>3, RowMemories
<1> QED
  BY <1>2, <1>3

\* A rescan begins and ends where log and index hold the same memory.
LEMMA SeenAtRescan ==
  ASSUME NEW p \in Procs, Setting(p), MemoryInv(p), pc[p] \in {"idle", "count"},
         facts' = facts, log' = log
  PROVE  Seen' = Seen
<1>1. /\ Seen = [k \in Keys |-> IF loc[p].replay THEN LogMemory(k) ELSE IndexMemory(k)]
      /\ Seen' = [k \in Keys |-> IF loc'[p].replay THEN LogMemory(k)' ELSE IndexMemory(k)']
  BY DEF Seen, Rescanning, Setting
<1>2. \A k \in Keys : LogMemory(k) = IndexMemory(k)
  BY SameMemories
<1>3. \A k \in Keys : LogMemory(k)' = LogMemory(k) /\ IndexMemory(k)' = IndexMemory(k)
  BY LogMemoryKept, RowMemories
<1> QED
  BY <1>1, <1>2, <1>3

\* The upsert of memory_store is a Put.
LEMMA UpsertPuts ==
  ASSUME NEW p \in Procs, Setting(p), MemoryInv(p), ~loc[p].replay, Upsert(p)
  PROVE  Memory!Next
<1> DEFINE e == loc[p].ent
           row == Upserted(facts[e.key], nextId, e)
           new == [val |-> ParsedBody[e.val], tags |-> e.tags]
<1>1. /\ e \in Entries /\ e.op = "store" /\ e.ttl = 0 /\ TypeInv /\ Procs = {p}
      /\ facts \in [Keys -> Rows \cup {NoRow}] /\ nextId \in Nat
      /\ loc \in [Procs -> Locals] /\ pc[p] = "upsert"
  BY DEF MemoryInv, SoloInv, TypeInv, TypeOK, PlacesOK, Locals, NoTtl, Upsert, Setting
<1>2. e.key \in Keys /\ e.val \in Values /\ e.tags \in SUBSET Tags
  BY <1>1 DEF Entries, EntryRecords
<1>3. ParsedBody[e.val] \in Values
  BY <1>2, ParsedBodyAssumption
<1>4. facts' = [facts EXCEPT ![e.key] = row]
  BY DEF Upsert
<1>5. RowMemory(row) = new
  <2>1. row \in Rows
    BY <1>1, <1>2, UpsertedType
  <2>2. row.object = e.val /\ row.tags = e.tags /\ row.ttl = 0 /\ ~row.deleted
    BY <1>1 DEF Upserted
  <2> HIDE DEF row
  <2> QED
    BY <2>1, <2>2, NoRowAssumption DEF RowMemory
<1>6. loc'[p].replay = loc[p].replay
  BY <1>1 DEF Upsert, Locals
<1>7. Seen' = [k \in Keys |-> RowMemory(facts'[k])] /\ Seen = [k \in Keys |-> RowMemory(facts[k])]
  <2>1. /\ Seen = [k \in Keys |-> IF loc[p].replay THEN LogMemory(k) ELSE IndexMemory(k)]
        /\ Seen' = [k \in Keys |-> IF loc'[p].replay THEN LogMemory(k)' ELSE IndexMemory(k)']
    BY <1>1 DEF Seen, Rescanning
  <2> QED
    BY <1>6, <2>1, RowMemories
<1>8. e.key \in Memory!Present \/ Cardinality(Memory!Present) < MaxEntries
  <2>1. e.key \in LiveKeys \/ LiveCount < MaxEntries
    BY <1>1 DEF MemoryInv, Fits
  <2> QED
    BY <1>1, <2>1, SeenPresent DEF LiveCount
<1> HIDE DEF row, e
<1>9. Seen' = [Seen EXCEPT ![e.key] = new]
  BY <1>1, <1>2, <1>4, <1>5, <1>7
<1>10. Memory!Put(e.key, ParsedBody[e.val], e.tags)
  BY <1>8, <1>9 DEF Memory!Put, Seen, Cardinality, Memory!Cardinality
<1> QED
  BY <1>2, <1>3, <1>10 DEF Memory!Next

\* The first UPDATE of memory_forget is a Drop, the second a DropTagged.
LEMMA DeleteDrops ==
  ASSUME NEW p \in Procs, Setting(p), MemoryInv(p), ~loc[p].replay,
         DeleteByEntity(p) \/ DeleteByTags(p)
  PROVE  Seen' = Seen \/ Memory!Next
<1> DEFINE e == loc[p].ent
<1>1. /\ TypeInv /\ Procs = {p} /\ facts \in [Keys -> Rows \cup {NoRow}]
      /\ loc \in [Procs -> Locals] /\ pc[p] = "delete" /\ faults = 0
  BY DEF MemoryInv, SoloInv, TypeInv, TypeOK, DeleteByEntity, DeleteByTags, Setting
<1>2. e.key \in Keys \cup {NoKey} /\ e.tags \in SUBSET Tags
  BY <1>1 DEF Locals, Entries, EntryRecords
<1>3. ~loc'[p].replay
  BY <1>1, AfterWrite DEF DeleteByEntity, DeleteByTags
<1>4. Seen' = [k \in Keys |-> RowMemory(facts'[k])] /\ Seen = [k \in Keys |-> RowMemory(facts[k])]
  <2>1. /\ Seen = [k \in Keys |-> IF loc[p].replay THEN LogMemory(k) ELSE IndexMemory(k)]
        /\ Seen' = [k \in Keys |-> IF loc'[p].replay THEN LogMemory(k)' ELSE IndexMemory(k)']
    BY <1>1 DEF Seen, Rescanning
  <2> QED
    BY <1>3, <2>1, RowMemories
<1>5. \A k \in Keys : RowMemory(SoftDeleted(facts[k])) = NoRow \/ facts[k] = NoRow
  <2> SUFFICES ASSUME NEW k \in Keys, facts[k] # NoRow
               PROVE  RowMemory(SoftDeleted(facts[k])) = NoRow
    OBVIOUS
  <2>1. SoftDeleted(facts[k]).deleted
    BY <1>1 DEF SoftDeleted, Rows
  <2> QED
    BY <2>1 DEF RowMemory
<1>6. RowMemory(NoRow) = NoRow
  BY DEF RowMemory
<1>7. CASE DeleteByEntity(p)
  <2>1. \A k \in Keys : facts'[k] = IF k = e.key /\ facts[k] # NoRow
                                    THEN SoftDeleted(facts[k]) ELSE facts[k]
    BY <1>7 DEF DeleteByEntity
  <2> HIDE DEF e
  <2>2. \A k \in Keys : RowMemory(facts'[k]) = IF k = e.key THEN NoRow ELSE RowMemory(facts[k])
    BY <1>5, <1>6, <2>1
  <2>3. CASE e.key \in Keys
    <3>1. Seen' = [Seen EXCEPT ![e.key] = NoRow]
      BY <1>4, <2>2
    <3>2. Memory!Drop(e.key)
      BY <3>1 DEF Memory!Drop, Seen
    <3> QED
      BY <2>3, <3>2 DEF Memory!Next
  <2>4. CASE e.key \notin Keys
    BY <1>4, <2>2, <2>4
  <2> QED
    BY <2>3, <2>4
<1>8. CASE DeleteByTags(p)
  <2>1. e.op = "delete_tags" /\ e.tags # {}
    BY <1>1, <1>8 DEF DeleteByTags, MemoryInv, NamesTags
  <2>2. \A l \in Keys : TagsJoined(l)
    BY <1>1 DEF MemoryInv, SoloInv, IndexOK, InOrder, OthersJoined, Putting
  <2>3. \A k \in Keys :
          /\ facts[k] = NoRow => facts'[k] = NoRow
          /\ facts[k] # NoRow =>
                facts'[k] = IF e.tags \subseteq facts[k].tags THEN SoftDeleted(facts[k]) ELSE facts[k]
    BY <1>1, <1>8, <2>1, <2>2, DeletedRows
  <2>4. /\ Memory!Present = LiveKeys
        /\ \A k \in LiveKeys : Seen[k].tags = facts[k].tags
    BY <1>1, SeenPresent
  <2> HIDE DEF e
  <2>5. ASSUME NEW k \in Keys
        PROVE  RowMemory(facts'[k]) =
                  IF k \in Memory!Present /\ e.tags \subseteq Seen[k].tags THEN NoRow ELSE Seen[k]
    <3>1. Seen[k] = RowMemory(facts[k])
      BY <1>4
    <3>2. CASE k \in LiveKeys
      <4>1. facts[k] # NoRow
        BY <3>2 DEF LiveKeys, Live
      <4> QED
        BY <1>5, <2>3, <2>4, <3>1, <3>2, <4>1
    <3>3. CASE k \notin LiveKeys
      <4>1. RowMemory(facts[k]) = NoRow
        BY <3>3, LiveRow DEF RowMemory, LiveKeys
      <4> QED
        BY <1>5, <1>6, <2>3, <2>4, <3>1, <3>3, <4>1
    <3> QED
      BY <3>2, <3>3
  <2>6. Seen' = [k \in Keys |->
                   IF k \in Memory!Present /\ e.tags \subseteq Seen[k].tags THEN NoRow ELSE Seen[k]]
    BY <1>4, <2>5
  <2>7. Memory!DropTagged(e.tags)
    BY <2>1, <2>6 DEF Memory!DropTagged, Seen
  <2> QED
    BY <1>2, <2>7 DEF Memory!Next, e
<1> QED
  BY <1>7, <1>8

\* What a step does with the replay flag: only the first and the last step of a
\* rescan change it.
LEMMA ReplayFlag ==
  ASSUME NEW p \in Procs, Setting(p), MemoryInv(p), [Next]_vars,
         loc'[p].replay # loc[p].replay
  PROVE  pc[p] \in {"idle", "count"} /\ facts' = facts /\ log' = log
<1>1. /\ TypeInv /\ Procs = {p} /\ loc \in [Procs -> Locals] /\ CallOK(p) /\ faults = 0
      /\ pc \in [Procs -> Places]
  BY DEF MemoryInv, SoloInv, TypeInv, TypeOK, Setting
<1>2. ~NoSuchTable(p)
  BY <1>1, TableMissing
<1>3. ~Fault(p) /\ ~ClockStepsBack
  BY <1>1 DEF Fault, AppendFails, StepFails, Crash, ClockStepsBack, Setting
<1>4. ~(PutReturns(p) /\ log' = log) /\ ~(DeleteReturns(p) /\ log' = log)
  BY <1>1, AfterWrite
<1>5. CASE BeginRescan(p) \/ RescanReturns(p)
  BY <1>5 DEF BeginRescan, RescanReturns, disk
<1>6. CASE LookUp(p)
  <2>1. ~loc[p].replay
    BY <1>1, <1>6 DEF CallOK, LookUp
  <2>2. loc'[p].replay = FALSE
    <3>1. CASE Return(p)
      BY <1>1, <3>1, ReturnType DEF NoLocals
    <3>2. CASE ~Return(p)
      BY <1>1, <1>6, <2>1, <3>2 DEF LookUp, Locals
    <3> QED
      BY <3>1, <3>2
  <2> QED
    BY <1>1, <2>1, <2>2 DEF Locals
<1>7. ASSUME \/ \E call \in StoreCalls : BeginStore(p, call)
             \/ \E call \in ForgetCalls : BeginForget(p, call)
             \/ AppendEntry(p) \/ Upsert(p) \/ DropFacts(p) \/ CreateFacts(p)
             \/ CreateFactTags(p) \/ Parse(p) \/ SkipExpired(p) \/ Replay(p)
             \/ EndOfReplay(p) \/ Prune(p) \/ Restart(p) \/ Tick \/ UNCHANGED vars
      PROVE  FALSE
  BY <1>1, <1>7 DEF BeginStore, BeginForget, AppendEntry, Upsert, DropFacts, CreateFacts,
     CreateFactTags, Parse, SkipExpired, Replay, EndOfReplay, Prune, Restart, Tick, vars, Locals
<1>8. ASSUME ClearTags(p) \/ InsertTag(p)
      PROVE  FALSE
  BY <1>1, <1>4, <1>8 DEF ClearTags, InsertTag, Locals
<1>9. ASSUME DeleteByEntity(p) \/ DeleteByTags(p)
      PROVE  FALSE
  BY <1>4, <1>9 DEF DeleteByEntity, DeleteByTags
<1> QED
  BY <1>1, <1>2, <1>3, <1>5, <1>6, <1>7, <1>8, <1>9 DEF Next, Step, Begin

\* Each step of the process is a step of the map, or leaves it.
LEMMA SeenStep ==
  ASSUME NEW p \in Procs, Setting(p), MemoryInv(p), [Next]_vars
  PROVE  Seen' = Seen \/ Memory!Next
<1>1. /\ TypeInv /\ Procs = {p} /\ CallOK(p) /\ facts \in [Keys -> Rows \cup {NoRow}]
      /\ loc[p].replay \in BOOLEAN /\ loc'[p].replay \in BOOLEAN
  BY NextType DEF MemoryInv, SoloInv, TypeInv, TypeOK, Setting, Locals
<1>2. CASE loc'[p].replay # loc[p].replay
  BY <1>2, ReplayFlag, SeenAtRescan
<1>3. CASE loc'[p].replay /\ loc[p].replay
  <2>1. log' = log
    <3>1. ~AppendEntry(p)
      BY <1>1, <1>3 DEF CallOK, AppendEntry
    <3> QED
      BY <1>1, <3>1, LogFrame
  <2> QED
    BY <1>1, <1>3, <2>1, SeenKept
<1>4. CASE ~loc'[p].replay /\ ~loc[p].replay
  <2>1. CASE facts' = facts
    BY <1>1, <1>4, <2>1, SeenKept
  <2>2. CASE Upsert(p)
    BY <1>4, <2>2, UpsertPuts
  <2>3. CASE DeleteByEntity(p) \/ DeleteByTags(p)
    BY <1>4, <2>3, DeleteDrops
  <2>4. CASE Prune(p)
    <3>1. \A k \in Keys : RowMemory(facts'[k]) = RowMemory(facts[k])
      <4> SUFFICES ASSUME NEW k \in Keys, Purged(facts[k], now)
                   PROVE  RowMemory(facts'[k]) = RowMemory(facts[k])
        BY <2>4 DEF Prune
      <4>1. facts'[k] = NoRow /\ facts[k] \in Rows /\ facts[k].ttl > 0
        BY <1>1, <2>4 DEF Prune, Purged
      <4> QED
        BY <4>1 DEF RowMemory, Rows
    <3> QED
      BY <1>1, <1>4, <3>1, SeenKept
  <2>5. CASE DropFacts(p)
    BY <1>1, <1>4, <2>5 DEF CallOK, DropFacts, Resetting
  <2> QED
    BY <1>1, <2>1, <2>2, <2>3, <2>4, <2>5, FactsFrame DEF WritesFacts
<1> QED
  BY <1>1, <1>2, <1>3, <1>4

\* Where a process has the directory to itself and nothing fails, its stores and
\* forgets are those of a map of bounded size from keys to tagged values (KeyValue):
\* a store takes effect at its upsert and replaces value and tags, one that is
\* turned away for want of room changes nothing, a forget takes effect at its one or
\* two UPDATEs, and the capacity check, the append, the writes of the join table, a
\* prune and all of a rescan change nothing that the client can see.
THEOREM OneProcessIsAMap ==
  ASSUME NEW p, Setting(p)
  PROVE  Spec => MemoryRefinement
<1>1. p \in Procs
  BY DEF Setting
<1>2. Init => MemoryInv(p)
  BY <1>1, MemoryInvInit
<1>3. MemoryInv(p) /\ [Next]_vars => MemoryInv(p)'
  BY <1>1, MemoryInvNext
<1>4. Init => Memory!Init
  <2> SUFFICES ASSUME Init PROVE Seen = [k \in Keys |-> NoRow]
    BY DEF Memory!Init, Seen
  <2>1. ~loc[p].replay /\ \A k \in Keys : facts[k] = NoRow
    BY <1>1 DEF Init, NoLocals
  <2> QED
    BY <2>1, SeenInRescan, RowMemories DEF Setting, RowMemory
<1>5. MemoryInv(p) /\ [Next]_vars => [Seen' # Seen => Memory!Next]_Seen
  BY <1>1, SeenStep
<1> QED
  BY <1>2, <1>3, <1>4, <1>5, PTL DEF Spec, MemoryRefinement, Memory!Spec, Seen
=============================================================================
