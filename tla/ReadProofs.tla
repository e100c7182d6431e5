----------------------------- MODULE ReadProofs -----------------------------
(***************************************************************************)
(* Theorems about Reads: where nobody rescans, an access counter goes up   *)
(* only for a fact that was returned, with any number of processes; and    *)
(* what a process that has the directory to itself answers is what its log *)
(* says.                                                                   *)
(***************************************************************************)
EXTENDS ReadProperties, StoreProofs

\* The id of a hit was given out, and if a row has it, then that of the hit's key.
HitKnown(hit) ==
    /\ hit.row.id \in Nat /\ hit.row.id < nextId
    /\ \A k \in Keys : facts[k] # NoRow /\ facts[k].id = hit.row.id => k = hit.key

HitsKnown ==
    /\ DOMAIN reading = Procs
    /\ \A p \in Procs : \A i \in DOMAIN reading[p].hits : HitKnown(reading[p].hits[i])

CountInv == TypeInv /\ IdsUnique /\ NoReplay /\ HitsKnown
-----------------------------------------------------------------------------
(* Hits *)

\* A selection holds keys that have a live row.
LEMMA SelectionsLive ==
  ASSUME NEW f, NEW s \in Selections(f), NEW i \in DOMAIN s
  PROVE  s[i] \in Keys /\ facts[s[i]] # NoRow
<1> DEFINE found == {k \in Keys : Matches(f, k)}
<1>1. PICK n : s \in [1 .. n -> found]
  BY DEF Selections
<1>2. s[i] \in found
  BY <1>1
<1> QED
  BY <1>2 DEF Matches, Live

\* What is known of a hit stays true under the steps of the write path.
LEMMA HitStaysKnown ==
  ASSUME TypeInv, NoReplay, [Next]_vars, NEW hit, HitKnown(hit)
  PROVE  HitKnown(hit)'
<1>1. /\ nextId \in Nat /\ nextId' \in Nat /\ nextId <= nextId'
      /\ \A k \in Keys : facts'[k] # NoRow =>
           facts'[k].id = nextId \/ (facts[k] # NoRow /\ facts'[k].id = facts[k].id)
  BY IdsMoveOn
<1> QED
  BY <1>1 DEF HitKnown

\* A SELECT makes hits of rows.
LEMMA SelectKnown ==
  ASSUME TypeInv, IdsUnique, HitsKnown, NEW p \in Procs, NEW f, NEW place, Select(p, f, place)
  PROVE  HitsKnown'
<1>1. UNCHANGED <<facts, nextId>>
  BY DEF Select, vars, disk
<1>2. PICK s \in Selections(f) :
        reading' = [reading EXCEPT ![p] =
            [at |-> IF s = <<>> THEN "answer" ELSE place, filter |-> f,
             hits |-> [i \in DOMAIN s |-> [key |-> s[i], row |-> facts[s[i]]]]]]
  BY DEF Select
<1>3. /\ DOMAIN reading' = Procs
      /\ reading'[p].hits = [i \in DOMAIN s |-> [key |-> s[i], row |-> facts[s[i]]]]
      /\ \A q \in Procs : q # p => reading'[q] = reading[q]
  BY <1>2 DEF HitsKnown
<1>4. ASSUME NEW hit, HitKnown(hit) PROVE HitKnown(hit)'
  BY <1>1, <1>4 DEF HitKnown
<1>5. ASSUME NEW q \in Procs, NEW i \in DOMAIN reading'[q].hits
      PROVE  HitKnown(reading[q].hits[i])'
  <2>1. HitKnown(reading'[q].hits[i])
    <3>1. CASE q = p
      <4>1. i \in DOMAIN s /\ reading'[q].hits[i] = [key |-> s[i], row |-> facts[s[i]]]
        BY <1>3, <1>5, <3>1
      <4>2. s[i] \in Keys /\ facts[s[i]] # NoRow
        BY <4>1, SelectionsLive
      <4>3. facts[s[i]].id \in Nat /\ facts[s[i]].id < nextId
        BY <4>2 DEF TypeInv, TypeOK, Rows, IdsUnique
      <4>4. \A k \in Keys : facts[k] # NoRow /\ facts[k].id = facts[s[i]].id => k = s[i]
        BY <4>2 DEF IdsUnique
      <4> QED
        BY <4>1, <4>3, <4>4 DEF HitKnown
    <3>2. CASE q # p
      BY <1>3, <1>5, <3>2 DEF HitsKnown
    <3> QED
      BY <3>1, <3>2
  <2> QED
    BY <1>4, <2>1 DEF HitKnown
<1> QED
  BY <1>3, <1>5 DEF HitsKnown

\* A step of the rest of a read keeps its hits, or forgets them.
LEMMA OthersKnown ==
  ASSUME TypeInv, NoReplay, [Next]_vars, HitsKnown, DOMAIN reading' = Procs,
         \A q \in Procs : reading'[q].hits = reading[q].hits \/ reading'[q].hits = <<>>
  PROVE  HitsKnown'
<1>1. ASSUME NEW q \in Procs, NEW i \in DOMAIN reading'[q].hits
      PROVE  HitKnown(reading[q].hits[i])'
  <2>1. reading'[q].hits = reading[q].hits
    BY <1>1
  <2>2. HitKnown(reading'[q].hits[i])
    BY <1>1, <2>1 DEF HitsKnown
  <2>3. ASSUME NEW hit, HitKnown(hit) PROVE HitKnown(hit)'
    BY <2>3, HitStaysKnown
  <2> QED
    BY <2>2, <2>3 DEF HitKnown
<1> QED
  BY <1>1 DEF HitsKnown
-----------------------------------------------------------------------------
(* The theorem *)

LEMMA CountInit == ReadsInit => CountInv
<1> SUFFICES ASSUME ReadsInit PROVE CountInv
  OBVIOUS
<1>1. TypeInv /\ IdsUnique
  BY InitType, IdsInit DEF ReadsInit
<1>2. NoReplay
  BY DEF ReadsInit, Init, NoReplay, NoLocals
<1>3. HitsKnown
  BY DEF ReadsInit, HitsKnown, NotReading
<1> QED
  BY <1>1, <1>2, <1>3 DEF CountInv

\* Each step of the reads is a step of the write path or leaves it alone.
LEMMA ReadsStep == ReadsNext => [Next]_vars
<1>1. ASSUME NEW p \in Servers, Read(p) PROVE UNCHANGED vars
  BY <1>1 DEF Read, Recall, List, Select, Touch, TouchFails, Answer
<1>2. ASSUME NEW p \in Procs, WritePath(p) \/ Disturbed(p) PROVE Next
  BY <1>2 DEF WritePath, Disturbed, Next
<1>3. Clock => Next
  BY DEF Clock, Next
<1> QED
  BY <1>1, <1>2, <1>3 DEF ReadsNext

\* Recalls and lists implement the write path: whatever is proved of Spec holds of
\* processes that read too, the refinement of KeyValue included.
THEOREM ReadsKeepTheWritePath == ReadsSpec => Spec
<1>1. ReadsInit => Init
  BY DEF ReadsInit
<1>2. [ReadsNext]_readVars => [Next]_vars
  BY ReadsStep DEF readVars
<1> QED
  BY <1>1, <1>2, PTL DEF ReadsSpec, Spec

LEMMA CountStep ==
  ASSUME Rescanners = {}, CountInv, [ReadsNext]_readVars
  PROVE  CountInv'
<1>1. TypeInv /\ IdsUnique /\ NoReplay /\ HitsKnown
  BY DEF CountInv
<1>2. [Next]_vars
  BY ReadsStep DEF readVars
<1>3. TypeInv' /\ IdsUnique' /\ NoReplay'
  BY <1>1, <1>2, NextType, IdsNext, NoReplayNext
<1>4. DOMAIN reading = Procs
  BY <1>1 DEF HitsKnown
<1>5. ASSUME NEW p \in Servers, Read(p) PROVE HitsKnown'
  <2>1. p \in Procs
    BY ProcsAssumption
  <2>2. ASSUME Touch(p) \/ TouchFails(p) PROVE HitsKnown'
    <3>1. reading' = [reading EXCEPT ![p].at = "answer"]
      BY <2>2 DEF Touch, TouchFails
    <3> QED
      BY <1>1, <1>2, <1>4, <2>1, <3>1, OthersKnown
  <2>3. ASSUME Answer(p) PROVE HitsKnown'
    <3>1. reading' = [reading EXCEPT ![p] = NotReading]
      BY <2>3 DEF Answer
    <3>2. NotReading.hits = <<>>
      BY DEF NotReading
    <3> QED
      BY <1>1, <1>2, <1>4, <2>1, <3>1, <3>2, OthersKnown
  <2>4. ASSUME NEW f \in RecallCalls \cup ListCalls, Recall(p, f) \/ List(p, f) PROVE HitsKnown'
    BY <1>1, <2>1, <2>4, SelectKnown DEF Recall, List
  <2> QED
    BY <1>5, <2>2, <2>3, <2>4 DEF Read
<1>6. ASSUME NEW p \in Procs, WritePath(p) \/ Disturbed(p) PROVE HitsKnown'
  <2>1. reading' = reading \/ reading' = [reading EXCEPT ![p] = NotReading]
    BY <1>6 DEF WritePath, Disturbed
  <2>2. NotReading.hits = <<>>
    BY DEF NotReading
  <2> QED
    BY <1>1, <1>2, <1>4, <2>1, <2>2, OthersKnown
<1>7. ASSUME Clock \/ UNCHANGED readVars PROVE HitsKnown'
  <2>1. reading' = reading
    BY <1>7 DEF Clock, readVars
  <2> QED
    BY <1>1, <1>2, <1>4, <2>1, OthersKnown
<1>8. HitsKnown'
  BY <1>5, <1>6, <1>7 DEF ReadsNext
<1> QED
  BY <1>3, <1>8 DEF CountInv

\* The ids of the hits are those of the facts that were returned, or of none.
LEMMA CountsStep ==
  ASSUME CountInv
  PROVE  \A p \in Procs : Touch(p) =>
            \A k \in Keys : access'[k] # access[k] => k \in HitKeys(p)
<1> SUFFICES ASSUME NEW p \in Procs, Touch(p), NEW k \in Keys, access'[k] # access[k]
             PROVE  k \in HitKeys(p)
  OBVIOUS
<1>1. facts[k] # NoRow /\ facts[k].id \in HitIds(p)
  BY DEF Touch
<1>2. PICK i \in DOMAIN reading[p].hits : facts[k].id = reading[p].hits[i].row.id
  BY <1>1 DEF HitIds
<1>3. k = reading[p].hits[i].key
  BY <1>1, <1>2 DEF CountInv, HitsKnown, HitKnown
<1> QED
  BY <1>3 DEF HitKeys

\* RD2 for any number of processes, keys and calls, with crashes: where no process
\* rescans, TouchAccessed counts no fact but those that the recall returned,
\* whatever was stored, forgotten and pruned since its SELECT.
THEOREM OnlyReturnedAreCounted ==
  ASSUME Rescanners = {}
  PROVE  ReadsSpec => CountsOnlyReturned
<1>1. CountInv /\ [ReadsNext]_readVars => CountInv'
  BY CountStep
<1>2. CountInv => \A p \in Procs : Touch(p) =>
                    \A k \in Keys : access'[k] # access[k] => k \in HitKeys(p)
  BY CountsStep
<1> QED
  BY CountInit, <1>1, <1>2, PTL DEF ReadsSpec, CountsOnlyReturned
-----------------------------------------------------------------------------
(* Answers *)

\* The hits of a read are the rows that a selection by its filter returns now.
Answers(p) ==
    \E f \in Filters : \E s \in Selections(f) :
        /\ reading[p].filter = f
        /\ reading[p].hits = [i \in DOMAIN s |-> [key |-> s[i], row |-> facts[s[i]]]]

\* While a process reads, it does not write.
AnswerInv(p) ==
    /\ SoloInv(p) /\ IsFiniteSet(LiveKeys) /\ DOMAIN reading = Procs
    /\ reading[p].at # "idle" => pc[p] = "idle" /\ Answers(p)

\* A selection goes by the two tables alone: a TTL that runs out ends nothing here.
LEMMA SelectionsByTables ==
  ASSUME UNCHANGED <<facts, factTags>>, NEW f
  PROVE  Selections(f)' = Selections(f)
<1>1. \A k : Matches(f, k)' <=> Matches(f, k)
  BY LiveRow DEF Matches, TaggedWithAll
<1> QED
  BY <1>1 DEF Selections

LEMMA AnswersKept ==
  ASSUME NEW p, UNCHANGED <<facts, factTags>>, reading'[p].hits = reading[p].hits,
         reading'[p].filter = reading[p].filter, Answers(p)
  PROVE  Answers(p)'
<1>1. \A f : Selections(f)' = Selections(f)
  BY SelectionsByTables
<1> QED
  BY <1>1 DEF Answers

LEMMA AnswerStep ==
  ASSUME NEW p, Procs = {p}, AnswerInv(p), [ReadsNext]_readVars
  PROVE  AnswerInv(p)'
<1>1. /\ p \in Procs /\ SoloInv(p) /\ TypeInv /\ DOMAIN reading = Procs /\ [Next]_vars
      /\ pc \in [Procs -> Places]
  BY ReadsStep DEF AnswerInv, SoloInv, TypeInv, TypeOK, readVars
<1>2. SoloInv(p)' /\ IsFiniteSet(LiveKeys)'
  BY <1>1, SoloNext, LiveFinite DEF AnswerInv
<1>3. SUFFICES /\ DOMAIN reading' = Procs
               /\ reading'[p].at # "idle" => pc'[p] = "idle" /\ Answers(p)'
  BY <1>2 DEF AnswerInv
<1>4. ASSUME NEW f \in RecallCalls \cup ListCalls, NEW place, Select(p, f, place)
      PROVE  /\ DOMAIN reading' = Procs
             /\ pc'[p] = "idle" /\ Answers(p)'
  <2>1. UNCHANGED <<pc, facts, factTags>> /\ pc[p] = "idle" /\ f \in Filters
    BY <1>4, FiltersAssumption DEF Select, vars, disk
  <2>2. PICK s \in Selections(f) :
          reading' = [reading EXCEPT ![p] =
              [at |-> IF s = <<>> THEN "answer" ELSE place, filter |-> f,
               hits |-> [i \in DOMAIN s |-> [key |-> s[i], row |-> facts[s[i]]]]]]
    BY <1>4 DEF Select
  <2>3. /\ DOMAIN reading' = Procs /\ reading'[p].filter = f
        /\ reading'[p].hits = [i \in DOMAIN s |-> [key |-> s[i], row |-> facts[s[i]]]]
    BY <1>1, <2>2
  <2>4. Selections(f)' = Selections(f)
    BY <2>1, SelectionsByTables
  <2> QED
    BY <2>1, <2>3, <2>4 DEF Answers
<1>5. CASE Touch(p) \/ TouchFails(p)
  <2>1. /\ reading[p].at # "idle" /\ UNCHANGED <<pc, facts, factTags>>
        /\ reading' = [reading EXCEPT ![p].at = "answer"]
    BY <1>5 DEF Touch, TouchFails, vars, disk
  <2>2. /\ DOMAIN reading' = Procs /\ reading'[p].hits = reading[p].hits
        /\ reading'[p].filter = reading[p].filter
    BY <1>1, <2>1
  <2> QED
    BY <2>1, <2>2, AnswersKept DEF AnswerInv
<1>6. CASE reading' = [reading EXCEPT ![p] = NotReading]
  BY <1>1, <1>6 DEF NotReading
<1>7. CASE UNCHANGED <<pc, facts, factTags, reading>>
  BY <1>1, <1>7, AnswersKept DEF AnswerInv
<1>8. CASE WritePath(p)
  BY <1>1, <1>8 DEF WritePath
<1>9. CASE Clock \/ UNCHANGED readVars
  BY <1>7, <1>9 DEF Clock, Tick, ClockStepsBack, readVars, vars, disk
<1>10. CASE \E f \in RecallCalls : Recall(p, f)
  BY <1>4, <1>10 DEF Recall
<1>11. CASE \E f \in ListCalls : List(p, f)
  BY <1>4, <1>11 DEF List
<1>12. CASE Answer(p) \/ Disturbed(p)
  BY <1>6, <1>12 DEF Answer, Disturbed
<1> QED
  BY <1>1, <1>5, <1>8, <1>9, <1>10, <1>11, <1>12, ProcsAssumption DEF ReadsNext, Read

\* Of facts without a TTL, the WHERE clause finds in the index what the log says.
LEMMA FindsWhatTheLogSays ==
  ASSUME NEW p \in Procs, SoloInv(p), pc[p] = "idle", faults = 0,
         \A v \in Values : ParsedBody[ParsedBody[v]] = ParsedBody[v],
         NEW k \in Plain, NEW f \in Filters
  PROVE  /\ Matches(f, k) <=> k \in FoundInLog(f)
         /\ Matches(f, k) => /\ ParsedBody[facts[k].object] = LogMemory(k).val
                             /\ facts[k].updated = log[Newest(StoresOf(k))].time
<1> DEFINE S == StoresOf(k)
<1>1. /\ TypeInv /\ CallOK(p) /\ log \in Seq(Entries) /\ k \in Keys
      /\ \A i \in S : log[i].ttl = 0 /\ log[i] \in Entries /\ log[i].op = "store" /\ i \in Entered
  BY DEF SoloInv, TypeInv, TypeOK, Plain, StoresOf, Entered
<1>2. ~loc[p].replay /\ InOrder(p) /\ Left(p) = {}
  BY <1>1 DEF CallOK, InOrder, Left
<1>3. ConsistentOn(PermanentKeys)
  BY <1>2, InOrderConsistent DEF Tracked, Putting
<1>4. TagsJoined(k) /\ ReflectsLog(k)
  BY <1>1, <1>3 DEF ConsistentOn, PermanentKeys
<1>5. CASE S = {}
  BY <1>4, <1>5 DEF ReflectsLog, Matches, Live, FoundInLog, LogMemory
<1>6. CASE S # {}
  <2> DEFINE n == Newest(S)
  <2>1. facts[k] # NoRow /\ HoldsEntry(facts[k], n) /\ facts[k].deleted = Buried(n)
        /\ facts[k].agent = AgentOf(S)
    BY <1>4, <1>6 DEF ReflectsLog
  <2>2. n \in S
    <3>1. Reflects(Entered, k)
      BY <1>1, <1>2 DEF SoloInv, IndexOK, RowsReflect, Tracked, PermanentKeys
    <3>2. S = StoresIn(Entered, k) /\ S \in SUBSET Entered
      BY DEF StoresOf, StoresIn, Entered
    <3>3. PICK i \in S : IsNewest(i, S)
      BY <1>6, <3>1, <3>2 DEF Reflects, Holds
    <3> QED
      BY <1>1, <3>2, <3>3, NewestIsUnique
  <2>3. log[n].ttl = 0 /\ log[n].val \in Values /\ log[n].tags \in SUBSET Tags
    BY <1>1, <2>2 DEF Entries, EntryRecords
  <2> HIDE DEF n
  <2>4. /\ facts[k].ttl = 0 /\ facts[k].tags = log[n].tags /\ facts[k].updated = log[n].time
        /\ ParsedBody[facts[k].object] = ParsedBody[log[n].val]
    BY <2>1, <2>3 DEF HoldsEntry, WrittenTtl
  <2>5. Live(facts[k], now) <=> ~Buried(n)
    BY <2>1, <2>4, LiveRow
  <2>6. LogMemory(k) = IF Buried(n) THEN NoRow
                       ELSE [val |-> ParsedBody[log[n].val], tags |-> log[n].tags]
    BY <1>6 DEF LogMemory, n
  <2>7. LogMemory(k) # NoRow <=> ~Buried(n)
    BY <2>3, <2>6, ParsedBodyAssumption, AbsentAssumption
  <2>8. TaggedWithAll(facts[k], f.tags, factTags) <=> f.tags \subseteq log[n].tags
    <3>1. {tag \in Tags : <<facts[k].id, tag>> \in factTags} = log[n].tags
      BY <2>1, <2>4, <1>4 DEF TagsJoined
    <3>2. f.tags \subseteq Tags
      BY DEF Filters
    <3> QED
      BY <3>1, <3>2 DEF TaggedWithAll
  <2>9. k \in FoundInLog(f) <=>
           /\ ~Buried(n) /\ (f.key # NoKey => k = f.key)
           /\ f.tags \subseteq log[n].tags
           /\ f.agent # NoAgent => AgentOf(S) = f.agent
    BY <2>6, <2>7 DEF FoundInLog
  <2>10. Matches(f, k) <=>
           /\ ~Buried(n) /\ (f.key # NoKey => k = f.key)
           /\ f.tags \subseteq log[n].tags
           /\ f.agent # NoAgent => AgentOf(S) = f.agent
    BY <2>1, <2>5, <2>8 DEF Matches
  <2>11. ~Buried(n) => ParsedBody[facts[k].object] = LogMemory(k).val
    BY <2>4, <2>6
  <2> QED
    BY <2>4, <2>9, <2>10, <2>11 DEF n
<1> QED
  BY <1>5, <1>6

\* A list without repetitions of all of a finite set, by number, leaves none out.
LEMMA ListsAll ==
  ASSUME NEW F, IsFiniteSet(F), NEW s \in [1 .. Cardinality(F) -> F], IsInjective(s)
  PROVE  Range(s) = F
<1>1. Cardinality(F) \in Nat
  BY FS_CardinalityType
<1>2. s \in Injection(1 .. Cardinality(F), F)
  BY DEF Injection, IsInjective
<1>3. Cardinality(1 .. Cardinality(F)) = Cardinality(F)
  BY <1>1, FS_Interval
<1>4. s \in Surjection(1 .. Cardinality(F), F)
  BY <1>2, <1>3, FS_Injection
<1> QED
  BY <1>4 DEF Surjection, Range

LEMMA AnswersTheLog ==
  ASSUME NEW p, Procs = {p}, AnswerInv(p),
         \A v \in Values : ParsedBody[ParsedBody[v]] = ParsedBody[v]
  PROVE  ReadsAnswerTheLog
<1> DEFINE hits == reading[p].hits
           f == reading[p].filter
<1> SUFFICES ASSUME reading[p].at # "idle", faults = 0
             PROVE  /\ \A i \in DOMAIN hits : hits[i].key \in Plain =>
                          /\ hits[i].key \in FoundInLog(f)
                          /\ ParsedBody[hits[i].row.object] = LogMemory(hits[i].key).val
                    /\ \A k \in FoundInLog(f) \ HitKeys(p) :
                          /\ Len(hits) = f.limit
                          /\ \A i \in DOMAIN hits :
                                hits[i].row.updated >= log[Newest(StoresOf(k))].time
  BY DEF ReadsAnswerTheLog
<1>1. /\ p \in Procs /\ SoloInv(p) /\ pc[p] = "idle" /\ f \in Filters
      /\ IsFiniteSet(LiveKeys) /\ facts \in [Keys -> Rows \cup {NoRow}]
  BY DEF AnswerInv, Answers, SoloInv, TypeInv, TypeOK
<1> DEFINE found == {k \in Keys : Matches(f, k)}
           all == Cardinality(found)
           n == IF f.limit = 0 \/ all < f.limit THEN all ELSE f.limit
<1>2. PICK s \in Selections(f) : hits = [i \in DOMAIN s |-> [key |-> s[i], row |-> facts[s[i]]]]
  BY DEF AnswerInv, Answers
<1>3. /\ s \in [1 .. n -> found] /\ IsInjective(s)
      /\ \A k \in found \ Range(s), i \in 1 .. n : ~(facts[k].updated > facts[s[i]].updated)
  BY DEF Selections
<1>4. IsFiniteSet(found)
  BY <1>1, FS_Subset DEF Matches, LiveKeys
<1>5. n \in Nat
  BY <1>1, <1>4, FS_CardinalityType DEF Filters
<1>6. \A k \in found : Matches(f, k) /\ k \in Keys /\ facts[k].updated \in Nat
  BY <1>1 DEF Matches, Live, Rows
<1>7. \A k \in Plain : /\ Matches(f, k) <=> k \in FoundInLog(f)
                       /\ Matches(f, k) => /\ ParsedBody[facts[k].object] = LogMemory(k).val
                                           /\ facts[k].updated = log[Newest(StoresOf(k))].time
  BY <1>1, FindsWhatTheLogSays
<1> HIDE DEF hits, f
<1>8. ASSUME NEW i \in DOMAIN hits, hits[i].key \in Plain
      PROVE  /\ hits[i].key \in FoundInLog(f)
             /\ ParsedBody[hits[i].row.object] = LogMemory(hits[i].key).val
  <2>1. i \in DOMAIN s /\ hits[i].key = s[i] /\ hits[i].row = facts[s[i]]
    BY <1>2, <1>8
  <2>2. Matches(f, s[i])
    BY <1>3, <1>6, <2>1
  <2> QED
    BY <1>7, <1>8, <2>1, <2>2
<1>9. ASSUME NEW k \in FoundInLog(f) \ HitKeys(p)
      PROVE  /\ Len(hits) = f.limit
             /\ \A i \in DOMAIN hits :
                   hits[i].row.updated >= log[Newest(StoresOf(k))].time
  <2>1. k \in Plain /\ k \in Keys
    BY <1>9 DEF FoundInLog, Plain
  <2>2. k \in found /\ facts[k].updated = log[Newest(StoresOf(k))].time
    BY <1>7, <1>9, <2>1
  <2>3. k \notin Range(s)
    <3> SUFFICES ASSUME NEW i \in DOMAIN s, s[i] = k PROVE FALSE
      BY DEF Range
    <3>1. i \in DOMAIN hits /\ hits[i].key = k
      BY <1>2
    <3> QED
      BY <1>9, <3>1 DEF HitKeys, hits
  <2>4. n # all
    BY <1>3, <1>4, <2>2, <2>3, ListsAll
  <2>5. n = f.limit
    BY <2>4
  <2> HIDE DEF n, found
  <2>6. Len(hits) = n /\ DOMAIN s = 1 .. n
    BY <1>2, <1>3, <1>5
  <2>7. ASSUME NEW i \in DOMAIN hits
        PROVE  hits[i].row.updated >= log[Newest(StoresOf(k))].time
    <3>1. i \in 1 .. n /\ hits[i].row = facts[s[i]] /\ s[i] \in found
      BY <1>2, <1>3, <2>6, <2>7
    <3>2. ~(facts[k].updated > facts[s[i]].updated)
      BY <1>3, <2>2, <2>3, <3>1
    <3> QED
      BY <1>6, <2>2, <3>1, <3>2
  <2> QED
    BY <2>5, <2>6, <2>7
<1> QED
  BY <1>8, <1>9

\* RD1 for a process that has the directory to itself, with any keys, tags, agents,
\* limits and bodies that parsing leaves as they are once it has parsed them: of the
\* facts that never had a TTL, a recall or a list returns none that the log does not
\* hold for its filter, each with the body that was last stored, and it leaves out
\* such a fact only when its limit is used up by facts that are not older.
THEOREM AnswersComeFromTheLog ==
  ASSUME NEW p, Procs = {p},
         \A v \in Values : ParsedBody[ParsedBody[v]] = ParsedBody[v]
  PROVE  ReadsSpec => []ReadsAnswerTheLog
<1>1. ReadsInit => AnswerInv(p)
  <2> SUFFICES ASSUME ReadsInit PROVE AnswerInv(p)
    OBVIOUS
  <2>1. SoloInv(p) /\ LiveKeys = {}
    BY SoloInit DEF ReadsInit, Init, LiveKeys, Live
  <2> QED
    BY <2>1, FS_EmptySet DEF AnswerInv, ReadsInit, NotReading
<1>2. AnswerInv(p) /\ [ReadsNext]_readVars => AnswerInv(p)'
  BY AnswerStep
<1>3. AnswerInv(p) => ReadsAnswerTheLog
  BY AnswersTheLog
<1> QED
  BY <1>1, <1>2, <1>3, PTL DEF ReadsSpec
=============================================================================
