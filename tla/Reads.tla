------------------------------- MODULE Reads -------------------------------
(***************************************************************************)
(* memory_recall and memory_list over the write path of module Store: what *)
(* they select, and the access counter of the rows a recall has returned.  *)
(* A recall is two statements, SELECT and an UPDATE of the counters by row *)
(* id.  Store.mu keeps the other calls of the process out of a recall, and *)
(* the steps of other processes may fall between its statements.           *)
(***************************************************************************)
EXTENDS Store, Functions

CONSTANTS RecallCalls, \* what memory_recall is called with
          ListCalls,   \* what memory_list is called with
          MaxAccess    \* bound of the model: recalls begin while all counters are below

Filters == [key : Keys \cup {NoKey}, tags : SUBSET Tags, agent : Agents, limit : Nat]

ASSUME FiltersAssumption == RecallCalls \subseteq Filters /\ ListCalls \subseteq Filters

VARIABLES
    access, \* access_count of the row of each key; 0 where there is no row
    reading \* the read that each process executes: where it is, and what it selected

readVars == <<vars, access, reading>>

NotReading == [at |-> "idle", filter |-> [key |-> NoKey, tags |-> {}, agent |-> NoAgent, limit |-> 0],
               hits |-> <<>>]

ReadsInit ==
    /\ Init
    /\ access = [k \in Keys |-> 0]
    /\ reading = [p \in Procs |-> NotReading]
-----------------------------------------------------------------------------
\* The WHERE clause of selectFacts.
Matches(f, k) ==
    /\ Live(facts[k], now)
    /\ f.key # NoKey => k = f.key
    /\ f.agent # NoAgent => facts[k].agent = f.agent
    /\ TaggedWithAll(facts[k], f.tags, factTags)

\* (Faulty variant.) The limit is applied before the order.
SelectionsUnordered(f) ==
    LET found == {k \in Keys : Matches(f, k)}
        all == Cardinality(found)
        n == IF f.limit = 0 \/ all < f.limit THEN all ELSE f.limit
    IN  {s \in [1 .. n -> found] : IsInjective(s)}

\* The keys that selectFacts may return: ORDER BY updated_at DESC, equal ones in
\* any order, cut to the limit, if there is one.
Selections(f) ==
    LET found == {k \in Keys : Matches(f, k)}
        all == Cardinality(found)
        n == IF f.limit = 0 \/ all < f.limit THEN all ELSE f.limit
        Newer(k, l) == facts[k].updated > facts[l].updated
    IN  {s \in [1 .. n -> found] :
            /\ IsInjective(s)
            /\ \A i, j \in 1 .. n : i < j => ~Newer(s[j], s[i])
            /\ \A k \in found \ Range(s), i \in 1 .. n : ~Newer(k, s[i])}

\* (Faulty variant.) The call does not take Store.mu.
SelectUnlocked(p, f, next) ==
    /\ reading[p].at = "idle"
    /\ "facts" \in tables
    /\ f.tags # {} => "fact_tags" \in tables
    /\ \E s \in Selections(f) :
        reading' = [reading EXCEPT ![p] =
            [at |-> IF s = <<>> THEN "answer" ELSE next, filter |-> f,
             hits |-> [i \in DOMAIN s |-> [key |-> s[i], row |-> facts[s[i]]]]]]
    /\ UNCHANGED <<vars, access>>

\* Query or List, under Store.mu.  Without its tables it fails, and the call with it.
Select(p, f, next) ==
    /\ pc[p] = "idle" /\ reading[p].at = "idle"
    /\ "facts" \in tables
    /\ f.tags # {} => "fact_tags" \in tables
    /\ \E s \in Selections(f) :
        reading' = [reading EXCEPT ![p] =
            [at |-> IF s = <<>> THEN "answer" ELSE next, filter |-> f,
             hits |-> [i \in DOMAIN s |-> [key |-> s[i], row |-> facts[s[i]]]]]]
    /\ UNCHANGED <<vars, access>>

Recall(p, f) ==
    /\ \A k \in Keys : access[k] < MaxAccess
    /\ Select(p, f, "touch")

List(p, f) == Select(p, f, "answer")

HitIds(p) == {reading[p].hits[i].row.id : i \in DOMAIN reading[p].hits}

\* TouchAccessed: UPDATE facts SET access_count WHERE id IN (...)
Touch(p) ==
    /\ reading[p].at = "touch"
    /\ "facts" \in tables
    /\ access' = [k \in Keys |-> IF facts[k] # NoRow /\ facts[k].id \in HitIds(p)
                                 THEN access[k] + 1 ELSE access[k]]
    /\ reading' = [reading EXCEPT ![p].at = "answer"]
    /\ UNCHANGED vars

\* It may fail, for want of the table or for another reason: nobody looks.
TouchFails(p) ==
    /\ reading[p].at = "touch"
    /\ reading' = [reading EXCEPT ![p].at = "answer"]
    /\ UNCHANGED <<vars, access>>

Answer(p) ==
    /\ reading[p].at = "answer"
    /\ reading' = [reading EXCEPT ![p] = NotReading]
    /\ UNCHANGED <<vars, access>>

Read(p) ==
    \/ \E f \in RecallCalls : Recall(p, f)
    \/ \E f \in ListCalls : List(p, f)
    \/ Touch(p) \/ TouchFails(p) \/ Answer(p)
-----------------------------------------------------------------------------
\* What a step of the write path does to the counters: the upsert of a row that
\* is there keeps its counter, a new row starts at 0.
CountersFollowRows ==
    access' = [k \in Keys |->
                 IF facts[k] # NoRow /\ facts'[k] # NoRow /\ facts'[k].id = facts[k].id
                 THEN access[k] ELSE 0]

\* Store.mu: a process that reads does not write.
WritePath(p) ==
    /\ reading[p].at = "idle"
    /\ Step(p) \/ Begin(p)
    /\ CountersFollowRows
    /\ UNCHANGED reading

\* A process may die within a read.
Disturbed(p) ==
    /\ Fault(p) \/ Restart(p)
    /\ reading' = [reading EXCEPT ![p] = NotReading]
    /\ UNCHANGED access

Clock ==
    /\ Tick \/ ClockStepsBack
    /\ UNCHANGED <<access, reading>>

ReadsNext ==
    \/ \E p \in Servers : Read(p)
    \/ \E p \in Procs : WritePath(p) \/ Disturbed(p)
    \/ Clock

ReadsSpec == ReadsInit /\ [][ReadsNext]_readVars
=============================================================================
