------------------------------ MODULE KeyValue ------------------------------
(***************************************************************************)
(* What memory_store and memory_forget promise to one client: a map from   *)
(* keys to tagged values of bounded size, in which a store replaces the    *)
(* value and the tags of its key, and a forget drops a key or every key    *)
(* whose value carries all the given tags.  Nothing else changes the map;  *)
(* in particular, rescan does not.                                         *)
(***************************************************************************)
EXTENDS Naturals, FiniteSets

CONSTANTS Keys, Values, Tags,
          MaxEntries, \* the size of the map that no new key is added at
          Absent      \* the key has no value

VARIABLE mem

Memories == [val : Values, tags : SUBSET Tags]

Present == {k \in Keys : mem[k] # Absent}

Init == mem = [k \in Keys |-> Absent]

Put(k, v, T) ==
    /\ k \in Present \/ Cardinality(Present) < MaxEntries
    /\ mem' = [mem EXCEPT ![k] = [val |-> v, tags |-> T]]

Drop(k) == mem' = [mem EXCEPT ![k] = Absent]

DropTagged(T) ==
    /\ T # {}
    /\ mem' = [k \in Keys |->
                 IF k \in Present /\ T \subseteq mem[k].tags THEN Absent ELSE mem[k]]

Next ==
    \/ \E k \in Keys, v \in Values, T \in SUBSET Tags : Put(k, v, T)
    \/ \E k \in Keys : Drop(k)
    \/ \E T \in SUBSET Tags : DropTagged(T)

\* [][Next]_mem, said so that a step that changes nothing is told first.
Spec == Init /\ [][mem' # mem => Next]_mem
=============================================================================
