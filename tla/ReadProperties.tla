--------------------------- MODULE ReadProperties ---------------------------
(***************************************************************************)
(* What recalls and lists keep.                                            *)
(***************************************************************************)
EXTENDS Reads, StoreProperties

\* The keys that were never given a TTL, neither above nor below 0.
Plain == {k \in Keys : \A i \in StoresOf(k) : log[i].ttl = 0}

\* The keys that the log says a filter finds.
FoundInLog(f) ==
    {k \in Plain :
        /\ LogMemory(k) # NoRow
        /\ f.key # NoKey => k = f.key
        /\ f.tags \subseteq LogMemory(k).tags
        /\ f.agent # NoAgent => AgentOf(StoresOf(k)) = f.agent}

HitKeys(p) == {reading[p].hits[i].key : i \in DOMAIN reading[p].hits}

\* RD1: a recall or a list answers what the log says, whatever stores, forgets,
\* prunes and rescans came before in the process: each hit is found in the log,
\* with the last body stored under its key, and what is found there and not
\* returned is no newer than any hit, and the limit is used up (one process, no
\* failures).
ReadsAnswerTheLog ==
    \A p \in Procs :
        LET hits == reading[p].hits
            f == reading[p].filter
        IN  reading[p].at # "idle" /\ faults = 0 =>
            /\ \A i \in DOMAIN hits : hits[i].key \in Plain =>
                  /\ hits[i].key \in FoundInLog(f)
                  /\ ParsedBody[hits[i].row.object] = LogMemory(hits[i].key).val
            /\ \A k \in FoundInLog(f) \ HitKeys(p) :
                  /\ Len(hits) = f.limit
                  /\ \A i \in DOMAIN hits :
                        hits[i].row.updated >= log[Newest(StoresOf(k))].time

\* RD2: a recall counts no fact that it has not returned, although it goes by the
\* row ids of a SELECT that other processes' stores, forgets and prunes may have
\* followed (while nobody rescans).
CountsOnlyReturned ==
    [][\A p \in Procs : Touch(p) =>
          \A k \in Keys : access'[k] # access[k] => k \in HitKeys(p)]_readVars
=============================================================================
