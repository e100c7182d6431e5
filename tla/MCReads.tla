------------------------------ MODULE MCReads ------------------------------
(* Values of the constants of Reads for model checking. *)
EXTENDS ReadProperties, TLC

CONSTANTS k1, k2, k3, plain, padded, t1, t2, a1, noAgent, p1, p2

PadsAreLost == (plain :> plain) @@ (padded :> plain)

Call(k, v, T, a, ttl) == [key |-> k, val |-> v, tags |-> T, agent |-> a, ttl |-> ttl]
Filter(k, T, a, n) == [key |-> k, tags |-> T, agent |-> a, limit |-> n]

\* Permanent facts, with and without a tag, an agent and padding.
PermanentStores ==
    {Call(k, plain, T, noAgent, 0) : k \in Keys, T \in {{}, {t1}}}
    \cup {Call(k, padded, {t1, t2}, a1, 0) : k \in Keys}

\* Permanent facts without a tag, and facts with a TTL, which a prune takes, and a tag.
PlainStores ==
    {Call(k, plain, {}, noAgent, 0) : k \in Keys} \cup {Call(k, plain, {t1}, noAgent, 1) : k \in Keys}

Forget(k, T) == [key |-> k, tags |-> T]
KeyForgets == {Forget(k, {}) : k \in Keys}
AllForgets ==
    KeyForgets \cup {Forget(k, {t1}) : k \in Keys} \cup {Forget(NoKey, {t1, t2})}

\* The newest fact, those of an agent with a tag, and one by its key.
AllRecalls ==
    {Filter(NoKey, {}, noAgent, 1), Filter(NoKey, {t1}, a1, 2)}
    \cup {Filter(k, {t1}, noAgent, 2) : k \in Keys}
AnyRecall == {Filter(NoKey, {}, noAgent, 2)}
AllLists == {Filter(NoKey, {}, noAgent, 0)}

KeySymmetry == Permutations(Keys)
SharedSymmetry == Permutations(Keys) \cup Permutations(Procs)
=============================================================================
