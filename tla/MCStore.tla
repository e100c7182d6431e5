------------------------------ MODULE MCStore ------------------------------
(* Values of the constants of Store for model checking. *)
EXTENDS StoreProperties, TLC

CONSTANTS k1, k2, k3, plain, padded, t1, t2, a1, noAgent, p1, p2

\* The markdown file gives "padded" (a body with blank lines around it) back
\* as "plain".
PadsAreLost == (plain :> plain) @@ (padded :> plain)

Call(k, v, T, a, ttl) == [key |-> k, val |-> v, tags |-> T, agent |-> a, ttl |-> ttl]
Forget(k, T) == [key |-> k, tags |-> T]

\* Permanent facts, with and without tags, agents and padding.
PermanentStores ==
    {Call(k, v, T, noAgent, 0) : k \in Keys, v \in {plain}, T \in {{}, {t1}}}
    \cup {Call(k, padded, {t1}, a1, 0) : k \in Keys}

\* Two tags, so that a forget may name one, or both.
TaggedStores == {Call(k, plain, T, noAgent, 0) : k \in Keys, T \in {{t1}, {t1, t2}}}

\* The smallest store calls that have a tag.
OneTagStores == {Call(k, plain, {t1}, noAgent, 0) : k \in Keys}

\* Permanent facts, and facts with a short, a long, a negative and a too long TTL.
TimedStores ==
    {Call(k1, padded, {t1}, a1, 0), Call(k1, plain, {}, noAgent, 1),
     Call(k2, plain, {t1}, noAgent, -1), Call(k2, plain, {t1}, noAgent, 3),
     Call(k2, plain, {}, noAgent, 5)}

\* Facts with and without a TTL of a second.
MixedStores == {Call(k, plain, T, noAgent, ttl) : k \in Keys, T \in {{t1}}, ttl \in {0, 1}}

Forgets == {Forget(k, {}) : k \in Keys} \cup {Forget(NoKey, {t1})}
TagForgets == {Forget(NoKey, {t1}), Forget(NoKey, {t1, t2}), Forget(NoKey, {t2})}
KeyForgets == {Forget(k, {}) : k \in Keys}

SharedSymmetry == Permutations(Keys) \cup Permutations(Procs)
=============================================================================
