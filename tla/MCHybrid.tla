------------------------------ MODULE MCHybrid ------------------------------
(* Values of the constants of Hybrid for model checking. *)
EXTENDS HybridProperties

CONSTANTS k1, k2, s1, s2, r1, x, y, z

Call(k, t, temp) == [key |-> k, text |-> t, temp |-> temp]
Query(n, filtered) == [limit |-> n, filtered |-> filtered]

\* A fact that passes the filter, the same with a TTL, and another.
SomeStores == {Call(k1, x, FALSE), Call(k1, y, TRUE), Call(k2, z, FALSE)}

\* Two texts for a key.
TwoTexts == {Call(k1, x, FALSE), Call(k1, y, FALSE)}

PlainQueries == {Query(2, FALSE)}
AnyQueries == {Query(1, FALSE), Query(2, TRUE)}
=============================================================================
