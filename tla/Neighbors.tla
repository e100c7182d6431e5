------------------------------ MODULE Neighbors ------------------------------
(***************************************************************************)
(* memory_search with include_neighbors: expandWithNeighbors looks for the *)
(* keys next to those of the results ("t004" and "t006" for "t005"), takes *)
(* the ones that are stored and live, and weaves them into the results.    *)
(*                                                                         *)
(* A sequential key is a prefix and a number written in "width" digits; a  *)
(* key of width 0 stands for one that does not end that way.  The prefix   *)
(* and the facts of the keys are abstracted to the keys themselves, for    *)
(* no two facts have one key.                                              *)
(***************************************************************************)
EXTENDS Integers, FiniteSets, SequencesExt

CONSTANTS KeyPrefixes, \* what precedes the number of a key
          StoredKeys, \* the keys that may be in the index
          MaxDigits,  \* bound of the model: the digits of a number
          MaxResults, \* bound of the model: hits of the search itself
          MaxRadius   \* bound of the model: neighbor_radius

ASSUME NeighborsBoundsAssumption ==
    MaxDigits \in Nat \ {0} /\ MaxResults \in Nat /\ MaxRadius \in Nat \ {0}

VARIABLES live,    \* the keys of the live facts
          results, \* the hits, in the order of their rank
          radius,
          woven,   \* what the search returns
          done

vars == <<live, results, radius, woven, done>>
-----------------------------------------------------------------------------
(* Keys *)

Sequential(k) == k.width > 0

Digits(n) == 1 + Cardinality({d \in 1 .. MaxDigits - 1 : 10 ^ d <= n})

\* A number is written in as many digits as it needs, or in more.
ASSUME StoredKeysAssumption ==
    /\ StoredKeys \subseteq [prefix : KeyPrefixes, idx : Nat, width : Nat]
    /\ \A k \in StoredKeys :
          k.idx < 10 ^ MaxDigits /\ (Sequential(k) => Digits(k.idx) <= k.width)

\* Sprintf("%s%0*d"): padded to the width, and wider if the number needs it.
BuildNeighborKey(prefix, idx, width) ==
    [prefix |-> prefix, idx |-> idx, width |-> Max({width, Digits(idx)})]

\* The keys at most rad away from r.
CandidatesOf(r, rad) ==
    {BuildNeighborKey(r.prefix, i, r.width) :
        i \in {j \in r.idx - rad .. r.idx + rad : j >= 0 /\ j # r.idx}}

\* (Faulty variant.) The results are candidates too.
CandidatesWithResults(res, rad) ==
    UNION {CandidatesOf(r, rad) : r \in {q \in Range(res) : Sequential(q)}}

\* The keys around the results, and not results themselves.
NeighborCandidates(res, rad) ==
    {k \in UNION {CandidatesOf(r, rad) : r \in {q \in Range(res) : Sequential(q)}} :
        k \notin Range(res)}
-----------------------------------------------------------------------------
(* Weaving *)

Places(ks) == {<<k.prefix, k.idx>> : k \in ks}

\* byPrefixIdx: keys of one prefix and number, written in different widths, have
\* one place, and the last row that SQLite returns gets it.
Groups(ks) ==
    {g \in [Places(ks) -> ks] : \A x \in Places(ks) : x = <<g[x].prefix, g[x].idx>>}

\* The numbers that the walks from r reach: away from r as long as the next
\* number has a neighbour.
Reached(r, g) ==
    {i \in {r.idx} \cup {x[2] : x \in DOMAIN g} :
        \A j \in (i .. r.idx - 1) \cup (r.idx + 1 .. i) : <<r.prefix, j>> \in DOMAIN g}

Before(r, g) == LET n == r.idx - Min(Reached(r, g))
                IN  [i \in 1 .. n |-> g[<<r.prefix, r.idx - n + i - 1>>]]
Following(r, g) == LET n == Max(Reached(r, g)) - r.idx
                   IN  [i \in 1 .. n |-> g[<<r.prefix, r.idx + i>>]]

\* (Faulty variant.) The walk back appends where it should prepend.
AroundBackwards(r, g) ==
    IF Sequential(r) THEN Reverse(Before(r, g)) \o <<r>> \o Following(r, g) ELSE <<r>>

\* A result with the neighbours of its walks around it.
Around(r, g) ==
    IF Sequential(r) THEN Before(r, g) \o <<r>> \o Following(r, g) ELSE <<r>>

\* (Faulty variant.) A neighbour of two results is emitted twice.
EmitTwice(out, k) == Append(out, k)

\* Each key is emitted once.
Emit(out, k) == IF k \in Range(out) THEN out ELSE Append(out, k)

Emitting == INSTANCE Loops WITH Step <- Emit

Walk(out, keys) == Emitting!After(out, keys)

Walking == INSTANCE Loops WITH Step <- Walk

Walked(res, g) == Walking!After(<<>>, [i \in DOMAIN res |-> Around(res[i], g)])

\* The neighbours that no walk reached follow, in the order of a Go map.
Leftovers(res, g) == Range(g) \ Range(Walked(res, g))

Woven(res, g) == {Walked(res, g) \o rest : rest \in SetToSeqs(Leftovers(res, g))}
-----------------------------------------------------------------------------
Ranked == {res \in SeqOf(StoredKeys, MaxResults) : IsInjective(res)}

\* The hits are live facts.
Init ==
    /\ live \in SUBSET StoredKeys
    /\ results \in {res \in Ranked : Range(res) \subseteq live}
    /\ radius \in 1 .. MaxRadius
    /\ woven = <<>>
    /\ done = FALSE

\* Without a neighbour the results are returned as they are.
ExpandWithNeighbors ==
    /\ ~done
    /\ done' = TRUE
    /\ LET found == NeighborCandidates(results, radius) \cap live
       IN  \E g \in Groups(found) : woven' \in Woven(results, g)
    /\ UNCHANGED <<live, results, radius>>

Next == ExpandWithNeighbors

Spec == Init /\ [][Next]_vars
-----------------------------------------------------------------------------
(* Properties *)

\* INV1: weaving changes nothing in the ranking of the search: the hits are all
\* there, once, in their order (at tells where).
KeepsRanking ==
    done =>
        \E at \in [DOMAIN results -> DOMAIN woven] :
            /\ \A i \in DOMAIN results : woven[at[i]] = results[i]
            /\ \A i, j \in DOMAIN results : i < j => at[i] < at[j]
            /\ \A n \in DOMAIN woven \ Range(at) : woven[n] \notin Range(results)

\* k is written with the padding of r: in as many digits, or in more where its
\* number needs them and has no leading zero.
WrittenLike(k, r) == k.width = r.width \/ (k.width > r.width /\ k.width = Digits(k.idx))

\* The live facts a client asked for: written like a hit, at most radius from it.
NeighborsOf(r) ==
    {k \in live : /\ Sequential(r) /\ Sequential(k)
                  /\ k.prefix = r.prefix
                  /\ WrittenLike(k, r)
                  /\ k.idx - r.idx \in -radius .. radius}

\* INV2: what is returned is the hits and their live neighbours, each once,
\* whatever ranges overlap and whichever order rows and maps come in (no two
\* keys of a prefix have one number).
ReturnsNeighborhood ==
    done =>
        /\ Range(woven) = Range(results) \cup UNION {NeighborsOf(r) : r \in Range(results)}
        /\ IsInjective(woven)

\* No fact is missing between k and some hit.
Connected(k) ==
    \E r \in Range(results) :
        /\ Sequential(r) /\ r.prefix = k.prefix
        /\ \A i \in (r.idx .. k.idx) \cup (k.idx .. r.idx) :
              \E other \in Range(woven) :
                  Sequential(other) /\ other.prefix = k.prefix /\ other.idx = i

\* b is the fact after a in the sequence.
Succeeds(b, a) == Sequential(a) /\ Sequential(b) /\ a.prefix = b.prefix /\ b.idx = a.idx + 1

\* Places i and i + 1 of out hold one fact and the next of its sequence.
InSequence(out, i) == {i, i + 1} \subseteq DOMAIN out /\ Succeeds(out[i + 1], out[i])

\* INV3: a neighbour with no gap between it and a hit stands next to the fact
\* before it or after it in the sequence, in chronological order.
StandsInSequence ==
    done =>
        \A i \in DOMAIN woven :
            woven[i] \notin Range(results) /\ Connected(woven[i]) =>
                InSequence(woven, i - 1) \/ InSequence(woven, i)
=============================================================================
