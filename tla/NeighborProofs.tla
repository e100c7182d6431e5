--------------------------- MODULE NeighborProofs ---------------------------
(***************************************************************************)
(* That weaving keeps the ranking, returns every neighbour once and puts   *)
(* it in its sequence, proved for any keys, hits and radius.               *)
(***************************************************************************)
EXTENDS Neighbors, FiniteSetTheorems, SequenceTheorems, TLAPS

EmitFacts == INSTANCE LoopProofs WITH Step <- Emit
WalkFacts == INSTANCE LoopProofs WITH Step <- Walk
-----------------------------------------------------------------------------
(* The two loops *)

LEMMA WalkIs == \A b, s : Walk(b, s) = EmitFacts!After(b, s)
BY DEF Walk, Emitting!After, EmitFacts!After

LEMMA WalkConcat ==
  ASSUME NEW b, NEW S, NEW s \in Seq(S), NEW t \in Seq(S)
  PROVE  Walk(b, s \o t) = Walk(Walk(b, s), t)
<1>1. EmitFacts!After(b, s \o t) = EmitFacts!After(EmitFacts!After(b, s), t)
  BY EmitFacts!AfterConcat
<1> QED
  BY <1>1, WalkIs

LEMMA WalkInvariant ==
  ASSUME NEW b, NEW S, NEW s \in Seq(S), NEW I, b \in I[0],
         \A n \in 0 .. Len(s) - 1 : \A c \in I[n] : Emit(c, s[n + 1]) \in I[n + 1]
  PROVE  Walk(b, s) \in I[Len(s)]
<1>1. EmitFacts!After(b, s) \in I[Len(s)]
  BY EmitFacts!AfterInvariant
<1> QED
  BY <1>1, WalkIs

LEMMA WalkOne == \A b, k : Walk(b, <<k>>) = Emit(b, k)
<1> TAKE b, k
<1>1. <<>> \in Seq({k}) /\ Append(<<>>, k) = <<k>>
  OBVIOUS
<1>2. EmitFacts!After(b, Append(<<>>, k)) = Emit(EmitFacts!After(b, <<>>), k)
  BY <1>1, EmitFacts!AfterAppend
<1>3. EmitFacts!After(b, <<>>) = b
  BY EmitFacts!AfterNone
<1> QED
  BY <1>1, <1>2, <1>3, WalkIs

LEMMA WalkedInvariant ==
  ASSUME NEW b, NEW S, NEW s \in Seq(S), NEW I, b \in I[0],
         \A n \in 0 .. Len(s) - 1 : \A c \in I[n] : Walk(c, s[n + 1]) \in I[n + 1]
  PROVE  Walking!After(b, s) \in I[Len(s)]
<1>1. WalkFacts!After(b, s) \in I[Len(s)]
  BY WalkFacts!AfterInvariant
<1>2. Walking!After(b, s) = WalkFacts!After(b, s)
  BY DEF Walking!After, WalkFacts!After
<1> QED
  BY <1>1, <1>2
-----------------------------------------------------------------------------
(* What is emitted *)

LEMMA RangeOf ==
  ASSUME NEW S, NEW s \in Seq(S)
  PROVE  /\ \A x : x \in Range(s) <=> \E i \in 1 .. Len(s) : x = s[i]
         /\ Range(s) \subseteq S
BY DEF Range

LEMMA EmitKeeps ==
  ASSUME NEW S, NEW b \in Seq(S), NEW k \in S
  PROVE  /\ Emit(b, k) \in Seq(S)
         /\ Range(Emit(b, k)) = Range(b) \cup {k}
         /\ IsInjective(b) => IsInjective(Emit(b, k))
<1>1. CASE k \in Range(b)
  BY <1>1 DEF Emit
<1>2. CASE k \notin Range(b)
  <2> DEFINE c == Append(b, k)
             n == Len(b)
  <2>1. Emit(b, k) = c
    BY <1>2 DEF Emit
  <2>2. c \in Seq(S) /\ n \in Nat /\ Len(c) = n + 1 /\ c[n + 1] = k /\ \A i \in 1 .. n : c[i] = b[i]
    OBVIOUS
  <2> HIDE DEF c, n
  <2>3. \A x : x \in Range(c) <=> \E i \in 1 .. n + 1 : x = c[i]
    BY <2>2, RangeOf
  <2>4. \A x : x \in Range(b) <=> \E i \in 1 .. n : x = b[i]
    BY RangeOf DEF n
  <2>5. 1 .. n + 1 = (1 .. n) \cup {n + 1}
    BY <2>2
  <2>6. Range(c) = Range(b) \cup {k}
    BY <2>2, <2>3, <2>4, <2>5
  <2>7. ASSUME IsInjective(b), NEW i \in 1 .. n + 1, NEW j \in 1 .. n + 1, c[i] = c[j]
        PROVE  i = j
    <3>1. \A m \in 1 .. n : b[m] # k
      BY <1>2, <2>4
    <3>2. DOMAIN b = 1 .. n
      BY DEF n
    <3>3. \A m, l \in 1 .. n : b[m] = b[l] => m = l
      BY <2>7, <3>2 DEF IsInjective
    <3> QED
      BY <2>2, <2>5, <2>7, <3>1, <3>3
  <2>8. DOMAIN c = 1 .. n + 1
    BY <2>2
  <2> QED
    BY <2>1, <2>2, <2>6, <2>7, <2>8 DEF IsInjective
<1> QED
  BY <1>1, <1>2

\* A walk adds what it meets, and nothing twice.
LEMMA WalkKeeps ==
  ASSUME NEW S, NEW b \in Seq(S), NEW s \in Seq(S)
  PROVE  /\ Walk(b, s) \in Seq(S)
         /\ Range(Walk(b, s)) = Range(b) \cup Range(s)
         /\ IsInjective(b) => IsInjective(Walk(b, s))
<1> DEFINE N == Len(s)
           I == [n \in 0 .. N |->
                   {c \in Seq(S) : /\ \A x : x \in Range(c) <=> x \in Range(b) \/ \E i \in 1 .. n : x = s[i]
                                   /\ IsInjective(b) => IsInjective(c)}]
<1>1. N \in Nat
  OBVIOUS
<1>2. b \in I[0]
  OBVIOUS
<1>3. ASSUME NEW n \in 0 .. N - 1, NEW c \in I[n] PROVE Emit(c, s[n + 1]) \in I[n + 1]
  <2> DEFINE k == s[n + 1]
             d == Emit(c, k)
  <2>1. n \in 0 .. N /\ n + 1 \in 0 .. N /\ k \in S /\ 1 .. n + 1 = (1 .. n) \cup {n + 1}
    OBVIOUS
  <2>2. /\ c \in Seq(S)
        /\ IsInjective(b) => IsInjective(c)
        /\ \A x : x \in Range(c) <=> x \in Range(b) \/ \E i \in 1 .. n : x = s[i]
    BY <1>3, <2>1
  <2> HIDE DEF k
  <2>3. d \in Seq(S) /\ Range(d) = Range(c) \cup {k} /\ (IsInjective(c) => IsInjective(d))
    BY <2>1, <2>2, EmitKeeps
  <2> HIDE DEF d
  <2>4. \A x : x \in Range(d) <=> x \in Range(b) \/ \E i \in 1 .. n + 1 : x = s[i]
    BY <2>1, <2>2, <2>3 DEF k
  <2>5. d \in I[n + 1]
    BY <2>1, <2>2, <2>3, <2>4
  <2> QED
    BY <2>5 DEF d, k
<1>4. Walk(b, s) \in I[N]
  <2> HIDE DEF I
  <2> QED
    BY <1>2, <1>3, WalkInvariant
<1>5. N \in 0 .. N
  BY <1>1
<1>6. /\ Walk(b, s) \in Seq(S)
      /\ IsInjective(b) => IsInjective(Walk(b, s))
      /\ \A x : x \in Range(Walk(b, s)) <=> x \in Range(b) \/ \E i \in 1 .. N : x = s[i]
  BY <1>4, <1>5
<1>7. \A x : x \in Range(s) <=> \E i \in 1 .. N : x = s[i]
  BY RangeOf
<1> QED
  BY <1>6, <1>7

\* A walk over keys that are all there does nothing.
LEMMA WalkIdle ==
  ASSUME NEW S, NEW b, NEW s \in Seq(S), Range(s) \subseteq Range(b)
  PROVE  Walk(b, s) = b
<1> DEFINE N == Len(s)
           I == [n \in 0 .. N |-> {b}]
<1>1. N \in Nat /\ b \in I[0] /\ N \in 0 .. N
  OBVIOUS
<1>2. ASSUME NEW n \in 0 .. N - 1, NEW c \in I[n] PROVE Emit(c, s[n + 1]) \in I[n + 1]
  <2>1. n \in 0 .. N /\ n + 1 \in 0 .. N /\ n + 1 \in 1 .. N
    OBVIOUS
  <2>2. s[n + 1] \in Range(b)
    BY <2>1, RangeOf
  <2> QED
    BY <2>1, <2>2 DEF Emit
<1>3. Walk(b, s) \in I[N]
  <2> HIDE DEF I
  <2> QED
    BY <1>1, <1>2, WalkInvariant
<1> QED
  BY <1>1, <1>3

LEMMA ConcatAppend ==
  ASSUME NEW S, NEW s \in Seq(S), NEW t \in Seq(S), NEW x \in S
  PROVE  s \o Append(t, x) = Append(s \o t, x)
<1>1. s \o t \in Seq(S)
  OBVIOUS
<1> QED
  BY <1>1

\* A walk over keys that are not there, and each once, appends them.
LEMMA WalkFresh ==
  ASSUME NEW S, NEW b \in Seq(S), NEW s \in Seq(S), IsInjective(s),
         \A x \in Range(s) : x \notin Range(b)
  PROVE  Walk(b, s) = b \o s
<1> DEFINE N == Len(s)
           I == [m \in 0 .. N |-> {b \o SubSeq(s, 1, m)}]
<1>1. N \in Nat /\ N \in 0 .. N
  OBVIOUS
<1>2. b \in I[0]
  <2>1. SubSeq(s, 1, 0) = <<>> /\ b \o <<>> = b
    OBVIOUS
  <2> QED
    BY <2>1
<1>3. ASSUME NEW n \in 0 .. N - 1, NEW c \in I[n] PROVE Emit(c, s[n + 1]) \in I[n + 1]
  <2> DEFINE t == SubSeq(s, 1, n)
             k == s[n + 1]
  <2>1. n \in 0 .. N /\ n + 1 \in 0 .. N /\ k \in S /\ n + 1 \in 1 .. N
    OBVIOUS
  <2>2. c = b \o t
    BY <1>3, <2>1
  <2>3. /\ t \in Seq(S) /\ SubSeq(s, 1, n + 1) = Append(t, k) /\ Len(t) = n
        /\ \A i \in 1 .. n : t[i] = s[i]
    BY <2>1
  <2>4. k \notin Range(b)
    BY <2>1, RangeOf
  <2>5. k \notin Range(t)
    <3> SUFFICES ASSUME k \in Range(t) PROVE FALSE
      OBVIOUS
    <3> HIDE DEF t
    <3>1. PICK m \in 1 .. n : k = t[m]
      BY <2>3, RangeOf
    <3>2. DOMAIN s = 1 .. N /\ m \in 1 .. N /\ m # n + 1
      BY <2>1
    <3> QED
      BY <2>1, <2>3, <3>1, <3>2 DEF IsInjective
  <2> HIDE DEF t, k
  <2>6. /\ c \in Seq(S) /\ Len(c) = Len(b) + n
        /\ \A m \in 1 .. Len(b) : c[m] = b[m]
        /\ \A m \in 1 .. n : c[Len(b) + m] = t[m]
    BY <2>1, <2>2, <2>3, ConcatProperties
  <2>7. k \notin Range(c)
    <3> SUFFICES ASSUME NEW l \in 1 .. Len(b) + n PROVE c[l] # k
      BY <2>6, RangeOf
    <3>1. CASE l \in 1 .. Len(b)
      BY <2>4, <2>6, <3>1, RangeOf
    <3>2. CASE l \notin 1 .. Len(b)
      <4> DEFINE j == l - Len(b)
      <4>1. j \in 1 .. n /\ Len(b) + j = l
        BY <2>1, <3>2
      <4> HIDE DEF j
      <4>2. c[l] = t[j]
        BY <2>6, <4>1
      <4> QED
        BY <2>3, <2>5, <4>1, <4>2, RangeOf
    <3> QED
      BY <3>1, <3>2
  <2>8. Emit(c, k) = Append(c, k)
    BY <2>7 DEF Emit
  <2>9. b \o Append(t, k) = Append(b \o t, k)
    <3>1. t \in Seq(S) /\ k \in S
      BY <2>1, <2>3
    <3> QED
      BY <3>1, ConcatAppend
  <2>10. Emit(c, k) \in I[n + 1]
    BY <2>1, <2>2, <2>3, <2>8, <2>9
  <2> QED
    BY <2>10 DEF k
<1>4. Walk(b, s) \in I[N]
  <2> HIDE DEF I
  <2> QED
    BY <1>2, <1>3, WalkInvariant
<1>5. Walk(b, s) = b \o SubSeq(s, 1, N)
  BY <1>1, <1>4
<1>6. SubSeq(s, 1, N) = s
  OBVIOUS
<1> QED
  BY <1>5, <1>6
-----------------------------------------------------------------------------
(* The walks from a hit *)

LEMMA HasGreatest ==
  ASSUME NEW T, T \subseteq Nat, IsFiniteSet(T), T # {}
  PROVE  \E m \in T : \A x \in T : x <= m
<1> DEFINE E == {n \in Nat : \A U \in SUBSET Nat :
                    IsFiniteSet(U) /\ Cardinality(U) = n /\ U # {}
                      => \E m \in U : \A x \in U : x <= m}
<1>1. 0 \in E
  BY FS_EmptySet
<1>2. ASSUME NEW n \in Nat, n \in E PROVE n + 1 \in E
  <2> SUFFICES ASSUME NEW U \in SUBSET Nat, IsFiniteSet(U), Cardinality(U) = n + 1, U # {}
               PROVE  \E m \in U : \A x \in U : x <= m
    OBVIOUS
  <2>1. PICK u \in U : TRUE
    OBVIOUS
  <2> DEFINE V == U \ {u}
  <2>2. IsFiniteSet(V) /\ Cardinality(V) = (n + 1) - 1
    BY <2>1, FS_RemoveElement
  <2>3. V \in SUBSET Nat /\ Cardinality(V) = n
    BY <2>2
  <2>4. CASE V = {}
    BY <2>1, <2>4
  <2>5. CASE V # {}
    <3>1. \E m \in V : \A x \in V : x <= m
      <4> HIDE DEF V
      <4> QED
        BY <1>2, <2>2, <2>3, <2>5
    <3>2. PICK m \in V : \A x \in V : x <= m
      BY <3>1
    <3>3. m \in Nat /\ u \in Nat /\ m \in U
      BY <2>1
    <3>4. CASE u <= m
      BY <3>2, <3>3, <3>4
    <3>5. CASE ~(u <= m)
      <4>1. \A x \in U : x <= u
        BY <3>2, <3>3, <3>5
      <4> QED
        BY <2>1, <4>1
    <3> QED
      BY <3>4, <3>5
  <2> QED
    BY <2>4, <2>5
<1>3. Nat \subseteq E
  <2> HIDE DEF E
  <2> QED
    BY <1>1, <1>2, EmitFacts!Induction
<1>4. Cardinality(T) \in Nat
  BY FS_CardinalityType
<1>5. Cardinality(T) \in E
  BY <1>3, <1>4
<1> QED
  BY <1>5

LEMMA Extremes ==
  ASSUME NEW T, T \subseteq Nat, IsFiniteSet(T), T # {}
  PROVE  /\ Min(T) \in T /\ Max(T) \in T
         /\ \A x \in T : Min(T) <= x /\ x <= Max(T)
<1>1. \E m \in T : \A x \in T : m <= x
  BY EmitFacts!Least
<1>2. \E m \in T : \A x \in T : m >= x
  BY HasGreatest
<1>3. Min(T) \in T /\ \A x \in T : Min(T) <= x
  BY <1>1 DEF Min
<1>4. Max(T) \in T /\ \A x \in T : Max(T) >= x
  BY <1>2 DEF Max
<1> QED
  BY <1>3, <1>4

\* Neighbours that were found, and how the rows were put in their places.
Grouping(g, ks) ==
    /\ g \in Groups(ks)
    /\ ks \subseteq StoredKeys
    /\ IsFiniteSet(ks)
    /\ \A k \in ks : Sequential(k)

LEMMA GroupType ==
  ASSUME NEW ks, NEW g, Grouping(g, ks)
  PROVE  /\ IsFiniteSet(DOMAIN g) /\ IsFiniteSet(Range(g))
         /\ Range(g) \subseteq ks
         /\ \A x \in DOMAIN g : /\ g[x] \in ks /\ g[x] \in Range(g)
                                /\ x = <<g[x].prefix, g[x].idx>>
                                /\ g[x].idx \in Nat /\ x[2] = g[x].idx
         /\ \A k \in ks : <<k.prefix, k.idx>> \in DOMAIN g
<1>1. DOMAIN g = Places(ks) /\ \A x \in Places(ks) : g[x] \in ks /\ x = <<g[x].prefix, g[x].idx>>
  BY DEF Grouping, Groups
<1>2. IsFiniteSet(Places(ks))
  <2> DEFINE at == [k \in ks |-> <<k.prefix, k.idx>>]
  <2>1. at \in Surjection(ks, Places(ks))
    BY DEF Places, Surjection
  <2> QED
    BY <2>1, FS_Surjection DEF Grouping
<1>3. Range(g) \subseteq ks
  BY <1>1 DEF Range
<1>4. IsFiniteSet(Range(g))
  BY <1>3, FS_Subset DEF Grouping
<1>5. \A k \in ks : k.idx \in Nat
  BY StoredKeysAssumption DEF Grouping
<1>6. \A k \in ks : <<k.prefix, k.idx>> \in DOMAIN g
  BY <1>1 DEF Places
<1>7. \A x \in DOMAIN g : g[x] \in Range(g)
  BY DEF Range
<1>8. ASSUME NEW x \in DOMAIN g
      PROVE  g[x] \in ks /\ x = <<g[x].prefix, g[x].idx>> /\ g[x].idx \in Nat /\ x[2] = g[x].idx
  <2>1. g[x] \in ks /\ x = <<g[x].prefix, g[x].idx>>
    BY <1>1
  <2>2. <<g[x].prefix, g[x].idx>>[2] = g[x].idx
    OBVIOUS
  <2> QED
    BY <1>5, <2>1, <2>2
<1> QED
  BY <1>1, <1>2, <1>3, <1>4, <1>6, <1>7, <1>8

\* From r on, the numbers from lo to hi have neighbours and those next to them
\* have none.
LEMMA ReachedEnds ==
  ASSUME NEW ks, NEW g, Grouping(g, ks), NEW r \in StoredKeys
  PROVE  LET lo == Min(Reached(r, g))
             hi == Max(Reached(r, g))
         IN  /\ lo \in Nat /\ hi \in Nat /\ r.idx \in Nat /\ lo <= r.idx /\ r.idx <= hi
             /\ \A j \in lo .. r.idx - 1 : <<r.prefix, j>> \in DOMAIN g
             /\ \A j \in r.idx + 1 .. hi : <<r.prefix, j>> \in DOMAIN g
             /\ \A i \in Nat :
                   i < r.idx /\ (\A j \in i .. r.idx - 1 : <<r.prefix, j>> \in DOMAIN g) => lo <= i
             /\ \A i \in Nat :
                   i > r.idx /\ (\A j \in r.idx + 1 .. i : <<r.prefix, j>> \in DOMAIN g) => i <= hi
<1> DEFINE S == Reached(r, g)
           N == {r.idx} \cup {x[2] : x \in DOMAIN g}
<1>1. r.idx \in Nat
  BY StoredKeysAssumption
<1>2. N \subseteq Nat
  BY <1>1, GroupType
<1>3. IsFiniteSet(N)
  <2> DEFINE numbers == {x[2] : x \in DOMAIN g}
             number == [x \in DOMAIN g |-> x[2]]
  <2>1. number \in Surjection(DOMAIN g, numbers)
    BY DEF Surjection
  <2>2. IsFiniteSet(numbers)
    BY <2>1, FS_Surjection, GroupType
  <2>3. IsFiniteSet({r.idx})
    BY FS_Singleton
  <2> QED
    BY <2>2, <2>3, FS_Union
<1>4. \A i : i \in S <=> /\ i \in N
                         /\ \A j \in (i .. r.idx - 1) \cup (r.idx + 1 .. i) : <<r.prefix, j>> \in DOMAIN g
  BY DEF Reached
<1>5. S \subseteq N
  BY <1>4
<1>6. S \subseteq Nat /\ IsFiniteSet(S)
  BY <1>2, <1>3, <1>5, FS_Subset
<1>7. r.idx \in S
  BY <1>1, <1>4
<1> DEFINE lo == Min(S)
           hi == Max(S)
<1>8. lo \in S /\ hi \in S /\ \A x \in S : lo <= x /\ x <= hi
  BY <1>6, <1>7, Extremes
<1>9. ASSUME NEW i \in Nat, <<r.prefix, i>> \in DOMAIN g PROVE i \in N
  <2>1. <<r.prefix, i>>[2] = i
    OBVIOUS
  <2> QED
    BY <1>9, <2>1
<1> HIDE DEF S, N, lo, hi
<1>10. /\ \A j \in lo .. r.idx - 1 : <<r.prefix, j>> \in DOMAIN g
       /\ \A j \in r.idx + 1 .. hi : <<r.prefix, j>> \in DOMAIN g
  BY <1>4, <1>8
<1>11. ASSUME NEW i \in Nat, i < r.idx, \A j \in i .. r.idx - 1 : <<r.prefix, j>> \in DOMAIN g
       PROVE  lo <= i
  <2>1. <<r.prefix, i>> \in DOMAIN g
    BY <1>1, <1>11
  <2>2. \A j \in r.idx + 1 .. i : FALSE
    BY <1>1, <1>11
  <2>3. i \in S
    BY <1>4, <1>9, <1>11, <2>1, <2>2
  <2> QED
    BY <1>8, <2>3
<1>12. ASSUME NEW i \in Nat, i > r.idx, \A j \in r.idx + 1 .. i : <<r.prefix, j>> \in DOMAIN g
       PROVE  i <= hi
  <2>1. <<r.prefix, i>> \in DOMAIN g
    BY <1>1, <1>12
  <2>2. \A j \in i .. r.idx - 1 : FALSE
    BY <1>1, <1>12
  <2>3. i \in S
    BY <1>4, <1>9, <1>12, <2>1, <2>2
  <2> QED
    BY <1>8, <2>3
<1>13. lo \in Nat /\ hi \in Nat /\ lo <= r.idx /\ r.idx <= hi
  BY <1>6, <1>7, <1>8
<1> QED
  BY <1>1, <1>10, <1>11, <1>12, <1>13 DEF lo, hi, S

\* The numbers of b end just below that of r, without a gap, and go down as far
\* as possible.
RunsUpTo(b, r, g) ==
    /\ Len(b) \in Nat /\ r.idx \in Nat /\ Len(b) <= r.idx
    /\ \A i \in 1 .. Len(b) :
          /\ <<r.prefix, r.idx - Len(b) + i - 1>> \in DOMAIN g
          /\ b[i] = g[<<r.prefix, r.idx - Len(b) + i - 1>>]
          /\ b[i] \in Range(g)
          /\ b[i].prefix = r.prefix
          /\ b[i].idx = r.idx - Len(b) + i - 1
    /\ \A i \in Nat :
          i < r.idx /\ (\A j \in i .. r.idx - 1 : <<r.prefix, j>> \in DOMAIN g)
            => r.idx - Len(b) <= i

LEMMA BeforeType ==
  ASSUME NEW ks, NEW g, Grouping(g, ks), NEW r \in StoredKeys
  PROVE  Before(r, g) \in Seq(ks) /\ RunsUpTo(Before(r, g), r, g)
<1> DEFINE b == Before(r, g)
           lo == Min(Reached(r, g))
           n == r.idx - lo
           at(i) == <<r.prefix, r.idx - n + i - 1>>
<1>1. /\ lo \in Nat /\ r.idx \in Nat /\ lo <= r.idx
      /\ \A j \in lo .. r.idx - 1 : <<r.prefix, j>> \in DOMAIN g
      /\ \A i \in Nat :
            i < r.idx /\ (\A j \in i .. r.idx - 1 : <<r.prefix, j>> \in DOMAIN g) => lo <= i
  BY ReachedEnds
<1>2. b = [i \in 1 .. n |-> g[at(i)]]
  BY DEF Before
<1> HIDE DEF lo, b
<1>3. n \in 0 .. r.idx /\ lo = r.idx - n
  BY <1>1
<1>4. ASSUME NEW i \in 1 .. n PROVE at(i) \in DOMAIN g
  <2> DEFINE j == r.idx - n + i - 1
  <2>1. j \in lo .. r.idx - 1
    BY <1>1, <1>3
  <2> HIDE DEF j
  <2>2. <<r.prefix, j>> \in DOMAIN g
    BY <1>1, <2>1
  <2> QED
    BY <2>2 DEF j
<1>5. ASSUME NEW i \in 1 .. n
      PROVE  /\ g[at(i)] \in ks /\ g[at(i)] \in Range(g)
             /\ g[at(i)].prefix = r.prefix /\ g[at(i)].idx = r.idx - n + i - 1
  <2> DEFINE x == at(i)
  <2>1. x \in DOMAIN g
    BY <1>4
  <2> HIDE DEF x
  <2>2. g[x] \in ks /\ g[x] \in Range(g) /\ x = <<g[x].prefix, g[x].idx>>
    BY <2>1, GroupType
  <2> QED
    BY <2>2 DEF x
<1> HIDE DEF n
<1>6. b \in Seq(ks) /\ Len(b) = n /\ \A i \in 1 .. n : b[i] = g[at(i)]
  <2>1. \A i \in 1 .. n : g[at(i)] \in ks
    BY <1>5
  <2> HIDE DEF at
  <2>2. b \in [1 .. n -> ks] /\ \A i \in 1 .. n : b[i] = g[at(i)]
    BY <1>2, <2>1
  <2> QED
    BY <1>3, <2>2
<1> QED
  BY <1>1, <1>3, <1>4, <1>5, <1>6 DEF b, RunsUpTo

\* The numbers of f start just above that of r and go up as far as possible.
RunsFrom(f, r, g) ==
    /\ Len(f) \in Nat /\ r.idx \in Nat
    /\ \A i \in 1 .. Len(f) :
          /\ <<r.prefix, r.idx + i>> \in DOMAIN g
          /\ f[i] = g[<<r.prefix, r.idx + i>>]
          /\ f[i] \in Range(g)
          /\ f[i].prefix = r.prefix
          /\ f[i].idx = r.idx + i
    /\ \A i \in Nat :
          i > r.idx /\ (\A j \in r.idx + 1 .. i : <<r.prefix, j>> \in DOMAIN g)
            => i <= r.idx + Len(f)

LEMMA FollowingType ==
  ASSUME NEW ks, NEW g, Grouping(g, ks), NEW r \in StoredKeys
  PROVE  Following(r, g) \in Seq(ks) /\ RunsFrom(Following(r, g), r, g)
<1> DEFINE f == Following(r, g)
           hi == Max(Reached(r, g))
           n == hi - r.idx
           at(i) == <<r.prefix, r.idx + i>>
<1>1. /\ hi \in Nat /\ r.idx \in Nat /\ r.idx <= hi
      /\ \A j \in r.idx + 1 .. hi : <<r.prefix, j>> \in DOMAIN g
      /\ \A i \in Nat :
            i > r.idx /\ (\A j \in r.idx + 1 .. i : <<r.prefix, j>> \in DOMAIN g) => i <= hi
  BY ReachedEnds
<1>2. f = [i \in 1 .. n |-> g[at(i)]]
  BY DEF Following
<1> HIDE DEF hi, f
<1>3. n \in Nat /\ hi = r.idx + n
  BY <1>1
<1>4. ASSUME NEW i \in 1 .. n PROVE at(i) \in DOMAIN g
  <2> DEFINE j == r.idx + i
  <2>1. j \in r.idx + 1 .. hi
    BY <1>1, <1>3
  <2> HIDE DEF j
  <2>2. <<r.prefix, j>> \in DOMAIN g
    BY <1>1, <2>1
  <2> QED
    BY <2>2 DEF j
<1>5. ASSUME NEW i \in 1 .. n
      PROVE  /\ g[at(i)] \in ks /\ g[at(i)] \in Range(g)
             /\ g[at(i)].prefix = r.prefix /\ g[at(i)].idx = r.idx + i
  <2> DEFINE x == at(i)
  <2>1. x \in DOMAIN g
    BY <1>4
  <2> HIDE DEF x
  <2>2. g[x] \in ks /\ g[x] \in Range(g) /\ x = <<g[x].prefix, g[x].idx>>
    BY <2>1, GroupType
  <2> QED
    BY <2>2 DEF x
<1> HIDE DEF n
<1>6. f \in Seq(ks) /\ Len(f) = n /\ \A i \in 1 .. n : f[i] = g[at(i)]
  BY <1>2, <1>3, <1>5
<1> QED
  BY <1>1, <1>3, <1>4, <1>5, <1>6 DEF f, RunsFrom

\* No fact stands twice on a side of r.
LEMMA SidesAreInjective ==
  ASSUME NEW ks, NEW g, Grouping(g, ks), NEW r \in StoredKeys
  PROVE  IsInjective(Before(r, g)) /\ IsInjective(Following(r, g))
<1> DEFINE b == Before(r, g)
           f == Following(r, g)
<1>1. /\ b \in Seq(ks) /\ Len(b) \in Nat /\ r.idx \in Nat
      /\ \A i \in 1 .. Len(b) : b[i].idx = r.idx - Len(b) + i - 1
  <2>1. b \in Seq(ks) /\ RunsUpTo(b, r, g)
    BY BeforeType
  <2> HIDE DEF b
  <2> QED
    BY <2>1 DEF RunsUpTo
<1>2. /\ f \in Seq(ks) /\ Len(f) \in Nat
      /\ \A i \in 1 .. Len(f) : f[i].idx = r.idx + i
  <2>1. f \in Seq(ks) /\ RunsFrom(f, r, g)
    BY FollowingType
  <2> HIDE DEF f
  <2> QED
    BY <2>1 DEF RunsFrom
<1> HIDE DEF b, f
<1>3. IsInjective(b)
  <2> SUFFICES ASSUME NEW i \in 1 .. Len(b), NEW j \in 1 .. Len(b), b[i] = b[j] PROVE i = j
    BY <1>1 DEF IsInjective
  <2>1. r.idx - Len(b) + i - 1 = r.idx - Len(b) + j - 1
    BY <1>1
  <2> QED
    BY <1>1, <2>1
<1>4. IsInjective(f)
  <2> SUFFICES ASSUME NEW i \in 1 .. Len(f), NEW j \in 1 .. Len(f), f[i] = f[j] PROVE i = j
    BY <1>2 DEF IsInjective
  <2>1. r.idx + i = r.idx + j
    BY <1>2
  <2> QED
    BY <1>1, <1>2, <2>1
<1> QED
  BY <1>3, <1>4 DEF b, f

\* A hit and its walks are weaved into b one after another.
LEMMA WalkAround ==
  ASSUME NEW ks, NEW g, Grouping(g, ks), NEW r \in StoredKeys, NEW b
  PROVE  /\ Around(r, g) \in Seq(StoredKeys)
         /\ Sequential(r) =>
              Walk(b, Around(r, g)) = Walk(Emit(Walk(b, Before(r, g)), r), Following(r, g))
         /\ ~Sequential(r) => Walk(b, Around(r, g)) = Emit(b, r)
<1> DEFINE s == Before(r, g)
           t == Following(r, g)
<1>1. s \in Seq(StoredKeys) /\ t \in Seq(StoredKeys)
  <2>1. s \in Seq(ks) /\ t \in Seq(ks) /\ ks \subseteq StoredKeys
    BY BeforeType, FollowingType DEF Grouping
  <2> HIDE DEF s, t
  <2> QED
    BY <2>1
<1> DEFINE one == <<r>>
<1>2. one \in Seq(StoredKeys)
  OBVIOUS
<1> HIDE DEF s, t, one
<1> DEFINE u == s \o one
<1>3. u \in Seq(StoredKeys)
  BY <1>1, <1>2
<1>6. Walk(b, u) = Walk(Walk(b, s), one)
  BY <1>1, <1>2, WalkConcat
<1> HIDE DEF u
<1>4. CASE Sequential(r)
  <2>1. Around(r, g) = u \o t
    BY <1>4 DEF Around, s, t, u, one
  <2>2. Walk(b, u \o t) = Walk(Walk(b, u), t)
    BY <1>1, <1>3, WalkConcat
  <2>3. Walk(Walk(b, s), one) = Emit(Walk(b, s), r)
    BY WalkOne DEF one
  <2>4. u \o t \in Seq(StoredKeys)
    BY <1>1, <1>3
  <2> QED
    BY <1>4, <1>6, <2>1, <2>2, <2>3, <2>4 DEF s, t
<1>5. CASE ~Sequential(r)
  <2>1. Around(r, g) = <<r>>
    BY <1>5 DEF Around
  <2> QED
    BY <1>2, <1>5, <2>1, WalkOne DEF one
<1> QED
  BY <1>4, <1>5
-----------------------------------------------------------------------------
(* What is woven *)

LEMMA ConcatRange ==
  ASSUME NEW S, NEW s \in Seq(S), NEW t \in Seq(S)
  PROVE  /\ Range(s \o t) = Range(s) \cup Range(t)
         /\ IsInjective(s) /\ IsInjective(t) /\ (\A x \in Range(t) : x \notin Range(s))
              => IsInjective(s \o t)
<1> DEFINE u == s \o t
           m == Len(s)
           n == Len(t)
<1>1. /\ u \in Seq(S) /\ m \in Nat /\ n \in Nat /\ Len(u) = m + n
      /\ \A i \in 1 .. m : u[i] = s[i]
      /\ \A i \in 1 .. n : u[m + i] = t[i]
  BY ConcatProperties
<1>2. /\ \A x : x \in Range(s) <=> \E i \in 1 .. m : x = s[i]
      /\ \A x : x \in Range(t) <=> \E i \in 1 .. n : x = t[i]
      /\ DOMAIN s = 1 .. m /\ DOMAIN t = 1 .. n
  BY RangeOf
<1> HIDE DEF u, m, n
<1>3. /\ \A x : x \in Range(u) <=> \E i \in 1 .. m + n : x = u[i]
      /\ DOMAIN u = 1 .. m + n
  <2>1. u \in Seq(S)
    BY <1>1
  <2>2. \A x : x \in Range(u) <=> \E i \in 1 .. Len(u) : x = u[i]
    BY <2>1, RangeOf
  <2>3. DOMAIN u = 1 .. Len(u)
    BY <2>1
  <2> QED
    BY <1>1, <2>2, <2>3
<1>4. ASSUME NEW i \in 1 .. m + n
      PROVE  i \in 1 .. m \/ \E j \in 1 .. n : i = m + j
  <2>1. CASE i <= m
    BY <1>1, <2>1
  <2>2. CASE i > m
    <3> DEFINE j == i - m
    <3>1. j \in 1 .. n /\ i = m + j
      BY <1>1, <2>2
    <3> HIDE DEF j
    <3> QED
      BY <3>1
  <2> QED
    BY <1>1, <2>1, <2>2
<1>5. \A i \in 1 .. m : i \in 1 .. m + n
  BY <1>1
<1>6. \A i \in 1 .. n : m + i \in 1 .. m + n
  BY <1>1
<1>7. \A x : x \in Range(u) <=> x \in Range(s) \/ x \in Range(t)
  <2> TAKE x
  <2>1. x \in Range(u) => x \in Range(s) \/ x \in Range(t)
    BY <1>1, <1>2, <1>3, <1>4
  <2>2. x \in Range(s) => x \in Range(u)
    BY <1>1, <1>2, <1>3, <1>5
  <2>3. x \in Range(t) => x \in Range(u)
    BY <1>1, <1>2, <1>3, <1>6
  <2> QED
    BY <2>1, <2>2, <2>3
<1>8. ASSUME IsInjective(s), IsInjective(t), \A x \in Range(t) : x \notin Range(s),
             NEW i \in 1 .. m + n, NEW j \in 1 .. m + n, u[i] = u[j]
      PROVE  i = j
  <2>1. CASE i \in 1 .. m /\ j \in 1 .. m
    BY <1>1, <1>2, <1>8, <2>1 DEF IsInjective
  <2>2. ASSUME i \in 1 .. m, NEW l \in 1 .. n, j = m + l PROVE FALSE
    <3>1. s[i] = t[l]
      BY <1>1, <1>8, <2>2
    <3> QED
      BY <1>2, <1>8, <2>2, <3>1
  <2>3. ASSUME j \in 1 .. m, NEW l \in 1 .. n, i = m + l PROVE FALSE
    <3>1. s[j] = t[l]
      BY <1>1, <1>8, <2>3
    <3> QED
      BY <1>2, <1>8, <2>3, <3>1
  <2>4. ASSUME NEW k \in 1 .. n, NEW l \in 1 .. n, i = m + k, j = m + l PROVE i = j
    <3>1. t[k] = t[l]
      BY <1>1, <1>8, <2>4
    <3>2. k = l
      BY <1>2, <1>8, <2>4, <3>1 DEF IsInjective
    <3> QED
      BY <2>4, <3>2
  <2> QED
    BY <1>4, <2>1, <2>2, <2>3, <2>4
<1> QED
  BY <1>3, <1>7, <1>8 DEF IsInjective, u

LEMMA WalkAroundKeeps ==
  ASSUME NEW ks, NEW g, Grouping(g, ks), NEW r \in StoredKeys, NEW b \in Seq(StoredKeys)
  PROVE  LET c == Walk(b, Around(r, g))
         IN  /\ c \in Seq(StoredKeys)
             /\ IsInjective(b) => IsInjective(c)
             /\ r \in Range(c) /\ Range(b) \subseteq Range(c)
             /\ Range(c) \subseteq Range(b) \cup {r} \cup Range(g)
             /\ Sequential(r) =>
                  Range(c) = Range(b) \cup Range(Before(r, g)) \cup {r} \cup Range(Following(r, g))
<1> DEFINE s == Before(r, g)
           t == Following(r, g)
           p == Walk(b, s)
           q == Emit(p, r)
           c == Walk(q, t)
<1>1. /\ s \in Seq(ks) /\ RunsUpTo(s, r, g)
      /\ t \in Seq(ks) /\ RunsFrom(t, r, g)
  BY BeforeType, FollowingType
<1>2. ks \subseteq StoredKeys
  BY DEF Grouping
<1> HIDE DEF s, t
<1>3. s \in Seq(StoredKeys) /\ t \in Seq(StoredKeys)
  BY <1>1, <1>2
<1>4. Range(s) \subseteq Range(g) /\ Range(t) \subseteq Range(g)
  <2>1. \A i \in 1 .. Len(s) : s[i] \in Range(g)
    BY <1>1 DEF RunsUpTo
  <2>2. \A i \in 1 .. Len(t) : t[i] \in Range(g)
    BY <1>1 DEF RunsFrom
  <2> QED
    BY <1>3, <2>1, <2>2, RangeOf
<1>5. /\ p \in Seq(StoredKeys) /\ Range(p) = Range(b) \cup Range(s)
      /\ IsInjective(b) => IsInjective(p)
  BY <1>3, WalkKeeps
<1> HIDE DEF p
<1>6. /\ q \in Seq(StoredKeys) /\ Range(q) = Range(p) \cup {r}
      /\ IsInjective(p) => IsInjective(q)
  BY <1>5, EmitKeeps
<1> HIDE DEF q
<1>7. /\ c \in Seq(StoredKeys) /\ Range(c) = Range(q) \cup Range(t)
      /\ IsInjective(q) => IsInjective(c)
  BY <1>3, <1>6, WalkKeeps
<1> HIDE DEF c
<1>8. CASE Sequential(r)
  <2>1. Walk(b, Around(r, g)) = c
    BY <1>8, WalkAround DEF c, q, p, s, t
  <2>2. Range(c) = Range(b) \cup Range(s) \cup {r} \cup Range(t)
    BY <1>5, <1>6, <1>7
  <2> QED
    BY <1>4, <1>5, <1>6, <1>7, <2>1, <2>2 DEF s, t
<1>9. CASE ~Sequential(r)
  <2>1. Walk(b, Around(r, g)) = Emit(b, r)
    BY <1>9, WalkAround
  <2>2. /\ Emit(b, r) \in Seq(StoredKeys) /\ Range(Emit(b, r)) = Range(b) \cup {r}
        /\ IsInjective(b) => IsInjective(Emit(b, r))
    BY EmitKeeps
  <2> QED
    BY <1>9, <2>1, <2>2
<1> QED
  BY <1>8, <1>9

LEMMA AroundsType ==
  ASSUME NEW ks, NEW g, Grouping(g, ks), NEW res \in Seq(StoredKeys)
  PROVE  LET s == [i \in DOMAIN res |-> Around(res[i], g)]
         IN  /\ s \in Seq(Seq(StoredKeys)) /\ Len(s) = Len(res)
             /\ \A i \in 1 .. Len(res) : s[i] = Around(res[i], g)
<1>1. ASSUME NEW i \in 1 .. Len(res) PROVE Around(res[i], g) \in Seq(StoredKeys)
  <2>1. res[i] \in StoredKeys
    OBVIOUS
  <2> QED
    BY <2>1, WalkAround
<1>2. DOMAIN res = 1 .. Len(res) /\ Len(res) \in Nat
  OBVIOUS
<1> QED
  BY <1>1, <1>2

SidesIn(r, g, b) == Range(Before(r, g)) \cup Range(Following(r, g)) \subseteq Range(b)

LEMMA WalkedKeeps ==
  ASSUME NEW ks, NEW g, Grouping(g, ks), NEW res \in Seq(StoredKeys)
  PROVE  LET w == Walked(res, g)
         IN  /\ w \in Seq(StoredKeys) /\ IsInjective(w)
             /\ Range(res) \subseteq Range(w) /\ Range(w) \subseteq Range(res) \cup Range(g)
             /\ \A r \in Range(res) : Sequential(r) => SidesIn(r, g, w)
<1> DEFINE s == [i \in DOMAIN res |-> Around(res[i], g)]
           N == Len(res)
           I == [n \in 0 .. N |-> {c \in Seq(StoredKeys) :
                    /\ IsInjective(c)
                    /\ \A i \in 1 .. n : res[i] \in Range(c) /\ (Sequential(res[i]) => SidesIn(res[i], g, c))
                    /\ Range(c) \subseteq Range(res) \cup Range(g)}]
<1>1. /\ s \in Seq(Seq(StoredKeys)) /\ Len(s) = N
      /\ \A i \in 1 .. N : s[i] = Around(res[i], g)
  BY AroundsType
<1> HIDE DEF s
<1>2. N \in Nat /\ N \in 0 .. N
  OBVIOUS
<1>3. <<>> \in I[0]
  BY <1>2 DEF IsInjective, Range
<1>4. ASSUME NEW n \in 0 .. N - 1, NEW b \in I[n] PROVE Walk(b, s[n + 1]) \in I[n + 1]
  <2> DEFINE r == res[n + 1]
             c == Walk(b, Around(r, g))
  <2>1. n \in 0 .. N /\ n + 1 \in 0 .. N /\ n + 1 \in 1 .. N /\ 1 .. n + 1 = (1 .. n) \cup {n + 1}
    BY <1>2
  <2>2. r \in StoredKeys /\ r \in Range(res)
    BY <2>1, RangeOf
  <2>3. /\ b \in Seq(StoredKeys) /\ IsInjective(b)
        /\ \A i \in 1 .. n : res[i] \in Range(b) /\ (Sequential(res[i]) => SidesIn(res[i], g, b))
        /\ Range(b) \subseteq Range(res) \cup Range(g)
    BY <1>4, <2>1
  <2> HIDE DEF r
  <2>4. /\ c \in Seq(StoredKeys)
        /\ IsInjective(b) => IsInjective(c)
        /\ r \in Range(c) /\ Range(b) \subseteq Range(c)
        /\ Range(c) \subseteq Range(b) \cup {r} \cup Range(g)
        /\ Sequential(r) => SidesIn(r, g, c)
    BY <2>2, <2>3, WalkAroundKeeps DEF SidesIn
  <2>5. Walk(b, s[n + 1]) = c
    BY <1>1, <2>1 DEF r
  <2> HIDE DEF c
  <2>6. ASSUME NEW i \in 1 .. n + 1
        PROVE  res[i] \in Range(c) /\ (Sequential(res[i]) => SidesIn(res[i], g, c))
    <3>1. CASE i \in 1 .. n
      BY <2>3, <2>4, <3>1 DEF SidesIn
    <3>2. CASE i = n + 1
      BY <2>4, <3>2 DEF r
    <3> QED
      BY <2>1, <3>1, <3>2
  <2>7. c \in I[n + 1]
    BY <2>1, <2>2, <2>3, <2>4, <2>6
  <2> QED
    BY <2>5, <2>7
<1>5. Walking!After(<<>>, s) \in I[N]
  <2> HIDE DEF I, N
  <2> QED
    BY <1>1, <1>3, <1>4, WalkedInvariant
<1>6. Walked(res, g) \in I[N]
  BY <1>5 DEF Walked, s
<1>7. /\ Walked(res, g) \in Seq(StoredKeys) /\ IsInjective(Walked(res, g))
      /\ \A i \in 1 .. N :
            res[i] \in Range(Walked(res, g)) /\ (Sequential(res[i]) => SidesIn(res[i], g, Walked(res, g)))
      /\ Range(Walked(res, g)) \subseteq Range(res) \cup Range(g)
  BY <1>2, <1>6
<1> QED
  BY <1>7, RangeOf

\* The rest has every neighbour that is left, once.
LEMMA WovenIs ==
  ASSUME NEW ks, NEW g, Grouping(g, ks), NEW res \in Seq(StoredKeys), NEW w \in Woven(res, g)
  PROVE  \E rest \in Seq(StoredKeys) :
            /\ w = Walked(res, g) \o rest
            /\ IsInjective(rest)
            /\ Range(rest) = Leftovers(res, g)
<1> DEFINE S == Leftovers(res, g)
           D == 1 .. Cardinality(S)
<1>1. S \subseteq StoredKeys
  BY GroupType DEF Leftovers, Grouping
<1>2. IsFiniteSet(S)
  <2>1. IsFiniteSet(Range(g))
    BY GroupType
  <2> QED
    BY <2>1, FS_Subset DEF Leftovers
<1>3. Cardinality(S) \in Nat
  BY <1>2, FS_CardinalityType
<1>4. PICK rest \in SetToSeqs(S) : w = Walked(res, g) \o rest
  BY DEF Woven
<1>5. rest \in [D -> S] /\ \A i, j \in D : i # j => rest[i] # rest[j]
  BY <1>4 DEF SetToSeqs
<1> HIDE DEF S
<1>6. rest \in Seq(StoredKeys) /\ DOMAIN rest = D
  BY <1>1, <1>3, <1>5
<1>7. IsInjective(rest)
  BY <1>5, <1>6 DEF IsInjective
<1>8. rest \in Injection(D, S)
  BY <1>5, <1>7 DEF Injection
<1>9. Cardinality(D) = Cardinality(S) /\ IsFiniteSet(D)
  BY <1>3, FS_Interval
<1>10. rest \in Surjection(D, S)
  BY <1>2, <1>8, <1>9, FS_Injection
<1>11. Range(rest) = S
  BY <1>5, <1>6, <1>10 DEF Surjection, Range
<1> QED
  BY <1>4, <1>6, <1>7, <1>11 DEF S

LEMMA WovenKeeps ==
  ASSUME NEW ks, NEW g, Grouping(g, ks), NEW res \in Seq(StoredKeys), NEW w \in Woven(res, g)
  PROVE  /\ w \in Seq(StoredKeys) /\ IsInjective(w)
         /\ Range(w) = Range(res) \cup Range(g)
<1> DEFINE v == Walked(res, g)
<1>1. PICK rest \in Seq(StoredKeys) :
         w = v \o rest /\ IsInjective(rest) /\ Range(rest) = Leftovers(res, g)
  BY WovenIs
<1>2. /\ v \in Seq(StoredKeys) /\ IsInjective(v)
      /\ Range(res) \subseteq Range(v) /\ Range(v) \subseteq Range(res) \cup Range(g)
  BY WalkedKeeps
<1>3. Range(rest) = Range(g) \ Range(v)
  BY <1>1 DEF Leftovers
<1> HIDE DEF v
<1>4. Range(v \o rest) = Range(v) \cup Range(rest) /\ IsInjective(v \o rest)
  BY <1>1, <1>2, <1>3, ConcatRange
<1>5. v \o rest \in Seq(StoredKeys)
  BY <1>1, <1>2
<1> QED
  BY <1>1, <1>2, <1>3, <1>4, <1>5
-----------------------------------------------------------------------------
(* The candidates *)

LEMMA DigitsType == \A n \in Nat : Digits(n) \in Nat \ {0}
<1> TAKE n \in Nat
<1> DEFINE D == {d \in 1 .. MaxDigits - 1 : 10 ^ d <= n}
<1>1. IsFiniteSet(1 .. MaxDigits - 1)
  BY NeighborsBoundsAssumption, FS_Interval
<1>2. D \subseteq 1 .. MaxDigits - 1
  OBVIOUS
<1> HIDE DEF D
<1>3. Cardinality(D) \in Nat
  BY <1>1, <1>2, FS_Subset, FS_CardinalityType
<1> QED
  BY <1>3 DEF Digits, D

LEMMA MaxOfTwo ==
  ASSUME NEW a \in Nat, NEW b \in Nat
  PROVE  Max({a, b}) = IF a >= b THEN a ELSE b
BY DEF Max

LEMMA CandidatesAreFinite ==
  ASSUME NEW res \in Seq(StoredKeys), NEW rad \in Nat
  PROVE  IsFiniteSet(NeighborCandidates(res, rad))
<1> DEFINE hits == {q \in Range(res) : Sequential(q)}
           each == {CandidatesOf(r, rad) : r \in hits}
<1>1. IsFiniteSet(hits)
  <2>1. res \in Surjection(1 .. Len(res), Range(res))
    BY DEF Surjection, Range
  <2>2. IsFiniteSet(1 .. Len(res))
    BY FS_Interval
  <2>3. IsFiniteSet(Range(res))
    BY <2>1, <2>2, FS_Surjection
  <2> QED
    BY <2>3, FS_Subset
<1>2. ASSUME NEW r \in hits PROVE IsFiniteSet(CandidatesOf(r, rad))
  <2> DEFINE J == {j \in r.idx - rad .. r.idx + rad : j >= 0 /\ j # r.idx}
             K == CandidatesOf(r, rad)
             f == [i \in J |-> BuildNeighborKey(r.prefix, i, r.width)]
  <2>1. r.idx \in Nat
    BY StoredKeysAssumption, RangeOf
  <2>2. IsFiniteSet(r.idx - rad .. r.idx + rad)
    BY <2>1, FS_Interval
  <2>3. IsFiniteSet(J)
    BY <2>2, FS_Subset
  <2>4. f \in Surjection(J, K)
    BY DEF Surjection, CandidatesOf
  <2> QED
    BY <2>3, <2>4, FS_Surjection
<1>3. IsFiniteSet(each)
  <2> DEFINE f == [r \in hits |-> CandidatesOf(r, rad)]
  <2>1. f \in Surjection(hits, each)
    BY DEF Surjection
  <2> QED
    BY <1>1, <2>1, FS_Surjection
<1>4. IsFiniteSet(UNION each)
  <2>1. \A K \in each : IsFiniteSet(K)
    BY <1>2
  <2> HIDE DEF each
  <2> QED
    BY <1>3, <2>1, FS_UNION
<1>5. NeighborCandidates(res, rad) \subseteq UNION each
  BY DEF NeighborCandidates
<1> QED
  BY <1>4, <1>5, FS_Subset

LEMMA CandidateIs ==
  ASSUME NEW res \in Seq(StoredKeys), NEW rad \in Nat, NEW k
  PROVE  k \in NeighborCandidates(res, rad) <=>
           /\ k \notin Range(res)
           /\ \E r \in Range(res) :
                /\ Sequential(r)
                /\ \E i \in Nat : /\ i - r.idx \in -rad .. rad /\ i # r.idx
                                  /\ k = [prefix |-> r.prefix, idx |-> i,
                                          width |-> IF r.width >= Digits(i) THEN r.width ELSE Digits(i)]
<1>1. ASSUME NEW r \in Range(res)
      PROVE  k \in CandidatesOf(r, rad) <=>
               \E i \in Nat : /\ i - r.idx \in -rad .. rad /\ i # r.idx
                              /\ k = [prefix |-> r.prefix, idx |-> i,
                                      width |-> IF r.width >= Digits(i) THEN r.width ELSE Digits(i)]
  <2>1. r.idx \in Nat /\ r.width \in Nat
    BY StoredKeysAssumption, RangeOf
  <2>2. ASSUME NEW i \in Nat
        PROVE  BuildNeighborKey(r.prefix, i, r.width)
                 = [prefix |-> r.prefix, idx |-> i,
                    width |-> IF r.width >= Digits(i) THEN r.width ELSE Digits(i)]
    <3>1. Digits(i) \in Nat
      BY DigitsType
    <3> QED
      BY <2>1, <3>1, MaxOfTwo DEF BuildNeighborKey
  <2>3. \A i : i \in r.idx - rad .. r.idx + rad /\ i >= 0 /\ i # r.idx
               <=> i \in Nat /\ i - r.idx \in -rad .. rad /\ i # r.idx
    BY <2>1
  <2> QED
    BY <2>2, <2>3 DEF CandidatesOf
<1>2. k \in NeighborCandidates(res, rad) <=>
        k \notin Range(res) /\ \E r \in Range(res) : Sequential(r) /\ k \in CandidatesOf(r, rad)
  BY DEF NeighborCandidates
<1> QED
  BY <1>1, <1>2
-----------------------------------------------------------------------------
(* The invariant *)

Found == NeighborCandidates(results, radius) \cap live

SearchOK ==
    /\ live \subseteq StoredKeys
    /\ results \in Seq(StoredKeys) /\ IsInjective(results)
    /\ Range(results) \subseteq live
    /\ radius \in Nat

WovenOK == done => \E g \in Groups(Found) : woven \in Woven(results, g)

LEMMA SearchInvariant == Spec => [](SearchOK /\ WovenOK)
<1>1. Init => SearchOK /\ WovenOK
  <2> SUFFICES ASSUME Init PROVE SearchOK /\ WovenOK
    OBVIOUS
  <2>1. results \in SeqOf(StoredKeys, MaxResults) /\ IsInjective(results) /\ Range(results) \subseteq live
    BY DEF Init, Ranked
  <2>2. PICK m \in 0 .. MaxResults : results \in [1 .. m -> StoredKeys]
    BY <2>1 DEF SeqOf
  <2>3. m \in Nat
    BY NeighborsBoundsAssumption
  <2>4. results \in Seq(StoredKeys)
    BY <2>2, <2>3
  <2>5. radius \in Nat /\ live \subseteq StoredKeys /\ ~done
    BY NeighborsBoundsAssumption DEF Init
  <2> QED
    BY <2>1, <2>4, <2>5 DEF SearchOK, WovenOK
<1>2. SearchOK /\ WovenOK /\ [Next]_vars => (SearchOK /\ WovenOK)'
  <2> SUFFICES ASSUME SearchOK, WovenOK, [Next]_vars PROVE (SearchOK /\ WovenOK)'
    OBVIOUS
  <2>1. CASE ExpandWithNeighbors
    <3>1. UNCHANGED <<live, results, radius>>
      BY <2>1 DEF ExpandWithNeighbors
    <3>2. Found' = Found
      BY <3>1 DEF Found
    <3>3. \E g \in Groups(Found) : woven' \in Woven(results, g)
      BY <2>1 DEF ExpandWithNeighbors, Found
    <3> QED
      BY <3>1, <3>2, <3>3 DEF SearchOK, WovenOK
  <2>2. CASE UNCHANGED vars
    BY <2>2 DEF vars, SearchOK, WovenOK, Found
  <2> QED
    BY <2>1, <2>2 DEF Next
<1> QED
  BY <1>1, <1>2, PTL DEF Spec

LEMMA FoundIsGrouped ==
  ASSUME SearchOK, NEW g \in Groups(Found)
  PROVE  Grouping(g, Found) /\ \A k \in Range(g) : k \notin Range(results)
<1>1. results \in Seq(StoredKeys) /\ radius \in Nat /\ live \subseteq StoredKeys
  BY DEF SearchOK
<1>2. IsFiniteSet(Found)
  BY <1>1, CandidatesAreFinite, FS_Subset DEF Found
<1>3. ASSUME NEW k \in Found PROVE Sequential(k) /\ k \notin Range(results)
  <2>1. k \in NeighborCandidates(results, radius)
    BY DEF Found
  <2>2. k \notin Range(results)
    BY <1>1, <2>1, CandidateIs
  <2>3. PICK r \in Range(results), i \in Nat :
           Sequential(r) /\ k.width = IF r.width >= Digits(i) THEN r.width ELSE Digits(i)
    BY <1>1, <2>1, CandidateIs
  <2>4. r.width \in Nat /\ Digits(i) \in Nat \ {0}
    <3>1. r \in StoredKeys
      BY <1>1, RangeOf
    <3> QED
      BY <3>1, StoredKeysAssumption, DigitsType
  <2> QED
    BY <2>2, <2>3, <2>4 DEF Sequential
<1>4. Grouping(g, Found)
  BY <1>1, <1>2, <1>3 DEF Grouping, Found
<1>5. Range(g) \subseteq Found
  BY <1>4, GroupType
<1> QED
  BY <1>3, <1>4, <1>5
-----------------------------------------------------------------------------
(* The neighbours are returned *)

\* No number of a sequence is stored in two ways, as "t5" and "t05" would be.
UniqueNumbers ==
    \A k, l \in StoredKeys :
        Sequential(k) /\ Sequential(l) /\ k.prefix = l.prefix /\ k.idx = l.idx => k = l

LEMMA GroupHasAll ==
  ASSUME UniqueNumbers, NEW ks, NEW g, Grouping(g, ks)
  PROVE  /\ Range(g) = ks
         /\ \A k \in ks : <<k.prefix, k.idx>> \in DOMAIN g /\ g[<<k.prefix, k.idx>>] = k
<1>1. Range(g) \subseteq ks
  BY GroupType
<1>2. ASSUME NEW k \in ks
      PROVE  /\ <<k.prefix, k.idx>> \in DOMAIN g /\ g[<<k.prefix, k.idx>>] = k
             /\ k \in Range(g)
  <2> DEFINE x == <<k.prefix, k.idx>>
  <2>1. x \in DOMAIN g
    BY GroupType
  <2> HIDE DEF x
  <2>2. g[x] \in ks /\ g[x] \in Range(g) /\ x = <<g[x].prefix, g[x].idx>>
    BY <2>1, GroupType
  <2>3. g[x].prefix = k.prefix /\ g[x].idx = k.idx
    BY <2>2 DEF x
  <2>4. g[x] = k
    BY <2>2, <2>3 DEF UniqueNumbers, Grouping
  <2> QED
    BY <2>1, <2>2, <2>4 DEF x
<1> QED
  BY <1>1, <1>2

LEMMA FoundAreNeighbors ==
  ASSUME UniqueNumbers, SearchOK
  PROVE  Range(results) \cup Found
           = Range(results) \cup UNION {NeighborsOf(r) : r \in Range(results)}
<1>1. results \in Seq(StoredKeys) /\ radius \in Nat /\ live \subseteq StoredKeys
  BY DEF SearchOK
<1>2. Range(results) \subseteq StoredKeys
  BY <1>1, RangeOf
<1>3. ASSUME NEW k \in Found
      PROVE  \E r \in Range(results) : k \in NeighborsOf(r)
  <2>1. k \in NeighborCandidates(results, radius) /\ k \in live
    BY DEF Found
  <2>2. PICK r \in Range(results), i \in Nat :
           /\ Sequential(r) /\ i - r.idx \in -radius .. radius
           /\ k = [prefix |-> r.prefix, idx |-> i,
                   width |-> IF r.width >= Digits(i) THEN r.width ELSE Digits(i)]
    BY <1>1, <2>1, CandidateIs
  <2>3. r.width \in Nat /\ r.width > 0 /\ Digits(i) \in Nat
    BY <1>2, <2>2, StoredKeysAssumption, DigitsType DEF Sequential
  <2>4. k.prefix = r.prefix /\ k.idx = i
        /\ k.width = IF r.width >= Digits(i) THEN r.width ELSE Digits(i)
    BY <2>2
  <2>5. Sequential(k)
    BY <2>3, <2>4 DEF Sequential
  <2>6. WrittenLike(k, r)
    BY <2>3, <2>4 DEF WrittenLike
  <2>7. k \in NeighborsOf(r)
    BY <2>1, <2>2, <2>4, <2>5, <2>6 DEF NeighborsOf
  <2> QED
    BY <2>7
<1>4. ASSUME NEW r \in Range(results), NEW k \in NeighborsOf(r), k \notin Range(results)
      PROVE  k \in Found
  <2>1. /\ k \in live /\ Sequential(r) /\ Sequential(k) /\ k.prefix = r.prefix
        /\ WrittenLike(k, r) /\ k.idx - r.idx \in -radius .. radius
    BY DEF NeighborsOf
  <2>2. k \in StoredKeys /\ r \in StoredKeys
    BY <1>1, <1>2, <2>1
  <2>3. /\ k = [prefix |-> k.prefix, idx |-> k.idx, width |-> k.width]
        /\ k.idx \in Nat /\ k.width \in Nat /\ r.width \in Nat /\ Digits(k.idx) <= k.width
    BY <2>1, <2>2, StoredKeysAssumption
  <2>4. k.idx # r.idx
    BY <1>4, <2>1, <2>2 DEF UniqueNumbers
  <2>5. Digits(k.idx) \in Nat
    BY <2>3, DigitsType
  <2>6. k.width = IF r.width >= Digits(k.idx) THEN r.width ELSE Digits(k.idx)
    BY <2>1, <2>3, <2>5 DEF WrittenLike
  <2>7. k = [prefix |-> r.prefix, idx |-> k.idx,
             width |-> IF r.width >= Digits(k.idx) THEN r.width ELSE Digits(k.idx)]
    BY <2>1, <2>3, <2>6
  <2>8. k \in NeighborCandidates(results, radius)
    BY <1>1, <1>4, <2>1, <2>3, <2>4, <2>7, CandidateIs
  <2> QED
    BY <2>1, <2>8 DEF Found
<1> QED
  BY <1>3, <1>4

\* INV2 for any number of hits and any radius: exactly the hits and their live
\* neighbours are returned, each once.
THEOREM NeighborsAreReturned ==
  ASSUME UniqueNumbers
  PROVE  Spec => []ReturnsNeighborhood
<1>1. SearchOK /\ WovenOK => ReturnsNeighborhood
  <2> SUFFICES ASSUME SearchOK, WovenOK, done
               PROVE  /\ Range(woven) = Range(results)
                                          \cup UNION {NeighborsOf(r) : r \in Range(results)}
                      /\ IsInjective(woven)
    BY DEF ReturnsNeighborhood
  <2>1. PICK g \in Groups(Found) : woven \in Woven(results, g)
    BY DEF WovenOK
  <2>2. Grouping(g, Found)
    BY FoundIsGrouped
  <2>3. results \in Seq(StoredKeys)
    BY DEF SearchOK
  <2>4. IsInjective(woven) /\ Range(woven) = Range(results) \cup Range(g)
    BY <2>1, <2>2, <2>3, WovenKeeps
  <2>5. Range(g) = Found
    BY <2>2, GroupHasAll
  <2> QED
    BY <2>4, <2>5, FoundAreNeighbors
<1> QED
  BY <1>1, SearchInvariant, PTL
-----------------------------------------------------------------------------
(* The ranking is kept *)

\* The first m hits stand in b at the places "at", in their order, and no other.
RankedAt(at, res, m, b) ==
    /\ at \in [1 .. m -> 1 .. Len(b)]
    /\ \A i \in 1 .. m : b[at[i]] = res[i]
    /\ \A i, j \in 1 .. m : i < j => at[i] < at[j]
    /\ \A n \in 1 .. Len(b) : b[n] \in Range(res) => \E i \in 1 .. m : n = at[i]

RankedIn(res, m, b) == \E at : RankedAt(at, res, m, b)

LEMMA RankedExtends ==
  ASSUME NEW res, NEW m \in Nat, NEW S, NEW b \in Seq(S), NEW c \in Seq(S), RankedIn(res, m, b),
         Len(b) <= Len(c), \A n \in 1 .. Len(b) : c[n] = b[n],
         \A n \in 1 .. Len(c) : n > Len(b) => c[n] \notin Range(res)
  PROVE  RankedIn(res, m, c)
<1>1. PICK at : RankedAt(at, res, m, b)
  BY DEF RankedIn
<1>2. \A n \in 1 .. Len(c) : n \in 1 .. Len(b) \/ n > Len(b)
  OBVIOUS
<1>3. \A n \in 1 .. Len(b) : n \in 1 .. Len(c)
  OBVIOUS
<1>4. RankedAt(at, res, m, c)
  BY <1>1, <1>2, <1>3 DEF RankedAt
<1> QED
  BY <1>4 DEF RankedIn

LEMMA RankedThenOther ==
  ASSUME NEW res, NEW m \in Nat, NEW S, NEW b \in Seq(S), NEW k \in S, k \notin Range(res),
         RankedIn(res, m, b)
  PROVE  RankedIn(res, m, Emit(b, k))
<1>1. CASE k \in Range(b)
  BY <1>1 DEF Emit
<1>2. CASE k \notin Range(b)
  <2> DEFINE c == Append(b, k)
             n == Len(b)
  <2>1. c \in Seq(S) /\ n \in Nat /\ Len(c) = n + 1 /\ c[n + 1] = k /\ \A i \in 1 .. n : c[i] = b[i]
    OBVIOUS
  <2>2. Emit(b, k) = c
    BY <1>2 DEF Emit
  <2> HIDE DEF c
  <2>3. ASSUME NEW i \in 1 .. Len(c), i > Len(b) PROVE c[i] \notin Range(res)
    <3>1. i = n + 1
      BY <2>1, <2>3
    <3> QED
      BY <2>1, <3>1
  <2>4. Len(b) <= Len(c) /\ \A i \in 1 .. Len(b) : c[i] = b[i]
    BY <2>1
  <2>5. RankedIn(res, m, c)
    BY <2>1, <2>3, <2>4, RankedExtends
  <2> QED
    BY <2>2, <2>5
<1> QED
  BY <1>1, <1>2

LEMMA RankedThenNext ==
  ASSUME NEW S, NEW res \in Seq(S), IsInjective(res), NEW m \in 0 .. Len(res) - 1,
         NEW b \in Seq(S), RankedIn(res, m, b)
  PROVE  RankedIn(res, m + 1, Emit(b, res[m + 1]))
<1> DEFINE k == res[m + 1]
           c == Append(b, k)
           n == Len(b)
<1>1. PICK at : RankedAt(at, res, m, b)
  BY DEF RankedIn
<1>2. m + 1 \in 1 .. Len(res) /\ m \in Nat /\ k \in S /\ n \in Nat /\ DOMAIN res = 1 .. Len(res)
  OBVIOUS
<1>3. k \in Range(res)
  BY <1>2, RangeOf
<1>4. k \notin Range(b)
  <2> SUFFICES ASSUME NEW l \in 1 .. n, b[l] = k PROVE FALSE
    BY RangeOf
  <2>1. PICK i \in 1 .. m : l = at[i]
    BY <1>1, <1>3 DEF RankedAt
  <2>2. res[i] = res[m + 1]
    BY <1>1, <2>1 DEF RankedAt
  <2>3. i \in 1 .. Len(res) /\ i # m + 1
    BY <1>2
  <2> QED
    BY <1>2, <2>2, <2>3 DEF IsInjective
<1>5. Emit(b, k) = c
  BY <1>4 DEF Emit
<1>6. /\ c \in Seq(S) /\ Len(c) = n + 1 /\ c[n + 1] = k
      /\ \A i \in 1 .. n : c[i] = b[i]
      /\ 1 .. n + 1 = (1 .. n) \cup {n + 1} /\ n + 1 \notin 1 .. n
      /\ 1 .. m + 1 = (1 .. m) \cup {m + 1} /\ m + 1 \notin 1 .. m
  BY <1>2
<1> DEFINE to == [i \in 1 .. m + 1 |-> IF i \in 1 .. m THEN at[i] ELSE n + 1]
<1> HIDE DEF c
<1>7. at \in [1 .. m -> 1 .. n]
  BY <1>1 DEF RankedAt
<1>8. /\ to \in [1 .. m + 1 -> 1 .. n + 1] /\ to[m + 1] = n + 1
      /\ \A i \in 1 .. m : to[i] = at[i] /\ at[i] \in 1 .. n
  BY <1>6, <1>7
<1> HIDE DEF to
<1>9. \A i \in 1 .. m + 1 : c[to[i]] = res[i]
  BY <1>1, <1>6, <1>8 DEF RankedAt
<1>10. ASSUME NEW i \in 1 .. m + 1, NEW j \in 1 .. m + 1, i < j
       PROVE  to[i] < to[j]
  <2>1. i \in 1 .. m
    BY <1>2, <1>10
  <2>2. CASE j \in 1 .. m
    BY <1>1, <1>8, <1>10, <2>1, <2>2 DEF RankedAt
  <2>3. CASE j = m + 1
    BY <1>2, <1>8, <2>1, <2>3
  <2> QED
    BY <1>6, <2>2, <2>3
<1>11. ASSUME NEW l \in 1 .. n + 1, c[l] \in Range(res)
       PROVE  \E i \in 1 .. m + 1 : l = to[i]
  <2>1. CASE l \in 1 .. n
    <3>1. PICK i \in 1 .. m : l = at[i]
      BY <1>1, <1>6, <1>11, <2>1 DEF RankedAt
    <3> QED
      BY <1>6, <1>8, <3>1
  <2>2. CASE l = n + 1
    BY <1>6, <1>8, <2>2
  <2> QED
    BY <1>6, <2>1, <2>2
<1>12. RankedAt(to, res, m + 1, c)
  BY <1>6, <1>8, <1>9, <1>10, <1>11 DEF RankedAt
<1> QED
  BY <1>5, <1>12 DEF RankedIn

LEMMA RankedThenOthers ==
  ASSUME NEW res, NEW m \in Nat, NEW S, NEW b \in Seq(S), NEW s \in Seq(S),
         \A x \in Range(s) : x \notin Range(res), RankedIn(res, m, b)
  PROVE  Walk(b, s) \in Seq(S) /\ RankedIn(res, m, Walk(b, s))
<1> DEFINE N == Len(s)
           I == [n \in 0 .. N |-> {c \in Seq(S) : RankedIn(res, m, c)}]
<1>1. N \in Nat /\ N \in 0 .. N /\ b \in I[0]
  OBVIOUS
<1>2. ASSUME NEW n \in 0 .. N - 1, NEW c \in I[n] PROVE Emit(c, s[n + 1]) \in I[n + 1]
  <2>1. n \in 0 .. N /\ n + 1 \in 0 .. N /\ n + 1 \in 1 .. N /\ s[n + 1] \in S
    OBVIOUS
  <2>2. c \in Seq(S) /\ RankedIn(res, m, c)
    BY <1>2, <2>1
  <2>3. s[n + 1] \notin Range(res)
    BY <2>1, RangeOf
  <2>4. RankedIn(res, m, Emit(c, s[n + 1]))
    BY <2>1, <2>2, <2>3, RankedThenOther
  <2>5. Emit(c, s[n + 1]) \in Seq(S)
    BY <2>1, <2>2, EmitKeeps
  <2> QED
    BY <2>1, <2>4, <2>5
<1>3. Walk(b, s) \in I[N]
  <2> HIDE DEF I
  <2> QED
    BY <1>1, <1>2, WalkInvariant
<1> QED
  BY <1>1, <1>3

LEMMA WalkedIsRanked ==
  ASSUME NEW ks, NEW g, Grouping(g, ks), NEW res \in Seq(StoredKeys), IsInjective(res),
         \A k \in Range(g) : k \notin Range(res)
  PROVE  RankedIn(res, Len(res), Walked(res, g))
<1> DEFINE s == [i \in DOMAIN res |-> Around(res[i], g)]
           N == Len(res)
           I == [n \in 0 .. N |-> {c \in Seq(StoredKeys) : RankedIn(res, n, c)}]
<1>1. /\ s \in Seq(Seq(StoredKeys)) /\ Len(s) = N
      /\ \A i \in 1 .. N : s[i] = Around(res[i], g)
  BY AroundsType
<1> HIDE DEF s
<1>2. N \in Nat /\ N \in 0 .. N
  OBVIOUS
<1>3. <<>> \in I[0]
  <2>1. RankedAt(<<>>, res, 0, <<>>)
    BY DEF RankedAt
  <2> QED
    BY <1>2, <2>1 DEF RankedIn
<1>4. ASSUME NEW n \in 0 .. N - 1, NEW b \in I[n] PROVE Walk(b, s[n + 1]) \in I[n + 1]
  <2> DEFINE r == res[n + 1]
             x == Before(r, g)
             y == Following(r, g)
             p == Walk(b, x)
             q == Emit(p, r)
             c == Walk(q, y)
  <2>1. n \in 0 .. N /\ n + 1 \in 0 .. N /\ n + 1 \in 1 .. N /\ n + 1 \in Nat /\ n \in Nat
    BY <1>2
  <2>2. r \in StoredKeys
    BY <2>1
  <2>3. b \in Seq(StoredKeys) /\ RankedIn(res, n, b)
    BY <1>4, <2>1
  <2>4. Walk(b, s[n + 1]) = Walk(b, Around(r, g))
    BY <1>1, <2>1
  <2>5. ASSUME NEW d \in Seq(StoredKeys), RankedIn(res, n, d)
        PROVE  Emit(d, r) \in Seq(StoredKeys) /\ RankedIn(res, n + 1, Emit(d, r))
    BY <2>2, <2>5, RankedThenNext, EmitKeeps
  <2> HIDE DEF r
  <2>6. /\ x \in Seq(ks) /\ RunsUpTo(x, r, g)
        /\ y \in Seq(ks) /\ RunsFrom(y, r, g)
    BY <2>2, BeforeType, FollowingType
  <2> HIDE DEF x, y
  <2>7. x \in Seq(StoredKeys) /\ y \in Seq(StoredKeys)
    BY <2>6 DEF Grouping
  <2>8. \A k \in Range(x) : k \notin Range(res)
    <3>1. \A i \in 1 .. Len(x) : x[i] \in Range(g)
      BY <2>6 DEF RunsUpTo
    <3> QED
      BY <2>7, <3>1, RangeOf
  <2>9. \A k \in Range(y) : k \notin Range(res)
    <3>1. \A i \in 1 .. Len(y) : y[i] \in Range(g)
      BY <2>6 DEF RunsFrom
    <3> QED
      BY <2>7, <3>1, RangeOf
  <2>10. p \in Seq(StoredKeys) /\ RankedIn(res, n, p)
    BY <2>1, <2>3, <2>7, <2>8, RankedThenOthers
  <2> HIDE DEF p
  <2>11. q \in Seq(StoredKeys) /\ RankedIn(res, n + 1, q)
    BY <2>5, <2>10
  <2> HIDE DEF q
  <2>12. c \in Seq(StoredKeys) /\ RankedIn(res, n + 1, c)
    BY <2>1, <2>7, <2>9, <2>11, RankedThenOthers
  <2> HIDE DEF c
  <2>13. Walk(b, s[n + 1]) \in Seq(StoredKeys) /\ RankedIn(res, n + 1, Walk(b, s[n + 1]))
    <3>1. CASE Sequential(r)
      <4>1. Walk(b, Around(r, g)) = c
        BY <2>2, <3>1, WalkAround DEF c, q, p, x, y
      <4> QED
        BY <2>4, <2>12, <4>1
    <3>2. CASE ~Sequential(r)
      <4>1. Walk(b, Around(r, g)) = Emit(b, r)
        BY <2>2, <3>2, WalkAround
      <4> QED
        BY <2>3, <2>4, <2>5, <4>1
    <3> QED
      BY <3>1, <3>2
  <2> QED
    BY <2>1, <2>13
<1>5. Walking!After(<<>>, s) \in I[N]
  <2> HIDE DEF I, N
  <2> QED
    BY <1>1, <1>3, <1>4, WalkedInvariant
<1> QED
  BY <1>2, <1>5 DEF Walked, s

\* INV1 for any keys, hits and radius: the hits are returned in their order, each
\* once, wherever neighbours are woven in.
THEOREM RankingIsKept == Spec => []KeepsRanking
<1>1. SearchOK /\ WovenOK => KeepsRanking
  <2> SUFFICES ASSUME SearchOK, WovenOK, done PROVE KeepsRanking
    BY DEF KeepsRanking
  <2>1. PICK g \in Groups(Found) : woven \in Woven(results, g)
    BY DEF WovenOK
  <2>2. Grouping(g, Found) /\ \A k \in Range(g) : k \notin Range(results)
    BY FoundIsGrouped
  <2>3. results \in Seq(StoredKeys) /\ IsInjective(results)
    BY DEF SearchOK
  <2> DEFINE v == Walked(results, g)
             N == Len(results)
  <2>4. PICK rest \in Seq(StoredKeys) : woven = v \o rest /\ Range(rest) = Leftovers(results, g)
    BY <2>1, <2>2, <2>3, WovenIs
  <2>5. v \in Seq(StoredKeys)
    BY <2>2, <2>3, WalkedKeeps
  <2>6. RankedIn(results, N, v)
    BY <2>2, <2>3, WalkedIsRanked
  <2>7. \A k \in Range(rest) : k \notin Range(results)
    BY <2>2, <2>4 DEF Leftovers
  <2> HIDE DEF v
  <2>8. /\ woven \in Seq(StoredKeys) /\ Len(woven) = Len(v) + Len(rest)
        /\ \A i \in 1 .. Len(v) : woven[i] = v[i]
        /\ \A i \in 1 .. Len(rest) : woven[Len(v) + i] = rest[i]
    BY <2>4, <2>5, ConcatProperties
  <2>9. Len(v) \in Nat /\ Len(rest) \in Nat /\ N \in Nat
    BY <2>3, <2>5
  <2>10. ASSUME NEW n \in 1 .. Len(woven), n > Len(v) PROVE woven[n] \notin Range(results)
    <3> DEFINE i == n - Len(v)
    <3>1. i \in 1 .. Len(rest) /\ n = Len(v) + i
      BY <2>8, <2>9, <2>10
    <3> HIDE DEF i
    <3>2. woven[n] = rest[i]
      BY <2>8, <3>1
    <3> QED
      BY <2>7, <3>1, <3>2, RangeOf
  <2>11. Len(v) <= Len(woven)
    BY <2>8, <2>9
  <2>12. RankedIn(results, N, woven)
    BY <2>5, <2>6, <2>8, <2>9, <2>10, <2>11, RankedExtends
  <2>13. PICK at : RankedAt(at, results, N, woven)
    BY <2>12 DEF RankedIn
  <2>14. DOMAIN results = 1 .. N /\ DOMAIN woven = 1 .. Len(woven)
    BY <2>3, <2>8
  <2> HIDE DEF N
  <2>15. at \in [DOMAIN results -> DOMAIN woven]
    BY <2>13, <2>14 DEF RankedAt
  <2>16. \A n \in DOMAIN woven \ Range(at) : woven[n] \notin Range(results)
    BY <2>13, <2>14 DEF RankedAt, Range
  <2> QED
    BY <2>13, <2>14, <2>15, <2>16 DEF RankedAt, KeepsRanking
<1> QED
  BY <1>1, SearchInvariant, PTL
-----------------------------------------------------------------------------
(* Neighbours stand in their sequence *)

\* The neighbours before r are those that a walk back without a gap reaches.
LEMMA BeforeIs ==
  ASSUME NEW ks, NEW g, Grouping(g, ks), NEW r \in StoredKeys,
         NEW p, NEW i \in Nat, <<p, i>> \in DOMAIN g
  PROVE  g[<<p, i>>] \in Range(Before(r, g)) <=>
           p = r.prefix /\ i < r.idx /\ \A n \in i .. r.idx - 1 : <<p, n>> \in DOMAIN g
<1> DEFINE b == Before(r, g)
           x == <<p, i>>
<1>1. b \in Seq(ks) /\ RunsUpTo(b, r, g)
  BY BeforeType
<1>2. g[x] \in Range(g) /\ x = <<g[x].prefix, g[x].idx>>
  BY GroupType
<1>3. g[x].prefix = p /\ g[x].idx = i
  BY <1>2
<1> HIDE DEF b, x
<1>4. \A y : y \in Range(b) <=> \E m \in 1 .. Len(b) : y = b[m]
  BY <1>1, RangeOf
<1>5. /\ Len(b) \in Nat /\ r.idx \in Nat /\ Len(b) <= r.idx
      /\ \A m \in 1 .. Len(b) : b[m].prefix = r.prefix /\ b[m].idx = r.idx - Len(b) + m - 1
  BY <1>1 DEF RunsUpTo
<1>6. ASSUME g[x] \in Range(b)
      PROVE  p = r.prefix /\ i < r.idx /\ \A n \in i .. r.idx - 1 : <<p, n>> \in DOMAIN g
  <2>1. PICK m \in 1 .. Len(b) : g[x] = b[m]
    BY <1>4, <1>6
  <2>2. p = r.prefix /\ i = r.idx - Len(b) + m - 1
    BY <1>3, <1>5, <2>1
  <2>3. ASSUME NEW n \in i .. r.idx - 1 PROVE <<p, n>> \in DOMAIN g
    <3> DEFINE q == n - r.idx + Len(b) + 1
    <3>0. n \in Int /\ i <= n /\ n <= r.idx - 1 /\ m >= 1 /\ m \in Nat
      BY <1>5
    <3>1. q \in 1 .. Len(b) /\ n = r.idx - Len(b) + q - 1
      <4> DEFINE l == Len(b)
                 e == r.idx
      <4>1. l \in Nat /\ e \in Nat /\ i = e - l + m - 1 /\ n <= e - 1 /\ q = n - e + l + 1
        BY <1>5, <2>2, <3>0
      <4> HIDE DEF l, e, q
      <4>2. q \in 1 .. l /\ n = e - l + q - 1
        BY <3>0, <4>1
      <4> QED
        BY <4>2 DEF l, e
    <3> HIDE DEF q
    <3>2. <<r.prefix, r.idx - Len(b) + q - 1>> \in DOMAIN g
      BY <1>1, <3>1 DEF RunsUpTo
    <3> QED
      BY <2>2, <3>1, <3>2
  <2> QED
    BY <1>5, <2>2, <2>3
<1>7. ASSUME p = r.prefix, i < r.idx, \A n \in i .. r.idx - 1 : <<p, n>> \in DOMAIN g
      PROVE  g[x] \in Range(b)
  <2>1. r.idx - Len(b) <= i
    BY <1>1, <1>7 DEF RunsUpTo
  <2> DEFINE m == i - r.idx + Len(b) + 1
  <2>2. m \in 1 .. Len(b) /\ i = r.idx - Len(b) + m - 1
    BY <1>5, <1>7, <2>1
  <2> HIDE DEF m
  <2>3. b[m] = g[<<r.prefix, r.idx - Len(b) + m - 1>>]
    BY <1>1, <2>2 DEF RunsUpTo
  <2>4. b[m] = g[x]
    BY <1>7, <2>2, <2>3 DEF x
  <2> QED
    BY <1>4, <2>2, <2>4
<1> QED
  BY <1>6, <1>7 DEF b, x

LEMMA FollowingIs ==
  ASSUME NEW ks, NEW g, Grouping(g, ks), NEW r \in StoredKeys,
         NEW p, NEW i \in Nat, <<p, i>> \in DOMAIN g
  PROVE  g[<<p, i>>] \in Range(Following(r, g)) <=>
           p = r.prefix /\ i > r.idx /\ \A n \in r.idx + 1 .. i : <<p, n>> \in DOMAIN g
<1> DEFINE f == Following(r, g)
           x == <<p, i>>
<1>1. f \in Seq(ks) /\ RunsFrom(f, r, g)
  BY FollowingType
<1>2. g[x] \in Range(g) /\ x = <<g[x].prefix, g[x].idx>>
  BY GroupType
<1>3. g[x].prefix = p /\ g[x].idx = i
  BY <1>2
<1> HIDE DEF f, x
<1>4. \A y : y \in Range(f) <=> \E m \in 1 .. Len(f) : y = f[m]
  BY <1>1, RangeOf
<1>5. /\ Len(f) \in Nat /\ r.idx \in Nat
      /\ \A m \in 1 .. Len(f) : f[m].prefix = r.prefix /\ f[m].idx = r.idx + m
  BY <1>1 DEF RunsFrom
<1>6. ASSUME g[x] \in Range(f)
      PROVE  p = r.prefix /\ i > r.idx /\ \A n \in r.idx + 1 .. i : <<p, n>> \in DOMAIN g
  <2>1. PICK m \in 1 .. Len(f) : g[x] = f[m]
    BY <1>4, <1>6
  <2>2. p = r.prefix /\ i = r.idx + m
    BY <1>3, <1>5, <2>1
  <2>3. ASSUME NEW n \in r.idx + 1 .. i PROVE <<p, n>> \in DOMAIN g
    <3> DEFINE q == n - r.idx
    <3>1. q \in 1 .. Len(f) /\ n = r.idx + q
      BY <1>5, <2>2
    <3> HIDE DEF q
    <3>2. <<r.prefix, r.idx + q>> \in DOMAIN g
      BY <1>1, <3>1 DEF RunsFrom
    <3> QED
      BY <2>2, <3>1, <3>2
  <2> QED
    BY <1>5, <2>2, <2>3
<1>7. ASSUME p = r.prefix, i > r.idx, \A n \in r.idx + 1 .. i : <<p, n>> \in DOMAIN g
      PROVE  g[x] \in Range(f)
  <2>1. i <= r.idx + Len(f)
    BY <1>1, <1>7 DEF RunsFrom
  <2> DEFINE m == i - r.idx
  <2>2. m \in 1 .. Len(f) /\ i = r.idx + m
    BY <1>5, <1>7, <2>1
  <2> HIDE DEF m
  <2>3. f[m] = g[<<r.prefix, r.idx + m>>]
    BY <1>1, <2>2 DEF RunsFrom
  <2>4. f[m] = g[x]
    BY <1>7, <2>2, <2>3 DEF x
  <2> QED
    BY <1>4, <2>2, <2>4
<1> QED
  BY <1>6, <1>7 DEF f, x

\* Of the facts that follow each other without a gap, b has all or none.
AllOrNone(b, g) ==
    \A p : \A i, j \in Nat :
        i <= j /\ (\A n \in i .. j : <<p, n>> \in DOMAIN g)
          => (g[<<p, i>>] \in Range(b) <=> g[<<p, j>>] \in Range(b))

LEMMA WalkSide ==
  ASSUME NEW ks, NEW g, Grouping(g, ks), NEW r \in StoredKeys,
         NEW b \in Seq(StoredKeys), AllOrNone(b, g),
         NEW s \in {Before(r, g), Following(r, g)}
  PROVE  \/ Range(s) \subseteq Range(b)
         \/ \A x \in Range(s) : x \notin Range(b)
<1>1. PICK from \in Int : /\ s \in Seq(ks) /\ from + 1 \in Nat
                          /\ \A i \in 1 .. Len(s) : /\ <<r.prefix, from + i>> \in DOMAIN g
                                                    /\ s[i] = g[<<r.prefix, from + i>>]
  <2>1. CASE s = Before(r, g)
    <3>1. s \in Seq(ks) /\ RunsUpTo(s, r, g)
      BY <2>1, BeforeType
    <3> DEFINE from == r.idx - Len(s) - 1
    <3>2. from \in Int /\ from + 1 \in Nat /\ \A i \in 1 .. Len(s) : from + i = r.idx - Len(s) + i - 1
      BY <3>1 DEF RunsUpTo
    <3>3. \A i \in 1 .. Len(s) : /\ <<r.prefix, r.idx - Len(s) + i - 1>> \in DOMAIN g
                                 /\ s[i] = g[<<r.prefix, r.idx - Len(s) + i - 1>>]
      BY <3>1 DEF RunsUpTo
    <3> HIDE DEF from
    <3> QED
      BY <3>1, <3>2, <3>3
  <2>2. CASE s = Following(r, g)
    <3>1. s \in Seq(ks) /\ RunsFrom(s, r, g)
      BY <2>2, FollowingType
    <3> DEFINE from == r.idx
    <3>2. from \in Int /\ from + 1 \in Nat
      BY <3>1 DEF RunsFrom
    <3>3. \A i \in 1 .. Len(s) : /\ <<r.prefix, from + i>> \in DOMAIN g
                                 /\ s[i] = g[<<r.prefix, from + i>>]
      BY <3>1 DEF RunsFrom
    <3> HIDE DEF from
    <3> QED
      BY <3>1, <3>2, <3>3
  <2> QED
    BY <2>1, <2>2
<1>2. ASSUME NEW i \in 1 .. Len(s), NEW j \in 1 .. Len(s), i <= j
      PROVE  s[i] \in Range(b) <=> s[j] \in Range(b)
  <2>1. ASSUME NEW n \in from + i .. from + j PROVE <<r.prefix, n>> \in DOMAIN g
    <3> DEFINE m == n - from
    <3>1. m \in 1 .. Len(s) /\ n = from + m
      BY <1>1, <1>2
    <3> HIDE DEF m
    <3> QED
      BY <1>1, <3>1
  <2>2. from + i \in Nat /\ from + j \in Nat /\ from + i <= from + j
    BY <1>1, <1>2
  <2>3. g[<<r.prefix, from + i>>] \in Range(b) <=> g[<<r.prefix, from + j>>] \in Range(b)
    BY <2>1, <2>2 DEF AllOrNone
  <2> QED
    BY <1>1, <2>3
<1>3. \A i, j \in 1 .. Len(s) : i <= j \/ j <= i
  BY <1>1
<1>4. \A i, j \in 1 .. Len(s) : s[i] \in Range(b) <=> s[j] \in Range(b)
  BY <1>2, <1>3
<1>5. \A x : x \in Range(s) <=> \E i \in 1 .. Len(s) : x = s[i]
  BY <1>1, RangeOf
<1> QED
  BY <1>4, <1>5

\* Around a hit that is not there yet, each side is left out, being there, or put whole.
LEMMA WalkAroundLays ==
  ASSUME NEW ks, NEW g, Grouping(g, ks), NEW r \in StoredKeys, Sequential(r),
         NEW b \in Seq(StoredKeys), AllOrNone(b, g), r \notin Range(b), r \notin Range(g)
  PROVE  \E s \in {<<>>, Before(r, g)}, t \in {<<>>, Following(r, g)} :
            Walk(b, Around(r, g)) = Append(b \o s, r) \o t
<1> DEFINE before == Before(r, g)
           after == Following(r, g)
<1>1. /\ before \in Seq(ks) /\ after \in Seq(ks)
      /\ RunsUpTo(before, r, g) /\ RunsFrom(after, r, g)
  BY BeforeType, FollowingType
<1>2. IsInjective(before) /\ IsInjective(after)
  BY SidesAreInjective
<1>3. /\ Range(before) \subseteq Range(b) \/ \A x \in Range(before) : x \notin Range(b)
      /\ Range(after) \subseteq Range(b) \/ \A x \in Range(after) : x \notin Range(b)
  BY WalkSide
<1>4. Walk(b, Around(r, g)) = Walk(Emit(Walk(b, before), r), after)
  BY WalkAround
<1> HIDE DEF before, after
<1>5. before \in Seq(StoredKeys) /\ after \in Seq(StoredKeys)
  BY <1>1 DEF Grouping
<1>6. /\ \A x \in Range(before) : x # r /\ x \in Range(g) /\ x.idx < r.idx
      /\ \A x \in Range(after) : x # r /\ x \in Range(g) /\ x.idx > r.idx
  <2>1. \A x \in Range(before) : \E i \in 1 .. Len(before) : x = before[i]
    BY <1>1, RangeOf
  <2>2. \A x \in Range(after) : \E i \in 1 .. Len(after) : x = after[i]
    BY <1>1, RangeOf
  <2>3. \A i \in 1 .. Len(before) : before[i] \in Range(g) /\ before[i].idx < r.idx
    <3>1. /\ Len(before) \in Nat /\ r.idx \in Nat
          /\ \A i \in 1 .. Len(before) : /\ before[i] \in Range(g)
                                        /\ before[i].idx = r.idx - Len(before) + i - 1
      BY <1>1 DEF RunsUpTo
    <3> QED
      BY <3>1
  <2>4. \A i \in 1 .. Len(after) : after[i] \in Range(g) /\ after[i].idx > r.idx
    <3>1. /\ Len(after) \in Nat /\ r.idx \in Nat
          /\ \A i \in 1 .. Len(after) : after[i] \in Range(g) /\ after[i].idx = r.idx + i
      BY <1>1 DEF RunsFrom
    <3> QED
      BY <3>1
  <2> QED
    BY <2>1, <2>2, <2>3, <2>4
<1>7. PICK s \in {<<>>, before} :
         /\ Walk(b, before) = b \o s
         /\ \A x \in Range(b \o s) : x \in Range(b) \/ x \in Range(before)
         /\ \A x \in Range(b) : x \in Range(b \o s)
         /\ b \o s \in Seq(StoredKeys)
  <2>1. CASE Range(before) \subseteq Range(b)
    <3>1. Walk(b, before) = b
      BY <1>5, <2>1, WalkIdle
    <3>2. b \o <<>> = b
      OBVIOUS
    <3> QED
      BY <3>1, <3>2
  <2>2. CASE \A x \in Range(before) : x \notin Range(b)
    <3>1. Walk(b, before) = b \o before
      BY <1>2, <1>5, <2>2, WalkFresh
    <3>2. Range(b \o before) = Range(b) \cup Range(before)
      BY <1>5, ConcatRange
    <3>3. b \o before \in Seq(StoredKeys)
      BY <1>5
    <3> QED
      BY <3>1, <3>2, <3>3
  <2> QED
    BY <1>3, <2>1, <2>2
<1> DEFINE c == b \o s
           d == Append(c, r)
<1>8. c \in Seq(StoredKeys) /\ r \notin Range(c)
  BY <1>6, <1>7
<1>9. Emit(Walk(b, before), r) = d
  BY <1>7, <1>8 DEF Emit
<1>10. d \in Seq(StoredKeys) /\ Range(d) = Range(c) \cup {r}
  <2>1. Emit(c, r) = d
    BY <1>8 DEF Emit
  <2> HIDE DEF c, d
  <2> QED
    BY <1>8, <2>1, EmitKeeps
<1> HIDE DEF c, d
<1>11. PICK t \in {<<>>, after} : Walk(d, after) = d \o t
  <2>1. CASE Range(after) \subseteq Range(b)
    <3>1. Range(after) \subseteq Range(d)
      BY <1>7, <1>10, <2>1 DEF c
    <3>2. Walk(d, after) = d
      BY <1>5, <3>1, WalkIdle
    <3>3. d \o <<>> = d
      BY <1>10
    <3> QED
      BY <3>2, <3>3
  <2>2. CASE \A x \in Range(after) : x \notin Range(b)
    <3>1. \A x \in Range(after) : x \notin Range(before)
      <4>1. \A x \in Range(after) : x.idx \in Int /\ r.idx \in Int
        BY <1>5, RangeOf, StoredKeysAssumption
      <4> QED
        BY <1>6, <4>1
    <3>2. \A x \in Range(after) : x \notin Range(d)
      BY <1>6, <1>7, <1>10, <2>2, <3>1 DEF c
    <3>3. Walk(d, after) = d \o after
      BY <1>2, <1>5, <1>10, <3>2, WalkFresh
    <3> QED
      BY <3>3
  <2> QED
    BY <1>3, <2>1, <2>2
<1>12. Walk(b, Around(r, g)) = d \o t
  BY <1>4, <1>9, <1>11
<1> QED
  BY <1>7, <1>11, <1>12 DEF c, d, before, after

\* No neighbour has the number of r, and all around r are taken together.
LEMMA AllOrNoneKept ==
  ASSUME UniqueNumbers, NEW ks, NEW g, Grouping(g, ks),
         NEW r \in StoredKeys, Sequential(r), r \notin Range(g),
         NEW b, AllOrNone(b, g), NEW c,
         Range(c) = Range(b) \cup Range(Before(r, g)) \cup {r} \cup Range(Following(r, g))
  PROVE  AllOrNone(c, g)
<1> DEFINE here == <<r.prefix, r.idx>>
<1>1. here \notin DOMAIN g
  <2> SUFFICES ASSUME here \in DOMAIN g PROVE FALSE
    OBVIOUS
  <2> HIDE DEF here
  <2>1. g[here] \in ks /\ g[here] \in Range(g) /\ here = <<g[here].prefix, g[here].idx>>
    BY GroupType
  <2>2. g[here].prefix = r.prefix /\ g[here].idx = r.idx
    BY <2>1 DEF here
  <2>3. g[here] = r
    BY <2>1, <2>2 DEF UniqueNumbers, Grouping
  <2> QED
    BY <2>1, <2>3
<1>2. r.idx \in Nat
  BY StoredKeysAssumption
<1> SUFFICES ASSUME NEW p, NEW i \in Nat, NEW j \in Nat, i <= j,
                    \A n \in i .. j : <<p, n>> \in DOMAIN g
             PROVE  g[<<p, i>>] \in Range(c) <=> g[<<p, j>>] \in Range(c)
  BY DEF AllOrNone
<1>3. <<p, i>> \in DOMAIN g /\ <<p, j>> \in DOMAIN g
  OBVIOUS
<1>4. p = r.prefix => r.idx \notin i .. j
  BY <1>1
<1> DEFINE x == g[<<p, i>>]
           y == g[<<p, j>>]
<1>5. x \in Range(b) <=> y \in Range(b)
  BY DEF AllOrNone
<1>6. x # r /\ y # r
  BY <1>3, GroupType
<1>7. x \in Range(Before(r, g)) <=> y \in Range(Before(r, g))
  <2>1. x \in Range(Before(r, g)) <=>
          p = r.prefix /\ i < r.idx /\ \A n \in i .. r.idx - 1 : <<p, n>> \in DOMAIN g
    BY <1>3, BeforeIs
  <2>2. y \in Range(Before(r, g)) <=>
          p = r.prefix /\ j < r.idx /\ \A n \in j .. r.idx - 1 : <<p, n>> \in DOMAIN g
    BY <1>3, BeforeIs
  <2>3. p = r.prefix => (i < r.idx <=> j < r.idx)
    BY <1>2, <1>4
  <2>4. j < r.idx => i .. r.idx - 1 = (i .. j) \cup (j .. r.idx - 1)
    BY <1>2
  <2> HIDE DEF x, y
  <2> QED
    BY <2>1, <2>2, <2>3, <2>4
<1>8. x \in Range(Following(r, g)) <=> y \in Range(Following(r, g))
  <2>1. x \in Range(Following(r, g)) <=>
          p = r.prefix /\ i > r.idx /\ \A n \in r.idx + 1 .. i : <<p, n>> \in DOMAIN g
    BY <1>3, FollowingIs
  <2>2. y \in Range(Following(r, g)) <=>
          p = r.prefix /\ j > r.idx /\ \A n \in r.idx + 1 .. j : <<p, n>> \in DOMAIN g
    BY <1>3, FollowingIs
  <2>3. p = r.prefix => (i > r.idx <=> j > r.idx)
    BY <1>2, <1>4
  <2>4. i > r.idx => r.idx + 1 .. j = (r.idx + 1 .. i) \cup (i .. j)
    BY <1>2
  <2> HIDE DEF x, y
  <2> QED
    BY <2>1, <2>2, <2>3, <2>4
<1> QED
  BY <1>5, <1>6, <1>7, <1>8 DEF x, y

\* What is no hit stands next to the fact before it or after it.
Standing(b, res) ==
    \A i \in 1 .. Len(b) : b[i] \notin Range(res) => InSequence(b, i - 1) \/ InSequence(b, i)

LEMMA InSequenceExtends ==
  ASSUME NEW S, NEW b \in Seq(S), NEW c \in Seq(S), Len(b) <= Len(c),
         \A i \in 1 .. Len(b) : c[i] = b[i], NEW i \in Int, InSequence(b, i)
  PROVE  InSequence(c, i)
<1>1. i \in 1 .. Len(b) /\ i + 1 \in 1 .. Len(b) /\ Succeeds(b[i + 1], b[i])
  BY DEF InSequence
<1>2. c[i] = b[i] /\ c[i + 1] = b[i + 1] /\ {i, i + 1} \subseteq 1 .. Len(c)
  BY <1>1
<1> QED
  BY <1>1, <1>2 DEF InSequence

LEMMA StandingExtends ==
  ASSUME NEW S, NEW b \in Seq(S), NEW c \in Seq(S), NEW res, Standing(b, res), Len(b) <= Len(c),
         \A i \in 1 .. Len(b) : c[i] = b[i],
         \A i \in Len(b) + 1 .. Len(c) :
            c[i] \notin Range(res) => InSequence(c, i - 1) \/ InSequence(c, i)
  PROVE  Standing(c, res)
<1> SUFFICES ASSUME NEW i \in 1 .. Len(c), c[i] \notin Range(res)
             PROVE  InSequence(c, i - 1) \/ InSequence(c, i)
  BY DEF Standing
<1>1. CASE i \in 1 .. Len(b)
  <2>1. InSequence(b, i - 1) \/ InSequence(b, i)
    BY <1>1 DEF Standing
  <2>2. i \in Int /\ i - 1 \in Int
    OBVIOUS
  <2> QED
    BY <2>1, <2>2, InSequenceExtends
<1>2. CASE i \in Len(b) + 1 .. Len(c)
  BY <1>2
<1> QED
  BY <1>1, <1>2

LEMMA LaidStands ==
  ASSUME NEW ks, NEW g, Grouping(g, ks), NEW res, NEW r \in StoredKeys, Sequential(r),
         r \in Range(res), NEW b \in Seq(StoredKeys), Standing(b, res),
         NEW s \in {<<>>, Before(r, g)}, NEW t \in {<<>>, Following(r, g)}
  PROVE  /\ Append(b \o s, r) \o t \in Seq(StoredKeys)
         /\ Standing(Append(b \o s, r) \o t, res)
<1> DEFINE n == Len(b)
           l == Len(s)
           m == Len(t)
           u == b \o s
           d == Append(u, r)
           c == d \o t
<1>1. ks \subseteq StoredKeys /\ \A k \in ks : Sequential(k)
  BY DEF Grouping
<1>2. /\ s \in Seq(ks) /\ l \in Nat
      /\ \A i \in 1 .. l : /\ s[i].prefix = r.prefix /\ s[i].idx = r.idx - l + i - 1
                           /\ Sequential(s[i])
  <2>1. CASE s = <<>>
    BY <2>1
  <2>2. CASE s = Before(r, g)
    <3>1. s \in Seq(ks) /\ RunsUpTo(s, r, g)
      BY <2>2, BeforeType
    <3>2. \A i \in 1 .. l : s[i].prefix = r.prefix /\ s[i].idx = r.idx - l + i - 1
      BY <3>1 DEF RunsUpTo
    <3> QED
      BY <1>1, <3>1, <3>2
  <2> QED
    BY <2>1, <2>2
<1>3. /\ t \in Seq(ks) /\ m \in Nat
      /\ \A i \in 1 .. m : /\ t[i].prefix = r.prefix /\ t[i].idx = r.idx + i
                           /\ Sequential(t[i])
  <2>1. CASE t = <<>>
    BY <2>1
  <2>2. CASE t = Following(r, g)
    <3>1. t \in Seq(ks) /\ RunsFrom(t, r, g)
      BY <2>2, FollowingType
    <3>2. \A i \in 1 .. m : t[i].prefix = r.prefix /\ t[i].idx = r.idx + i
      BY <3>1 DEF RunsFrom
    <3> QED
      BY <1>1, <3>1, <3>2
  <2> QED
    BY <2>1, <2>2
<1>4. s \in Seq(StoredKeys) /\ t \in Seq(StoredKeys) /\ n \in Nat /\ r.idx \in Nat
  BY <1>1, <1>2, <1>3, StoredKeysAssumption
<1> HIDE DEF u, d, c, n, l, m
<1>5. /\ u \in Seq(StoredKeys) /\ Len(u) = n + l
      /\ \A i \in 1 .. n : u[i] = b[i]
      /\ \A i \in 1 .. l : u[n + i] = s[i]
  BY <1>4, ConcatProperties DEF u, n, l
<1>6. /\ d \in Seq(StoredKeys) /\ Len(d) = n + l + 1 /\ d[n + l + 1] = r
      /\ \A i \in 1 .. n + l : d[i] = u[i]
  BY <1>2, <1>4, <1>5 DEF d
<1>7. /\ c \in Seq(StoredKeys) /\ Len(c) = n + l + 1 + m
      /\ \A i \in 1 .. n + l + 1 : c[i] = d[i]
      /\ \A i \in 1 .. m : c[n + l + 1 + i] = t[i]
  <2>1. d \in Seq(StoredKeys) /\ t \in Seq(StoredKeys)
    BY <1>4, <1>6
  <2>2. /\ c \in Seq(StoredKeys) /\ Len(c) = Len(d) + Len(t)
        /\ \A i \in 1 .. Len(d) : c[i] = d[i]
        /\ \A i \in 1 .. Len(t) : c[Len(d) + i] = t[i]
    BY <2>1, ConcatProperties DEF c
  <2> QED
    BY <1>6, <2>2 DEF m
<1>8. ASSUME NEW i \in n + 1 .. Len(c)
      PROVE  Sequential(c[i]) /\ c[i].prefix = r.prefix /\ c[i].idx = r.idx - l + i - n - 1
  <2>1. CASE i \in n + 1 .. n + l
    <3> DEFINE j == i - n
    <3>1. j \in 1 .. l /\ i = n + j /\ i \in 1 .. n + l /\ i \in 1 .. n + l + 1
      BY <1>2, <1>4, <2>1
    <3> HIDE DEF j
    <3>2. c[i] = s[j]
      BY <1>5, <1>6, <1>7, <3>1
    <3>3. s[j].idx = r.idx - l + j - 1
      BY <1>2, <3>1
    <3>4. c[i].idx = r.idx - l + i - n - 1
      BY <1>2, <1>4, <3>1, <3>2, <3>3
    <3> QED
      BY <1>2, <3>1, <3>2, <3>4
  <2>2. CASE i = n + l + 1
    <3>1. c[i] = r
      BY <1>2, <1>4, <1>6, <1>7, <2>2
    <3> QED
      BY <1>2, <1>4, <2>2, <3>1
  <2>3. CASE i \in n + l + 2 .. n + l + 1 + m
    <3> DEFINE j == i - n - l - 1
    <3>1. j \in 1 .. m /\ i = n + l + 1 + j
      BY <1>2, <1>3, <1>4, <2>3
    <3> HIDE DEF j
    <3>2. c[i] = t[j]
      BY <1>7, <3>1
    <3>3. t[j].idx = r.idx + j
      BY <1>3, <3>1
    <3>4. c[i].idx = r.idx - l + i - n - 1
      BY <1>2, <1>4, <3>1, <3>2, <3>3
    <3> QED
      BY <1>3, <3>1, <3>2, <3>4
  <2> QED
    BY <1>2, <1>3, <1>4, <1>7, <2>1, <2>2, <2>3
<1>9. ASSUME NEW i \in n + 1 .. Len(c) - 1 PROVE InSequence(c, i)
  <2> DEFINE j == i + 1
  <2>1. i \in n + 1 .. Len(c) /\ j \in n + 1 .. Len(c) /\ i \in 1 .. Len(c) /\ j \in 1 .. Len(c)
    BY <1>4, <1>7
  <2>2. /\ Sequential(c[i]) /\ c[i].prefix = r.prefix /\ c[i].idx = r.idx - l + i - n - 1
        /\ Sequential(c[j]) /\ c[j].prefix = r.prefix /\ c[j].idx = r.idx - l + j - n - 1
    BY <1>8, <2>1
  <2>3. c[j].idx = c[i].idx + 1
    BY <1>2, <1>4, <2>2
  <2> QED
    BY <1>7, <2>1, <2>2, <2>3 DEF InSequence, Succeeds
<1>10. ASSUME NEW i \in n + 1 .. Len(c), c[i] \notin Range(res)
       PROVE  InSequence(c, i - 1) \/ InSequence(c, i)
  <2>1. i # n + l + 1
    <3>1. n + l + 1 \in 1 .. n + l + 1
      BY <1>2, <1>4
    <3>2. c[n + l + 1] = r
      BY <1>6, <1>7, <3>1
    <3> QED
      BY <1>10, <3>2
  <2>2. CASE i < n + l + 1
    <3>1. i \in n + 1 .. Len(c) - 1
      BY <1>2, <1>3, <1>4, <1>7, <2>2
    <3> QED
      BY <1>9, <3>1
  <2>3. CASE i > n + l + 1
    <3>1. i - 1 \in n + 1 .. Len(c) - 1
      BY <1>2, <1>3, <1>4, <1>7, <2>3
    <3> QED
      BY <1>9, <3>1
  <2> QED
    BY <1>2, <1>4, <2>1, <2>2, <2>3
<1>11. n <= Len(c) /\ \A i \in 1 .. n : c[i] = b[i]
  BY <1>2, <1>3, <1>4, <1>5, <1>6, <1>7
<1>12. Standing(c, res)
  BY <1>7, <1>10, <1>11, StandingExtends DEF n
<1> QED
  BY <1>7, <1>12 DEF c, d, u

LEMMA WalkedStands ==
  ASSUME UniqueNumbers, NEW ks, NEW g, Grouping(g, ks), NEW res \in Seq(StoredKeys),
         IsInjective(res), \A k \in Range(g) : k \notin Range(res)
  PROVE  Standing(Walked(res, g), res)
<1> DEFINE s == [i \in DOMAIN res |-> Around(res[i], g)]
           N == Len(res)
           I == [n \in 0 .. N |-> {c \in Seq(StoredKeys) :
                    /\ AllOrNone(c, g)
                    /\ Standing(c, res)
                    /\ \A i \in n + 1 .. N : res[i] \notin Range(c)}]
<1>1. /\ s \in Seq(Seq(StoredKeys)) /\ Len(s) = N
      /\ \A i \in 1 .. N : s[i] = Around(res[i], g)
  BY AroundsType
<1> HIDE DEF s
<1>2. N \in Nat /\ N \in 0 .. N
  OBVIOUS
<1>3. <<>> \in I[0]
  BY <1>2 DEF AllOrNone, Standing, Range
<1>4. ASSUME NEW n \in 0 .. N - 1, NEW b \in I[n] PROVE Walk(b, s[n + 1]) \in I[n + 1]
  <2> DEFINE r == res[n + 1]
             c == Walk(b, Around(r, g))
  <2>1. n \in 0 .. N /\ n + 1 \in 0 .. N /\ n + 1 \in 1 .. N /\ n + 1 \in n + 1 .. N
    BY <1>2
  <2>2. r \in StoredKeys /\ r \in Range(res)
    BY <2>1, RangeOf
  <2>3. /\ b \in Seq(StoredKeys) /\ AllOrNone(b, g) /\ Standing(b, res)
        /\ \A i \in n + 1 .. N : res[i] \notin Range(b)
    BY <1>4, <2>1
  <2>4. \A i \in n + 2 .. N : res[i] # r /\ res[i] \in Range(res)
    <3>1. \A i, j \in 1 .. N : res[i] = res[j] => i = j
      BY DEF IsInjective
    <3>2. \A i \in n + 2 .. N : i \in 1 .. N /\ i # n + 1
      BY <1>2
    <3> QED
      BY <2>1, <3>1, <3>2, RangeOf
  <2>5. r \notin Range(b) /\ r \notin Range(g)
    BY <2>1, <2>2, <2>3
  <2> HIDE DEF r
  <2>6. /\ c \in Seq(StoredKeys)
        /\ Range(c) \subseteq Range(b) \cup {r} \cup Range(g)
        /\ Sequential(r) =>
             Range(c) = Range(b) \cup Range(Before(r, g)) \cup {r} \cup Range(Following(r, g))
    BY <2>2, <2>3, WalkAroundKeeps
  <2>7. Walk(b, s[n + 1]) = c
    BY <1>1, <2>1 DEF r
  <2>8. AllOrNone(c, g) /\ Standing(c, res)
    <3>1. CASE Sequential(r)
      <4>1. PICK before \in {<<>>, Before(r, g)}, after \in {<<>>, Following(r, g)} :
                    c = Append(b \o before, r) \o after
        BY <2>2, <2>3, <2>5, <3>1, WalkAroundLays
      <4> HIDE DEF c
      <4>2. Standing(c, res)
        BY <2>2, <2>3, <3>1, <4>1, LaidStands
      <4>3. AllOrNone(c, g)
        BY <2>2, <2>3, <2>5, <2>6, <3>1, AllOrNoneKept
      <4> QED
        BY <4>2, <4>3
    <3>2. CASE ~Sequential(r)
      <4>1. c = Append(b, r)
        BY <2>2, <2>3, <2>5, <3>2, WalkAround DEF Emit
      <4>2. Range(c) = Range(b) \cup {r}
        <5>1. c = Emit(b, r)
          BY <2>2, <2>3, <3>2, WalkAround
        <5> QED
          BY <2>2, <2>3, <5>1, EmitKeeps
      <4> HIDE DEF c
      <4>3. AllOrNone(c, g)
        <5> SUFFICES ASSUME NEW p, NEW i \in Nat, NEW j \in Nat, i <= j,
                            \A m \in i .. j : <<p, m>> \in DOMAIN g
                     PROVE  g[<<p, i>>] \in Range(c) <=> g[<<p, j>>] \in Range(c)
          BY DEF AllOrNone
        <5>1. g[<<p, i>>] \in Range(b) <=> g[<<p, j>>] \in Range(b)
          BY <2>3 DEF AllOrNone
        <5>2. g[<<p, i>>] \in Range(g) /\ g[<<p, j>>] \in Range(g)
          BY GroupType
        <5> QED
          BY <2>5, <4>2, <5>1, <5>2
      <4>4. /\ Len(b) <= Len(c) /\ \A i \in 1 .. Len(b) : c[i] = b[i]
            /\ \A i \in Len(b) + 1 .. Len(c) : c[i] = r
        BY <2>2, <2>3, <4>1
      <4>5. Standing(c, res)
        BY <2>2, <2>3, <2>6, <4>4, StandingExtends
      <4> QED
        BY <4>3, <4>5
    <3> QED
      BY <3>1, <3>2
  <2> HIDE DEF c
  <2>9. \A i \in n + 2 .. N : res[i] \notin Range(c)
    <3>1. \A i \in n + 2 .. N : i \in n + 1 .. N
      BY <1>2
    <3> QED
      BY <2>3, <2>4, <2>6, <3>1
  <2>10. c \in I[n + 1]
    BY <2>1, <2>6, <2>8, <2>9
  <2> QED
    BY <2>7, <2>10
<1>5. Walking!After(<<>>, s) \in I[N]
  <2> HIDE DEF I, N
  <2> QED
    BY <1>1, <1>3, <1>4, WalkedInvariant
<1>6. Walked(res, g) \in I[N]
  BY <1>5 DEF Walked, s
<1> QED
  BY <1>2, <1>6

\* From a hit to a neighbour without a gap, the last hit on the way walks to it.
LEMMA ConnectedAreWalked ==
  ASSUME UniqueNumbers, SearchOK, NEW g \in Groups(Found), woven \in Woven(results, g),
         NEW k \in Range(g), Connected(k)
  PROVE  k \in Range(Walked(results, g))
<1> DEFINE p == k.prefix
           v == Walked(results, g)
           IsHit(r, i) == /\ r \in Range(results)
                          /\ Sequential(r)
                          /\ r.prefix = p
                          /\ r.idx = i
           HitAt(i) == \E r : IsHit(r, i)
<1>1. Grouping(g, Found) /\ \A l \in Range(g) : l \notin Range(results)
  BY FoundIsGrouped
<1>2. results \in Seq(StoredKeys)
  BY DEF SearchOK
<1>3. Range(woven) = Range(results) \cup Range(g)
  BY <1>1, <1>2, WovenKeeps
<1>4. \A r \in Range(results) : Sequential(r) => SidesIn(r, g, v)
  BY <1>1, <1>2, WalkedKeeps
<1>5. /\ Range(g) = Found
      /\ \A l \in Found : <<l.prefix, l.idx>> \in DOMAIN g /\ g[<<l.prefix, l.idx>>] = l
  BY <1>1, GroupHasAll
<1>6. /\ k \in StoredKeys /\ Sequential(k) /\ k \notin Range(results) /\ k.idx \in Nat
      /\ <<p, k.idx>> \in DOMAIN g /\ g[<<p, k.idx>>] = k
  <2>1. k \in Found
    BY <1>5
  <2>2. k \in StoredKeys /\ Sequential(k)
    BY <1>1, <2>1 DEF Grouping
  <2> QED
    BY <1>1, <1>5, <2>1, <2>2, StoredKeysAssumption
<1>7. \A r \in Range(results) : r \in StoredKeys /\ r.idx \in Nat
  BY <1>2, RangeOf, StoredKeysAssumption
<1>8. PICK r0 \in Range(results) :
         /\ Sequential(r0) /\ r0.prefix = p
         /\ \A i \in (r0.idx .. k.idx) \cup (k.idx .. r0.idx) :
               \E other \in Range(woven) :
                  Sequential(other) /\ other.prefix = p /\ other.idx = i
  BY DEF Connected
<1>9. ASSUME NEW i \in (r0.idx .. k.idx) \cup (k.idx .. r0.idx), ~HitAt(i)
      PROVE  <<p, i>> \in DOMAIN g
  <2>1. PICK other \in Range(woven) : Sequential(other) /\ other.prefix = p /\ other.idx = i
    BY <1>8
  <2>2. other \notin Range(results)
    BY <1>9, <2>1
  <2>3. other \in Found
    BY <1>3, <1>5, <2>1, <2>2
  <2> QED
    BY <1>5, <2>1, <2>3
<1>10. ASSUME NEW r, IsHit(r, k.idx) PROVE FALSE
  <2>1. r = k
    BY <1>6, <1>7, <1>10 DEF UniqueNumbers
  <2> QED
    BY <1>6, <1>10, <2>1
<1>11. IsHit(r0, r0.idx) /\ r0.idx \in Nat
  BY <1>7, <1>8
<1> HIDE DEF v
<1>12. CASE r0.idx < k.idx
  <2> DEFINE H == {i \in r0.idx .. k.idx : HitAt(i)}
  <2>1. H \subseteq Nat /\ IsFiniteSet(H) /\ r0.idx \in H
    <3>1. r0.idx \in r0.idx .. k.idx /\ r0.idx .. k.idx \subseteq Nat
      BY <1>6, <1>11, <1>12
    <3>2. IsFiniteSet(r0.idx .. k.idx)
      BY <1>6, <1>11, FS_Interval
    <3>3. IsFiniteSet(H)
      BY <3>2, FS_Subset
    <3> QED
      BY <1>11, <3>1, <3>3
  <2> HIDE DEF H
  <2>2. PICK m \in H : \A x \in H : x <= m
    BY <2>1, HasGreatest
  <2>3. PICK r : IsHit(r, m)
    BY DEF H
  <2>4. m \in Nat /\ m <= k.idx /\ r0.idx <= m /\ m # k.idx
    BY <1>6, <1>10, <1>11, <2>1, <2>2, <2>3 DEF H
  <2>5. ASSUME NEW n \in r.idx + 1 .. k.idx PROVE <<p, n>> \in DOMAIN g
    <3>1. n \in r0.idx .. k.idx /\ n > m /\ m \in Nat
      BY <1>6, <1>11, <2>3, <2>4
    <3>2. n \notin H
      BY <2>2, <3>1
    <3>3. ~HitAt(n)
      BY <3>1, <3>2 DEF H
    <3> QED
      BY <1>9, <3>1, <3>3
  <2>6. r \in StoredKeys /\ p = r.prefix /\ k.idx > r.idx /\ r \in Range(results) /\ Sequential(r)
    BY <1>6, <1>7, <2>3, <2>4
  <2>7. g[<<p, k.idx>>] \in Range(Following(r, g))
    BY <1>1, <1>6, <2>5, <2>6, FollowingIs
  <2> QED
    BY <1>4, <1>6, <2>6, <2>7 DEF SidesIn, v
<1>13. CASE k.idx < r0.idx
  <2> DEFINE H == {i \in k.idx .. r0.idx : HitAt(i)}
  <2>1. H \subseteq Nat /\ IsFiniteSet(H) /\ r0.idx \in H
    <3>1. r0.idx \in k.idx .. r0.idx /\ k.idx .. r0.idx \subseteq Nat
      BY <1>6, <1>11, <1>13
    <3>2. IsFiniteSet(k.idx .. r0.idx)
      BY <1>6, <1>11, FS_Interval
    <3>3. IsFiniteSet(H)
      BY <3>2, FS_Subset
    <3> QED
      BY <1>11, <3>1, <3>3
  <2> HIDE DEF H
  <2> DEFINE m == Min(H)
  <2>2. m \in H /\ \A x \in H : m <= x
    <3>1. H # {}
      BY <2>1
    <3> QED
      BY <2>1, <3>1, Extremes
  <2> HIDE DEF m
  <2>3. PICK r : IsHit(r, m)
    BY <2>2 DEF H
  <2>4. m \in Nat /\ k.idx <= m /\ m <= r0.idx /\ m # k.idx
    BY <1>6, <1>10, <1>11, <2>1, <2>2, <2>3 DEF H
  <2>5. ASSUME NEW n \in k.idx .. r.idx - 1 PROVE <<p, n>> \in DOMAIN g
    <3>1. n \in k.idx .. r0.idx /\ n < m /\ m \in Nat
      BY <1>6, <1>11, <2>3, <2>4
    <3>2. n \notin H
      BY <2>2, <3>1
    <3>3. ~HitAt(n)
      BY <3>1, <3>2 DEF H
    <3> QED
      BY <1>9, <3>1, <3>3
  <2>6. r \in StoredKeys /\ p = r.prefix /\ k.idx < r.idx /\ r \in Range(results) /\ Sequential(r)
    BY <1>6, <1>7, <2>3, <2>4
  <2>7. g[<<p, k.idx>>] \in Range(Before(r, g))
    BY <1>1, <1>6, <2>5, <2>6, BeforeIs
  <2> QED
    BY <1>4, <1>6, <2>6, <2>7 DEF SidesIn, v
<1> QED
  BY <1>6, <1>10, <1>11, <1>12, <1>13

\* INV3 for any keys, hits and radius: a neighbour that no gap parts from a hit
\* is returned next to the fact before it or after it in its sequence.
THEOREM SequencesStandTogether ==
  ASSUME UniqueNumbers
  PROVE  Spec => []StandsInSequence
<1>1. SearchOK /\ WovenOK => StandsInSequence
  <2> SUFFICES ASSUME SearchOK, WovenOK, done, NEW i \in DOMAIN woven,
                      woven[i] \notin Range(results), Connected(woven[i])
               PROVE  InSequence(woven, i - 1) \/ InSequence(woven, i)
    BY DEF StandsInSequence
  <2>1. PICK g \in Groups(Found) : woven \in Woven(results, g)
    BY DEF WovenOK
  <2>2. Grouping(g, Found) /\ \A k \in Range(g) : k \notin Range(results)
    BY FoundIsGrouped
  <2>3. results \in Seq(StoredKeys) /\ IsInjective(results)
    BY DEF SearchOK
  <2> DEFINE v == Walked(results, g)
  <2>4. PICK rest \in Seq(StoredKeys) : woven = v \o rest /\ Range(rest) = Leftovers(results, g)
    BY <2>1, <2>2, <2>3, WovenIs
  <2>5. v \in Seq(StoredKeys)
    BY <2>2, <2>3, WalkedKeeps
  <2>6. Standing(v, results)
    BY <2>2, <2>3, WalkedStands
  <2>7. /\ woven \in Seq(StoredKeys)
        /\ Range(woven) = Range(results) \cup Range(g)
    BY <2>1, <2>2, <2>3, WovenKeeps
  <2>8. woven[i] \in Range(v)
    <3>1. woven[i] \in Range(g)
      BY <2>7, RangeOf
    <3> QED
      BY <2>1, <3>1, ConnectedAreWalked
  <2>9. \A x \in Range(rest) : x \notin Range(v)
    BY <2>4 DEF Leftovers
  <2> HIDE DEF v
  <2>10. /\ Len(woven) = Len(v) + Len(rest)
         /\ \A n \in 1 .. Len(v) : woven[n] = v[n]
         /\ \A n \in 1 .. Len(rest) : woven[Len(v) + n] = rest[n]
    BY <2>4, <2>5, ConcatProperties
  <2>11. Len(v) \in Nat /\ Len(rest) \in Nat /\ DOMAIN woven = 1 .. Len(woven)
    BY <2>5, <2>7
  <2>12. i \in 1 .. Len(v)
    <3> SUFFICES ASSUME i > Len(v) PROVE FALSE
      BY <2>11
    <3> DEFINE n == i - Len(v)
    <3>1. n \in 1 .. Len(rest) /\ i = Len(v) + n
      BY <2>10, <2>11
    <3> HIDE DEF n
    <3>2. woven[i] = rest[n]
      BY <2>10, <3>1
    <3> QED
      BY <2>8, <2>9, <3>1, <3>2, RangeOf
  <2>13. InSequence(v, i - 1) \/ InSequence(v, i)
    BY <2>6, <2>10, <2>12 DEF Standing
  <2>14. i \in Int /\ i - 1 \in Int /\ Len(v) <= Len(woven)
    BY <2>10, <2>11, <2>12
  <2> QED
    BY <2>5, <2>7, <2>10, <2>13, <2>14, InSequenceExtends
<1> QED
  BY <1>1, SearchInvariant, PTL
=============================================================================
