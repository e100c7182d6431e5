----------------------------- MODULE LoopProofs -----------------------------
(***************************************************************************)
(* What a loop over a sequence computes, by induction: an INSTANCE of this *)
(* module gives these facts for the body of the loop that it names.        *)
(***************************************************************************)
EXTENDS Loops, WellFoundedInduction, TLAPS

(* Induction, with a set in the place of the predicate *)

LEMMA Least ==
  ASSUME NEW S, S \subseteq Nat, S # {}
  PROVE  \E n \in S : \A m \in S : n <= m
<1> DEFINE R == OpToRel(<, Nat)
<1>1. IsWellFoundedOn(R, Nat)
  BY NatLessThanWellFounded
<1>2. \A m, n \in Nat : m < n => <<m, n>> \in R
  BY DEF OpToRel
<1> HIDE DEF R
<1>3. PICK n \in S : \A m \in S : <<m, n>> \notin R
  BY <1>1, WFMin
<1>4. \A m \in S : ~(m < n)
  BY <1>2, <1>3
<1> QED
  BY <1>3, <1>4

LEMMA Induction ==
  ASSUME NEW S, 0 \in S, \A n \in Nat : n \in S => n + 1 \in S
  PROVE  Nat \subseteq S
<1> SUFFICES ASSUME Nat \ S # {} PROVE FALSE
  OBVIOUS
<1> DEFINE T == Nat \ S
<1>1. PICK n \in T : \A m \in T : n <= m
  <2>1. T \subseteq Nat /\ T # {}
    OBVIOUS
  <2> HIDE DEF T
  <2> QED
    BY <2>1, Least
<1>2. n \in Nat /\ n # 0 /\ n \notin S
  OBVIOUS
<1>3. n - 1 \in Nat /\ n - 1 \notin T
  BY <1>1, <1>2
<1> QED
  BY <1>2, <1>3
-----------------------------------------------------------------------------
(* The recursion has a solution *)

\* g holds the states after the first n members of s and those before them.
Run(a, s, n, g) ==
    g = [i \in 0 .. n |-> IF i = 0 THEN a ELSE Step(g[i - 1], s[i])]

LEMMA RunExists ==
  ASSUME NEW a, NEW s, NEW n \in Nat
  PROVE  \E g : Run(a, s, n, g)
<1> DEFINE S == {m \in Nat : \E g : Run(a, s, m, g)}
<1>1. 0 \in S
  <2>1. Run(a, s, 0, [i \in 0 .. 0 |-> a])
    BY DEF Run
  <2> QED
    BY <2>1
<1>2. ASSUME NEW m \in Nat, m \in S PROVE m + 1 \in S
  <2>1. PICK g : Run(a, s, m, g)
    BY <1>2
  <2> DEFINE h == [i \in 0 .. m + 1 |-> IF i <= m THEN g[i] ELSE Step(g[m], s[m + 1])]
  <2>2. \A i \in 0 .. m : h[i] = g[i]
    OBVIOUS
  <2>3. \A i \in 0 .. m : g[i] = IF i = 0 THEN a ELSE Step(g[i - 1], s[i])
    BY <2>1 DEF Run
  <2>4. ASSUME NEW i \in 0 .. m + 1
        PROVE  h[i] = IF i = 0 THEN a ELSE Step(h[i - 1], s[i])
    <3>1. CASE i = m + 1
      <4>1. i # 0 /\ i - 1 = m /\ m \in 0 .. m
        BY <3>1
      <4>2. h[i] = Step(g[m], s[m + 1])
        BY <3>1
      <4> QED
        BY <4>1, <4>2, <2>2, <3>1
    <3>2. CASE i # m + 1
      <4>1. i \in 0 .. m /\ (i # 0 => i - 1 \in 0 .. m)
        BY <3>2
      <4> HIDE DEF h
      <4> QED
        BY <4>1, <2>2, <2>3
    <3> QED
      BY <3>1, <3>2
  <2>5. h = [i \in 0 .. m + 1 |-> h[i]]
    OBVIOUS
  <2>6. Run(a, s, m + 1, h)
    <3> HIDE DEF h
    <3> QED
      BY <2>4, <2>5 DEF Run
  <2> QED
    BY <2>6
<1>3. Nat \subseteq S
  <2> HIDE DEF S
  <2> QED
    BY <1>1, <1>2, Induction
<1> QED
  BY <1>3

LEMMA RunsAgree ==
  ASSUME NEW a, NEW s, NEW t, NEW m \in Nat, NEW n \in Nat, NEW g, NEW h, m <= n,
         \A i \in 1 .. m : s[i] = t[i],
         Run(a, s, m, g), Run(a, t, n, h)
  PROVE  g[m] = h[m]
<1> DEFINE E == {i \in Nat : i <= m => g[i] = h[i]}
<1>1. \A i \in 0 .. m : g[i] = IF i = 0 THEN a ELSE Step(g[i - 1], s[i])
  BY DEF Run
<1>2. \A i \in 0 .. m : h[i] = IF i = 0 THEN a ELSE Step(h[i - 1], t[i])
  BY DEF Run
<1>3. 0 \in E
  BY <1>1, <1>2
<1>4. ASSUME NEW i \in Nat, i \in E PROVE i + 1 \in E
  <2> SUFFICES ASSUME i + 1 <= m PROVE g[i + 1] = h[i + 1]
    OBVIOUS
  <2>1. i + 1 \in 0 .. m /\ i + 1 \in 1 .. m /\ i + 1 # 0 /\ (i + 1) - 1 = i /\ g[i] = h[i]
    BY <1>4
  <2> QED
    BY <1>1, <1>2, <2>1
<1>5. Nat \subseteq E
  <2> HIDE DEF E
  <2> QED
    BY <1>3, <1>4, Induction
<1> QED
  BY <1>5

LEMMA AfterIs ==
  ASSUME NEW a, NEW s, Len(s) \in Nat, NEW g, Run(a, s, Len(s), g)
  PROVE  After(a, s) = g[Len(s)]
<1> DEFINE f == CHOOSE h : h = [n \in 0 .. Len(s) |-> IF n = 0 THEN a ELSE Step(h[n - 1], s[n])]
<1>1. Run(a, s, Len(s), f)
  <2>1. g = [n \in 0 .. Len(s) |-> IF n = 0 THEN a ELSE Step(g[n - 1], s[n])]
    BY DEF Run
  <2>2. f = [n \in 0 .. Len(s) |-> IF n = 0 THEN a ELSE Step(f[n - 1], s[n])]
    BY <2>1
  <2> QED
    BY <2>2 DEF Run
<1>2. After(a, s) = f[Len(s)]
  BY DEF After
<1> QED
  <2> HIDE DEF f
  <2> QED
    BY <1>1, <1>2, RunsAgree
-----------------------------------------------------------------------------
(* Loops *)

\* A loop over nothing changes nothing.
THEOREM AfterNone == \A a : After(a, <<>>) = a
<1> TAKE a
<1>1. PICK g : Run(a, <<>>, 0, g)
  BY RunExists
<1>2. g[0] = a
  BY <1>1 DEF Run
<1> QED
  BY <1>1, <1>2, AfterIs

\* One more member is one more step.
THEOREM AfterAppend ==
  ASSUME NEW a, NEW S, NEW s \in Seq(S), NEW x
  PROVE  After(a, Append(s, x)) = Step(After(a, s), x)
<1> DEFINE n == Len(s)
           t == Append(s, x)
<1>1. n \in Nat /\ n + 1 \in Nat /\ n <= n + 1 /\ n \in 0 .. n /\ n + 1 \in 0 .. n + 1
  OBVIOUS
<1>2. Len(t) = n + 1 /\ t[n + 1] = x /\ \A i \in 1 .. n : s[i] = t[i]
  OBVIOUS
<1> HIDE DEF n, t
<1>3. PICK g : Run(a, s, n, g)
  BY <1>1, RunExists
<1>4. PICK h : Run(a, t, n + 1, h)
  BY <1>1, RunExists
<1>5. g[n] = h[n]
  BY <1>1, <1>2, <1>3, <1>4, RunsAgree
<1>6. h[n + 1] = Step(h[n], x)
  BY <1>1, <1>2, <1>4 DEF Run
<1>7. After(a, s) = g[n]
  BY <1>1, <1>3, AfterIs DEF n
<1>8. After(a, t) = h[n + 1]
  BY <1>1, <1>2, <1>4, AfterIs
<1> QED
  BY <1>5, <1>6, <1>7, <1>8 DEF t

\* The same for the beginnings of a sequence.
THEOREM AfterPrefix ==
  ASSUME NEW a, NEW S, NEW s \in Seq(S), NEW n \in Nat, n < Len(s)
  PROVE  After(a, SubSeq(s, 1, n + 1)) = Step(After(a, SubSeq(s, 1, n)), s[n + 1])
<1> DEFINE u == SubSeq(s, 1, n)
<1>1. u \in Seq(S) /\ SubSeq(s, 1, n + 1) = Append(u, s[n + 1])
  OBVIOUS
<1> HIDE DEF u
<1>2. After(a, Append(u, s[n + 1])) = Step(After(a, u), s[n + 1])
  BY <1>1, AfterAppend
<1> QED
  BY <1>1, <1>2 DEF u

\* A loop over one sequence after another.
THEOREM AfterConcat ==
  ASSUME NEW a, NEW S, NEW s \in Seq(S), NEW t \in Seq(S)
  PROVE  After(a, s \o t) = After(After(a, s), t)
<1> DEFINE E == {n \in Nat : n <= Len(t) =>
                    After(a, s \o SubSeq(t, 1, n)) = After(After(a, s), SubSeq(t, 1, n))}
<1>1. 0 \in E
  <2>1. SubSeq(t, 1, 0) = <<>> /\ s \o <<>> = s
    OBVIOUS
  <2> QED
    BY <2>1, AfterNone
<1>2. ASSUME NEW n \in Nat, n \in E PROVE n + 1 \in E
  <2> SUFFICES ASSUME n + 1 <= Len(t)
               PROVE  After(a, s \o SubSeq(t, 1, n + 1))
                        = After(After(a, s), SubSeq(t, 1, n + 1))
    OBVIOUS
  <2> DEFINE u == SubSeq(t, 1, n)
  <2>1. u \in Seq(S) /\ s \o u \in Seq(S) /\ SubSeq(t, 1, n + 1) = Append(u, t[n + 1])
    OBVIOUS
  <2>2. After(a, s \o u) = After(After(a, s), u)
    BY <1>2
  <2> HIDE DEF u
  <2>3. s \o Append(u, t[n + 1]) = Append(s \o u, t[n + 1])
    BY <2>1
  <2>4. After(a, Append(s \o u, t[n + 1])) = Step(After(a, s \o u), t[n + 1])
    BY <2>1, AfterAppend
  <2>5. After(After(a, s), Append(u, t[n + 1])) = Step(After(After(a, s), u), t[n + 1])
    BY <2>1, AfterAppend
  <2> QED
    BY <2>1, <2>2, <2>3, <2>4, <2>5
<1>3. Nat \subseteq E
  <2> HIDE DEF E
  <2> QED
    BY <1>1, <1>2, Induction
<1> DEFINE m == Len(t)
           whole == SubSeq(t, 1, m)
<1>4. whole = t
  OBVIOUS
<1>5. m \in Nat /\ m <= Len(t)
  OBVIOUS
<1>6. After(a, s \o whole) = After(After(a, s), whole)
  <2> HIDE DEF m
  <2> QED
    BY <1>3, <1>5
<1> HIDE DEF whole
<1> QED
  BY <1>4, <1>6

\* The rule of the loop invariant: what holds before the loop and is kept by each
\* step holds after it.  I[n] is the set of the states allowed after n members.
THEOREM AfterInvariant ==
  ASSUME NEW a, NEW S, NEW s \in Seq(S), NEW I, a \in I[0],
         \A n \in 0 .. Len(s) - 1 : \A b \in I[n] : Step(b, s[n + 1]) \in I[n + 1]
  PROVE  After(a, s) \in I[Len(s)]
<1> DEFINE E == {n \in Nat : n <= Len(s) => After(a, SubSeq(s, 1, n)) \in I[n]}
<1>1. 0 \in E
  <2>1. SubSeq(s, 1, 0) = <<>>
    OBVIOUS
  <2> QED
    BY <2>1, AfterNone
<1>2. ASSUME NEW n \in Nat, n \in E PROVE n + 1 \in E
  <2> SUFFICES ASSUME n + 1 <= Len(s)
               PROVE  After(a, SubSeq(s, 1, n + 1)) \in I[n + 1]
    OBVIOUS
  <2>1. n \in 0 .. Len(s) - 1 /\ n < Len(s) /\ After(a, SubSeq(s, 1, n)) \in I[n]
    BY <1>2
  <2> QED
    BY <2>1, AfterPrefix
<1>3. Nat \subseteq E
  <2> HIDE DEF E
  <2> QED
    BY <1>1, <1>2, Induction
<1>4. SubSeq(s, 1, Len(s)) = s /\ Len(s) \in Nat /\ Len(s) <= Len(s)
  OBVIOUS
<1> QED
  BY <1>3, <1>4
=============================================================================
