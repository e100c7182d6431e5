--------------------------- MODULE MarkdownProofs ---------------------------
(***************************************************************************)
(* That a daily log file gives back what was appended to it, proved for    *)
(* any entries, any number of writers and appends, and any bodies.         *)
(***************************************************************************)
EXTENDS MarkdownProperties, SequenceTheorems, TLAPS

ScanFacts == INSTANCE LoopProofs WITH Step <- ScanLine
-----------------------------------------------------------------------------
(* The scanner's loop *)

Scanned(s, lines) == Scan!After(s, lines)

LEMMA SameLoop == \A s, lines : Scanned(s, lines) = ScanFacts!After(s, lines)
BY DEF Scanned, Scan!After, ScanFacts!After

LEMMA ScannedNone == \A s : Scanned(s, <<>>) = s
BY SameLoop, ScanFacts!AfterNone

LEMMA ScannedAppend ==
  ASSUME NEW s, NEW S, NEW lines \in Seq(S), NEW l
  PROVE  Scanned(s, Append(lines, l)) = ScanLine(Scanned(s, lines), l)
BY SameLoop, ScanFacts!AfterAppend

LEMMA ScannedConcat ==
  ASSUME NEW s, NEW S, NEW p \in Seq(S), NEW q \in Seq(S)
  PROVE  Scanned(s, p \o q) = Scanned(Scanned(s, p), q)
<1>1. ScanFacts!After(s, p \o q) = ScanFacts!After(ScanFacts!After(s, p), q)
  BY ScanFacts!AfterConcat
<1> QED
  BY <1>1, SameLoop

LEMMA ScannedInvariant ==
  ASSUME NEW s, NEW S, NEW lines \in Seq(S), NEW I, s \in I[0],
         \A n \in 0 .. Len(lines) - 1 :
            \A b \in I[n] : ScanLine(b, lines[n + 1]) \in I[n + 1]
  PROVE  Scanned(s, lines) \in I[Len(lines)]
<1>1. ScanFacts!After(s, lines) \in I[Len(lines)]
  BY ScanFacts!AfterInvariant
<1> QED
  BY <1>1, SameLoop
-----------------------------------------------------------------------------
(* Types *)

Ops == {"none", "store", "delete", "delete_tags"}

Fields == {Field("op", v) : v \in Ops}
          \cup {Field("agent", v) : v \in Agents}
          \cup {Field("tags", v) : v \in SUBSET Tags}
          \cup {Field("ttl", v) : v \in Int}
          \cup {Field("created", v) : v \in Nat}
          \cup {Field("updated", v) : v \in Nat}
          \cup {Field("deleted", v) : v \in Nat}

Lines == BodyLines \cup Fields

\* An entry as the scanner holds it: its body is kept apart.
Currents == [op : Ops, key : Keys \cup {NoKey}, val : {NoValue}, tags : SUBSET Tags,
             agent : Agents, ttl : Int, created : Nat, time : Nat]

ParsedEntries == [op : Ops, key : Keys \cup {NoKey}, val : Seq(Lines) \cup {NoValue},
                  tags : SUBSET Tags, agent : Agents, ttl : Int, created : Nat,
                  time : Nat]

Founds == [entry : ParsedEntries, line : Nat]

States == {"idle", "seeking_envelope", "in_envelope", "in_body"}

ScanStates == [state : States,
               lineNo : Nat, current : Currents, line : Nat, body : Seq(Lines),
               entries : Seq(Founds), failed : BOOLEAN]

LEMMA LineTypes ==
  /\ {Blank, Text, Sep, Open, Close, Long} \subseteq BodyLines
  /\ \A k \in Keys \cup {NoKey} : Heading(k) \in BodyLines
  /\ \A l \in BodyLines : l.is # "field" /\ l.of \in Keys \cup {NoKey}
  /\ \A l \in Fields : l.is = "field"
<1>1. /\ {Blank, Text, Sep, Open, Close, Long} \subseteq BodyLines
      /\ \A k \in Keys \cup {NoKey} : Heading(k) \in BodyLines
  BY DEF BodyLines, Blank, Text, Sep, Open, Close, Long, Plain
<1>2. ASSUME NEW l \in BodyLines PROVE l.is # "field" /\ l.of \in Keys \cup {NoKey}
  <2>1. CASE l \in {Heading(k) : k \in Keys \cup {NoKey}}
    BY <2>1 DEF Heading
  <2>2. ASSUME NEW kind \in {"blank", "text", "sep", "open", "close", "long",
                             "escaped sep", "escaped open", "escaped close"},
               l = Plain(kind)
        PROVE  l.is # "field" /\ l.of = NoKey
    BY <2>2 DEF Plain
  <2> QED
    BY <2>1, <2>2 DEF BodyLines
<1>3. \A l \in Fields : l.is = "field"
  BY DEF Fields, Field
<1> QED
  BY <1>1, <1>2, <1>3

LEMMA EscapedLine ==
  ASSUME NEW l \in BodyLines
  PROVE  /\ EscapeLine(l) \in BodyLines \ {Sep, Open, Close}
         /\ l # Long => EscapeLine(l) # Long
         /\ EscapeLine(l) = Blank <=> l = Blank
<1>1. CASE l \in {Heading(k) : k \in Keys \cup {NoKey}}
  <2>1. l.is = "heading"
    BY <1>1 DEF Heading
  <2>2. EscapeLine(l) = l
    BY <2>1 DEF EscapeLine
  <2>3. l \notin {Blank, Sep, Open, Close, Long}
    BY <2>1 DEF Blank, Sep, Open, Close, Long, Plain
  <2> QED
    BY <2>2, <2>3
<1>2. ASSUME NEW kind \in {"blank", "text", "sep", "open", "close", "long",
                           "escaped sep", "escaped open", "escaped close"},
             l = Plain(kind)
      PROVE  /\ EscapeLine(l) \in {Plain("blank"), Plain("text"), Plain("long"),
                                   Plain("escaped sep"), Plain("escaped open"),
                                   Plain("escaped close")}
             /\ l # Long => EscapeLine(l) # Long
             /\ EscapeLine(l) = Blank <=> l = Blank
  BY <1>2 DEF EscapeLine, Blank, Sep, Open, Close, Long, Plain
<1>3. ASSUME NEW kind \in {"blank", "text", "long", "escaped sep", "escaped open",
                           "escaped close"}
      PROVE  Plain(kind) \in BodyLines \ {Sep, Open, Close}
  <2>1. Plain(kind) \notin {Sep, Open, Close}
    BY DEF Sep, Open, Close, Plain
  <2>2. Plain(kind) \in BodyLines
    BY DEF BodyLines
  <2> QED
    BY <2>1, <2>2
<1> QED
  BY <1>1, <1>2, <1>3 DEF BodyLines

LEMMA EnvelopeLineType ==
  ASSUME NEW c \in Currents, NEW l \in Lines
  PROVE  EnvelopeLine(c, l) \in Currents
<1>1. CASE l \in BodyLines
  BY <1>1, LineTypes DEF EnvelopeLine
<1>2. CASE l \in Fields
  BY <1>2 DEF Fields, Field, EnvelopeLine, Currents, Ops
<1> QED
  BY <1>1, <1>2 DEF Lines

(* Blank lines around a body *)

LEMMA Ends ==
  ASSUME NEW n \in Nat, NEW S, S \subseteq 1 .. n, S # {}
  PROVE  /\ Min(S) \in S /\ Max(S) \in S
         /\ \A i \in S : Min(S) <= i /\ i <= Max(S)
<1>1. \E i \in S : \A j \in S : i <= j
  <2>1. S \subseteq Nat
    OBVIOUS
  <2> QED
    BY <2>1, ScanFacts!Least
<1>2. \E i \in S : \A j \in S : i >= j
  <2> DEFINE T == {n - i : i \in S}
  <2>1. T \subseteq Nat /\ T # {}
    <3>1. \A i \in S : n - i \in Nat
      OBVIOUS
    <3>2. PICK i \in S : TRUE
      OBVIOUS
    <3>3. n - i \in T
      OBVIOUS
    <3> QED
      BY <3>1, <3>3
  <2>2. PICK m \in T : \A o \in T : m <= o
    <3> HIDE DEF T
    <3> QED
      BY <2>1, ScanFacts!Least
  <2>3. PICK i \in S : m = n - i
    OBVIOUS
  <2>4. ASSUME NEW j \in S PROVE i >= j
    <3>1. m <= n - j
      BY <2>2
    <3> QED
      BY <2>3, <3>1
  <2> QED
    BY <2>4
<1>3. Min(S) \in S /\ \A j \in S : Min(S) <= j
  BY <1>1 DEF Min
<1>4. Max(S) \in S /\ \A j \in S : Max(S) >= j
  BY <1>2 DEF Max
<1> QED
  BY <1>3, <1>4

Solid(b) == {i \in DOMAIN b : b[i] # Blank}

LEMMA TrimBlankType ==
  ASSUME NEW b \in Seq(Lines)
  PROVE  TrimBlank(b) \in Seq(Lines)
<1>1. CASE Solid(b) = {}
  BY <1>1 DEF TrimBlank, Solid
<1>2. CASE Solid(b) # {}
  <2>1. Solid(b) \subseteq 1 .. Len(b) /\ Len(b) \in Nat
    BY DEF Solid
  <2>2. Min(Solid(b)) \in 1 .. Len(b) /\ Max(Solid(b)) \in 1 .. Len(b)
    BY <1>2, <2>1, Ends
  <2>3. TrimBlank(b) = SubSeq(b, Min(Solid(b)), Max(Solid(b)))
    BY <1>2 DEF TrimBlank, Solid
  <2>4. \A i \in Min(Solid(b)) .. Max(Solid(b)) : b[i] \in Lines
    BY <2>2
  <2> QED
    BY <2>2, <2>3, <2>4, SubSeqProperties
<1> QED
  BY <1>1, <1>2

\* Trimming does not see blank lines added or removed at either end.
LEMMA TrimBlankAround ==
  ASSUME NEW b \in Seq(Lines), NEW c \in Seq(Lines), NEW d \in Nat,
         Solid(c) = {i + d : i \in Solid(b)},
         \A i \in DOMAIN b : i + d \in DOMAIN c => c[i + d] = b[i]
  PROVE  TrimBlank(c) = TrimBlank(b)
<1>1. CASE Solid(b) = {}
  <2>1. Solid(c) = {}
    BY <1>1
  <2> QED
    BY <1>1, <2>1 DEF TrimBlank, Solid
<1>2. CASE Solid(b) # {}
  <2>1. /\ Solid(b) \subseteq 1 .. Len(b) /\ Len(b) \in Nat
        /\ Solid(c) \subseteq 1 .. Len(c) /\ Len(c) \in Nat
    BY DEF Solid
  <2> DEFINE m == Min(Solid(b))
             M == Max(Solid(b))
             p == Min(Solid(c))
             P == Max(Solid(c))
  <2>2. m \in Solid(b) /\ M \in Solid(b) /\ \A i \in Solid(b) : m <= i /\ i <= M
    BY <1>2, <2>1, Ends
  <2>3. p \in Solid(c) /\ P \in Solid(c) /\ \A i \in Solid(c) : p <= i /\ i <= P
    <3>1. Solid(c) # {}
      BY <1>2
    <3> QED
      BY <2>1, <3>1, Ends
  <2>4. TrimBlank(b) = SubSeq(b, m, M) /\ TrimBlank(c) = SubSeq(c, p, P)
    BY <1>2, <2>3 DEF TrimBlank, Solid
  <2> HIDE DEF m, M, p, P
  <2>5. p = m + d /\ P = M + d
    <3>1. m + d \in Solid(c) /\ M + d \in Solid(c)
      BY <2>2
    <3>2. PICK i \in Solid(b) : p = i + d
      BY <2>3
    <3>3. PICK j \in Solid(b) : P = j + d
      BY <2>3
    <3>4. m \in Nat /\ M \in Nat /\ i \in Nat /\ j \in Nat
      BY <2>1, <2>2
    <3>5. p <= m + d /\ M + d <= P /\ m <= i /\ j <= M
      BY <2>2, <2>3, <3>1
    <3> QED
      BY <3>2, <3>3, <3>4, <3>5
  <2>6. m \in 1 .. Len(b) /\ M \in 1 .. Len(b) /\ p \in 1 .. Len(c) /\ P \in 1 .. Len(c)
        /\ m <= M /\ p <= P
    BY <2>1, <2>2, <2>3
  <2>7. /\ SubSeq(b, m, M) \in Seq(Lines) /\ Len(SubSeq(b, m, M)) = M - m + 1
        /\ \A i \in 1 .. M - m + 1 : SubSeq(b, m, M)[i] = b[m + i - 1]
    <3>1. \A i \in m .. M : b[i] \in Lines
      BY <2>6
    <3> QED
      BY <2>6, <3>1, SubSeqProperties
  <2>8. /\ SubSeq(c, p, P) \in Seq(Lines) /\ Len(SubSeq(c, p, P)) = P - p + 1
        /\ \A i \in 1 .. P - p + 1 : SubSeq(c, p, P)[i] = c[p + i - 1]
    <3>1. \A i \in p .. P : c[i] \in Lines
      BY <2>6
    <3> QED
      BY <2>6, <3>1, SubSeqProperties
  <2>9. P - p + 1 = M - m + 1
    BY <2>5, <2>6
  <2>10. ASSUME NEW i \in 1 .. M - m + 1
         PROVE  SubSeq(c, p, P)[i] = SubSeq(b, m, M)[i]
    <3>1. m + i - 1 \in DOMAIN b /\ (m + i - 1) + d = p + i - 1
      BY <2>5, <2>6
    <3>2. p + i - 1 \in DOMAIN c
      BY <2>5, <2>6, <2>9
    <3>3. c[p + i - 1] = b[m + i - 1]
      BY <3>1, <3>2
    <3> QED
      BY <2>7, <2>8, <2>9, <3>3
  <2>11. SubSeq(c, p, P) = SubSeq(b, m, M)
    BY <2>7, <2>8, <2>9, <2>10, SeqEqual
  <2> QED
    BY <2>4, <2>11
<1> QED
  BY <1>1, <1>2

LEMMA FoundType ==
  ASSUME NEW s \in ScanStates
  PROVE  /\ Found(s) \in Founds
         /\ Found(s).entry.time = s.current.time
BY TrimBlankType DEF Found, Founds, ScanStates, Currents, ParsedEntries

LEMMA ScannerType == Scanner \in ScanStates
<1>1. BlankEntry \in Currents
  BY NoAgentAssumption DEF BlankEntry, Currents, Ops
<1>2. <<>> \in Seq(Lines) /\ <<>> \in Seq(Founds) /\ "idle" \in States
  BY DEF States
<1> QED
  BY <1>1, <1>2 DEF Scanner, ScanStates

\* A state, field by field.
At(state, lineNo, current, line, body, entries, failed) ==
    [state |-> state, lineNo |-> lineNo, current |-> current, line |-> line,
     body |-> body, entries |-> entries, failed |-> failed]

LEMMA Fieldwise ==
  ASSUME NEW s \in ScanStates
  PROVE  s = At(s.state, s.lineNo, s.current, s.line, s.body, s.entries, s.failed)
BY DEF At, ScanStates

\* What a line does, case by case.
LEMMA ScanCases ==
  ASSUME NEW s \in ScanStates, NEW l \in Lines, l # Long
  PROVE
    /\ s.state = "idle" /\ l.is = "heading" =>
         ScanLine(s, l) = At("seeking_envelope", s.lineNo + 1,
                             [BlankEntry EXCEPT !.key = l.of], s.lineNo + 1, <<>>,
                             s.entries, s.failed)
    /\ s.state = "seeking_envelope" /\ l = Open =>
         ScanLine(s, l) = At("in_envelope", s.lineNo + 1, s.current, s.line, s.body,
                             s.entries, s.failed)
    /\ s.state = "in_envelope" /\ l = Close =>
         ScanLine(s, l) = At("in_body", s.lineNo + 1, s.current, s.line, s.body,
                             s.entries, s.failed)
    /\ s.state = "in_envelope" /\ l # Close =>
         ScanLine(s, l) = At("in_envelope", s.lineNo + 1, EnvelopeLine(s.current, l),
                             s.line, s.body, s.entries, s.failed)
    /\ s.state = "in_body" /\ l = Sep =>
         ScanLine(s, l) = At("idle", s.lineNo + 1, s.current, s.line, s.body,
                             Append(s.entries, Found(s)), s.failed)
    /\ s.state = "in_body" /\ l # Sep =>
         ScanLine(s, l) = At("in_body", s.lineNo + 1, s.current, s.line,
                             Append(s.body, l), s.entries, s.failed)
    /\ (\/ s.state = "idle" /\ l.is # "heading"
        \/ s.state = "seeking_envelope" /\ l # Open) =>
         ScanLine(s, l) = At(s.state, s.lineNo + 1, s.current, s.line, s.body,
                             s.entries, s.failed)
<1> DEFINE t == [s EXCEPT !.lineNo = @ + 1]
<1>1. t = At(s.state, s.lineNo + 1, s.current, s.line, s.body, s.entries, s.failed)
  BY DEF At, ScanStates
<1>2. CASE s.state = "idle" /\ l.is = "heading"
  <2>1. ScanLine(s, l) = Started(t, l.of)
    BY <1>2 DEF ScanLine
  <2> HIDE DEF t
  <2> QED
    BY <1>1, <1>2, <2>1 DEF Started, At
<1>3. CASE s.state = "seeking_envelope" /\ l = Open
  <2>1. ScanLine(s, l) = [t EXCEPT !.state = "in_envelope"]
    BY <1>3 DEF ScanLine
  <2> HIDE DEF t
  <2> QED
    BY <1>1, <1>3, <2>1 DEF At
<1>4. CASE s.state = "in_envelope" /\ l = Close
  <2>1. ScanLine(s, l) = [t EXCEPT !.state = "in_body"]
    BY <1>4 DEF ScanLine
  <2> HIDE DEF t
  <2> QED
    BY <1>1, <1>4, <2>1 DEF At
<1>5. CASE s.state = "in_envelope" /\ l # Close
  <2>1. ScanLine(s, l) = [t EXCEPT !.current = EnvelopeLine(s.current, l)]
    BY <1>5 DEF ScanLine
  <2> HIDE DEF t
  <2> QED
    BY <1>1, <1>5, <2>1 DEF At
<1>6. CASE s.state = "in_body" /\ l = Sep
  <2>1. ScanLine(s, l) = [t EXCEPT !.state = "idle", !.entries = Append(@, Found(s))]
    BY <1>6 DEF ScanLine
  <2> HIDE DEF t
  <2> QED
    BY <1>1, <1>6, <2>1 DEF At
<1>7. CASE s.state = "in_body" /\ l # Sep
  <2>1. ScanLine(s, l) = [t EXCEPT !.body = Append(@, l)]
    BY <1>7 DEF ScanLine
  <2> HIDE DEF t
  <2> QED
    BY <1>1, <1>7, <2>1 DEF At
<1>8. CASE \/ s.state = "idle" /\ l.is # "heading"
           \/ s.state = "seeking_envelope" /\ l # Open
  <2>1. ScanLine(s, l) = t
    BY <1>8 DEF ScanLine
  <2> QED
    BY <1>1, <1>8, <2>1
<1>9. s.state \in States
  BY DEF ScanStates
<1> QED
  BY <1>2, <1>3, <1>4, <1>5, <1>6, <1>7, <1>8

LEMMA ScanLineType ==
  ASSUME NEW s \in ScanStates, NEW l \in Lines
  PROVE  /\ ScanLine(s, l) \in ScanStates
         /\ ScanLine(s, l).lineNo = s.lineNo + 1
<1>1. /\ s.state \in States /\ s.lineNo \in Nat /\ s.current \in Currents /\ s.line \in Nat
      /\ s.body \in Seq(Lines) /\ s.entries \in Seq(Founds) /\ s.failed \in BOOLEAN
  BY DEF ScanStates
<1>2. ASSUME NEW st \in States, NEW c \in Currents, NEW n \in Nat, NEW b \in Seq(Lines),
             NEW es \in Seq(Founds), NEW f \in BOOLEAN,
             ScanLine(s, l) = At(st, s.lineNo + 1, c, n, b, es, f)
      PROVE  ScanLine(s, l) \in ScanStates /\ ScanLine(s, l).lineNo = s.lineNo + 1
  <2>1. s.lineNo + 1 \in Nat
    BY <1>1
  <2> QED
    BY <1>2, <2>1 DEF At, ScanStates
<1>3. CASE l = Long
  <2>1. ScanLine(s, l) = At(s.state, s.lineNo + 1, s.current, s.line, s.body, s.entries, TRUE)
    BY <1>3 DEF ScanLine, At, ScanStates
  <2> QED
    BY <1>1, <1>2, <2>1
<1>4. CASE l # Long /\ s.state = "idle" /\ l.is = "heading"
  <2>1. l.of \in Keys \cup {NoKey}
    BY <1>4, LineTypes DEF Lines
  <2>2. [BlankEntry EXCEPT !.key = l.of] \in Currents
    BY <2>1, NoAgentAssumption DEF BlankEntry, Currents, Ops
  <2>3. <<>> \in Seq(Lines) /\ s.lineNo + 1 \in Nat /\ "seeking_envelope" \in States
    BY <1>1 DEF States
  <2>4. ScanLine(s, l) = At("seeking_envelope", s.lineNo + 1,
                            [BlankEntry EXCEPT !.key = l.of], s.lineNo + 1, <<>>,
                            s.entries, s.failed)
    BY <1>4, ScanCases
  <2> QED
    BY <1>1, <1>2, <2>2, <2>3, <2>4
<1>5. CASE l # Long /\ s.state = "seeking_envelope" /\ l = Open
  <2>1. ScanLine(s, l) = At("in_envelope", s.lineNo + 1, s.current, s.line, s.body,
                            s.entries, s.failed)
    BY <1>5, ScanCases
  <2> QED
    BY <1>1, <1>2, <2>1 DEF States
<1>6. CASE l # Long /\ s.state = "in_envelope" /\ l = Close
  <2>1. ScanLine(s, l) = At("in_body", s.lineNo + 1, s.current, s.line, s.body,
                            s.entries, s.failed)
    BY <1>6, ScanCases
  <2> QED
    BY <1>1, <1>2, <2>1 DEF States
<1>7. CASE l # Long /\ s.state = "in_envelope" /\ l # Close
  <2>1. ScanLine(s, l) = At("in_envelope", s.lineNo + 1, EnvelopeLine(s.current, l),
                            s.line, s.body, s.entries, s.failed)
    BY <1>7, ScanCases
  <2>2. EnvelopeLine(s.current, l) \in Currents
    BY <1>1, EnvelopeLineType
  <2> QED
    BY <1>1, <1>2, <2>1, <2>2 DEF States
<1>8. CASE l # Long /\ s.state = "in_body" /\ l = Sep
  <2>1. ScanLine(s, l) = At("idle", s.lineNo + 1, s.current, s.line, s.body,
                            Append(s.entries, Found(s)), s.failed)
    BY <1>8, ScanCases
  <2>2. Append(s.entries, Found(s)) \in Seq(Founds)
    BY <1>1, FoundType
  <2> QED
    BY <1>1, <1>2, <2>1, <2>2 DEF States
<1>9. CASE l # Long /\ s.state = "in_body" /\ l # Sep
  <2>1. ScanLine(s, l) = At("in_body", s.lineNo + 1, s.current, s.line,
                            Append(s.body, l), s.entries, s.failed)
    BY <1>9, ScanCases
  <2>2. Append(s.body, l) \in Seq(Lines)
    BY <1>1
  <2> QED
    BY <1>1, <1>2, <2>1, <2>2 DEF States
<1>10. CASE l # Long /\ \/ s.state = "idle" /\ l.is # "heading"
                        \/ s.state = "seeking_envelope" /\ l # Open
  <2>1. ScanLine(s, l) = At(s.state, s.lineNo + 1, s.current, s.line, s.body,
                            s.entries, s.failed)
    BY <1>10, ScanCases
  <2> QED
    BY <1>1, <1>2, <2>1
<1> QED
  BY <1>1, <1>3, <1>4, <1>5, <1>6, <1>7, <1>8, <1>9, <1>10 DEF States

LEMMA ScannedType ==
  ASSUME NEW s \in ScanStates, NEW lines \in Seq(Lines)
  PROVE  /\ Scanned(s, lines) \in ScanStates
         /\ Scanned(s, lines).lineNo = s.lineNo + Len(lines)
<1> DEFINE I == [n \in 0 .. Len(lines) |-> {b \in ScanStates : b.lineNo = s.lineNo + n}]
<1>1. s \in I[0]
  BY DEF ScanStates
<1>2. ASSUME NEW n \in 0 .. Len(lines) - 1, NEW b \in I[n]
      PROVE  ScanLine(b, lines[n + 1]) \in I[n + 1]
  <2>1. lines[n + 1] \in Lines /\ n + 1 \in 0 .. Len(lines)
    OBVIOUS
  <2>2. b \in ScanStates /\ b.lineNo = s.lineNo + n
    OBVIOUS
  <2>3. s.lineNo \in Nat /\ n \in Nat
    BY DEF ScanStates
  <2>4. ScanLine(b, lines[n + 1]) \in ScanStates
        /\ ScanLine(b, lines[n + 1]).lineNo = b.lineNo + 1
    BY <2>1, <2>2, ScanLineType
  <2>5. b.lineNo + 1 = s.lineNo + (n + 1)
    <3> HIDE DEF I
    <3> QED
      BY <2>2, <2>3
  <2> QED
    BY <2>1, <2>4, <2>5
<1>3. Scanned(s, lines) \in I[Len(lines)]
  <2> HIDE DEF I
  <2> QED
    BY <1>1, <1>2, ScannedInvariant
<1>4. Len(lines) \in 0 .. Len(lines)
  OBVIOUS
<1> QED
  BY <1>3, <1>4
-----------------------------------------------------------------------------
(* Scanning a block *)

\* Before the body, lines that close no envelope finish no entry.
LEMMA Quiet ==
  ASSUME NEW s \in ScanStates, s.state # "in_body", s.failed = FALSE,
         NEW lines \in Seq(Lines \ {Close, Sep, Long})
  PROVE  LET r == Scanned(s, lines)
         IN  r.state # "in_body" /\ r.entries = s.entries /\ r.failed = FALSE
<1> DEFINE J == {b \in ScanStates : /\ b.state # "in_body"
                                    /\ b.entries = s.entries
                                    /\ b.failed = FALSE}
           I == [n \in 0 .. Len(lines) |-> J]
<1>1. ASSUME NEW b \in J, NEW l \in Lines \ {Close, Sep, Long}
      PROVE  ScanLine(b, l) \in J
  <2>1. ScanLine(b, l) \in ScanStates
    BY ScanLineType
  <2>2. b.state \in {"idle", "seeking_envelope", "in_envelope"}
    BY DEF ScanStates, States
  <2>3. /\ ScanLine(b, l).state # "in_body"
        /\ ScanLine(b, l).entries = b.entries
        /\ ScanLine(b, l).failed = b.failed
    <3>1. CASE b.state = "idle" /\ l.is = "heading"
      <4>1. ScanLine(b, l) = At("seeking_envelope", b.lineNo + 1,
                                [BlankEntry EXCEPT !.key = l.of], b.lineNo + 1, <<>>,
                                b.entries, b.failed)
        BY <3>1, ScanCases
      <4> QED
        BY <4>1 DEF At
    <3>2. CASE b.state = "seeking_envelope" /\ l = Open
      <4>1. ScanLine(b, l) = At("in_envelope", b.lineNo + 1, b.current, b.line, b.body,
                                b.entries, b.failed)
        BY <3>2, ScanCases
      <4> QED
        BY <4>1 DEF At
    <3>3. CASE b.state = "in_envelope"
      <4>1. ScanLine(b, l) = At("in_envelope", b.lineNo + 1, EnvelopeLine(b.current, l),
                                b.line, b.body, b.entries, b.failed)
        BY <3>3, ScanCases
      <4> QED
        BY <4>1 DEF At
    <3>4. CASE \/ b.state = "idle" /\ l.is # "heading"
               \/ b.state = "seeking_envelope" /\ l # Open
      <4>1. ScanLine(b, l) = At(b.state, b.lineNo + 1, b.current, b.line, b.body,
                                b.entries, b.failed)
        BY <3>4, ScanCases
      <4> QED
        BY <2>2, <4>1 DEF At
    <3> QED
      BY <2>2, <3>1, <3>2, <3>3, <3>4
  <2> QED
    BY <2>1, <2>3
<1>2. \A n \in 0 .. Len(lines) - 1 : lines[n + 1] \in Lines \ {Close, Sep, Long}
  OBVIOUS
<1>3. Scanned(s, lines) \in I[Len(lines)]
  <2>1. \A n \in 0 .. Len(lines) : I[n] = J
    OBVIOUS
  <2>2. Len(lines) \in Nat
    OBVIOUS
  <2>3. s \in I[0]
    OBVIOUS
  <2>4. ASSUME NEW n \in 0 .. Len(lines) - 1, NEW b \in I[n]
        PROVE  ScanLine(b, lines[n + 1]) \in I[n + 1]
    <3>1. n \in 0 .. Len(lines) /\ n + 1 \in 0 .. Len(lines)
      BY <2>2
    <3> HIDE DEF I, J
    <3> QED
      BY <1>1, <1>2, <2>1, <2>4, <3>1
  <2> HIDE DEF I
  <2> QED
    BY <2>3, <2>4, ScannedInvariant
<1> QED
  BY <1>3

\* In the body, every line but the separator is taken into the body.
LEMMA InBody ==
  ASSUME NEW s \in ScanStates, s.state = "in_body",
         NEW lines \in Seq(Lines \ {Sep, Long})
  PROVE  Scanned(s, lines) = At("in_body", s.lineNo + Len(lines), s.current, s.line,
                                s.body \o lines, s.entries, s.failed)
<1> DEFINE at(n) == At("in_body", s.lineNo + n, s.current, s.line,
                       s.body \o SubSeq(lines, 1, n), s.entries, s.failed)
           I == [n \in 0 .. Len(lines) |-> {at(n)}]
<1>1. s \in I[0]
  <2>1. SubSeq(lines, 1, 0) = <<>> /\ s.body \o <<>> = s.body /\ s.lineNo + 0 = s.lineNo
    BY DEF ScanStates
  <2>2. at(0) = s
    BY <2>1, Fieldwise
  <2> QED
    BY <2>2
<1>2. ASSUME NEW n \in 0 .. Len(lines) - 1
      PROVE  ScanLine(at(n), lines[n + 1]) = at(n + 1)
  <2> DEFINE p == SubSeq(lines, 1, n)
             l == lines[n + 1]
  <2>1. p \in Seq(Lines) /\ SubSeq(lines, 1, n + 1) = Append(p, l)
    OBVIOUS
  <2>2. l \in Lines /\ l # Sep /\ l # Long
    OBVIOUS
  <2>3. s.body \in Seq(Lines) /\ s.lineNo \in Nat
    BY DEF ScanStates
  <2> HIDE DEF p, l
  <2> DEFINE b == s.body
  <2>4. Append(b \o p, l) = b \o Append(p, l) /\ b \o p \in Seq(Lines)
    <3>1. b \in Seq(Lines) /\ <<l>> \in Seq(Lines)
      BY <2>2, <2>3
    <3> HIDE DEF b
    <3>2. b \o p \in Seq(Lines)
      BY <2>1, <3>1, ConcatProperties
    <3>3. Append(b \o p, l) = (b \o p) \o <<l>> /\ Append(p, l) = p \o <<l>>
      BY <2>1, <2>2, <3>2
    <3> QED
      BY <2>1, <3>1, <3>2, <3>3, ConcatAssociative
  <2>5. at(n) = At("in_body", s.lineNo + n, s.current, s.line, b \o p, s.entries, s.failed)
    BY DEF p
  <2>6. at(n) \in ScanStates
    BY <2>3, <2>4, <2>5 DEF At, ScanStates
  <2>7. ScanLine(at(n), l) = At("in_body", (s.lineNo + n) + 1, s.current, s.line,
                                Append(b \o p, l), s.entries, s.failed)
    <3> DEFINE r == at(n)
    <3>1. /\ r.state = "in_body" /\ r.lineNo = s.lineNo + n /\ r.current = s.current
          /\ r.line = s.line /\ r.body = b \o p /\ r.entries = s.entries
          /\ r.failed = s.failed
      BY <2>5 DEF At
    <3> HIDE DEF at
    <3> QED
      BY <2>2, <2>6, <3>1, ScanCases
  <2>8. (s.lineNo + n) + 1 = s.lineNo + (n + 1)
    BY <2>3
  <2> QED
    BY <2>1, <2>4, <2>7, <2>8 DEF l
<1>3. Scanned(s, lines) \in I[Len(lines)]
  <2>1. ASSUME NEW n \in 0 .. Len(lines) - 1, NEW b \in I[n]
        PROVE  ScanLine(b, lines[n + 1]) \in I[n + 1]
    <3>1. n \in 0 .. Len(lines) /\ n + 1 \in 0 .. Len(lines)
      OBVIOUS
    <3> HIDE DEF at
    <3> QED
      BY <1>2, <3>1
  <2> HIDE DEF I
  <2> QED
    BY <1>1, <2>1, ScannedInvariant
<1>4. Len(lines) \in 0 .. Len(lines) /\ SubSeq(lines, 1, Len(lines)) = lines
  OBVIOUS
<1> QED
  BY <1>3, <1>4
-----------------------------------------------------------------------------
(* The parts of a block *)

\* What is known of an entry that an append writes.
Loggable(e) ==
    /\ e \in Entries
    /\ e.op # "none"
    /\ e.op = "store" =>
         /\ e.val \in Seq(BodyLines \ {Long}) \ {<<>>}
         /\ ParsedBody[e.val] = TrimBlank(EscapeBody(e.val))
    /\ e.op = "delete" => e = KeyTombstone(e.key, e.time)
    /\ e.op = "delete_tags" => e = TagsTombstone(e.tags, e.time)

\* The fields before the time of the entry, and that time.
FieldsBefore(e) ==
    IF e.op = "store"
    THEN <<Field("op", "store")>>
         \o Optional("agent", e.agent, NoAgent)
         \o Optional("tags", e.tags, {})
         \o Optional("ttl", WrittenTtl(e.ttl), 0)
         \o <<Field("created", e.created)>>
    ELSE IF e.op = "delete" THEN <<Field("op", "delete")>>
    ELSE <<Field("op", "delete_tags"), Field("tags", e.tags)>>

Stamp(e) == IF e.op = "store" THEN Field("updated", e.time) ELSE Field("deleted", e.time)

\* The lines of the body: those after the envelope.
BodyPart(e) ==
    IF e.op = "store"
    THEN <<Blank>> \o Content(e) \o <<Blank>>
    ELSE <<Blank>>

\* The lines up to the end of the envelope, without the blank line before the heading.
HeadPart(e) == <<Heading(e.key), Blank, Open>> \o FieldsBefore(e) \o <<Stamp(e)>>

LEMMA FieldsBeforeType ==
  ASSUME NEW e, Loggable(e)
  PROVE  FieldsBefore(e) \in Seq(Fields) /\ Stamp(e) \in Fields
<1>1. e \in EntryRecords /\ e.op \in {"store", "delete", "delete_tags"}
  BY DEF Loggable, Entries, EntryRecords
<1>2. /\ e.agent \in Agents /\ e.tags \in SUBSET Tags /\ e.created \in Nat /\ e.time \in Nat
      /\ e.ttl \in Int
  BY <1>1 DEF EntryRecords
<1>3. WrittenTtl(e.ttl) \in Int
  BY <1>2 DEF WrittenTtl
<1>4. /\ \A v \in Ops : Field("op", v) \in Fields
      /\ \A v \in Agents : Field("agent", v) \in Fields
      /\ \A v \in SUBSET Tags : Field("tags", v) \in Fields
      /\ \A v \in Int : Field("ttl", v) \in Fields
      /\ \A v \in Nat : Field("created", v) \in Fields
      /\ \A v \in Nat : Field("updated", v) \in Fields
      /\ \A v \in Nat : Field("deleted", v) \in Fields
  BY DEF Fields
<1>5. /\ Optional("agent", e.agent, NoAgent) \in Seq(Fields)
      /\ Optional("tags", e.tags, {}) \in Seq(Fields)
      /\ Optional("ttl", WrittenTtl(e.ttl), 0) \in Seq(Fields)
  BY <1>2, <1>3, <1>4 DEF Optional
<1>6. /\ <<Field("op", "store")>> \in Seq(Fields)
      /\ <<Field("op", "delete")>> \in Seq(Fields)
      /\ <<Field("created", e.created)>> \in Seq(Fields)
      /\ <<Field("op", "delete_tags"), Field("tags", e.tags)>> \in Seq(Fields)
  BY <1>2, <1>4 DEF Ops
<1>7. FieldsBefore(e) \in Seq(Fields)
  BY <1>1, <1>5, <1>6, ConcatProperties DEF FieldsBefore
<1>8. Stamp(e) \in Fields
  BY <1>1, <1>2, <1>4 DEF Stamp
<1> QED
  BY <1>7, <1>8

LEMMA EscapeBodyType ==
  ASSUME NEW b \in Seq(BodyLines)
  PROVE  /\ EscapeBody(b) \in Seq(BodyLines \ {Sep, Open, Close})
         /\ Len(EscapeBody(b)) = Len(b)
         /\ \A i \in 1 .. Len(b) : EscapeBody(b)[i] = EscapeLine(b[i])
         /\ b \in Seq(BodyLines \ {Long}) =>
               EscapeBody(b) \in Seq(BodyLines \ {Sep, Open, Close, Long})
<1> DEFINE f == [i \in 1 .. Len(b) |-> EscapeLine(b[i])]
<1>1. EscapeBody(b) = f /\ Len(b) \in Nat
  BY DEF EscapeBody
<1>2. \A i \in 1 .. Len(b) : EscapeLine(b[i]) \in BodyLines \ {Sep, Open, Close}
  BY EscapedLine
<1>3. f \in Seq(BodyLines \ {Sep, Open, Close}) /\ Len(f) = Len(b)
  BY <1>1, <1>2
<1>4. ASSUME b \in Seq(BodyLines \ {Long})
      PROVE  f \in Seq(BodyLines \ {Sep, Open, Close, Long})
  <2>1. \A i \in 1 .. Len(b) : b[i] \in BodyLines \ {Long}
    BY <1>4
  <2>2. \A i \in 1 .. Len(b) : EscapeLine(b[i]) \in BodyLines \ {Sep, Open, Close, Long}
    BY <2>1, EscapedLine
  <2> QED
    BY <1>1, <2>2
<1> QED
  BY <1>1, <1>3, <1>4

LEMMA BodyPartType ==
  ASSUME NEW e, Loggable(e)
  PROVE  BodyPart(e) \in Seq(Lines \ {Sep, Long})
<1>1. <<Blank>> \in Seq(Lines \ {Sep, Long})
  BY LineTypes DEF Lines, Blank, Sep, Long, Plain
<1>2. CASE e.op = "store"
  <2> DEFINE b == IF Last(e.val) = Blank THEN Front(e.val) ELSE e.val
  <2>1. e.val \in Seq(BodyLines \ {Long}) /\ e.val # <<>>
    BY <1>2 DEF Loggable
  <2>2. b \in Seq(BodyLines \ {Long})
    BY <2>1 DEF Front
  <2>3. b \in Seq(BodyLines)
    BY <2>2, SeqMonotonic
  <2>4. EscapeBody(b) \in Seq(BodyLines \ {Sep, Open, Close, Long})
    <3> HIDE DEF b
    <3> QED
      BY <2>2, <2>3, EscapeBodyType
  <2>5. BodyLines \ {Sep, Open, Close, Long} \subseteq Lines \ {Sep, Long}
    BY DEF Lines
  <2>6. EscapeBody(b) \in Seq(Lines \ {Sep, Long})
    <3> HIDE DEF b
    <3> QED
      BY <2>4, <2>5, SeqMonotonic
  <2>7. BodyPart(e) = <<Blank>> \o EscapeBody(b) \o <<Blank>>
    BY <1>2 DEF BodyPart, Content
  <2> HIDE DEF b
  <2> QED
    BY <1>1, <2>6, <2>7, ConcatProperties
<1>3. CASE e.op # "store"
  BY <1>1, <1>3 DEF BodyPart
<1> QED
  BY <1>2, <1>3

LEMMA HeadPartType ==
  ASSUME NEW e, Loggable(e)
  PROVE  HeadPart(e) \in Seq(Lines \ {Close, Sep, Long})
<1>1. e.key \in Keys \cup {NoKey}
  BY DEF Loggable, Entries, EntryRecords
<1>2. /\ Heading(e.key) \in Lines \ {Close, Sep, Long}
      /\ Blank \in Lines \ {Close, Sep, Long}
      /\ Open \in Lines \ {Close, Sep, Long}
  <2>1. /\ Heading(e.key).is = "heading" /\ Blank.is = "blank" /\ Open.is = "open"
        /\ Close.is = "close" /\ Sep.is = "sep" /\ Long.is = "long"
    BY DEF Heading, Blank, Open, Close, Sep, Long, Plain
  <2>2. Heading(e.key) \in Lines /\ Blank \in Lines /\ Open \in Lines
    BY <1>1, LineTypes DEF Lines
  <2> QED
    BY <2>1, <2>2
<1>3. Fields \subseteq Lines \ {Close, Sep, Long}
  BY LineTypes DEF Lines
<1>4. FieldsBefore(e) \in Seq(Lines \ {Close, Sep, Long}) /\ Stamp(e) \in Lines \ {Close, Sep, Long}
  BY <1>3, FieldsBeforeType, SeqMonotonic
<1>5. /\ <<Heading(e.key), Blank, Open>> \in Seq(Lines \ {Close, Sep, Long})
      /\ <<Stamp(e)>> \in Seq(Lines \ {Close, Sep, Long})
  BY <1>2, <1>4
<1> QED
  BY <1>4, <1>5, ConcatProperties DEF HeadPart

LEMMA Pair ==
  ASSUME NEW L, NEW u \in L, NEW v \in L
  PROVE  <<u, v>> = <<u>> \o <<v>>
<1>1. <<u, v>> \in Seq(L) /\ <<u>> \in Seq(L) /\ <<v>> \in Seq(L)
  OBVIOUS
<1>2. /\ Len(<<u, v>>) = 2 /\ Len(<<u>>) = 1 /\ Len(<<v>>) = 1
      /\ <<u, v>>[1] = u /\ <<u, v>>[2] = v /\ <<u>>[1] = u /\ <<v>>[1] = v
  OBVIOUS
<1> DEFINE p == <<u, v>>
           q == <<u>>
           r == <<v>>
<1> HIDE DEF p, q, r
<1>3. /\ q \o r \in Seq(L) /\ Len(q \o r) = 2
      /\ (q \o r)[1] = u /\ (q \o r)[2] = v
  BY <1>1, <1>2, ConcatProperties DEF p, q, r
<1>4. p = q \o r
  BY <1>1, <1>2, <1>3, SeqEqual DEF p
<1> QED
  BY <1>4 DEF p, q, r

LEMMA Triple ==
  ASSUME NEW L, NEW u \in L, NEW v \in L, NEW w \in L
  PROVE  <<u, v, w>> = <<u, v>> \o <<w>>
<1>1. <<u, v, w>> \in Seq(L) /\ <<u, v>> \in Seq(L) /\ <<w>> \in Seq(L)
  OBVIOUS
<1>2. /\ Len(<<u, v, w>>) = 3 /\ Len(<<u, v>>) = 2 /\ Len(<<w>>) = 1
      /\ <<u, v, w>>[1] = u /\ <<u, v, w>>[2] = v /\ <<u, v, w>>[3] = w
      /\ <<u, v>>[1] = u /\ <<u, v>>[2] = v /\ <<w>>[1] = w
  OBVIOUS
<1> DEFINE p == <<u, v, w>>
           q == <<u, v>>
           r == <<w>>
<1> HIDE DEF p, q, r
<1>3. /\ q \o r \in Seq(L) /\ Len(q \o r) = 3
      /\ (q \o r)[1] = u /\ (q \o r)[2] = v /\ (q \o r)[3] = w
  BY <1>1, <1>2, ConcatProperties DEF p, q, r
<1>4. p = q \o r
  BY <1>1, <1>2, <1>3, SeqEqual DEF p
<1> QED
  BY <1>4 DEF p, q, r

\* The layout of a block, as it is written and by its parts.
Written(h, fields, y) == <<Blank, h>> \o Envelope(fields) \o y \o <<Blank, Sep>>
WrittenWithoutBody(h, fields) == <<Blank, h>> \o Envelope(fields) \o <<Sep>>
Headed(h, fields, stamp) == <<h, Blank, Open>> \o fields \o <<stamp>>
Spaced(y) == <<Blank>> \o y \o <<Blank>>
Parted(head, body) == <<Blank>> \o (head \o (<<Close>> \o (body \o <<Sep>>)))

LEMMA Regroup ==
  ASSUME NEW x \in Seq(Lines), NEW y \in Seq(Lines), NEW h \in Lines, NEW st \in Lines
  PROVE  /\ Written(h, x \o <<st>>, y) = Parted(Headed(h, x, st), Spaced(y))
         /\ WrittenWithoutBody(h, x \o <<st>>) = Parted(Headed(h, x, st), <<Blank>>)
<1> DEFINE B == <<Blank>>
           H == <<h>>
           O == <<Open>>
           T == <<st>>
           C == <<Close>>
           S == <<Sep>>
           Cat(p, q) == p \o q
<1>0. Blank \in Lines /\ Open \in Lines /\ Close \in Lines /\ Sep \in Lines
  BY LineTypes DEF Lines
<1>1. /\ B \in Seq(Lines) /\ H \in Seq(Lines) /\ O \in Seq(Lines) /\ T \in Seq(Lines) /\ C \in Seq(Lines)
      /\ S \in Seq(Lines)
  BY <1>0
<1>2. \A p, q \in Seq(Lines) : Cat(p, q) \in Seq(Lines)
  BY ConcatProperties
<1>3. \A p, q, r \in Seq(Lines) : Cat(Cat(p, q), r) = Cat(p, Cat(q, r))
  BY ConcatAssociative
<1>4. /\ <<Blank, h>> = Cat(B, H) /\ <<Blank, Open>> = Cat(B, O) /\ <<Close, Blank>> = Cat(C, B)
      /\ <<Blank, Sep>> = Cat(B, S)
  BY <1>0, Pair
<1>5. <<h, Blank, Open>> = Cat(Cat(H, B), O)
  BY <1>0, Pair, Triple
<1> HIDE DEF B, H, O, T, C, S, Cat
<1> DEFINE xt == Cat(x, T)
           m == Cat(Cat(B, O), xt)
           e == Cat(H, m)
           bh == Cat(B, H)
           cb == Cat(C, B)
<1>6. /\ xt \in Seq(Lines) /\ Cat(B, O) \in Seq(Lines) /\ m \in Seq(Lines) /\ e \in Seq(Lines)
      /\ cb \in Seq(Lines) /\ bh \in Seq(Lines) /\ Cat(B, S) \in Seq(Lines) /\ Cat(H, B) \in Seq(Lines)
      /\ Cat(B, y) \in Seq(Lines)
  BY <1>1, <1>2
<1>7. Cat(Cat(Cat(Cat(H, B), O), x), T) = e
  <2>1. Cat(Cat(H, B), O) = Cat(H, Cat(B, O))
    BY <1>1, <1>3
  <2>2. Cat(Cat(Cat(H, Cat(B, O)), x), T) = Cat(Cat(H, Cat(B, O)), xt)
    <3> DEFINE q == Cat(H, Cat(B, O))
    <3>1. q \in Seq(Lines)
      BY <1>1, <1>2, <1>6
    <3> HIDE DEF q
    <3>2. Cat(Cat(q, x), T) = Cat(q, Cat(x, T))
      BY <1>1, <1>3, <3>1
    <3> QED
      BY <3>2 DEF q
  <2>3. Cat(Cat(H, Cat(B, O)), xt) = e
    BY <1>1, <1>3, <1>6
  <2> QED
    BY <2>1, <2>2, <2>3
<1> HIDE DEF xt, m
<1>8. Cat(bh, Cat(m, cb)) = Cat(B, Cat(e, cb))
  BY <1>1, <1>2, <1>3, <1>6
<1> HIDE DEF e
<1>9. ASSUME NEW r \in Seq(Lines)
      PROVE  Cat(Cat(B, Cat(e, cb)), r) = Cat(B, Cat(e, Cat(C, Cat(B, r))))
  <2>1. Cat(Cat(B, Cat(e, cb)), r) = Cat(B, Cat(Cat(e, cb), r))
    BY <1>1, <1>2, <1>3, <1>6
  <2>2. Cat(Cat(e, cb), r) = Cat(e, Cat(cb, r))
    BY <1>3, <1>6
  <2>3. Cat(cb, r) = Cat(C, Cat(B, r))
    BY <1>1, <1>3
  <2> QED
    BY <2>1, <2>2, <2>3
<1>10. Cat(B, Cat(y, Cat(B, S))) = Cat(Cat(Cat(B, y), B), S)
  BY <1>1, <1>3, <1>6
<1>11. Cat(Cat(Cat(B, Cat(e, cb)), y), Cat(B, S)) = Cat(Cat(B, Cat(e, cb)), Cat(y, Cat(B, S)))
  <2> DEFINE q == Cat(B, Cat(e, cb))
             r == Cat(B, S)
  <2>1. q \in Seq(Lines) /\ r \in Seq(Lines)
    BY <1>1, <1>2, <1>6
  <2> HIDE DEF q, r
  <2>2. Cat(Cat(q, y), r) = Cat(q, Cat(y, r))
    BY <1>3, <2>1
  <2> QED
    BY <2>2 DEF q, r
<1>12. /\ Cat(Cat(Cat(bh, Cat(m, cb)), y), Cat(B, S))
            = Cat(B, Cat(e, Cat(C, Cat(Cat(Cat(B, y), B), S))))
       /\ Cat(Cat(bh, Cat(m, cb)), S) = Cat(B, Cat(e, Cat(C, Cat(B, S))))
  <2>1. Cat(y, Cat(B, S)) \in Seq(Lines)
    BY <1>2, <1>6
  <2> QED
    BY <1>1, <1>8, <1>9, <1>10, <1>11, <2>1
<1> HIDE DEF bh, cb
<1>13. /\ Cat(Cat(Cat(<<Blank, h>>, Cat(Cat(<<Blank, Open>>, Cat(x, T)), <<Close, Blank>>)), y), <<Blank, Sep>>)
            = Cat(B, Cat(Cat(Cat(<<h, Blank, Open>>, x), T), Cat(C, Cat(Cat(Cat(B, y), B), S))))
       /\ Cat(Cat(<<Blank, h>>, Cat(Cat(<<Blank, Open>>, Cat(x, T)), <<Close, Blank>>)), S)
            = Cat(B, Cat(Cat(Cat(<<h, Blank, Open>>, x), T), Cat(C, Cat(B, S))))
  BY <1>4, <1>5, <1>7, <1>12 DEF xt, m, bh, cb
<1> QED
  BY <1>13, Zenon DEF Cat, B, T, C, S, Written, WrittenWithoutBody, Headed, Spaced, Parted, Envelope

LEMMA BlockParts ==
  ASSUME NEW e, Loggable(e)
  PROVE  Block(e) = Parted(HeadPart(e), BodyPart(e))
<1>1. e.op \in {"store", "delete", "delete_tags"} /\ e.key \in Keys \cup {NoKey}
  BY DEF Loggable, Entries, EntryRecords
<1>2. /\ Blank \in Lines /\ Sep \in Lines /\ Close \in Lines /\ Open \in Lines
      /\ Heading(e.key) \in Lines /\ Heading(NoKey) \in Lines
  BY <1>1, LineTypes DEF Lines
<1>3. Fields \subseteq Lines /\ Lines \ {Sep, Long} \subseteq Lines
  BY DEF Lines
<1>4. FieldsBefore(e) \in Seq(Lines) /\ Stamp(e) \in Lines
  BY <1>3, FieldsBeforeType, SeqMonotonic
<1>5. HeadPart(e) = Headed(Heading(e.key), FieldsBefore(e), Stamp(e))
  BY DEF HeadPart, Headed
<1>6. CASE e.op = "store"
  <2> DEFINE b == IF Last(e.val) = Blank THEN Front(e.val) ELSE e.val
             y == EscapeBody(b)
             p == <<Field("op", "store")>>
                  \o Optional("agent", e.agent, NoAgent)
                  \o Optional("tags", e.tags, {})
                  \o Optional("ttl", WrittenTtl(e.ttl), 0)
  <2>1. y \in Seq(Lines)
    <3>1. e.val \in Seq(BodyLines \ {Long}) /\ e.val # <<>>
      BY <1>6 DEF Loggable
    <3>2. b \in Seq(BodyLines \ {Long})
      BY <3>1 DEF Front
    <3>3. b \in Seq(BodyLines)
      BY <3>2, SeqMonotonic
    <3> HIDE DEF b
    <3>4. EscapeBody(b) \in Seq(BodyLines \ {Sep, Open, Close})
      BY <3>3, EscapeBodyType
    <3>5. BodyLines \ {Sep, Open, Close} \subseteq Lines
      BY DEF Lines
    <3> QED
      BY <3>4, <3>5, SeqMonotonic
  <2>2. p \in Seq(Lines) /\ Field("created", e.created) \in Lines
    <3>1. /\ e.agent \in Agents /\ e.tags \in SUBSET Tags /\ e.created \in Nat /\ e.ttl \in Int
      BY DEF Loggable, Entries, EntryRecords
    <3>2. WrittenTtl(e.ttl) \in Int
      BY <3>1 DEF WrittenTtl
    <3>3. /\ Field("op", "store") \in Fields
          /\ Field("agent", e.agent) \in Fields
          /\ Field("tags", e.tags) \in Fields
          /\ Field("ttl", WrittenTtl(e.ttl)) \in Fields
          /\ Field("created", e.created) \in Fields
      BY <3>1, <3>2 DEF Fields, Ops
    <3>4. /\ <<Field("op", "store")>> \in Seq(Lines)
          /\ Optional("agent", e.agent, NoAgent) \in Seq(Lines)
          /\ Optional("tags", e.tags, {}) \in Seq(Lines)
          /\ Optional("ttl", WrittenTtl(e.ttl), 0) \in Seq(Lines)
      BY <1>3, <3>3 DEF Optional
    <3> QED
      BY <1>3, <3>3, <3>4, ConcatProperties
  <2>3. p \o <<Field("created", e.created), Stamp(e)>> = FieldsBefore(e) \o <<Stamp(e)>>
    <3> DEFINE c == <<Field("created", e.created)>>
               t == <<Stamp(e)>>
    <3>1. c \in Seq(Lines) /\ t \in Seq(Lines)
      BY <1>4, <2>2
    <3>2. <<Field("created", e.created), Stamp(e)>> = c \o t
      OBVIOUS
    <3>3. FieldsBefore(e) = p \o c
      BY <1>6 DEF FieldsBefore
    <3> HIDE DEF p, c, t
    <3>4. (p \o c) \o t = p \o (c \o t)
      BY <2>2, <3>1, ConcatAssociative
    <3> QED
      BY <3>2, <3>3, <3>4 DEF t
  <2>4. Block(e) = Written(Heading(e.key), p \o <<Field("created", e.created), Stamp(e)>>, y)
    BY <1>6 DEF Block, StoreBlock, Written, Stamp, Content
  <2>5. BodyPart(e) = Spaced(y)
    BY <1>6 DEF BodyPart, Content, Spaced
  <2> HIDE DEF p, y
  <2>6. Block(e) = Written(Heading(e.key), FieldsBefore(e) \o <<Stamp(e)>>, y)
    BY <2>3, <2>4, Zenon
  <2> QED
    BY <1>2, <1>4, <1>5, <2>1, <2>5, <2>6, Regroup
<1>7. CASE e.op = "delete"
  <2>1. <<Field("op", "delete"), Field("deleted", e.time)>> = FieldsBefore(e) \o <<Stamp(e)>>
    BY <1>7 DEF FieldsBefore, Stamp
  <2>2. Block(e) = WrittenWithoutBody(Heading(e.key), FieldsBefore(e) \o <<Stamp(e)>>)
    BY <1>7, <2>1 DEF Block, DeleteBlock, WrittenWithoutBody
  <2>3. BodyPart(e) = <<Blank>> /\ <<>> \in Seq(Lines)
    BY <1>7 DEF BodyPart
  <2> QED
    BY <1>2, <1>4, <2>2, <2>3, <1>5, Regroup
<1>8. CASE e.op = "delete_tags"
  <2>1. <<Field("op", "delete_tags"), Field("tags", e.tags), Field("deleted", e.time)>>
          = FieldsBefore(e) \o <<Stamp(e)>>
    BY <1>8 DEF FieldsBefore, Stamp
  <2>2. e.key = NoKey
    <3>1. TagsTombstone(e.tags, e.time).key = NoKey
      BY DEF TagsTombstone, BlankEntry
    <3> QED
      BY <1>8, <3>1 DEF Loggable
  <2>3. Block(e) = WrittenWithoutBody(Heading(e.key), FieldsBefore(e) \o <<Stamp(e)>>)
    BY <1>8, <2>1, <2>2 DEF Block, DeleteTagsBlock, WrittenWithoutBody
  <2>4. BodyPart(e) = <<Blank>> /\ <<>> \in Seq(Lines)
    BY <1>8 DEF BodyPart
  <2> QED
    BY <1>2, <1>4, <2>3, <2>4, <1>5, Regroup
<1> QED
  BY <1>1, <1>6, <1>7, <1>8

-----------------------------------------------------------------------------
(* Scanning the parts of a block *)

LEMMA ScannedOne ==
  ASSUME NEW s, NEW l
  PROVE  Scanned(s, <<l>>) = ScanLine(s, l)
<1>1. <<l>> = Append(<<>>, l) /\ <<>> \in Seq({l})
  OBVIOUS
<1>2. Scanned(s, Append(<<>>, l)) = ScanLine(Scanned(s, <<>>), l)
  BY <1>1, ScannedAppend
<1> QED
  BY <1>1, <1>2, ScannedNone

\* A state in an envelope that differs from s in the entry it holds.
Holding(s, c, r) ==
    /\ r \in ScanStates
    /\ r.state = "in_envelope"
    /\ r.current = c
    /\ r.line = s.line
    /\ r.body = s.body
    /\ r.entries = s.entries
    /\ r.failed = s.failed

LEMMA InEnvelope ==
  ASSUME NEW s \in ScanStates, s.state = "in_envelope", NEW l \in Lines, l # Close, l # Long
  PROVE  Holding(s, EnvelopeLine(s.current, l), ScanLine(s, l))
<1>1. ScanLine(s, l) = At("in_envelope", s.lineNo + 1, EnvelopeLine(s.current, l),
                          s.line, s.body, s.entries, s.failed)
  BY ScanCases
<1>2. ScanLine(s, l) \in ScanStates
  BY ScanLineType
<1> QED
  BY <1>1, <1>2 DEF Holding, At

LEMMA FieldLine ==
  ASSUME NEW l \in Fields
  PROVE  l \in Lines \ {Close, Sep, Long}
<1>1. l.is = "field" /\ Close.is = "close" /\ Sep.is = "sep" /\ Long.is = "long"
  BY LineTypes DEF Close, Sep, Long, Plain
<1> QED
  BY <1>1 DEF Lines

LEMMA FieldsKeepTheRest ==
  ASSUME NEW s \in ScanStates, s.state = "in_envelope", NEW lines \in Seq(Fields)
  PROVE  \E c \in Currents : Holding(s, c, Scanned(s, lines))
<1> DEFINE J == {b \in ScanStates : \E c \in Currents : Holding(s, c, b)}
           I == [n \in 0 .. Len(lines) |-> J]
<1>1. s \in J
  BY DEF Holding, ScanStates
<1>2. ASSUME NEW b \in J, NEW l \in Fields PROVE ScanLine(b, l) \in J
  <2>1. PICK c \in Currents : Holding(s, c, b)
    OBVIOUS
  <2>2. b \in ScanStates /\ b.state = "in_envelope" /\ b.current \in Currents
    BY <2>1 DEF Holding
  <2>3. Holding(b, EnvelopeLine(b.current, l), ScanLine(b, l))
    BY <2>2, FieldLine, InEnvelope
  <2>4. EnvelopeLine(b.current, l) \in Currents
    BY <2>2, FieldLine, EnvelopeLineType
  <2>5. Holding(s, EnvelopeLine(b.current, l), ScanLine(b, l))
    BY <2>1, <2>3 DEF Holding
  <2>6. ScanLine(b, l) \in ScanStates
    BY <2>3 DEF Holding
  <2> QED
    BY <2>4, <2>5, <2>6
<1>3. \A n \in 0 .. Len(lines) : I[n] = J
  OBVIOUS
<1>4. Len(lines) \in Nat /\ 0 \in 0 .. Len(lines) /\ Len(lines) \in 0 .. Len(lines)
  OBVIOUS
<1> HIDE DEF I, J
<1>5. ASSUME NEW n \in 0 .. Len(lines) - 1, NEW b \in I[n]
      PROVE  ScanLine(b, lines[n + 1]) \in I[n + 1]
  <2>1. n \in 0 .. Len(lines) /\ n + 1 \in 0 .. Len(lines) /\ lines[n + 1] \in Fields
    BY <1>4
  <2> QED
    BY <1>2, <1>3, <2>1
<1>6. Scanned(s, lines) \in I[Len(lines)]
  BY <1>1, <1>3, <1>4, <1>5, ScannedInvariant
<1> QED
  BY <1>3, <1>4, <1>6 DEF J

\* What the parser holds of an entry, with the fields it has read.
Read(op, key, tags, agent, ttl, created, time) ==
    [op |-> op, key |-> key, val |-> NoValue, tags |-> tags, agent |-> agent,
     ttl |-> ttl, created |-> created, time |-> time]

LEMMA FieldEffects ==
  ASSUME NEW op, NEW key, NEW tags, NEW agent, NEW ttl, NEW created, NEW time, NEW v
  PROVE  LET c == Read(op, key, tags, agent, ttl, created, time)
         IN  /\ EnvelopeLine(c, Field("op", v)) = Read(v, key, tags, agent, ttl, created, time)
             /\ EnvelopeLine(c, Field("agent", v)) = Read(op, key, tags, v, ttl, created, time)
             /\ EnvelopeLine(c, Field("tags", v)) = Read(op, key, v, agent, ttl, created, time)
             /\ EnvelopeLine(c, Field("ttl", v)) = Read(op, key, tags, agent, v, created, time)
             /\ EnvelopeLine(c, Field("created", v)) = Read(op, key, tags, agent, ttl, v, time)
             /\ EnvelopeLine(c, Field("updated", v)) = Read(op, key, tags, agent, ttl, created, v)
             /\ EnvelopeLine(c, Field("deleted", v)) = Read(op, key, tags, agent, ttl, created, v)
BY DEF Read, EnvelopeLine, Field

\* One field after another.
LEMMA FieldNext ==
  ASSUME NEW s \in ScanStates, NEW p \in Seq(Fields), NEW c, Holding(s, c, Scanned(s, p)),
         NEW l \in Fields
  PROVE  /\ Holding(s, EnvelopeLine(c, l), Scanned(s, p \o <<l>>))
         /\ p \o <<l>> \in Seq(Fields)
<1>1. p \in Seq(Lines) /\ <<l>> \in Seq(Lines) /\ <<l>> \in Seq(Fields)
  <2>1. Fields \subseteq Lines
    BY DEF Lines
  <2> QED
    BY <2>1, SeqMonotonic
<1>2. Scanned(s, p \o <<l>>) = ScanLine(Scanned(s, p), l)
  <2>1. p \o <<l>> = Append(p, l)
    OBVIOUS
  <2>2. Scanned(s, Append(p, l)) = ScanLine(Scanned(s, p), l)
    BY ScannedAppend
  <2> QED
    BY <2>1, <2>2
<1>3. Holding(Scanned(s, p), EnvelopeLine(c, l), ScanLine(Scanned(s, p), l))
  BY FieldLine, InEnvelope DEF Holding
<1>4. p \o <<l>> \in Seq(Fields)
  BY <1>1, ConcatProperties
<1> QED
  BY <1>2, <1>3, <1>4 DEF Holding

LEMMA OptionalNext ==
  ASSUME NEW s \in ScanStates, NEW p \in Seq(Fields), NEW c, Holding(s, c, Scanned(s, p)),
         NEW name, NEW v, NEW default, Field(name, v) \in Fields
  PROVE  /\ p \o Optional(name, v, default) \in Seq(Fields)
         /\ Holding(s, IF v = default THEN c ELSE EnvelopeLine(c, Field(name, v)),
                    Scanned(s, p \o Optional(name, v, default)))
<1>1. CASE v = default
  <2>1. p \o Optional(name, v, default) = p
    BY <1>1 DEF Optional
  <2> QED
    BY <1>1, <2>1
<1>2. CASE v # default
  <2>1. p \o Optional(name, v, default) = p \o <<Field(name, v)>>
    BY <1>2 DEF Optional
  <2> QED
    BY <1>2, <2>1, FieldNext
<1> QED
  BY <1>1, <1>2

\* What the parser has read of e at the end of its envelope.
Envelopes(e) == Read(e.op, e.key, e.tags, e.agent, WrittenTtl(e.ttl), e.created, e.time)

LEMMA FieldsRead ==
  ASSUME NEW e, Loggable(e), NEW s \in ScanStates, s.state = "in_envelope",
         s.current = Read("none", e.key, {}, NoAgent, 0, 0, 0)
  PROVE  Holding(s, Envelopes(e), Scanned(s, FieldsBefore(e) \o <<Stamp(e)>>))
<1>1. /\ e \in EntryRecords /\ e.op \in {"store", "delete", "delete_tags"}
      /\ e.agent \in Agents /\ e.tags \in SUBSET Tags /\ e.created \in Nat /\ e.ttl \in Int
      /\ e.time \in Nat
  BY DEF Loggable, Entries, EntryRecords
<1>2. WrittenTtl(e.ttl) \in Int
  BY <1>1 DEF WrittenTtl
<1>3. /\ Field("op", "store") \in Fields
      /\ Field("op", "delete") \in Fields
      /\ Field("op", "delete_tags") \in Fields
      /\ Field("agent", e.agent) \in Fields
      /\ Field("tags", e.tags) \in Fields
      /\ Field("ttl", WrittenTtl(e.ttl)) \in Fields
      /\ Field("created", e.created) \in Fields
      /\ Field("updated", e.time) \in Fields
      /\ Field("deleted", e.time) \in Fields
  BY <1>1, <1>2 DEF Fields, Ops
<1>4. /\ <<>> \in Seq(Fields) /\ Scanned(s, <<>>) = s
      /\ Holding(s, s.current, Scanned(s, <<>>))
  BY ScannedNone DEF Holding
<1>5. ASSUME NEW op, Field("op", op) \in Fields
      PROVE  /\ <<Field("op", op)>> \in Seq(Fields)
             /\ Holding(s, Read(op, e.key, {}, NoAgent, 0, 0, 0),
                        Scanned(s, <<Field("op", op)>>))
  <2>1. <<>> \o <<Field("op", op)>> = <<Field("op", op)>>
    OBVIOUS
  <2>2. EnvelopeLine(s.current, Field("op", op)) = Read(op, e.key, {}, NoAgent, 0, 0, 0)
    BY FieldEffects
  <2> QED
    BY <1>4, <1>5, <2>1, <2>2, FieldNext
<1>6. CASE e.op = "store"
  <2> DEFINE p1 == <<Field("op", "store")>>
             p2 == p1 \o Optional("agent", e.agent, NoAgent)
             p3 == p2 \o Optional("tags", e.tags, {})
             p4 == p3 \o Optional("ttl", WrittenTtl(e.ttl), 0)
             p5 == p4 \o <<Field("created", e.created)>>
  <2>1. p1 \in Seq(Fields) /\ Holding(s, Read("store", e.key, {}, NoAgent, 0, 0, 0), Scanned(s, p1))
    BY <1>3, <1>5
  <2> HIDE DEF p1
  <2>2. p2 \in Seq(Fields) /\ Holding(s, Read("store", e.key, {}, e.agent, 0, 0, 0), Scanned(s, p2))
    <3> DEFINE c == Read("store", e.key, {}, NoAgent, 0, 0, 0)
    <3>1. EnvelopeLine(c, Field("agent", e.agent)) = Read("store", e.key, {}, e.agent, 0, 0, 0)
      BY FieldEffects
    <3>2. (IF e.agent = NoAgent THEN c ELSE EnvelopeLine(c, Field("agent", e.agent)))
             = Read("store", e.key, {}, e.agent, 0, 0, 0)
      BY <3>1
    <3> HIDE DEF c
    <3>3. /\ p1 \o Optional("agent", e.agent, NoAgent) \in Seq(Fields)
          /\ Holding(s, IF e.agent = NoAgent THEN c ELSE EnvelopeLine(c, Field("agent", e.agent)),
                     Scanned(s, p1 \o Optional("agent", e.agent, NoAgent)))
      BY <1>3, <2>1, OptionalNext DEF c
    <3> QED
      BY <3>2, <3>3
  <2> HIDE DEF p2
  <2>3. p3 \in Seq(Fields) /\ Holding(s, Read("store", e.key, e.tags, e.agent, 0, 0, 0), Scanned(s, p3))
    <3> DEFINE c == Read("store", e.key, {}, e.agent, 0, 0, 0)
    <3>1. EnvelopeLine(c, Field("tags", e.tags)) = Read("store", e.key, e.tags, e.agent, 0, 0, 0)
      BY FieldEffects
    <3>2. (IF e.tags = {} THEN c ELSE EnvelopeLine(c, Field("tags", e.tags)))
             = Read("store", e.key, e.tags, e.agent, 0, 0, 0)
      BY <3>1
    <3> HIDE DEF c
    <3>3. /\ p2 \o Optional("tags", e.tags, {}) \in Seq(Fields)
          /\ Holding(s, IF e.tags = {} THEN c ELSE EnvelopeLine(c, Field("tags", e.tags)),
                     Scanned(s, p2 \o Optional("tags", e.tags, {})))
      BY <1>3, <2>2, OptionalNext DEF c
    <3> QED
      BY <3>2, <3>3
  <2> HIDE DEF p3
  <2>4. /\ p4 \in Seq(Fields)
        /\ Holding(s, Read("store", e.key, e.tags, e.agent, WrittenTtl(e.ttl), 0, 0), Scanned(s, p4))
    <3> DEFINE c == Read("store", e.key, e.tags, e.agent, 0, 0, 0)
               f == Field("ttl", WrittenTtl(e.ttl))
    <3>1. EnvelopeLine(c, f) = Read("store", e.key, e.tags, e.agent, WrittenTtl(e.ttl), 0, 0)
      BY FieldEffects
    <3>2. (IF WrittenTtl(e.ttl) = 0 THEN c ELSE EnvelopeLine(c, f))
             = Read("store", e.key, e.tags, e.agent, WrittenTtl(e.ttl), 0, 0)
      BY <3>1
    <3> HIDE DEF c
    <3>3. /\ p3 \o Optional("ttl", WrittenTtl(e.ttl), 0) \in Seq(Fields)
          /\ Holding(s, IF WrittenTtl(e.ttl) = 0 THEN c ELSE EnvelopeLine(c, f),
                     Scanned(s, p3 \o Optional("ttl", WrittenTtl(e.ttl), 0)))
      BY <1>3, <2>3, OptionalNext DEF c
    <3> QED
      BY <3>2, <3>3
  <2> HIDE DEF p4
  <2>5. /\ p5 \in Seq(Fields)
        /\ Holding(s, Read("store", e.key, e.tags, e.agent, WrittenTtl(e.ttl), e.created, 0),
                   Scanned(s, p5))
    <3> DEFINE c == Read("store", e.key, e.tags, e.agent, WrittenTtl(e.ttl), 0, 0)
               d == Read("store", e.key, e.tags, e.agent, WrittenTtl(e.ttl), e.created, 0)
               f == Field("created", e.created)
    <3>1. EnvelopeLine(c, f) = d
      BY FieldEffects
    <3>2. f \in Fields /\ Holding(s, c, Scanned(s, p4))
      BY <1>3, <2>4
    <3> HIDE DEF c, d, f
    <3>3. /\ p4 \o <<f>> \in Seq(Fields)
          /\ Holding(s, EnvelopeLine(c, f), Scanned(s, p4 \o <<f>>))
      BY <2>4, <3>2, FieldNext
    <3> QED
      BY <3>1, <3>3 DEF d, f, p5
  <2> HIDE DEF p5
  <2>6. Holding(s, Read("store", e.key, e.tags, e.agent, WrittenTtl(e.ttl), e.created, e.time),
                Scanned(s, p5 \o <<Field("updated", e.time)>>))
    <3> DEFINE c == Read("store", e.key, e.tags, e.agent, WrittenTtl(e.ttl), e.created, 0)
               d == Read("store", e.key, e.tags, e.agent, WrittenTtl(e.ttl), e.created, e.time)
               f == Field("updated", e.time)
    <3>1. EnvelopeLine(c, f) = d
      BY FieldEffects
    <3>2. f \in Fields /\ Holding(s, c, Scanned(s, p5))
      BY <1>3, <2>5
    <3> HIDE DEF c, d, f
    <3>3. /\ p5 \o <<f>> \in Seq(Fields)
          /\ Holding(s, EnvelopeLine(c, f), Scanned(s, p5 \o <<f>>))
      BY <2>5, <3>2, FieldNext
    <3> QED
      BY <3>1, <3>3 DEF d, f
  <2>7. FieldsBefore(e) = p5 /\ Stamp(e) = Field("updated", e.time)
    BY <1>6 DEF FieldsBefore, Stamp, p1, p2, p3, p4, p5
  <2> QED
    BY <1>6, <2>6, <2>7 DEF Envelopes
<1>7. CASE e.op = "delete"
  <2> DEFINE p == <<Field("op", "delete")>>
  <2>1. Holding(s, Read("delete", e.key, {}, NoAgent, 0, 0, 0), Scanned(s, p))
        /\ p \in Seq(Fields)
    BY <1>3, <1>5
  <2> HIDE DEF p
  <2>2. Holding(s, Read("delete", e.key, {}, NoAgent, 0, 0, e.time),
                Scanned(s, p \o <<Field("deleted", e.time)>>))
    <3> DEFINE c == Read("delete", e.key, {}, NoAgent, 0, 0, 0)
               d == Read("delete", e.key, {}, NoAgent, 0, 0, e.time)
               f == Field("deleted", e.time)
    <3>1. EnvelopeLine(c, f) = d
      BY FieldEffects
    <3>2. f \in Fields /\ Holding(s, c, Scanned(s, p))
      BY <1>3, <2>1
    <3> HIDE DEF c, d, f
    <3>3. /\ p \o <<f>> \in Seq(Fields)
          /\ Holding(s, EnvelopeLine(c, f), Scanned(s, p \o <<f>>))
      BY <2>1, <3>2, FieldNext
    <3> QED
      BY <3>1, <3>3 DEF d, f
  <2>3. FieldsBefore(e) = p /\ Stamp(e) = Field("deleted", e.time)
    BY <1>7 DEF FieldsBefore, Stamp, p
  <2>4. e.tags = {} /\ e.agent = NoAgent /\ e.ttl = 0 /\ e.created = 0
    <3>1. e = KeyTombstone(e.key, e.time)
      BY <1>7 DEF Loggable
    <3>2. \A k, t : LET m == KeyTombstone(k, t)
                    IN  m.tags = {} /\ m.agent = NoAgent /\ m.ttl = 0 /\ m.created = 0
      BY DEF KeyTombstone, BlankEntry
    <3> QED
      BY <3>1, <3>2
  <2>5. WrittenTtl(e.ttl) = 0
    BY <2>4 DEF WrittenTtl
  <2> QED
    BY <1>7, <2>2, <2>3, <2>4, <2>5 DEF Envelopes
<1>8. CASE e.op = "delete_tags"
  <2> DEFINE p1 == <<Field("op", "delete_tags")>>
             p2 == p1 \o <<Field("tags", e.tags)>>
  <2>1. Holding(s, Read("delete_tags", e.key, {}, NoAgent, 0, 0, 0), Scanned(s, p1))
        /\ p1 \in Seq(Fields)
    BY <1>3, <1>5
  <2> HIDE DEF p1
  <2>2. /\ p2 \in Seq(Fields)
        /\ Holding(s, Read("delete_tags", e.key, e.tags, NoAgent, 0, 0, 0), Scanned(s, p2))
    <3> DEFINE c == Read("delete_tags", e.key, {}, NoAgent, 0, 0, 0)
               d == Read("delete_tags", e.key, e.tags, NoAgent, 0, 0, 0)
               f == Field("tags", e.tags)
    <3>1. EnvelopeLine(c, f) = d
      BY FieldEffects
    <3>2. f \in Fields /\ Holding(s, c, Scanned(s, p1))
      BY <1>3, <2>1
    <3> HIDE DEF c, d, f
    <3>3. /\ p1 \o <<f>> \in Seq(Fields)
          /\ Holding(s, EnvelopeLine(c, f), Scanned(s, p1 \o <<f>>))
      BY <2>1, <3>2, FieldNext
    <3> QED
      BY <3>1, <3>3 DEF d, f, p2
  <2> HIDE DEF p2
  <2>3. Holding(s, Read("delete_tags", e.key, e.tags, NoAgent, 0, 0, e.time),
                Scanned(s, p2 \o <<Field("deleted", e.time)>>))
    <3> DEFINE c == Read("delete_tags", e.key, e.tags, NoAgent, 0, 0, 0)
               d == Read("delete_tags", e.key, e.tags, NoAgent, 0, 0, e.time)
               f == Field("deleted", e.time)
    <3>1. EnvelopeLine(c, f) = d
      BY FieldEffects
    <3>2. f \in Fields /\ Holding(s, c, Scanned(s, p2))
      BY <1>3, <2>2
    <3> HIDE DEF c, d, f
    <3>3. /\ p2 \o <<f>> \in Seq(Fields)
          /\ Holding(s, EnvelopeLine(c, f), Scanned(s, p2 \o <<f>>))
      BY <2>2, <3>2, FieldNext
    <3> QED
      BY <3>1, <3>3 DEF d, f
  <2>4. FieldsBefore(e) = p2 /\ Stamp(e) = Field("deleted", e.time)
    <3>1. p2 = <<Field("op", "delete_tags"), Field("tags", e.tags)>>
      BY <1>3, Pair DEF p1, p2
    <3> QED
      BY <1>8, <3>1 DEF FieldsBefore, Stamp
  <2>5. e.agent = NoAgent /\ e.ttl = 0 /\ e.created = 0
    <3>1. e = TagsTombstone(e.tags, e.time)
      BY <1>8 DEF Loggable
    <3>2. \A T, t : LET m == TagsTombstone(T, t)
                    IN  m.agent = NoAgent /\ m.ttl = 0 /\ m.created = 0
      BY DEF TagsTombstone, BlankEntry
    <3> QED
      BY <3>1, <3>2
  <2>6. WrittenTtl(e.ttl) = 0
    BY <2>5 DEF WrittenTtl
  <2> QED
    BY <1>8, <2>3, <2>4, <2>5, <2>6 DEF Envelopes
<1> QED
  BY <1>1, <1>6, <1>7, <1>8

-----------------------------------------------------------------------------
(* Scanning a block *)

\* A block without the blank line that it starts with.
Rest(e) == HeadPart(e) \o (<<Close>> \o (BodyPart(e) \o <<Sep>>))

LEMMA RestType ==
  ASSUME NEW e, Loggable(e)
  PROVE  /\ Block(e) = <<Blank>> \o Rest(e)
         /\ HeadPart(e) \in Seq(Lines) /\ BodyPart(e) \in Seq(Lines)
         /\ BodyPart(e) \o <<Sep>> \in Seq(Lines)
         /\ <<Close>> \in Seq(Lines) /\ <<Sep>> \in Seq(Lines) /\ <<Blank>> \in Seq(Lines)
         /\ <<Close>> \o (BodyPart(e) \o <<Sep>>) \in Seq(Lines)
         /\ Rest(e) \in Seq(Lines)
         /\ Block(e) \in Seq(Lines)
<1>1. Block(e) = <<Blank>> \o Rest(e)
  BY BlockParts DEF Parted, Rest
<1>2. <<Close>> \in Seq(Lines) /\ <<Sep>> \in Seq(Lines) /\ <<Blank>> \in Seq(Lines)
  BY LineTypes DEF Lines
<1>3. HeadPart(e) \in Seq(Lines) /\ BodyPart(e) \in Seq(Lines)
  <2>1. Lines \ {Close, Sep, Long} \subseteq Lines /\ Lines \ {Sep, Long} \subseteq Lines
    OBVIOUS
  <2> QED
    BY <2>1, HeadPartType, BodyPartType, SeqMonotonic
<1>4. BodyPart(e) \o <<Sep>> \in Seq(Lines)
  BY <1>2, <1>3, ConcatProperties
<1>5. <<Close>> \o (BodyPart(e) \o <<Sep>>) \in Seq(Lines)
  BY <1>2, <1>4, ConcatProperties
<1>6. Rest(e) \in Seq(Lines)
  BY <1>3, <1>5, ConcatProperties DEF Rest
<1>7. Block(e) \in Seq(Lines)
  BY <1>1, <1>2, <1>6, ConcatProperties
<1> QED
  BY <1>1, <1>2, <1>3, <1>4, <1>5, <1>6, <1>7

\* A blank line changes at most the body.
LEMMA BlankLine ==
  ASSUME NEW s \in ScanStates
  PROVE  LET r == ScanLine(s, Blank)
         IN  /\ r \in ScanStates
             /\ r.lineNo = s.lineNo + 1
             /\ r.state = s.state /\ r.current = s.current /\ r.entries = s.entries
             /\ r.failed = s.failed
<1>1. /\ Blank \in Lines
      /\ Blank # Long /\ Blank # Open /\ Blank # Close /\ Blank # Sep
      /\ Blank.is # "heading" /\ Blank.is # "field"
  BY LineTypes DEF Lines, Blank, Long, Open, Close, Sep, Plain
<1>2. ScanLine(s, Blank) \in ScanStates /\ ScanLine(s, Blank).lineNo = s.lineNo + 1
  BY <1>1, ScanLineType
<1>3. s.state \in {"idle", "seeking_envelope", "in_envelope", "in_body"}
  BY DEF ScanStates, States
<1>4. CASE s.state \in {"idle", "seeking_envelope"}
  <2>1. ScanLine(s, Blank) = At(s.state, s.lineNo + 1, s.current, s.line, s.body,
                                s.entries, s.failed)
    BY <1>1, <1>4, ScanCases
  <2> QED
    BY <1>2, <2>1 DEF At
<1>5. CASE s.state = "in_envelope"
  <2>1. ScanLine(s, Blank) = At("in_envelope", s.lineNo + 1, EnvelopeLine(s.current, Blank),
                                s.line, s.body, s.entries, s.failed)
    BY <1>1, <1>5, ScanCases
  <2>2. EnvelopeLine(s.current, Blank) = s.current
    BY <1>1 DEF EnvelopeLine
  <2> QED
    BY <1>2, <1>5, <2>1, <2>2 DEF At
<1>6. CASE s.state = "in_body"
  <2>1. ScanLine(s, Blank) = At("in_body", s.lineNo + 1, s.current, s.line,
                                Append(s.body, Blank), s.entries, s.failed)
    BY <1>1, <1>6, ScanCases
  <2> QED
    BY <1>2, <1>6, <2>1 DEF At
<1> QED
  BY <1>3, <1>4, <1>5, <1>6

LEMMA ScannedThree ==
  ASSUME NEW s, NEW u \in Lines, NEW v \in Lines, NEW w \in Lines
  PROVE  Scanned(s, <<u, v, w>>) = ScanLine(ScanLine(ScanLine(s, u), v), w)
<1> DEFINE p == <<u>>
           q == <<v>>
           r == <<w>>
           pq == <<u, v>>
<1>1. p \in Seq(Lines) /\ q \in Seq(Lines) /\ r \in Seq(Lines) /\ pq \in Seq(Lines)
  OBVIOUS
<1>2. pq = p \o q /\ <<u, v, w>> = pq \o r
  <2>1. <<u, v>> = <<u>> \o <<v>>
    BY Pair
  <2>2. <<u, v, w>> = <<u, v>> \o <<w>>
    BY Triple
  <2> QED
    BY <2>1, <2>2 DEF p, q, r, pq
<1>3. \A t : /\ Scanned(t, p) = ScanLine(t, u)
             /\ Scanned(t, q) = ScanLine(t, v)
             /\ Scanned(t, r) = ScanLine(t, w)
  BY ScannedOne
<1> HIDE DEF p, q, r, pq
<1>4. Scanned(s, p \o q) = Scanned(Scanned(s, p), q)
  BY <1>1, ScannedConcat
<1>5. Scanned(s, pq \o r) = Scanned(Scanned(s, pq), r)
  BY <1>1, ScannedConcat
<1> QED
  BY <1>2, <1>3, <1>4, <1>5

\* The heading and the start of the envelope lead into it from anywhere but a body.
LEMMA Opening ==
  ASSUME NEW s \in ScanStates, s.failed = FALSE, s.state # "in_body",
         NEW k \in Keys \cup {NoKey}
  PROVE  LET r == Scanned(s, <<Heading(k), Blank, Open>>)
         IN  /\ r \in ScanStates /\ r.state = "in_envelope" /\ r.entries = s.entries
             /\ r.failed = FALSE
             /\ s.state = "idle" => /\ r.current = Read("none", k, {}, NoAgent, 0, 0, 0)
                                    /\ r.line = s.lineNo + 1
                                    /\ r.body = <<>>
<1> DEFINE h == Heading(k)
           q1 == ScanLine(s, h)
           q2 == ScanLine(q1, Blank)
           q3 == ScanLine(q2, Open)
<1>1. Scanned(s, <<h, Blank, Open>>) = q3
  <2>1. h \in Lines /\ Blank \in Lines /\ Open \in Lines
    BY LineTypes DEF Lines
  <2> HIDE DEF h
  <2> QED
    BY <2>1, ScannedThree
<1>2. /\ h \in Lines /\ Open \in Lines
      /\ h.is = "heading" /\ h.of = k
      /\ h # Long /\ h # Open /\ h # Close /\ h # Sep
      /\ Open # Long /\ Open # Close /\ Open # Sep /\ Open.is # "heading"
  <2>1. h \in Lines /\ Open \in Lines
    BY LineTypes DEF Lines
  <2> QED
    BY <2>1 DEF Heading, Open, Long, Close, Sep, Plain
<1>3. s.state \in {"idle", "seeking_envelope", "in_envelope"}
  BY DEF ScanStates, States
<1>4. /\ q1 \in ScanStates /\ q1.entries = s.entries /\ q1.failed = FALSE
      /\ q1.state \in {"seeking_envelope", "in_envelope"}
      /\ s.state = "idle" => /\ q1.current = Read("none", k, {}, NoAgent, 0, 0, 0)
                             /\ q1.line = s.lineNo + 1
                             /\ q1.body = <<>> /\ q1.state = "seeking_envelope"
  <2> HIDE DEF h
  <2>1. q1 \in ScanStates
    BY <1>2, ScanLineType
  <2>2. CASE s.state = "idle"
    <3>1. q1 = At("seeking_envelope", s.lineNo + 1, [BlankEntry EXCEPT !.key = k],
                  s.lineNo + 1, <<>>, s.entries, s.failed)
      BY <1>2, <2>2, ScanCases
    <3>2. [BlankEntry EXCEPT !.key = k] = Read("none", k, {}, NoAgent, 0, 0, 0)
      BY DEF BlankEntry, Read
    <3> HIDE DEF q1
    <3> QED
      BY <2>1, <3>1, <3>2 DEF At
  <2>3. CASE s.state = "seeking_envelope"
    <3>1. q1 = At(s.state, s.lineNo + 1, s.current, s.line, s.body, s.entries, s.failed)
      BY <1>2, <2>3, ScanCases
    <3> HIDE DEF q1
    <3> QED
      BY <2>1, <2>3, <3>1 DEF At
  <2>4. CASE s.state = "in_envelope"
    <3>1. Holding(s, EnvelopeLine(s.current, h), q1)
      BY <1>2, <2>4, InEnvelope
    <3> HIDE DEF q1
    <3> QED
      BY <2>1, <2>4, <3>1 DEF Holding
  <2> QED
    BY <1>3, <2>2, <2>3, <2>4
<1> HIDE DEF q1
<1>5. /\ q2 \in ScanStates /\ q2.entries = s.entries /\ q2.failed = FALSE
      /\ q2.state \in {"seeking_envelope", "in_envelope"}
      /\ s.state = "idle" => /\ q2.current = Read("none", k, {}, NoAgent, 0, 0, 0)
                             /\ q2.line = s.lineNo + 1
                             /\ q2.body = <<>> /\ q2.state = "seeking_envelope"
  <2>1. /\ q2 \in ScanStates /\ q2.state = q1.state /\ q2.current = q1.current
        /\ q2.entries = q1.entries /\ q2.failed = q1.failed
    BY <1>4, BlankLine
  <2>2. s.state = "idle" => q2 = At(q1.state, q1.lineNo + 1, q1.current, q1.line, q1.body,
                                    q1.entries, q1.failed)
    <3>1. /\ Blank \in Lines /\ Blank # Long /\ Blank # Open
      BY LineTypes DEF Lines, Blank, Long, Open, Plain
    <3> QED
      BY <1>4, <3>1, ScanCases
  <2> HIDE DEF q2
  <2> QED
    BY <1>4, <2>1, <2>2 DEF At
<1> HIDE DEF q2
<1>6. /\ q3 \in ScanStates /\ q3.state = "in_envelope" /\ q3.entries = s.entries
      /\ q3.failed = FALSE
      /\ s.state = "idle" => /\ q3.current = Read("none", k, {}, NoAgent, 0, 0, 0)
                             /\ q3.line = s.lineNo + 1
                             /\ q3.body = <<>>
  <2>1. q3 \in ScanStates
    BY <1>2, <1>5, ScanLineType
  <2>2. CASE q2.state = "seeking_envelope"
    <3>1. q3 = At("in_envelope", q2.lineNo + 1, q2.current, q2.line, q2.body,
                  q2.entries, q2.failed)
      BY <1>2, <1>5, <2>2, ScanCases
    <3> HIDE DEF q3
    <3> QED
      BY <1>5, <2>1, <3>1 DEF At
  <2>3. CASE q2.state = "in_envelope"
    <3>1. Holding(q2, EnvelopeLine(q2.current, Open), q3)
      BY <1>2, <1>5, <2>3, InEnvelope
    <3> HIDE DEF q3
    <3> QED
      BY <1>5, <2>1, <2>3, <3>1 DEF Holding
  <2> QED
    BY <1>5, <2>2, <2>3
<1> HIDE DEF q3
<1> QED
  BY <1>1, <1>6

LEMMA HeadScan ==
  ASSUME NEW e, Loggable(e), NEW s \in ScanStates, s.failed = FALSE, s.state # "in_body"
  PROVE  LET r == Scanned(s, HeadPart(e))
         IN  /\ r \in ScanStates /\ r.state = "in_envelope" /\ r.entries = s.entries
             /\ r.failed = FALSE /\ r.current.time = e.time
             /\ s.state = "idle" => /\ r.current = Envelopes(e)
                                    /\ r.line = s.lineNo + 1
                                    /\ r.body = <<>>
<1> DEFINE a == <<Heading(e.key), Blank, Open>>
           b == FieldsBefore(e)
           c == <<Stamp(e)>>
           q == Scanned(s, a)
           r == Scanned(s, HeadPart(e))
<1>1. e.key \in Keys \cup {NoKey} /\ e.op \in {"store", "delete", "delete_tags"}
      /\ e.time \in Nat
  BY DEF Loggable, Entries, EntryRecords
<1>2. /\ q \in ScanStates /\ q.state = "in_envelope" /\ q.entries = s.entries
      /\ q.failed = FALSE
      /\ s.state = "idle" => /\ q.current = Read("none", e.key, {}, NoAgent, 0, 0, 0)
                             /\ q.line = s.lineNo + 1
                             /\ q.body = <<>>
  BY <1>1, Opening
<1>3. a \in Seq(Lines) /\ b \in Seq(Lines) /\ c \in Seq(Lines) /\ b \in Seq(Fields)
      /\ Stamp(e) \in Fields
  <2>1. Fields \subseteq Lines /\ b \in Seq(Fields) /\ Stamp(e) \in Fields
    BY FieldsBeforeType DEF Lines
  <2>2. b \in Seq(Lines)
    BY <2>1, SeqMonotonic
  <2>3. Heading(e.key) \in Lines /\ Blank \in Lines /\ Open \in Lines
    BY <1>1, LineTypes DEF Lines
  <2> QED
    BY <2>1, <2>2, <2>3
<1>4. r = Scanned(q, b \o c)
  <2>1. HeadPart(e) = (a \o b) \o c
    BY DEF HeadPart
  <2> HIDE DEF a, b, c
  <2>2. (a \o b) \o c = a \o (b \o c) /\ b \o c \in Seq(Lines)
    BY <1>3, ConcatAssociative, ConcatProperties
  <2> DEFINE bc == b \o c
  <2>3. bc \in Seq(Lines)
    BY <2>2
  <2> HIDE DEF bc
  <2>4. Scanned(s, a \o bc) = Scanned(Scanned(s, a), bc)
    BY <1>3, <2>3, ScannedConcat
  <2> QED
    BY <2>1, <2>2, <2>4 DEF bc
<1> HIDE DEF q
<1>5. PICK d \in Currents : Holding(q, d, Scanned(q, b))
  <2> HIDE DEF b
  <2> QED
    BY <1>2, <1>3, FieldsKeepTheRest
<1>6. Holding(q, EnvelopeLine(d, Stamp(e)), r)
  <2> HIDE DEF b, r
  <2> QED
    BY <1>2, <1>3, <1>4, <1>5, FieldNext
<1>7. EnvelopeLine(d, Stamp(e)).time = e.time
  <2>1. Stamp(e) \in {Field("updated", e.time), Field("deleted", e.time)}
    BY DEF Stamp
  <2> QED
    BY <2>1 DEF EnvelopeLine, Field, Currents
<1>8. s.state = "idle" => Holding(q, Envelopes(e), r)
  <2> HIDE DEF r
  <2> QED
    BY <1>2, <1>4, FieldsRead
<1> HIDE DEF r
<1>9. r \in ScanStates /\ r.state = "in_envelope" /\ r.entries = q.entries
      /\ r.failed = q.failed /\ r.line = q.line /\ r.body = q.body
      /\ r.current = EnvelopeLine(d, Stamp(e))
  BY <1>6 DEF Holding
<1>10. s.state = "idle" => r.current = Envelopes(e)
  BY <1>8 DEF Holding
<1> QED
  BY <1>2, <1>7, <1>9, <1>10 DEF r

\* From the end of the envelope to the separator.
LEMMA BodyScan ==
  ASSUME NEW e, Loggable(e), NEW s \in ScanStates, s.state = "in_envelope"
  PROVE  LET q == Scanned(s, <<Close>> \o BodyPart(e))
         IN  /\ q \in ScanStates /\ q.state = "in_body" /\ q.current = s.current
             /\ q.line = s.line /\ q.body = s.body \o BodyPart(e)
             /\ q.entries = s.entries /\ q.failed = s.failed
<1> DEFINE c == <<Close>>
           b == BodyPart(e)
           r == ScanLine(s, Close)
           q == Scanned(s, c \o b)
<1>1. Close \in Lines /\ Close # Long
  BY LineTypes DEF Lines, Close, Long, Plain
<1>2. r = At("in_body", s.lineNo + 1, s.current, s.line, s.body, s.entries, s.failed)
  BY <1>1, ScanCases
<1>3. r \in ScanStates
  BY <1>1, ScanLineType
<1>4. c \in Seq(Lines) /\ b \in Seq(Lines) /\ b \in Seq(Lines \ {Sep, Long})
  BY <1>1, BodyPartType, RestType
<1>5. q = Scanned(r, b)
  <2>1. Scanned(s, c) = r
    BY ScannedOne
  <2> HIDE DEF c, b, r
  <2>2. Scanned(s, c \o b) = Scanned(Scanned(s, c), b)
    BY <1>4, ScannedConcat
  <2> QED
    BY <2>1, <2>2
<1> HIDE DEF r, b
<1>6. r.state = "in_body" /\ r.current = s.current /\ r.line = s.line /\ r.body = s.body
      /\ r.entries = s.entries /\ r.failed = s.failed
  BY <1>2 DEF At
<1>7. q = At("in_body", r.lineNo + Len(b), r.current, r.line, r.body \o b,
             r.entries, r.failed)
  <2> HIDE DEF q
  <2> QED
    BY <1>3, <1>4, <1>5, <1>6, InBody
<1>8. q \in ScanStates
  <2> HIDE DEF q
  <2> QED
    BY <1>3, <1>4, <1>5, ScannedType
<1> HIDE DEF q
<1>9. q.state = "in_body" /\ q.current = r.current /\ q.line = r.line /\ q.body = r.body \o b
      /\ q.entries = r.entries /\ q.failed = r.failed
  BY <1>7 DEF At
<1> QED
  BY <1>6, <1>8, <1>9 DEF q, b

\* The separator ends the entry.
LEMMA SepScan ==
  ASSUME NEW q \in ScanStates, q.state = "in_body"
  PROVE  LET r == ScanLine(q, Sep)
         IN  /\ r \in ScanStates /\ r.state = "idle"
             /\ r.entries = Append(q.entries, Found(q)) /\ r.failed = q.failed
<1>1. Sep \in Lines /\ Sep # Long
  BY LineTypes DEF Lines, Sep, Long, Plain
<1>2. ScanLine(q, Sep) = At("idle", q.lineNo + 1, q.current, q.line, q.body,
                            Append(q.entries, Found(q)), q.failed)
  BY <1>1, ScanCases
<1>3. ScanLine(q, Sep) \in ScanStates
  BY <1>1, ScanLineType
<1> QED
  BY <1>2, <1>3 DEF At

LEMMA BodyTrimmed ==
  ASSUME NEW e, Loggable(e), e.op = "store"
  PROVE  TrimBlank(BodyPart(e)) = ParsedBody[e.val]
<1> DEFINE v == e.val
           b == IF Last(v) = Blank THEN Front(v) ELSE v
           q == EscapeBody(v)
           y == EscapeBody(b)
           c == (<<Blank>> \o y) \o <<Blank>>
           n == Len(v)
<1>1. v \in Seq(BodyLines) /\ v # <<>> /\ ParsedBody[v] = TrimBlank(q) /\ n \in Nat /\ n > 0
  <2>1. v \in Seq(BodyLines \ {Long}) /\ v # <<>> /\ ParsedBody[v] = TrimBlank(q)
    BY DEF Loggable
  <2>2. v \in Seq(BodyLines)
    BY <2>1, SeqMonotonic
  <2> QED
    BY <2>1, <2>2
<1>2. /\ b \in Seq(BodyLines) /\ Len(b) \in {n - 1, n} /\ \A i \in 1 .. Len(b) : b[i] = v[i]
      /\ Len(b) = n - 1 => v[n] = Blank
  <2>1. CASE v[n] = Blank
    <3>1. b = SubSeq(v, 1, n - 1)
      BY <2>1 DEF Last, Front
    <3>2. /\ SubSeq(v, 1, n - 1) \in Seq(BodyLines)
          /\ Len(SubSeq(v, 1, n - 1)) = n - 1
          /\ \A i \in 1 .. n - 1 : SubSeq(v, 1, n - 1)[i] = v[i]
      BY <1>1
    <3> QED
      BY <2>1, <3>1, <3>2
  <2>2. CASE v[n] # Blank
    <3>1. b = v
      BY <2>2 DEF Last
    <3> QED
      BY <1>1, <3>1
  <2> QED
    BY <2>1, <2>2
<1> HIDE DEF v, b
<1>3. /\ Len(q) = n /\ q \in Seq(Lines) /\ \A i \in 1 .. n : q[i] = EscapeLine(v[i])
      /\ Len(y) = Len(b) /\ y \in Seq(Lines) /\ \A i \in 1 .. Len(b) : y[i] = EscapeLine(v[i])
  <2>1. BodyLines \ {Sep, Open, Close} \subseteq Lines
    BY DEF Lines
  <2>2. /\ q \in Seq(BodyLines \ {Sep, Open, Close}) /\ Len(q) = n
        /\ \A i \in 1 .. n : q[i] = EscapeLine(v[i])
    BY <1>1, EscapeBodyType
  <2>3. /\ y \in Seq(BodyLines \ {Sep, Open, Close}) /\ Len(y) = Len(b)
        /\ \A i \in 1 .. Len(b) : y[i] = EscapeLine(b[i])
    BY <1>2, EscapeBodyType
  <2> HIDE DEF q, y
  <2> QED
    BY <1>2, <2>1, <2>2, <2>3, SeqMonotonic
<1>4. EscapeLine(Blank) = Blank
  BY DEF EscapeLine, Blank, Plain
<1> HIDE DEF q, y
<1>5. /\ c \in Seq(Lines) /\ Len(c) = Len(b) + 2 /\ c[1] = Blank /\ c[Len(b) + 2] = Blank
      /\ \A i \in 1 .. Len(b) : c[i + 1] = y[i]
  <2> DEFINE one == <<Blank>>
             p == one \o y
  <2>1. one \in Seq(Lines) /\ Len(one) = 1 /\ one[1] = Blank
    BY LineTypes DEF Lines
  <2> HIDE DEF one
  <2>2. /\ p \in Seq(Lines) /\ Len(p) = Len(b) + 1 /\ p[1] = Blank
        /\ \A i \in 1 .. Len(b) : p[i + 1] = y[i]
    <3>1. /\ p \in Seq(Lines) /\ Len(p) = Len(one) + Len(y)
          /\ \A i \in 1 .. Len(one) + Len(y) :
                p[i] = IF i <= Len(one) THEN one[i] ELSE y[i - Len(one)]
      <4>1. one \in Seq(Lines) /\ y \in Seq(Lines)
        BY <1>3, <2>1
      <4> QED
        BY <4>1, ConcatProperties
    <3> HIDE DEF p
    <3>2. Len(b) \in Nat /\ Len(y) = Len(b)
      BY <1>1, <1>2, <1>3
    <3> QED
      BY <2>1, <3>1, <3>2
  <2> HIDE DEF p
  <2>3. /\ p \o one \in Seq(Lines) /\ Len(p \o one) = Len(p) + 1
        /\ \A i \in 1 .. Len(p) + 1 : (p \o one)[i] = IF i <= Len(p) THEN p[i] ELSE one[i - Len(p)]
    BY <2>1, <2>2, ConcatProperties
  <2>4. c = p \o one
    BY DEF p, one
  <2>5. Len(b) \in Nat
    BY <1>1, <1>2
  <2> HIDE DEF c
  <2> QED
    BY <2>1, <2>2, <2>3, <2>4, <2>5
<1>6. c = BodyPart(e)
  BY DEF BodyPart, Content, y, b, v
<1> HIDE DEF c
<1>7. ASSUME NEW i \in 1 .. n
      PROVE  i + 1 \in 1 .. Len(c) /\ c[i + 1] = q[i]
  <2>1. CASE i \in 1 .. Len(b)
    BY <1>1, <1>2, <1>3, <1>5, <2>1
  <2>2. CASE i \notin 1 .. Len(b)
    <3>1. i = n /\ Len(b) = n - 1
      BY <1>1, <1>2, <2>2
    <3> QED
      BY <1>1, <1>2, <1>3, <1>4, <1>5, <3>1
  <2> QED
    BY <2>1, <2>2
<1>8. Solid(c) = {i + 1 : i \in Solid(q)}
  <2>1. ASSUME NEW j \in Solid(c) PROVE j - 1 \in Solid(q) /\ j = (j - 1) + 1
    <3>1. j \in 1 .. Len(c) /\ c[j] # Blank
      BY <1>5 DEF Solid
    <3>2. j # 1 /\ j # Len(b) + 2
      BY <1>5, <3>1
    <3>3. j - 1 \in 1 .. n
      BY <1>1, <1>2, <1>5, <3>1, <3>2
    <3>4. c[(j - 1) + 1] = q[j - 1]
      <4> DEFINE i == j - 1
      <4>1. i \in 1 .. n
        BY <3>3
      <4> HIDE DEF i
      <4>2. c[i + 1] = q[i]
        BY <1>7, <4>1
      <4> QED
        BY <4>2 DEF i
    <3>5. (j - 1) + 1 = j
      BY <3>1
    <3> QED
      BY <1>3, <3>1, <3>3, <3>4, <3>5 DEF Solid
  <2>2. ASSUME NEW i \in Solid(q) PROVE i + 1 \in Solid(c)
    BY <1>3, <1>5, <1>7 DEF Solid
  <2> QED
    BY <2>1, <2>2
<1>9. TrimBlank(c) = TrimBlank(q)
  <2>1. \A i \in DOMAIN q : i + 1 \in DOMAIN c => c[i + 1] = q[i]
    BY <1>3, <1>7
  <2> QED
    BY <1>3, <1>5, <1>8, <2>1, TrimBlankAround
<1> QED
  BY <1>1, <1>6, <1>9 DEF v

LEMMA ScannedRest ==
  ASSUME NEW e, Loggable(e), NEW s
  PROVE  Scanned(s, Rest(e))
           = ScanLine(Scanned(Scanned(s, HeadPart(e)), <<Close>> \o BodyPart(e)), Sep)
<1> DEFINE h == HeadPart(e)
           c == <<Close>>
           b == BodyPart(e)
           z == <<Sep>>
           bz == b \o z
           cb == c \o b
           cbz == c \o bz
<1>1. h \in Seq(Lines) /\ c \in Seq(Lines) /\ b \in Seq(Lines) /\ z \in Seq(Lines)
      /\ bz \in Seq(Lines) /\ cbz \in Seq(Lines)
  BY RestType
<1>2. \A t : Scanned(t, z) = ScanLine(t, Sep)
  BY ScannedOne
<1>3. Rest(e) = h \o cbz
  BY DEF Rest
<1> HIDE DEF h, c, b, z
<1>4. cb \in Seq(Lines)
  BY <1>1, ConcatProperties
<1>5. cb \o z = cbz
  BY <1>1, ConcatProperties, ConcatAssociative
<1> HIDE DEF cb, cbz, bz
<1>6. Scanned(s, h \o cbz) = Scanned(Scanned(s, h), cbz)
  BY <1>1, ScannedConcat
<1> DEFINE t == Scanned(s, h)
<1> HIDE DEF t
<1>7. Scanned(t, cb \o z) = Scanned(Scanned(t, cb), z)
  BY <1>1, <1>4, ScannedConcat
<1>8. Scanned(s, Rest(e)) = ScanLine(Scanned(t, cb), Sep)
  BY <1>2, <1>3, <1>5, <1>6, <1>7 DEF t
<1> QED
  BY <1>8 DEF t, h, cb, c, b

\* A whole block, from the idle state: the entry is read as ReadBack says.
LEMMA BlockFromIdle ==
  ASSUME NEW e, Loggable(e), NEW s \in ScanStates, s.failed = FALSE, s.state = "idle"
  PROVE  LET r == Scanned(s, Rest(e))
         IN  /\ r \in ScanStates /\ r.state = "idle" /\ r.failed = FALSE
             /\ r.entries = Append(s.entries, [entry |-> ReadBack(e), line |-> s.lineNo + 1])
<1> DEFINE h == Scanned(s, HeadPart(e))
           q == Scanned(h, <<Close>> \o BodyPart(e))
           r == ScanLine(q, Sep)
<1>1. Scanned(s, Rest(e)) = r
  BY ScannedRest
<1>2. /\ h \in ScanStates /\ h.state = "in_envelope" /\ h.entries = s.entries
      /\ h.failed = FALSE /\ h.current = Envelopes(e) /\ h.line = s.lineNo + 1 /\ h.body = <<>>
  BY HeadScan
<1> HIDE DEF h
<1>3. /\ q \in ScanStates /\ q.state = "in_body" /\ q.current = h.current
      /\ q.line = h.line /\ q.body = h.body \o BodyPart(e)
      /\ q.entries = h.entries /\ q.failed = h.failed
  BY <1>2, BodyScan
<1> HIDE DEF q
<1>4. /\ r \in ScanStates /\ r.state = "idle" /\ r.entries = Append(q.entries, Found(q))
      /\ r.failed = q.failed
  BY <1>3, SepScan
<1> HIDE DEF r
<1>5. q.body = BodyPart(e)
  <2> DEFINE b == BodyPart(e)
  <2>1. b \in Seq(Lines)
    BY RestType
  <2> HIDE DEF b
  <2>2. <<>> \o b = b
    BY <2>1, ConcatEmptySeq
  <2> QED
    BY <1>2, <1>3, <2>2 DEF b
<1>6. Found(q) = [entry |-> ReadBack(e), line |-> s.lineNo + 1]
  <2>1. e \in EntryRecords /\ e.op \in {"store", "delete", "delete_tags"}
    BY DEF Loggable, Entries, EntryRecords
  <2>2. q.current.op = e.op
    BY <1>2, <1>3 DEF Envelopes, Read
  <2>3. CASE e.op = "store"
    <3>1. Found(q) = [entry |-> [q.current EXCEPT !.val = TrimBlank(q.body)], line |-> q.line]
      BY <2>2, <2>3 DEF Found
    <3>2. TrimBlank(q.body) = ParsedBody[e.val]
      BY <1>5, <2>3, BodyTrimmed
    <3>3. [Envelopes(e) EXCEPT !.val = ParsedBody[e.val]] = ReadBack(e)
      <4> DEFINE x == ParsedBody[e.val]
                 y == WrittenTtl(e.ttl)
      <4> HIDE DEF x, y
      <4>1. Envelopes(e) = Read("store", e.key, e.tags, e.agent, y, e.created, e.time)
        BY <2>3 DEF Envelopes, y
      <4>2. ReadBack(e) = [e EXCEPT !.val = x, !.ttl = y]
        BY <2>3 DEF ReadBack, x, y
      <4>3. [Envelopes(e) EXCEPT !.val = x]
              = [op |-> "store", key |-> e.key, val |-> x, tags |-> e.tags, agent |-> e.agent,
                 ttl |-> y, created |-> e.created, time |-> e.time]
        BY <4>1 DEF Read
      <4>4. ReadBack(e)
              = [op |-> "store", key |-> e.key, val |-> x, tags |-> e.tags, agent |-> e.agent,
                 ttl |-> y, created |-> e.created, time |-> e.time]
        BY <2>1, <2>3, <4>2 DEF EntryRecords
      <4> QED
        BY <4>3, <4>4 DEF x
    <3> QED
      BY <1>2, <1>3, <3>1, <3>2, <3>3
  <2>4. CASE e.op # "store"
    <3>1. Found(q) = [entry |-> q.current, line |-> q.line]
      BY <2>2, <2>4 DEF Found
    <3>2. ReadBack(e) = e
      BY <2>4 DEF ReadBack
    <3>3. e.val = NoValue /\ e.ttl = 0
      <4>1. \A k, T, t : /\ KeyTombstone(k, t).val = NoValue /\ KeyTombstone(k, t).ttl = 0
                         /\ TagsTombstone(T, t).val = NoValue /\ TagsTombstone(T, t).ttl = 0
        BY DEF KeyTombstone, TagsTombstone, BlankEntry
      <4>2. e = KeyTombstone(e.key, e.time) \/ e = TagsTombstone(e.tags, e.time)
        BY <2>1, <2>4 DEF Loggable
      <4> QED
        BY <4>1, <4>2
    <3>4. Envelopes(e) = e
      BY <2>1, <3>3 DEF Envelopes, Read, WrittenTtl, EntryRecords
    <3> QED
      BY <1>2, <1>3, <3>1, <3>2, <3>4
  <2> QED
    BY <2>3, <2>4
<1> QED
  BY <1>1, <1>2, <1>3, <1>4, <1>6

\* A whole block, from any state: one entry, with the time of the block's entry,
\* or of the entry whose body the scanner was in.
LEMMA BlockFromAny ==
  ASSUME NEW e, Loggable(e), NEW s \in ScanStates, s.failed = FALSE
  PROVE  LET r == Scanned(s, Rest(e))
         IN  /\ r \in ScanStates /\ r.state = "idle" /\ r.failed = FALSE
             /\ \E f \in Founds :
                   /\ r.entries = Append(s.entries, f)
                   /\ f.entry.time = IF s.state = "in_body" THEN s.current.time ELSE e.time
<1> DEFINE h == Scanned(s, HeadPart(e))
           q == Scanned(h, <<Close>> \o BodyPart(e))
           r == ScanLine(q, Sep)
<1>1. Scanned(s, Rest(e)) = r
  BY ScannedRest
<1>2. /\ q \in ScanStates /\ q.state = "in_body" /\ q.entries = s.entries /\ q.failed = FALSE
      /\ q.current.time = IF s.state = "in_body" THEN s.current.time ELSE e.time
  <2>1. CASE s.state # "in_body"
    <3>1. /\ h \in ScanStates /\ h.state = "in_envelope" /\ h.entries = s.entries
          /\ h.failed = FALSE /\ h.current.time = e.time
      BY <2>1, HeadScan
    <3> HIDE DEF h
    <3>2. /\ q \in ScanStates /\ q.state = "in_body" /\ q.current = h.current
          /\ q.entries = h.entries /\ q.failed = h.failed
      BY <3>1, BodyScan
    <3> HIDE DEF q
    <3> QED
      BY <2>1, <3>1, <3>2
  <2>2. CASE s.state = "in_body"
    <3> DEFINE a == HeadPart(e)
               c == <<Close>> \o BodyPart(e)
    <3>1. a \in Seq(Lines \ {Sep, Long}) /\ c \in Seq(Lines \ {Sep, Long})
      <4>1. Lines \ {Close, Sep, Long} \subseteq Lines \ {Sep, Long}
        OBVIOUS
      <4>2. a \in Seq(Lines \ {Sep, Long})
        BY <4>1, HeadPartType, SeqMonotonic
      <4>3. <<Close>> \in Seq(Lines \ {Sep, Long})
        BY LineTypes DEF Lines, Close, Sep, Long, Plain
      <4> QED
        BY <4>2, <4>3, BodyPartType, ConcatProperties
    <3>2. Lines \ {Sep, Long} \subseteq Lines
      OBVIOUS
    <3>3. a \in Seq(Lines) /\ c \in Seq(Lines)
      BY <3>1, <3>2, SeqMonotonic
    <3> HIDE DEF a, c
    <3>4. Scanned(s, a) = At("in_body", s.lineNo + Len(a), s.current, s.line, s.body \o a,
                             s.entries, s.failed)
      BY <2>2, <3>1, InBody
    <3>5. Scanned(s, a) \in ScanStates
      BY <3>3, ScannedType
    <3> DEFINE g == Scanned(s, a)
    <3> HIDE DEF g
    <3>6. g \in ScanStates /\ g.state = "in_body" /\ g.current = s.current
          /\ g.entries = s.entries /\ g.failed = s.failed
      BY <3>4, <3>5 DEF At, g
    <3>7. Scanned(g, c) = At("in_body", g.lineNo + Len(c), g.current, g.line, g.body \o c,
                             g.entries, g.failed)
      BY <3>1, <3>6, InBody
    <3>8. Scanned(g, c) \in ScanStates
      BY <3>3, <3>6, ScannedType
    <3>9. q = Scanned(g, c)
      BY DEF g, a, c
    <3> HIDE DEF q
    <3> QED
      BY <2>2, <3>6, <3>7, <3>8, <3>9 DEF At
  <2> QED
    BY <2>1, <2>2
<1> HIDE DEF q
<1>3. /\ r \in ScanStates /\ r.state = "idle" /\ r.entries = Append(q.entries, Found(q))
      /\ r.failed = q.failed
  BY <1>2, SepScan
<1>4. Found(q) \in Founds /\ Found(q).entry.time = q.current.time
  BY <1>2, FoundType
<1> QED
  BY <1>1, <1>2, <1>3, <1>4

-----------------------------------------------------------------------------
(* Scanning a piece of a block *)

\* The lines of a block after its first, by their places.
LEMMA RestLines ==
  ASSUME NEW e, Loggable(e)
  PROVE  LET h == HeadPart(e)
             r == Rest(e)
         IN  /\ h \in Seq(Lines \ {Close, Sep, Long})
             /\ r \in Seq(Lines)
             /\ Len(h) + 2 <= Len(r)
             /\ \A i \in 1 .. Len(h) : r[i] = h[i]
             /\ r[Len(h) + 1] = Close
             /\ \A i \in 1 .. Len(r) - 1 : r[i] \in Lines \ {Sep, Long}
             /\ r[Len(r)] = Sep
<1> DEFINE h == HeadPart(e)
           c == <<Close>>
           b == BodyPart(e)
           z == <<Sep>>
           x == b \o z
           y == c \o x
           r == h \o y
<1>1. /\ h \in Seq(Lines \ {Close, Sep, Long}) /\ b \in Seq(Lines \ {Sep, Long})
      /\ h \in Seq(Lines) /\ b \in Seq(Lines) /\ c \in Seq(Lines) /\ z \in Seq(Lines)
      /\ x \in Seq(Lines) /\ y \in Seq(Lines) /\ r \in Seq(Lines)
  BY HeadPartType, BodyPartType, RestType DEF Rest
<1>2. Rest(e) = r
  BY DEF Rest
<1>3. Len(c) = 1 /\ c[1] = Close /\ Len(z) = 1 /\ z[1] = Sep
  OBVIOUS
<1>4. Close \in Lines \ {Sep, Long}
  BY LineTypes DEF Lines, Close, Sep, Long, Plain
<1> HIDE DEF h, c, b, z
<1>5. /\ Len(x) = Len(b) + Len(z)
      /\ \A i \in 1 .. Len(b) + Len(z) : x[i] = IF i <= Len(b) THEN b[i] ELSE z[i - Len(b)]
  BY <1>1, ConcatProperties
<1> HIDE DEF x
<1>6. /\ Len(y) = Len(c) + Len(x)
      /\ \A i \in 1 .. Len(c) + Len(x) : y[i] = IF i <= Len(c) THEN c[i] ELSE x[i - Len(c)]
  BY <1>1, ConcatProperties
<1> HIDE DEF y
<1>7. /\ Len(r) = Len(h) + Len(y)
      /\ \A i \in 1 .. Len(h) + Len(y) : r[i] = IF i <= Len(h) THEN h[i] ELSE y[i - Len(h)]
  BY <1>1, ConcatProperties
<1> HIDE DEF r
<1>8. Len(h) \in Nat /\ Len(b) \in Nat /\ Len(x) = Len(b) + 1 /\ Len(y) = Len(b) + 2
      /\ Len(r) = Len(h) + Len(b) + 2
  BY <1>1, <1>3, <1>5, <1>6, <1>7
<1>9. x[Len(b) + 1] = Sep /\ \A i \in 1 .. Len(b) : x[i] \in Lines \ {Sep, Long}
  <2>1. /\ Len(b) + 1 \in 1 .. Len(b) + Len(z) /\ ~ (Len(b) + 1 <= Len(b))
        /\ (Len(b) + 1) - Len(b) = 1
    BY <1>3, <1>8
  <2>2. x[Len(b) + 1] = z[(Len(b) + 1) - Len(b)]
    BY <1>5, <2>1
  <2>3. \A i \in 1 .. Len(b) : x[i] = b[i] /\ b[i] \in Lines \ {Sep, Long}
    BY <1>1, <1>3, <1>5, <1>8
  <2> QED
    BY <1>3, <2>1, <2>2, <2>3
<1>10. y[1] = Close /\ \A i \in 2 .. Len(b) + 2 : y[i] = x[i - 1]
  BY <1>3, <1>6, <1>8
<1>11. y[Len(b) + 2] = Sep /\ \A i \in 1 .. Len(b) + 1 : y[i] \in Lines \ {Sep, Long}
  BY <1>4, <1>8, <1>9, <1>10
<1>12. \A i \in 1 .. Len(h) : r[i] = h[i] /\ h[i] \in Lines \ {Sep, Long}
  BY <1>1, <1>7, <1>8
<1>13. \A i \in Len(h) + 1 .. Len(h) + Len(b) + 2 : r[i] = y[i - Len(h)]
  BY <1>7, <1>8
<1>14. r[Len(h) + 1] = Close /\ r[Len(r)] = Sep
  BY <1>8, <1>10, <1>11, <1>13
<1>15. \A i \in 1 .. Len(r) - 1 : r[i] \in Lines \ {Sep, Long}
  BY <1>8, <1>11, <1>12, <1>13
<1> QED
  BY <1>1, <1>2, <1>8, <1>12, <1>14, <1>15 DEF h

\* What is left of a sequence of lines: a number of them, the last one whole or cut.
IsPiece(p, whole) ==
    /\ p \in Seq(Lines)
    /\ Len(p) <= Len(whole)
    /\ \A i \in 1 .. Len(p) :
          /\ i < Len(p) => p[i] = whole[i]
          /\ p[i] \in {whole[i], Text, Heading(NoKey)}

\* A piece of a block is all of it, a part without the end of the envelope, or a
\* part with it that lacks the separator.
LEMMA PieceShape ==
  ASSUME NEW e, Loggable(e), NEW p, IsPiece(p, Rest(e))
  PROVE  \/ p = Rest(e)
         \/ p \in Seq(Lines \ {Close, Sep, Long})
         \/ /\ p \in Seq(Lines \ {Sep, Long})
            /\ \E b \in Seq(Lines \ {Sep, Long}) : p = HeadPart(e) \o (<<Close>> \o b)
<1> DEFINE h == HeadPart(e)
           r == Rest(e)
           n == Len(h)
           m == Len(p)
<1>1. /\ h \in Seq(Lines \ {Close, Sep, Long}) /\ r \in Seq(Lines) /\ n + 2 <= Len(r)
      /\ \A i \in 1 .. n : r[i] = h[i]
      /\ r[n + 1] = Close
      /\ \A i \in 1 .. Len(r) - 1 : r[i] \in Lines \ {Sep, Long}
      /\ r[Len(r)] = Sep
  BY RestLines
<1>2. /\ p \in Seq(Lines) /\ m <= Len(r) /\ m \in Nat /\ n \in Nat /\ Len(r) \in Nat
      /\ \A i \in 1 .. m : /\ i < m => p[i] = r[i]
                           /\ p[i] \in {r[i], Text, Heading(NoKey)}
  BY <1>1 DEF IsPiece
<1>3. {Text, Heading(NoKey)} \subseteq Lines \ {Close, Sep, Long}
  BY LineTypes DEF Lines, Text, Heading, Close, Sep, Long, Plain
<1> HIDE DEF h, r
<1>4. CASE m = Len(r) /\ p[m] = r[m]
  <2>1. \A i \in 1 .. m : p[i] = r[i]
    BY <1>2, <1>4
  <2>2. p = r
    BY <1>1, <1>2, <1>4, <2>1, SeqEqual
  <2> QED
    BY <2>2 DEF r
<1>5. CASE ~ (m = Len(r) /\ p[m] = r[m])
  <2>1. \A i \in 1 .. m : p[i] \in Lines \ {Sep, Long}
    BY <1>1, <1>2, <1>3, <1>5
  <2>2. p \in Seq(Lines \ {Sep, Long})
    BY <1>2, <2>1
  <2>3. CASE m <= n \/ (m = n + 1 /\ p[m] # Close)
    <3>1. \A i \in 1 .. m : p[i] \in Lines \ {Close, Sep, Long}
      <4>1. \A i \in 1 .. n : r[i] \in Lines \ {Close, Sep, Long}
        BY <1>1, <1>2
      <4> QED
        BY <1>2, <1>3, <2>1, <2>3, <4>1
    <3> QED
      BY <1>2, <3>1
  <2>4. CASE m > n /\ p[n + 1] = Close
    <3> DEFINE b == SubSeq(p, n + 2, m)
               c == <<Close>>
               y == c \o b
               q == h \o y
    <3>1. /\ b \in Seq(Lines \ {Sep, Long}) /\ Len(b) = m - n - 1
          /\ \A i \in 1 .. m - n - 1 : b[i] = p[n + 1 + i]
      <4>1. \A i \in n + 2 .. m : p[i] \in Lines \ {Sep, Long}
        BY <1>2, <2>1
      <4>2. /\ b \in Seq(Lines \ {Sep, Long})
            /\ Len(b) = IF n + 2 <= m THEN m - (n + 2) + 1 ELSE 0
            /\ \A i \in 1 .. m - (n + 2) + 1 : b[i] = p[(n + 2) + i - 1]
        BY <1>2, <4>1, SubSeqProperties
      <4> HIDE DEF b
      <4> QED
        BY <1>2, <2>4, <4>2
    <3>2. /\ b \in Seq(Lines) /\ c \in Seq(Lines) /\ h \in Seq(Lines)
          /\ Len(c) = 1 /\ c[1] = Close
      <4>1. Lines \ {Sep, Long} \subseteq Lines /\ Lines \ {Close, Sep, Long} \subseteq Lines
        OBVIOUS
      <4>2. b \in Seq(Lines) /\ h \in Seq(Lines)
        BY <1>1, <3>1, <4>1, SeqMonotonic
      <4>3. Close \in Lines
        BY LineTypes DEF Lines
      <4> QED
        BY <4>2, <4>3
    <3> HIDE DEF b, c
    <3>3. /\ y \in Seq(Lines) /\ Len(y) = Len(c) + Len(b)
          /\ \A i \in 1 .. Len(c) + Len(b) : y[i] = IF i <= Len(c) THEN c[i] ELSE b[i - Len(c)]
      BY <3>2, ConcatProperties
    <3> HIDE DEF y
    <3>4. /\ q \in Seq(Lines) /\ Len(q) = Len(h) + Len(y)
          /\ \A i \in 1 .. Len(h) + Len(y) : q[i] = IF i <= Len(h) THEN h[i] ELSE y[i - Len(h)]
      BY <3>2, <3>3, ConcatProperties
    <3> HIDE DEF q
    <3>5. Len(y) = m - n /\ Len(q) = m
      BY <1>2, <2>4, <3>1, <3>2, <3>3, <3>4
    <3>6. y[1] = Close /\ \A i \in 2 .. m - n : y[i] = p[n + i]
      <4>1. y[1] = Close
        <5>1. 1 \in 1 .. Len(c) + Len(b) /\ 1 <= Len(c)
          BY <1>2, <2>4, <3>1, <3>2
        <5> QED
          BY <3>2, <3>3, <5>1
      <4>2. ASSUME NEW i \in 2 .. m - n PROVE y[i] = p[n + i]
        <5> DEFINE j == i - 1
        <5>1. j \in 1 .. m - n - 1 /\ n + 1 + j = n + i /\ y[i] = b[j]
          BY <1>2, <3>1, <3>2, <3>3, <3>5
        <5> HIDE DEF j
        <5>2. b[j] = p[n + 1 + j]
          BY <3>1, <5>1
        <5> QED
          BY <5>1, <5>2
      <4> QED
        BY <4>1, <4>2
    <3>7. ASSUME NEW i \in 1 .. m PROVE p[i] = q[i]
      <4>1. CASE i <= n
        BY <1>1, <1>2, <2>4, <3>4, <3>5, <4>1
      <4>2. CASE i > n
        <5> DEFINE j == i - n
        <5>1. j \in 1 .. m - n /\ i = n + j /\ q[i] = y[j]
          BY <1>2, <3>4, <3>5, <4>2
        <5> HIDE DEF j
        <5> QED
          BY <1>2, <2>4, <3>6, <5>1
      <4> QED
        BY <1>2, <4>1, <4>2
    <3>8. p = q
      BY <1>2, <3>4, <3>5, <3>7, SeqEqual
    <3> QED
      BY <2>2, <3>1, <3>8 DEF q, y, c, h
  <2>5. (m <= n \/ (m = n + 1 /\ p[m] # Close)) \/ (m > n /\ p[n + 1] = Close)
    <3>1. m > n + 1 => p[n + 1] = Close
      BY <1>1, <1>2
    <3>2. m <= n \/ m = n + 1 \/ m > n + 1
      BY <1>2
    <3> QED
      BY <1>2, <3>1, <3>2
  <2> HIDE DEF m, n
  <2> QED
    BY <2>3, <2>4, <2>5
<1> QED
  BY <1>4, <1>5

\* The time of the entry that e's lines are read for: that of the entry whose
\* body the scanner is in, if it is in one.
Owner(s, e) == IF s.state = "in_body" THEN s.current.time ELSE e.time

\* A piece finishes no entry, or it is all of the block and finishes one.
LEMMA PieceScan ==
  ASSUME NEW e, Loggable(e), NEW s \in ScanStates, s.failed = FALSE,
         NEW p, IsPiece(p, Rest(e))
  PROVE  LET r == Scanned(s, p)
         IN  /\ r \in ScanStates
             /\ r.failed = FALSE
             /\ \/ /\ r.entries = s.entries
                   /\ r.state = "in_body" => r.current.time = Owner(s, e)
                \/ /\ r.state = "idle"
                   /\ \E f \in Founds : /\ r.entries = Append(s.entries, f)
                                        /\ f.entry.time = Owner(s, e)
<1> DEFINE r == Scanned(s, p)
<1>1. p \in Seq(Lines)
  BY DEF IsPiece
<1>2. r \in ScanStates
  BY <1>1, ScannedType
<1>3. CASE p = Rest(e)
  <2>1. /\ r.state = "idle" /\ r.failed = FALSE
        /\ \E f \in Founds :
              /\ r.entries = Append(s.entries, f)
              /\ f.entry.time = IF s.state = "in_body" THEN s.current.time ELSE e.time
    BY <1>3, BlockFromAny
  <2> HIDE DEF r
  <2> QED
    BY <1>2, <2>1 DEF Owner, r
<1>4. CASE s.state = "in_body" /\ p \in Seq(Lines \ {Sep, Long})
  <2>1. r = At("in_body", s.lineNo + Len(p), s.current, s.line, s.body \o p,
               s.entries, s.failed)
    BY <1>4, InBody
  <2> HIDE DEF r
  <2>2. r.entries = s.entries /\ r.failed = FALSE /\ r.current = s.current
    BY <2>1 DEF At
  <2> QED
    BY <1>2, <1>4, <2>2 DEF Owner, r
<1>5. CASE s.state # "in_body" /\ p \in Seq(Lines \ {Close, Sep, Long})
  <2>1. r.state # "in_body" /\ r.entries = s.entries /\ r.failed = FALSE
    BY <1>5, Quiet
  <2> HIDE DEF r
  <2> QED
    BY <1>2, <2>1 DEF r
<1>6. CASE /\ s.state # "in_body"
           /\ \E b \in Seq(Lines \ {Sep, Long}) : p = HeadPart(e) \o (<<Close>> \o b)
  <2>1. PICK b \in Seq(Lines \ {Sep, Long}) : p = HeadPart(e) \o (<<Close>> \o b)
    BY <1>6
  <2> DEFINE h == HeadPart(e)
             c == <<Close>>
             y == c \o b
             g == Scanned(s, h)
             d == ScanLine(g, Close)
  <2>2. b \in Seq(Lines) /\ c \in Seq(Lines) /\ h \in Seq(Lines)
    <3>1. Lines \ {Sep, Long} \subseteq Lines
      OBVIOUS
    <3>2. b \in Seq(Lines)
      BY <3>1, SeqMonotonic
    <3> QED
      BY <3>2, RestType
  <2>3. /\ g \in ScanStates /\ g.state = "in_envelope" /\ g.entries = s.entries
        /\ g.failed = FALSE /\ g.current.time = e.time
    BY <1>6, HeadScan
  <2>4. \A t : Scanned(t, c) = ScanLine(t, Close)
    BY ScannedOne
  <2> HIDE DEF h, c, g
  <2>5. y \in Seq(Lines)
    BY <2>2, ConcatProperties
  <2>6. Scanned(g, c \o b) = Scanned(Scanned(g, c), b)
    BY <2>2, ScannedConcat
  <2> HIDE DEF y
  <2>7. Scanned(s, h \o y) = Scanned(Scanned(s, h), y)
    BY <2>2, <2>5, ScannedConcat
  <2>8. r = Scanned(d, b)
    BY <2>1, <2>4, <2>6, <2>7 DEF h, c, y, g
  <2>9. Close \in Lines /\ Close # Long
    BY LineTypes DEF Lines, Close, Long, Plain
  <2>10. d = At("in_body", g.lineNo + 1, g.current, g.line, g.body, g.entries, g.failed)
    BY <2>3, <2>9, ScanCases
  <2>11. d \in ScanStates
    BY <2>3, <2>9, ScanLineType
  <2> HIDE DEF d, r
  <2>12. d.state = "in_body" /\ d.current = g.current /\ d.entries = g.entries
         /\ d.failed = g.failed
    BY <2>10 DEF At
  <2>13. r = At("in_body", d.lineNo + Len(b), d.current, d.line, d.body \o b,
                d.entries, d.failed)
    BY <2>8, <2>11, <2>12, InBody
  <2>14. r.entries = d.entries /\ r.failed = d.failed /\ r.current = d.current
    BY <2>13 DEF At
  <2> QED
    BY <1>2, <1>6, <2>3, <2>12, <2>14 DEF Owner, r
<1>7. \/ p = Rest(e)
      \/ p \in Seq(Lines \ {Close, Sep, Long})
      \/ /\ p \in Seq(Lines \ {Sep, Long})
         /\ \E b \in Seq(Lines \ {Sep, Long}) : p = HeadPart(e) \o (<<Close>> \o b)
  BY PieceShape
<1>8. p \in Seq(Lines \ {Close, Sep, Long}) => p \in Seq(Lines \ {Sep, Long})
  <2>1. Lines \ {Close, Sep, Long} \subseteq Lines \ {Sep, Long}
    OBVIOUS
  <2> QED
    BY <2>1, SeqMonotonic
<1> HIDE DEF r
<1>9. (s.state = "in_body" /\ p \in Seq(Lines \ {Sep, Long}))
      \/ (s.state # "in_body" /\ p \in Seq(Lines \ {Close, Sep, Long}))
      \/ (s.state # "in_body"
          /\ \E b \in Seq(Lines \ {Sep, Long}) : p = HeadPart(e) \o (<<Close>> \o b))
      \/ p = Rest(e)
  BY <1>7, <1>8
<1> QED
  BY <1>3, <1>4, <1>5, <1>6, <1>9 DEF r

\* What a torn write leaves of a block: its first line, and a piece of the rest.
LEMMA PieceLines ==
  ASSUME NEW e, Loggable(e), NEW piece \in Pieces(Block(e))
  PROVE  /\ IsPiece(Tail(piece.lines), Rest(e))
         /\ piece.lines = <<Blank>> \o Tail(piece.lines)
         /\ piece.open \in BOOLEAN
<1> DEFINE B == Block(e)
           R == Rest(e)
           L == piece.lines
           one == <<Blank>>
<1>1. R \in Seq(Lines) /\ B \in Seq(Lines) /\ one \in Seq(Lines) /\ B = one \o R
  BY RestType
<1>2. Len(one) = 1 /\ one[1] = Blank
  OBVIOUS
<1>3. \/ \E n \in 1 .. Len(B) - 1 : piece = [lines |-> SubSeq(B, 1, n), open |-> FALSE]
      \/ \E n \in 2 .. Len(B) : piece = [lines |-> SubSeq(B, 1, n), open |-> TRUE]
      \/ \E n \in 2 .. Len(B) :
            piece = [lines |-> Append(SubSeq(B, 1, n - 1), Cut(B[n])), open |-> TRUE]
  <2> HIDE DEF B
  <2>1. piece \in Pieces(B)
    BY DEF B
  <2> QED
    BY <2>1 DEF Pieces
<1> HIDE DEF B, R, one
<1>4. /\ Len(B) = Len(one) + Len(R)
      /\ \A i \in 1 .. Len(one) + Len(R) :
            B[i] = IF i <= Len(one) THEN one[i] ELSE R[i - Len(one)]
  BY <1>1, ConcatProperties
<1>5. /\ Len(R) \in Nat /\ Len(B) = Len(R) + 1 /\ B[1] = Blank
      /\ \A i \in 1 .. Len(R) : B[i + 1] = R[i]
  <2>1. Len(R) \in Nat /\ Len(B) = Len(R) + 1 /\ B[1] = Blank
    BY <1>1, <1>2, <1>4
  <2>2. ASSUME NEW i \in 1 .. Len(R) PROVE B[i + 1] = R[i]
    <3> DEFINE j == i + 1
    <3>1. j \in 1 .. Len(one) + Len(R) /\ ~ (j <= Len(one)) /\ j - Len(one) = i
      BY <1>2, <2>1
    <3> HIDE DEF j
    <3>2. B[j] = R[i]
      BY <1>4, <3>1
    <3> QED
      BY <3>2 DEF j
  <2> QED
    BY <2>1, <2>2
<1>6. {Text, Heading(NoKey)} \subseteq Lines /\ \A l : Cut(l) \in {Text, Heading(NoKey)}
  BY LineTypes DEF Lines, Cut
<1>7. /\ L \in Seq(Lines) /\ Len(L) \in 1 .. Len(B) /\ L[1] = Blank
      /\ \A i \in 1 .. Len(L) : /\ i < Len(L) => L[i] = B[i]
                                /\ i > 1 => L[i] \in {B[i], Text, Heading(NoKey)}
      /\ piece.open \in BOOLEAN
  <2>1. ASSUME NEW n \in 1 .. Len(B)
        PROVE  /\ SubSeq(B, 1, n) \in Seq(Lines) /\ Len(SubSeq(B, 1, n)) = n
               /\ \A i \in 1 .. n : SubSeq(B, 1, n)[i] = B[i]
    <3>1. \A i \in 1 .. n : B[i] \in Lines
      BY <1>1
    <3>2. /\ SubSeq(B, 1, n) \in Seq(Lines)
          /\ Len(SubSeq(B, 1, n)) = IF 1 <= n THEN n - 1 + 1 ELSE 0
          /\ \A i \in 1 .. n - 1 + 1 : SubSeq(B, 1, n)[i] = B[1 + i - 1]
      BY <3>1, SubSeqProperties
    <3> QED
      BY <3>2
  <2>2. CASE \E n \in 1 .. Len(B) : \E o \in BOOLEAN : piece = [lines |-> SubSeq(B, 1, n), open |-> o]
    <3>1. PICK n \in 1 .. Len(B), o \in BOOLEAN : piece = [lines |-> SubSeq(B, 1, n), open |-> o]
      BY <2>2
    <3>2. L = SubSeq(B, 1, n) /\ piece.open \in BOOLEAN
      BY <3>1
    <3>3. L \in Seq(Lines) /\ Len(L) = n /\ \A i \in 1 .. n : L[i] = B[i]
      BY <2>1, <3>2
    <3> QED
      BY <1>5, <3>2, <3>3
  <2>3. CASE \E n \in 2 .. Len(B) :
                piece = [lines |-> Append(SubSeq(B, 1, n - 1), Cut(B[n])), open |-> TRUE]
    <3>1. PICK n \in 2 .. Len(B) :
                piece = [lines |-> Append(SubSeq(B, 1, n - 1), Cut(B[n])), open |-> TRUE]
      BY <2>3
    <3> DEFINE m == n - 1
               c == Cut(B[n])
               q == SubSeq(B, 1, m)
    <3>2. m \in 1 .. Len(B) /\ n = m + 1
      BY <1>5
    <3>3. L = Append(q, c) /\ piece.open = TRUE
      BY <3>1
    <3>4. c \in {Text, Heading(NoKey)} /\ c \in Lines
      BY <1>6
    <3> HIDE DEF m, c
    <3>5. q \in Seq(Lines) /\ Len(q) = m /\ \A i \in 1 .. m : q[i] = B[i]
      BY <2>1, <3>2
    <3> HIDE DEF q
    <3>6. /\ L \in Seq(Lines) /\ Len(L) = m + 1 /\ L[m + 1] = c
          /\ \A i \in 1 .. m : L[i] = q[i]
      BY <3>3, <3>4, <3>5
    <3> HIDE DEF L
    <3>7. m + 1 \in 2 .. Len(B) /\ m \in Nat
      BY <3>2
    <3>8. \A i \in 1 .. m : L[i] = B[i]
      BY <3>5, <3>6
    <3>9. L[1] = Blank
      BY <1>5, <3>7, <3>8
    <3>10. ASSUME NEW i \in 1 .. Len(L)
           PROVE  /\ i < Len(L) => L[i] = B[i]
                  /\ L[i] \in {B[i], Text, Heading(NoKey)}
      <4>1. CASE i = m + 1
        <5>1. L[i] = c /\ ~ (i < Len(L))
          BY <3>6, <3>7, <4>1
        <5> QED
          BY <3>4, <5>1
      <4>2. CASE i # m + 1
        <5>1. i \in 1 .. m
          BY <3>6, <3>7, <4>2
        <5> QED
          BY <3>8, <5>1
      <4> QED
        BY <4>1, <4>2
    <3>11. Len(L) \in 1 .. Len(B)
      BY <1>5, <3>6, <3>7
    <3> QED
      BY <3>3, <3>6, <3>9, <3>10, <3>11
  <2> HIDE DEF L
  <2>4. \/ \E n \in 1 .. Len(B) : \E o \in BOOLEAN : piece = [lines |-> SubSeq(B, 1, n), open |-> o]
        \/ \E n \in 2 .. Len(B) :
              piece = [lines |-> Append(SubSeq(B, 1, n - 1), Cut(B[n])), open |-> TRUE]
    <3>1. 1 .. Len(B) - 1 \subseteq 1 .. Len(B) /\ 2 .. Len(B) \subseteq 1 .. Len(B)
      BY <1>5
    <3> QED
      BY <1>3, <3>1, Zenon
  <2> QED
    BY <2>2, <2>3, <2>4, Zenon
<1> HIDE DEF L
<1> DEFINE T == Tail(L)
<1>8. /\ T \in Seq(Lines) /\ Len(T) = Len(L) - 1
      /\ \A i \in 1 .. Len(T) : T[i] = L[i + 1]
  BY <1>7, HeadTailProperties
<1> HIDE DEF T
<1>9. IsPiece(T, R)
  <2>1. ASSUME NEW i \in 1 .. Len(T)
        PROVE  /\ i < Len(T) => T[i] = R[i]
               /\ T[i] \in {R[i], Text, Heading(NoKey)}
    <3> DEFINE j == i + 1
    <3>1. j \in 1 .. Len(L) /\ j > 1 /\ (i < Len(T) => j < Len(L)) /\ i \in 1 .. Len(R)
      BY <1>5, <1>7, <1>8
    <3>2. T[i] = L[j] /\ B[j] = R[i]
      BY <1>5, <1>8, <3>1
    <3> HIDE DEF j
    <3> QED
      BY <1>7, <3>1, <3>2
  <2>2. Len(T) <= Len(R)
    BY <1>5, <1>7, <1>8
  <2> QED
    BY <1>8, <2>1, <2>2 DEF IsPiece
<1>10. L = one \o T
  <2>1. /\ one \o T \in Seq(Lines) /\ Len(one \o T) = Len(one) + Len(T)
        /\ \A i \in 1 .. Len(one) + Len(T) :
              (one \o T)[i] = IF i <= Len(one) THEN one[i] ELSE T[i - Len(one)]
    BY <1>1, <1>8, ConcatProperties
  <2> DEFINE K == one \o T
  <2> HIDE DEF K
  <2>2. /\ K \in Seq(Lines) /\ Len(K) = Len(one) + Len(T)
        /\ \A i \in 1 .. Len(one) + Len(T) :
              K[i] = IF i <= Len(one) THEN one[i] ELSE T[i - Len(one)]
    BY <2>1 DEF K
  <2>3. Len(K) = Len(L) /\ Len(L) \in Nat
    BY <1>2, <1>7, <1>8, <2>2
  <2>4. ASSUME NEW i \in 1 .. Len(L) PROVE L[i] = K[i]
    <3>1. CASE i = 1
      BY <1>2, <1>7, <2>2, <2>3, <3>1
    <3>2. CASE i > 1
      <4> DEFINE j == i - 1
      <4>1. j \in 1 .. Len(T) /\ i = j + 1 /\ ~ (i <= Len(one)) /\ i - Len(one) = j
            /\ i \in 1 .. Len(one) + Len(T)
        BY <1>2, <1>7, <1>8, <3>2
      <4> HIDE DEF j
      <4>2. K[i] = T[j] /\ T[j] = L[i]
        BY <1>8, <2>2, <4>1
      <4> QED
        BY <4>2
    <3> QED
      BY <3>1, <3>2
  <2>5. L = K
    BY <1>7, <2>2, <2>3, <2>4, SeqEqual
  <2> QED
    BY <2>5 DEF K
<1> QED
  BY <1>7, <1>9, <1>10 DEF T, R, L, one

-----------------------------------------------------------------------------
(* The invariant *)

\* Only values without a line that the parser's buffer cannot hold.
NoLongLines == \A e \in Journaled : e.op = "store" => Long \notin Range(e.val)

Scanning == Scanned(Scanner, file)

InFlight == {w \in Writers : pc[w] = "write"}

FileType ==
    /\ file \in Seq(Lines)
    /\ open \in BOOLEAN
    /\ pc \in [Writers -> {"idle", "write"}]
    /\ loc \in [Writers -> [entry : EntryRecords, existing : Nat]]
    /\ begun \in Nat
    /\ written \in Seq([entry : EntryRecords, line : Nat])
    /\ torn \in Seq(Nat)
    /\ \A w \in InFlight : Loggable(loc[w].entry)
    /\ \A i \in 1 .. Len(written) : Loggable(written[i].entry)

\* No two appends have the same time, and every one is past.
TimesDiffer ==
    /\ \A w \in InFlight : loc[w].entry.time < begun
    /\ \A v, w \in InFlight : v # w => loc[v].entry.time # loc[w].entry.time
    /\ \A i \in 1 .. Len(written) :
          /\ written[i].entry.time < begun
          /\ \A w \in InFlight : written[i].entry.time # loc[w].entry.time
    /\ \A i, j \in 1 .. Len(written) :
          i # j => written[i].entry.time # written[j].entry.time

\* A time that no append in flight has, and none to come.
Spent(t) == t < begun /\ \A w \in InFlight : t # loc[w].entry.time

\* Where a torn write leaves the parser.  What is left of a block is taken for a
\* part of an entry that was never acknowledged.
Leftovers ==
    /\ Scanning.failed = FALSE
    /\ (open \/ Scanning.state # "idle") => Len(written) \in Range(torn)
    /\ Scanning.state = "in_body" =>
          /\ Spent(Scanning.current.time)
          /\ \A i \in 1 .. Len(written) : Scanning.current.time # written[i].entry.time
    /\ \A n \in 1 .. Len(Scanning.entries) : Spent(Scanning.entries[n].entry.time)

\* The entries of the appends in U are among those found, in their order, and
\* every other one found has another time.
MatchedBy(at, ws, U, found) ==
    /\ at \in [U -> 1 .. Len(found)]
    /\ \A i \in U : found[at[i]].entry = ReadBack(ws[i].entry)
    /\ \A i, j \in U : i < j => at[i] < at[j]
    /\ \A n \in 1 .. Len(found) : \/ \E i \in U : n = at[i]
                                  \/ \A i \in U : found[n].entry.time # ws[i].entry.time

Matched(ws, U, found) == \E at : MatchedBy(at, ws, U, found)

\* With no torn write, the scanner is between two entries at the end of the file.
Whole ==
    torn = <<>> =>
        /\ open = FALSE
        /\ Scanning.state = "idle"
        /\ Len(Scanning.entries) = Len(written)
        /\ \A i \in 1 .. Len(written) :
              Scanning.entries[i].entry = ReadBack(written[i].entry)

FileInv ==
    /\ FileType
    /\ TimesDiffer
    /\ Leftovers
    /\ Matched(written, Undamaged, Scanning.entries)
    /\ Whole

LEMMA Logged ==
  ASSUME NoLongLines, NEW e \in Journaled, NEW n \in Nat
  PROVE  /\ Loggable([e EXCEPT !.time = n])
         /\ [e EXCEPT !.time = n] \in EntryRecords
         /\ [e EXCEPT !.time = n].time = n
<1> DEFINE x == [e EXCEPT !.time = n]
<1>1. e \in EntryRecords /\ e \in Entries
  BY JournaledAssumption DEF Entries
<1>2. x \in EntryRecords /\ x.time = n /\ x.op = e.op /\ x.key = e.key /\ x.val = e.val
      /\ x.tags = e.tags
  BY <1>1 DEF EntryRecords
<1>3. x \in Entries
  BY <1>1, <1>2 DEF Entries
<1>4. CASE e.op = "store"
  <2>1. e.val \in Seq(BodyLines) /\ e.val # <<>> /\ ParsedBody[e.val] = TrimBlank(EscapeBody(e.val))
    BY <1>4, BodiesAssumption
  <2>2. \A i \in 1 .. Len(e.val) : e.val[i] \in BodyLines \ {Long}
    BY <1>4, <2>1 DEF NoLongLines, Range
  <2>3. e.val \in Seq(BodyLines \ {Long})
    BY <2>1, <2>2
  <2> HIDE DEF x
  <2> QED
    BY <1>2, <1>3, <1>4, <2>1, <2>3 DEF Loggable, x
<1>5. CASE e.op # "store"
  <2>1. \/ \E k \in Keys : e = KeyTombstone(k, 0)
        \/ \E T \in SUBSET Tags : e = TagsTombstone(T, 0)
    BY <1>5, TombstonesAssumption
  <2>2. CASE \E k \in Keys : e = KeyTombstone(k, 0)
    <3>1. PICK k \in Keys : e = KeyTombstone(k, 0)
      BY <2>2
    <3>2. x = KeyTombstone(k, n) /\ x.op = "delete" /\ x.key = k
      BY <3>1 DEF KeyTombstone, BlankEntry
    <3> QED
      BY <1>2, <1>3, <3>2 DEF Loggable
  <2>3. CASE \E T \in SUBSET Tags : e = TagsTombstone(T, 0)
    <3>1. PICK T \in SUBSET Tags : e = TagsTombstone(T, 0)
      BY <2>3
    <3>2. x = TagsTombstone(T, n) /\ x.op = "delete_tags" /\ x.tags = T
      BY <3>1 DEF TagsTombstone, BlankEntry
    <3> QED
      BY <1>2, <1>3, <3>2 DEF Loggable
  <2> QED
    BY <2>1, <2>2, <2>3
<1> QED
  BY <1>4, <1>5

LEMMA ReadBackTime ==
  ASSUME NEW e \in EntryRecords
  PROVE  ReadBack(e).time = e.time
BY DEF ReadBack, EntryRecords

\* Facts about Matched, for sequences of any appends and any entries found.
LEMMA MatchedLonger ==
  ASSUME NEW ws, NEW U, NEW found \in Seq(Founds), NEW f \in Founds,
         Matched(ws, U, found),
         \A i \in U : f.entry.time # ws[i].entry.time
  PROVE  Matched(ws, U, Append(found, f))
<1> DEFINE n == Len(found)
           g == Append(found, f)
<1>1. PICK at : MatchedBy(at, ws, U, found)
  BY DEF Matched
<1>2. n \in Nat /\ Len(g) = n + 1 /\ g[n + 1] = f /\ \A i \in 1 .. n : g[i] = found[i]
  OBVIOUS
<1> HIDE DEF g
<1>3. MatchedBy(at, ws, U, g)
  <2>1. at \in [U -> 1 .. n] /\ at \in [U -> 1 .. Len(g)]
    BY <1>1, <1>2 DEF MatchedBy
  <2>2. \A i \in U : g[at[i]].entry = ReadBack(ws[i].entry)
    BY <1>1, <1>2, <2>1 DEF MatchedBy
  <2>3. \A m \in 1 .. Len(g) : \/ \E i \in U : m = at[i]
                               \/ \A i \in U : g[m].entry.time # ws[i].entry.time
    <3> TAKE m \in 1 .. Len(g)
    <3>1. CASE m = n + 1
      BY <1>2, <3>1
    <3>2. CASE m # n + 1
      <4>1. m \in 1 .. n /\ g[m] = found[m]
        BY <1>2, <3>2
      <4> QED
        BY <1>1, <4>1 DEF MatchedBy
    <3> QED
      BY <3>1, <3>2
  <2> QED
    BY <1>1, <2>1, <2>2, <2>3 DEF MatchedBy
<1> QED
  BY <1>3 DEF Matched, g

LEMMA MatchedAppended ==
  ASSUME NEW S, NEW ws \in Seq(S), NEW x \in S, NEW U, U \subseteq 1 .. Len(ws), NEW found,
         Matched(ws, U, found)
  PROVE  Matched(Append(ws, x), U, found)
<1> DEFINE v == Append(ws, x)
<1>1. PICK at : MatchedBy(at, ws, U, found)
  BY DEF Matched
<1>2. \A i \in U : v[i] = ws[i]
  OBVIOUS
<1> HIDE DEF v
<1>3. MatchedBy(at, v, U, found)
  BY <1>1, <1>2 DEF MatchedBy
<1> QED
  BY <1>3 DEF Matched, v

LEMMA MatchedNew ==
  ASSUME NEW S, NEW ws \in Seq(S), NEW x \in S, NEW U, U \subseteq 1 .. Len(ws),
         NEW found \in Seq(Founds), NEW f \in Founds, f.entry = ReadBack(x.entry),
         \A n \in 1 .. Len(found) : found[n].entry.time # x.entry.time,
         Matched(ws, U, found)
  PROVE  Matched(Append(ws, x), U \cup {Len(ws) + 1}, Append(found, f))
<1> DEFINE n == Len(found)
           g == Append(found, f)
           v == Append(ws, x)
           j == Len(ws) + 1
           V == U \cup {j}
<1>1. PICK at : MatchedBy(at, ws, U, found)
  BY DEF Matched
<1> DEFINE to == [i \in V |-> IF i = j THEN n + 1 ELSE at[i]]
<1>2. n \in Nat /\ Len(g) = n + 1 /\ g[n + 1] = f /\ \A i \in 1 .. n : g[i] = found[i]
  OBVIOUS
<1>3. Len(ws) \in Nat /\ v[j] = x /\ j \notin U /\ \A i \in U : v[i] = ws[i] /\ i < j /\ i \in Nat
  OBVIOUS
<1>4. j \in Nat
  BY <1>3
<1> HIDE DEF g, v, j
<1>5. to[j] = n + 1 /\ \A i \in U : to[i] = at[i]
  BY <1>3
<1>6. at \in [U -> 1 .. n]
  BY <1>1 DEF MatchedBy
<1>7. to \in [V -> 1 .. Len(g)]
  BY <1>2, <1>6
<1> HIDE DEF to
<1>8. \A i \in V : g[to[i]].entry = ReadBack(v[i].entry)
  <2>1. \A i \in U : g[to[i]].entry = ReadBack(v[i].entry)
    BY <1>1, <1>2, <1>3, <1>5, <1>6 DEF MatchedBy
  <2>2. g[to[j]].entry = ReadBack(v[j].entry)
    BY <1>2, <1>3, <1>5
  <2> QED
    BY <2>1, <2>2
<1>9. \A i, k \in V : i < k => to[i] < to[k]
  <2> SUFFICES ASSUME NEW i \in V, NEW k \in V, i < k PROVE to[i] < to[k]
    OBVIOUS
  <2>1. i \in U
    BY <1>3, <1>4
  <2>2. CASE k \in U
    BY <1>1, <1>5, <2>1, <2>2 DEF MatchedBy
  <2>3. CASE k = j
    BY <1>2, <1>5, <1>6, <2>1, <2>3
  <2> QED
    BY <2>2, <2>3
<1>10. \A m \in 1 .. Len(g) : \/ \E i \in V : m = to[i]
                              \/ \A i \in V : g[m].entry.time # v[i].entry.time
  <2> TAKE m \in 1 .. Len(g)
  <2>1. CASE m = n + 1
    BY <1>5, <2>1
  <2>2. CASE m # n + 1
    <3>1. m \in 1 .. n /\ g[m] = found[m]
      BY <1>2, <2>2
    <3>2. CASE \E i \in U : m = at[i]
      BY <1>5, <3>2
    <3>3. CASE \A i \in U : found[m].entry.time # ws[i].entry.time
      <4>1. found[m].entry.time # v[j].entry.time
        BY <1>3, <3>1
      <4> QED
        BY <1>3, <3>1, <3>3, <4>1
    <3> QED
      BY <1>1, <3>1, <3>2, <3>3 DEF MatchedBy
  <2> QED
    BY <2>1, <2>2
<1>11. MatchedBy(to, v, V, g)
  BY <1>7, <1>8, <1>9, <1>10 DEF MatchedBy
<1> QED
  BY <1>11 DEF Matched, g, v, j

-----------------------------------------------------------------------------
(* Steps *)

LEMMA NothingScanned == Scanned(Scanner, <<>>) = Scanner
BY ScannedNone

LEMMA ScanningType ==
  ASSUME FileType
  PROVE  /\ Scanning \in ScanStates
         /\ Scanning.lineNo = Len(file)
         /\ Scanning.entries \in Seq(Founds)
         /\ Len(Scanning.entries) \in Nat
<1> DEFINE s == Scanner
<1>1. s \in ScanStates /\ s.lineNo = 0
  BY ScannerType DEF Scanner
<1> HIDE DEF s
<1>2. file \in Seq(Lines)
  BY DEF FileType
<1>3. Scanned(s, file) \in ScanStates /\ Scanned(s, file).lineNo = 0 + Len(file)
  BY <1>1, <1>2, ScannedType
<1>4. Scanning = Scanned(s, file)
  BY DEF Scanning, s
<1> QED
  BY <1>2, <1>3, <1>4 DEF ScanStates

LEMMA FileInit == Init => FileInv
<1> SUFFICES ASSUME Init PROVE FileInv
  OBVIOUS
<1>1. /\ file = <<>> /\ open = FALSE /\ begun = 0 /\ written = <<>> /\ torn = <<>>
      /\ pc = [w \in Writers |-> "idle"] /\ loc = [w \in Writers |-> NoAppend]
  BY DEF Init
<1>2. InFlight = {} /\ Len(written) = 0 /\ 1 .. Len(written) = {}
  BY <1>1 DEF InFlight
<1>3. FileType
  <2>1. NoAppend \in [entry : EntryRecords, existing : Nat]
    BY NoAgentAssumption DEF NoAppend, BlankEntry, EntryRecords
  <2>2. /\ pc \in [Writers -> {"idle", "write"}]
        /\ loc \in [Writers -> [entry : EntryRecords, existing : Nat]]
    BY <1>1, <2>1
  <2>3. file \in Seq(Lines) /\ written \in Seq([entry : EntryRecords, line : Nat])
        /\ torn \in Seq(Nat)
    BY <1>1
  <2> QED
    BY <1>1, <1>2, <2>2, <2>3 DEF FileType
<1>4. Scanning = Scanner
  BY <1>1, NothingScanned DEF Scanning
<1>5. Scanning.failed = FALSE /\ Scanning.state = "idle" /\ Scanning.entries = <<>>
  BY <1>4 DEF Scanner
<1>6. TimesDiffer /\ Leftovers /\ Whole
  BY <1>1, <1>2, <1>5 DEF TimesDiffer, Leftovers, Whole
<1>7. Matched(written, Undamaged, Scanning.entries)
  <2>1. Undamaged = {}
    BY <1>1 DEF Undamaged
  <2> DEFINE at == [i \in {} |-> 0]
  <2>2. at \in [{} -> 1 .. Len(Scanning.entries)]
    OBVIOUS
  <2>3. MatchedBy(at, written, {}, Scanning.entries)
    BY <1>5, <2>2 DEF MatchedBy
  <2> QED
    BY <2>1, <2>3 DEF Matched
<1> QED
  BY <1>3, <1>6, <1>7 DEF FileInv

\* The scanner before the second line of a block: the first one ends an open line
\* or is a blank one.
Resumed == IF open THEN Scanning ELSE ScanLine(Scanning, Blank)

LEMMA ResumedType ==
  ASSUME FileType
  PROVE  /\ Resumed \in ScanStates
         /\ Resumed.state = Scanning.state /\ Resumed.current = Scanning.current
         /\ Resumed.entries = Scanning.entries /\ Resumed.failed = Scanning.failed
         /\ Resumed.lineNo = IF open THEN Len(file) ELSE Len(file) + 1
<1>1. Scanning \in ScanStates /\ Scanning.lineNo = Len(file)
  BY ScanningType
<1>2. CASE open
  BY <1>1, <1>2 DEF Resumed
<1>3. CASE ~ open
  <2> DEFINE r == ScanLine(Scanning, Blank)
  <2>1. /\ r \in ScanStates /\ r.lineNo = Scanning.lineNo + 1
        /\ r.state = Scanning.state /\ r.current = Scanning.current
        /\ r.entries = Scanning.entries /\ r.failed = Scanning.failed
    BY <1>1, BlankLine
  <2>2. Resumed = r
    BY <1>3 DEF Resumed
  <2> HIDE DEF r
  <2> QED
    BY <1>1, <1>3, <2>1, <2>2
<1> QED
  BY <1>2, <1>3

\* What is appended to the file is scanned from there.
LEMMA ExtendedScan ==
  ASSUME FileType, NEW t \in Seq(Lines)
  PROVE  LET to == Extended(<<Blank>> \o t)
         IN  /\ to \in Seq(Lines)
             /\ Scanned(Scanner, to) = Scanned(Resumed, t)
             /\ Len(to) > 0 \/ open
<1> DEFINE one == <<Blank>>
           s == Scanner
<1>1. one \in Seq(Lines) /\ one # <<>> /\ Len(one) = 1 /\ one[1] = Blank
  BY LineTypes DEF Lines
<1>2. \A r : Scanned(r, one) = ScanLine(r, Blank)
  BY ScannedOne
<1>3. file \in Seq(Lines) /\ open \in BOOLEAN
  BY DEF FileType
<1>4. Tail(one \o t) = t
  OBVIOUS
<1> HIDE DEF one, s
<1>5. one \o t \in Seq(Lines)
  BY <1>1, ConcatProperties
<1> DEFINE b == one \o t
<1>6. CASE open
  <2>1. Extended(b) = file \o t
    BY <1>4, <1>6 DEF Extended
  <2>2. Scanned(s, file \o t) = Scanned(Scanned(s, file), t)
    BY <1>3, ScannedConcat
  <2>3. file \o t \in Seq(Lines)
    BY <1>3, ConcatProperties
  <2> QED
    BY <1>6, <2>1, <2>2, <2>3 DEF Resumed, Scanning, s, one
<1>7. CASE ~ open
  <2>1. Extended(b) = file \o b
    BY <1>7 DEF Extended
  <2> HIDE DEF b
  <2>2. b \in Seq(Lines) /\ file \o b \in Seq(Lines) /\ Len(file \o b) = Len(file) + Len(b)
    BY <1>3, <1>5, ConcatProperties DEF b
  <2>3. Scanned(s, file \o b) = Scanned(Scanned(s, file), b)
    BY <1>3, <2>2, ScannedConcat
  <2> DEFINE r == Scanned(s, file)
  <2> HIDE DEF r
  <2>4. Scanned(r, one \o t) = Scanned(Scanned(r, one), t)
    BY <1>1, ScannedConcat
  <2>5. Len(b) > 0
    BY <1>1, ConcatProperties DEF b
  <2>6. Resumed = ScanLine(r, Blank)
    BY <1>7 DEF Resumed, Scanning, r, s
  <2>7. Scanned(s, file \o b) = Scanned(Resumed, t)
    BY <1>2, <2>3, <2>4, <2>6 DEF r, b
  <2>8. Len(file \o b) > 0
    BY <1>3, <2>2, <2>5
  <2> QED
    BY <2>1, <2>2, <2>7, <2>8 DEF b, one, s
<1> QED
  BY <1>3, <1>6, <1>7

\* The scanner after a block that was written, and after one that was torn.
LEMMA Wrote ==
  ASSUME FileType, Scanning.failed = FALSE, NEW w \in Writers, WriteBlock(w)
  PROVE  LET e == loc[w].entry
         IN  /\ file' \in Seq(Lines)
             /\ Len(file') > 0 \/ open
             /\ Scanning'.state = "idle" /\ Scanning'.failed = FALSE
             /\ \E f \in Founds :
                   /\ Scanning'.entries = Append(Scanning.entries, f)
                   /\ f.entry.time = Owner(Scanning, e)
                   /\ Scanning.state = "idle" =>
                        f = [entry |-> ReadBack(e), line |-> Resumed.lineNo + 1]
<1> DEFINE e == loc[w].entry
           R == Rest(e)
           r == Scanned(Resumed, R)
<1>1. Loggable(e) /\ file' = Extended(Block(e))
  BY DEF WriteBlock, FileType, InFlight
<1>2. Block(e) = <<Blank>> \o R /\ R \in Seq(Lines)
  BY <1>1, RestType
<1>3. Resumed \in ScanStates /\ Resumed.failed = FALSE /\ Resumed.state = Scanning.state
      /\ Resumed.entries = Scanning.entries /\ Resumed.current = Scanning.current
  BY ResumedType
<1> HIDE DEF R, e
<1>4. file' \in Seq(Lines) /\ (Len(file') > 0 \/ open) /\ Scanned(Scanner, file') = r
  BY <1>1, <1>2, ExtendedScan
<1>5. Scanning' = r
  BY <1>4 DEF Scanning
<1>6. /\ r.state = "idle" /\ r.failed = FALSE
      /\ \E f \in Founds :
            /\ r.entries = Append(Resumed.entries, f)
            /\ f.entry.time = IF Resumed.state = "in_body" THEN Resumed.current.time ELSE e.time
  BY <1>1, <1>3, BlockFromAny DEF R
<1>7. Resumed.state = "idle" =>
        r.entries = Append(Resumed.entries, [entry |-> ReadBack(e), line |-> Resumed.lineNo + 1])
  BY <1>1, <1>3, BlockFromIdle DEF R
<1> HIDE DEF r
<1>8. PICK f \in Founds :
        /\ r.entries = Append(Resumed.entries, f)
        /\ f.entry.time = IF Resumed.state = "in_body" THEN Resumed.current.time ELSE e.time
  BY <1>6
<1>9. Resumed.state = "idle" => f = [entry |-> ReadBack(e), line |-> Resumed.lineNo + 1]
  <2> DEFINE g == [entry |-> ReadBack(e), line |-> Resumed.lineNo + 1]
             E == Resumed.entries
  <2>1. E \in Seq(Founds)
    BY <1>3 DEF ScanStates
  <2> HIDE DEF g, E
  <2>2. Append(E, f)[Len(E) + 1] = f /\ Append(E, g)[Len(E) + 1] = g
    BY <2>1
  <2>3. Resumed.state = "idle" => Append(E, f) = Append(E, g)
    BY <1>7, <1>8 DEF g, E
  <2> QED
    BY <2>2, <2>3 DEF g
<1>10. f.entry.time = Owner(Scanning, e)
  BY <1>3, <1>8 DEF Owner
<1> QED
  BY <1>3, <1>4, <1>5, <1>6, <1>8, <1>9, <1>10 DEF e

LEMMA Tore ==
  ASSUME FileType, Scanning.failed = FALSE, NEW w \in Writers, TearBlock(w)
  PROVE  LET e == loc[w].entry
         IN  /\ file' \in Seq(Lines)
             /\ open' \in BOOLEAN
             /\ Scanning'.failed = FALSE
             /\ \/ /\ Scanning'.entries = Scanning.entries
                   /\ Scanning'.state = "in_body" => Scanning'.current.time = Owner(Scanning, e)
                \/ /\ Scanning'.state = "idle"
                   /\ \E f \in Founds : /\ Scanning'.entries = Append(Scanning.entries, f)
                                        /\ f.entry.time = Owner(Scanning, e)
<1> DEFINE e == loc[w].entry
<1>1. Loggable(e)
  BY DEF TearBlock, FileType, InFlight
<1> HIDE DEF e
<1>2. PICK piece \in Pieces(Block(e)) : file' = Extended(piece.lines) /\ open' = piece.open
  BY DEF TearBlock, e
<1> DEFINE t == Tail(piece.lines)
           r == Scanned(Resumed, t)
<1>3. /\ IsPiece(t, Rest(e))
      /\ piece.lines = <<Blank>> \o t
      /\ piece.open \in BOOLEAN
  BY <1>1, PieceLines
<1>4. t \in Seq(Lines)
  BY <1>3 DEF IsPiece
<1> HIDE DEF t
<1>5. file' \in Seq(Lines) /\ Scanned(Scanner, file') = r
  BY <1>2, <1>3, <1>4, ExtendedScan
<1>6. Scanning' = r
  BY <1>5 DEF Scanning
<1>7. Resumed \in ScanStates /\ Resumed.failed = FALSE /\ Resumed.state = Scanning.state
      /\ Resumed.entries = Scanning.entries /\ Resumed.current = Scanning.current
  BY ResumedType
<1>8. /\ r.failed = FALSE
      /\ \/ /\ r.entries = Resumed.entries
            /\ r.state = "in_body" => r.current.time = Owner(Resumed, e)
         \/ /\ r.state = "idle"
            /\ \E f \in Founds : /\ r.entries = Append(Resumed.entries, f)
                                 /\ f.entry.time = Owner(Resumed, e)
  BY <1>1, <1>3, <1>7, PieceScan
<1> HIDE DEF r
<1>9. Owner(Resumed, e) = Owner(Scanning, e)
  BY <1>7 DEF Owner
<1> QED
  BY <1>2, <1>3, <1>5, <1>6, <1>7, <1>8, <1>9 DEF e

\* Who is in flight after a step.
LEMMA TakesOff ==
  ASSUME NoLongLines, FileType, NEW w \in Writers, NEW e \in Journaled, CountLines(w, e)
  PROVE  /\ w \notin InFlight /\ InFlight' = InFlight \cup {w}
         /\ loc' \in [Writers -> [entry : EntryRecords, existing : Nat]]
         /\ Loggable(loc'[w].entry) /\ loc'[w].entry.time = begun
         /\ loc'[w].existing = Len(file)
         /\ \A v \in InFlight : loc'[v] = loc[v]
         /\ pc' \in [Writers -> {"idle", "write"}]
<1> DEFINE x == [e EXCEPT !.time = begun]
           a == [entry |-> x, existing |-> Len(file)]
<1>1. /\ pc[w] = "idle" /\ loc' = [loc EXCEPT ![w] = a] /\ pc' = [pc EXCEPT ![w] = "write"]
  BY DEF CountLines
<1>2. Loggable(x) /\ x \in EntryRecords /\ x.time = begun
  BY Logged DEF FileType
<1> HIDE DEF x
<1>3. a \in [entry : EntryRecords, existing : Nat] /\ a.entry = x /\ a.existing = Len(file)
  BY <1>2 DEF FileType
<1> HIDE DEF a
<1>4. /\ loc' \in [Writers -> [entry : EntryRecords, existing : Nat]]
      /\ loc'[w] = a /\ \A v \in Writers \ {w} : loc'[v] = loc[v]
  BY <1>1, <1>3 DEF FileType
<1>5. w \notin InFlight /\ InFlight' = InFlight \cup {w} /\ pc' \in [Writers -> {"idle", "write"}]
  BY <1>1 DEF FileType, InFlight
<1> QED
  BY <1>2, <1>3, <1>4, <1>5 DEF InFlight

LEMMA Lands ==
  ASSUME FileType, NEW w \in Writers, WriteBlock(w) \/ TearBlock(w)
  PROVE  /\ w \in InFlight /\ InFlight' = InFlight \ {w} /\ begun' = begun
         /\ loc' \in [Writers -> [entry : EntryRecords, existing : Nat]]
         /\ \A v \in InFlight' : loc'[v] = loc[v]
         /\ pc' \in [Writers -> {"idle", "write"}]
         /\ Loggable(loc[w].entry) /\ loc[w].entry \in EntryRecords
<1>1. /\ pc[w] = "write" /\ pc' = [pc EXCEPT ![w] = "idle"]
      /\ loc' = [loc EXCEPT ![w] = NoAppend] /\ begun' = begun
  BY DEF WriteBlock, TearBlock
<1>2. NoAppend \in [entry : EntryRecords, existing : Nat]
  BY NoAgentAssumption DEF NoAppend, BlankEntry, EntryRecords
<1>3. /\ loc' \in [Writers -> [entry : EntryRecords, existing : Nat]]
      /\ \A v \in Writers \ {w} : loc'[v] = loc[v]
  BY <1>1, <1>2 DEF FileType
<1>4. w \in InFlight /\ InFlight' = InFlight \ {w} /\ pc' \in [Writers -> {"idle", "write"}]
  BY <1>1 DEF FileType, InFlight
<1>5. Loggable(loc[w].entry) /\ loc[w].entry \in EntryRecords
  BY <1>4 DEF FileType
<1> QED
  BY <1>1, <1>3, <1>4, <1>5 DEF InFlight

LEMMA TypeStep ==
  ASSUME NoLongLines, FileInv, Next
  PROVE  FileType'
<1> USE DEF FileInv
<1>1. ASSUME NEW w \in Writers, NEW e \in Journaled, CountLines(w, e)
      PROVE  FileType'
  <2>1. /\ begun' = begun + 1 /\ UNCHANGED <<file, open, written, torn>>
    BY <1>1 DEF CountLines
  <2>2. /\ InFlight' = InFlight \cup {w}
        /\ loc' \in [Writers -> [entry : EntryRecords, existing : Nat]]
        /\ Loggable(loc'[w].entry)
        /\ \A v \in InFlight : loc'[v] = loc[v]
        /\ pc' \in [Writers -> {"idle", "write"}]
    BY <1>1, TakesOff
  <2> QED
    BY <2>1, <2>2 DEF FileType
<1>2. ASSUME NEW w \in Writers, WriteBlock(w)
      PROVE  FileType'
  <2> DEFINE x == [entry |-> loc[w].entry, line |-> HeadingLine(loc[w].existing)]
  <2>1. /\ InFlight' = InFlight \ {w} /\ begun' = begun
        /\ loc' \in [Writers -> [entry : EntryRecords, existing : Nat]]
        /\ \A v \in InFlight' : loc'[v] = loc[v]
        /\ pc' \in [Writers -> {"idle", "write"}]
        /\ Loggable(loc[w].entry) /\ loc[w].entry \in EntryRecords
    BY <1>2, Lands
  <2>2. file' \in Seq(Lines)
    BY <1>2, Wrote DEF Leftovers
  <2>3. written' = Append(written, x) /\ open' = FALSE /\ UNCHANGED torn
    BY <1>2 DEF WriteBlock
  <2>4. x \in [entry : EntryRecords, line : Nat] /\ x.entry = loc[w].entry
    BY <2>1 DEF HeadingLine, FileType
  <2> HIDE DEF x
  <2>5. written' \in Seq([entry : EntryRecords, line : Nat])
    BY <2>3, <2>4 DEF FileType
  <2>6. \A i \in 1 .. Len(written') : Loggable(written'[i].entry)
    <3> DEFINE S == [entry : EntryRecords, line : Nat]
    <3>1. written \in Seq(S) /\ x \in S
      BY <2>4 DEF FileType
    <3> HIDE DEF S
    <3>2. /\ Len(written') = Len(written) + 1 /\ Len(written) \in Nat
          /\ written'[Len(written) + 1] = x
          /\ \A i \in 1 .. Len(written) : written'[i] = written[i]
      BY <2>3, <3>1
    <3>3. \A i \in 1 .. Len(written') :
            \/ i \in 1 .. Len(written) /\ written'[i] = written[i]
            \/ written'[i].entry = loc[w].entry
      BY <2>4, <3>2
    <3>4. \A i \in 1 .. Len(written) : Loggable(written[i].entry)
      BY DEF FileType
    <3> QED
      BY <2>1, <3>3, <3>4
  <2> QED
    BY <2>1, <2>2, <2>3, <2>5, <2>6 DEF FileType
<1>3. ASSUME NEW w \in Writers, TearBlock(w)
      PROVE  FileType'
  <2>1. /\ InFlight' = InFlight \ {w} /\ begun' = begun
        /\ loc' \in [Writers -> [entry : EntryRecords, existing : Nat]]
        /\ \A v \in InFlight' : loc'[v] = loc[v]
        /\ pc' \in [Writers -> {"idle", "write"}]
    BY <1>3, Lands
  <2>2. file' \in Seq(Lines) /\ open' \in BOOLEAN
    BY <1>3, Tore DEF Leftovers
  <2>3. torn' = Append(torn, Len(written)) /\ UNCHANGED written
    BY <1>3 DEF TearBlock
  <2>4. torn' \in Seq(Nat)
    BY <2>3 DEF FileType
  <2> QED
    BY <2>1, <2>2, <2>3, <2>4 DEF FileType
<1> QED
  BY <1>1, <1>2, <1>3 DEF Next

LEMMA WrittenTimes ==
  ASSUME FileType
  PROVE  /\ Len(written) \in Nat
         /\ \A i \in 1 .. Len(written) : /\ written[i].entry \in EntryRecords
                                        /\ written[i].entry.time \in Nat
<1> DEFINE S == [entry : EntryRecords, line : Nat]
<1>1. written \in Seq(S)
  BY DEF FileType
<1>2. \A x \in S : x.entry \in EntryRecords
  OBVIOUS
<1> HIDE DEF S
<1>3. Len(written) \in Nat /\ \A i \in 1 .. Len(written) : written[i].entry \in EntryRecords
  BY <1>1, <1>2
<1> QED
  BY <1>3 DEF EntryRecords

LEMMA TimesStep ==
  ASSUME NoLongLines, FileInv, Next
  PROVE  TimesDiffer'
<1> USE DEF FileInv
<1>1. ASSUME NEW w \in Writers, NEW e \in Journaled, CountLines(w, e)
      PROVE  TimesDiffer'
  <2>1. begun' = begun + 1 /\ written' = written /\ begun \in Nat
    BY <1>1 DEF CountLines, FileType
  <2>2. /\ InFlight' = InFlight \cup {w} /\ loc'[w].entry.time = begun
        /\ \A v \in InFlight : loc'[v] = loc[v]
    BY <1>1, TakesOff
  <2>3. \A i \in 1 .. Len(written) : written[i].entry.time \in Nat
    BY WrittenTimes
  <2>4. \A v \in InFlight : loc[v].entry.time \in Nat
    <3>1. \A v \in InFlight : loc[v].entry \in EntryRecords
      BY DEF FileType, InFlight
    <3> QED
      BY <3>1 DEF EntryRecords
  <2> QED
    BY <2>1, <2>2, <2>3, <2>4 DEF TimesDiffer
<1>2. ASSUME NEW w \in Writers, WriteBlock(w)
      PROVE  TimesDiffer'
  <2> DEFINE x == [entry |-> loc[w].entry, line |-> HeadingLine(loc[w].existing)]
             S == [entry : EntryRecords, line : Nat]
  <2>1. /\ w \in InFlight /\ InFlight' = InFlight \ {w} /\ begun' = begun
        /\ \A v \in InFlight' : loc'[v] = loc[v]
        /\ loc[w].entry \in EntryRecords
    BY <1>2, Lands
  <2>2. written' = Append(written, x)
    BY <1>2 DEF WriteBlock
  <2>3. written \in Seq(S) /\ x \in S /\ x.entry = loc[w].entry
    BY <2>1 DEF HeadingLine, FileType
  <2> HIDE DEF S, x
  <2>4. /\ Len(written') = Len(written) + 1 /\ Len(written) \in Nat
        /\ written'[Len(written) + 1] = x
        /\ \A i \in 1 .. Len(written) : written'[i] = written[i]
    BY <2>2, <2>3
  <2>5. \A i \in 1 .. Len(written') :
          \/ i \in 1 .. Len(written) /\ written'[i] = written[i]
          \/ i = Len(written) + 1 /\ written'[i].entry = loc[w].entry
    BY <2>3, <2>4
  <2> QED
    BY <2>1, <2>4, <2>5 DEF TimesDiffer
<1>3. ASSUME NEW w \in Writers, TearBlock(w)
      PROVE  TimesDiffer'
  <2>1. /\ InFlight' = InFlight \ {w} /\ begun' = begun /\ written' = written
        /\ \A v \in InFlight' : loc'[v] = loc[v]
    BY <1>3, Lands DEF TearBlock
  <2> QED
    BY <2>1 DEF TimesDiffer
<1> QED
  BY <1>1, <1>2, <1>3 DEF Next

LEMMA ScanningTimes ==
  ASSUME FileType
  PROVE  /\ Scanning.current.time \in Nat
         /\ \A n \in 1 .. Len(Scanning.entries) : Scanning.entries[n].entry.time \in Nat
<1>1. Scanning.current \in Currents /\ Scanning.entries \in Seq(Founds)
  BY ScanningType DEF ScanStates
<1>2. \A n \in 1 .. Len(Scanning.entries) : Scanning.entries[n] \in Founds
  BY <1>1
<1>3. \A f \in Founds : f.entry.time \in Nat
  BY DEF Founds, ParsedEntries
<1>4. \A c \in Currents : c.time \in Nat
  BY DEF Currents
<1> QED
  BY <1>1, <1>2, <1>3, <1>4

\* A time that is spent stays so.
LEMMA SpentStep ==
  ASSUME NoLongLines, FileType, Next, NEW t \in Nat, Spent(t)
  PROVE  t < begun' /\ \A v \in InFlight' : t # loc'[v].entry.time
<1>1. ASSUME NEW w \in Writers, NEW e \in Journaled, CountLines(w, e)
      PROVE  t < begun' /\ \A v \in InFlight' : t # loc'[v].entry.time
  <2>1. begun' = begun + 1 /\ begun \in Nat
    BY <1>1 DEF CountLines, FileType
  <2>2. /\ InFlight' = InFlight \cup {w} /\ loc'[w].entry.time = begun
        /\ \A v \in InFlight : loc'[v] = loc[v]
    BY <1>1, TakesOff
  <2> QED
    BY <2>1, <2>2 DEF Spent
<1>2. ASSUME NEW w \in Writers, WriteBlock(w) \/ TearBlock(w)
      PROVE  t < begun' /\ \A v \in InFlight' : t # loc'[v].entry.time
  <2>1. /\ InFlight' = InFlight \ {w} /\ begun' = begun
        /\ \A v \in InFlight' : loc'[v] = loc[v]
    BY <1>2, Lands
  <2> QED
    BY <2>1 DEF Spent
<1> QED
  BY <1>1, <1>2 DEF Next

\* The entry that a block, or a piece of it, is read for has no time of a written one.
LEMMA OwnerSpent ==
  ASSUME NoLongLines, FileInv, Next, NEW w \in Writers, WriteBlock(w) \/ TearBlock(w),
         NEW t, t = Owner(Scanning, loc[w].entry)
  PROVE  /\ t < begun' /\ \A v \in InFlight' : t # loc'[v].entry.time
         /\ \A i \in 1 .. Len(written) : t # written[i].entry.time
<1>1. FileType /\ TimesDiffer /\ Leftovers
  BY DEF FileInv
<1>2. CASE Scanning.state = "in_body"
  <2>1. t = Scanning.current.time
    BY <1>2 DEF Owner
  <2>2. t \in Nat /\ Spent(t)
    BY <1>1, <1>2, <2>1, ScanningTimes DEF Leftovers
  <2>3. t < begun' /\ \A v \in InFlight' : t # loc'[v].entry.time
    BY <1>1, <2>2, SpentStep
  <2>4. \A i \in 1 .. Len(written) : t # written[i].entry.time
    BY <1>1, <1>2, <2>1 DEF Leftovers
  <2> QED
    BY <2>3, <2>4
<1>3. CASE Scanning.state # "in_body"
  <2>1. t = loc[w].entry.time
    BY <1>3 DEF Owner
  <2>2. /\ w \in InFlight /\ InFlight' = InFlight \ {w} /\ begun' = begun
        /\ \A v \in InFlight' : loc'[v] = loc[v]
    BY <1>1, Lands
  <2> QED
    BY <1>1, <2>1, <2>2 DEF TimesDiffer
<1> QED
  BY <1>2, <1>3

LEMMA LeftoversStep ==
  ASSUME NoLongLines, FileInv, Next
  PROVE  Leftovers'
<1> DEFINE E == Scanning.entries
           SpentNext(t) == t < begun' /\ \A v \in InFlight' : t # loc'[v].entry.time
<1>1. FileType /\ TimesDiffer /\ Leftovers
  BY DEF FileInv
<1>2. E \in Seq(Founds) /\ Len(E) \in Nat
  BY <1>1, ScanningType
<1>3. \A n \in 1 .. Len(E) : SpentNext(E[n].entry.time)
  <2> TAKE n \in 1 .. Len(E)
  <2>1. E[n].entry.time \in Nat /\ Spent(E[n].entry.time)
    BY <1>1, ScanningTimes DEF Leftovers
  <2> QED
    BY <1>1, <2>1, SpentStep
<1>4. ASSUME NEW f \in Founds, Scanning'.entries = Append(E, f), SpentNext(f.entry.time)
      PROVE  \A n \in 1 .. Len(Scanning'.entries) : SpentNext(Scanning'.entries[n].entry.time)
  <2> DEFINE g == Scanning'.entries
  <2>1. g = Append(E, f)
    BY <1>4
  <2> HIDE DEF g, E, SpentNext
  <2>2. Len(g) = Len(E) + 1 /\ g[Len(E) + 1] = f /\ \A n \in 1 .. Len(E) : g[n] = E[n]
    BY <1>2, <2>1
  <2>3. \A n \in 1 .. Len(g) : (n \in 1 .. Len(E) /\ g[n] = E[n]) \/ g[n] = f
    BY <1>2, <2>2
  <2>4. \A n \in 1 .. Len(g) : SpentNext(g[n].entry.time)
    BY <1>3, <1>4, <2>3
  <2> QED
    BY <2>4 DEF g
<1>5. ASSUME NEW w \in Writers, NEW e \in Journaled, CountLines(w, e)
      PROVE  Leftovers'
  <2>1. UNCHANGED <<file, open, written, torn>>
    BY <1>5 DEF CountLines
  <2>2. Scanning' = Scanning
    BY <2>1 DEF Scanning
  <2>3. Scanning.state = "in_body" => SpentNext(Scanning.current.time)
    <3> SUFFICES ASSUME Scanning.state = "in_body" PROVE SpentNext(Scanning.current.time)
      OBVIOUS
    <3>1. Scanning.current.time \in Nat /\ Spent(Scanning.current.time)
      BY <1>1, ScanningTimes DEF Leftovers
    <3> QED
      BY <1>1, <3>1, SpentStep
  <2> QED
    BY <1>1, <1>3, <2>1, <2>2, <2>3 DEF Leftovers, Spent
<1>6. ASSUME NEW w \in Writers, WriteBlock(w)
      PROVE  Leftovers'
  <2> DEFINE t == Owner(Scanning, loc[w].entry)
  <2>1. PICK f \in Founds : Scanning'.entries = Append(E, f) /\ f.entry.time = t
    BY <1>1, <1>6, Wrote DEF Leftovers
  <2>2. Scanning'.state = "idle" /\ Scanning'.failed = FALSE
    BY <1>1, <1>6, Wrote DEF Leftovers
  <2>3. open' = FALSE
    BY <1>6 DEF WriteBlock
  <2>4. SpentNext(t)
    BY <1>6, OwnerSpent
  <2>5. \A n \in 1 .. Len(Scanning'.entries) : SpentNext(Scanning'.entries[n].entry.time)
    <3> HIDE DEF E, SpentNext, t
    <3> QED
      BY <1>4, <2>1, <2>4
  <2> QED
    BY <2>2, <2>3, <2>5 DEF Leftovers, Spent
<1>7. ASSUME NEW w \in Writers, TearBlock(w)
      PROVE  Leftovers'
  <2> DEFINE t == Owner(Scanning, loc[w].entry)
  <2>1. SpentNext(t) /\ \A i \in 1 .. Len(written) : t # written[i].entry.time
    BY <1>7, OwnerSpent
  <2>2. /\ Scanning'.failed = FALSE
        /\ \/ /\ Scanning'.entries = E
              /\ Scanning'.state = "in_body" => Scanning'.current.time = t
           \/ /\ Scanning'.state = "idle"
              /\ \E f \in Founds : Scanning'.entries = Append(E, f) /\ f.entry.time = t
    BY <1>1, <1>7, Tore DEF Leftovers
  <2>3. torn' = Append(torn, Len(written)) /\ written' = written
    BY <1>7 DEF TearBlock
  <2>4. Len(written') \in Range(torn')
    <3>1. torn \in Seq(Nat) /\ Len(written) \in Nat
      BY <1>1, WrittenTimes DEF FileType
    <3>2. Len(torn) + 1 \in DOMAIN torn' /\ torn'[Len(torn) + 1] = Len(written)
      BY <2>3, <3>1
    <3> QED
      BY <2>3, <3>2 DEF Range
  <2>5. \A n \in 1 .. Len(Scanning'.entries) : SpentNext(Scanning'.entries[n].entry.time)
    <3> HIDE DEF E, SpentNext, t
    <3>1. CASE Scanning'.entries = E
      BY <1>3, <3>1
    <3>2. CASE \E f \in Founds : Scanning'.entries = Append(E, f) /\ f.entry.time = t
      BY <1>4, <2>1, <3>2
    <3> QED
      BY <2>2, <3>1, <3>2
  <2>6. Scanning'.state = "in_body" => Scanning'.current.time = t
    BY <2>2
  <2> HIDE DEF t
  <2> QED
    BY <2>1, <2>2, <2>3, <2>4, <2>5, <2>6 DEF Leftovers, Spent
<1> QED
  BY <1>5, <1>6, <1>7 DEF Next

LEMMA MatchedStep ==
  ASSUME NoLongLines, FileInv, Next
  PROVE  Matched(written, Undamaged, Scanning.entries)'
<1> DEFINE E == Scanning.entries
           S == [entry : EntryRecords, line : Nat]
           N == Len(written)
<1>1. FileType /\ TimesDiffer /\ Leftovers /\ Matched(written, Undamaged, E)
  BY DEF FileInv
<1>2. E \in Seq(Founds) /\ Len(E) \in Nat
  BY <1>1, ScanningType
<1>3. written \in Seq(S) /\ N \in Nat /\ torn \in Seq(Nat)
  BY <1>1 DEF FileType
<1>4. Undamaged \subseteq 1 .. N
  BY <1>3 DEF Undamaged
<1>5. ASSUME NEW w \in Writers, NEW e \in Journaled, CountLines(w, e)
      PROVE  Matched(written, Undamaged, Scanning.entries)'
  <2>1. UNCHANGED <<file, open, written, torn>>
    BY <1>5 DEF CountLines
  <2>2. Scanning' = Scanning /\ Undamaged' = Undamaged
    BY <2>1 DEF Scanning, Undamaged
  <2> QED
    BY <1>1, <2>1, <2>2
<1>6. ASSUME NEW w \in Writers, WriteBlock(w)
      PROVE  Matched(written, Undamaged, Scanning.entries)'
  <2> DEFINE e == loc[w].entry
             x == [entry |-> e, line |-> HeadingLine(loc[w].existing)]
             t == Owner(Scanning, e)
  <2>1. PICK f \in Founds :
           /\ Scanning'.entries = Append(E, f) /\ f.entry.time = t
           /\ Scanning.state = "idle" => f = [entry |-> ReadBack(e), line |-> Resumed.lineNo + 1]
    BY <1>1, <1>6, Wrote DEF Leftovers
  <2>2. written' = Append(written, x) /\ torn' = torn
    BY <1>6 DEF WriteBlock
  <2>3. e \in EntryRecords /\ x \in S /\ x.entry = e
    BY <1>1, <1>6, Lands DEF HeadingLine, FileType
  <2>4. \A i \in 1 .. N : t # written[i].entry.time
    BY <1>6, OwnerSpent
  <2>5. w \in InFlight
    BY <1>1, <1>6, Lands
  <2>6. \A n \in 1 .. Len(E) : E[n].entry.time # e.time
    BY <1>1, <2>5 DEF Leftovers, Spent
  <2> HIDE DEF e, x, t, S, E
  <2>7. DOMAIN written' = 1 .. N + 1
    BY <1>3, <2>2, <2>3
  <2>8. DOMAIN written = 1 .. N
    BY <1>3
  <2>9. CASE N \notin Range(torn)
    <3>1. Undamaged' = Undamaged \cup {N + 1}
      BY <1>3, <2>2, <2>7, <2>8, <2>9 DEF Undamaged
    <3>2. f.entry = ReadBack(x.entry)
      BY <1>1, <2>1, <2>3, <2>9 DEF Leftovers
    <3>3. Matched(Append(written, x), Undamaged \cup {N + 1}, Append(E, f))
      BY <1>1, <1>2, <1>3, <1>4, <2>3, <2>6, <3>2, MatchedNew
    <3> QED
      BY <2>1, <2>2, <3>1, <3>3
  <2>10. CASE N \in Range(torn)
    <3>1. Undamaged' = Undamaged
      <4>1. \A i \in 1 .. N + 1 : i - 1 \notin Range(torn) => i \in 1 .. N
        BY <1>3, <2>10
      <4>2. 1 .. N \subseteq 1 .. N + 1
        BY <1>3
      <4>3. torn' = torn
        BY <2>2
      <4> QED
        BY <2>7, <2>8, <4>1, <4>2, <4>3 DEF Undamaged
    <3>2. \A i \in Undamaged : f.entry.time # written[i].entry.time
      BY <1>4, <2>1, <2>4
    <3>3. Matched(written, Undamaged, Append(E, f))
      BY <1>1, <1>2, <3>2, MatchedLonger
    <3>4. Matched(Append(written, x), Undamaged, Append(E, f))
      BY <1>3, <1>4, <2>3, <3>3, MatchedAppended
    <3> QED
      BY <2>1, <2>2, <3>1, <3>4
  <2> QED
    BY <2>9, <2>10
<1>7. ASSUME NEW w \in Writers, TearBlock(w)
      PROVE  Matched(written, Undamaged, Scanning.entries)'
  <2> DEFINE t == Owner(Scanning, loc[w].entry)
  <2>1. \/ Scanning'.entries = E
        \/ \E f \in Founds : Scanning'.entries = Append(E, f) /\ f.entry.time = t
    BY <1>1, <1>7, Tore DEF Leftovers
  <2>2. torn' = Append(torn, N) /\ written' = written
    BY <1>7 DEF TearBlock
  <2>3. \A i \in 1 .. N : t # written[i].entry.time
    BY <1>7, OwnerSpent
  <2>4. Undamaged' = Undamaged
    <3>1. Range(torn') = Range(torn) \cup {N}
      <4>1. /\ DOMAIN torn' = 1 .. Len(torn) + 1 /\ DOMAIN torn = 1 .. Len(torn)
            /\ Len(torn) \in Nat /\ torn'[Len(torn) + 1] = N
            /\ \A i \in 1 .. Len(torn) : torn'[i] = torn[i]
        BY <1>3, <2>2
      <4> QED
        BY <4>1 DEF Range
    <3>2. \A i \in DOMAIN written : i - 1 # N
      BY <1>3
    <3> QED
      BY <2>2, <3>1, <3>2 DEF Undamaged
  <2> HIDE DEF t, E
  <2>5. CASE Scanning'.entries = E
    BY <1>1, <2>2, <2>4, <2>5
  <2>6. CASE \E f \in Founds : Scanning'.entries = Append(E, f) /\ f.entry.time = t
    <3>1. PICK f \in Founds : Scanning'.entries = Append(E, f) /\ f.entry.time = t
      BY <2>6
    <3>2. \A i \in Undamaged : f.entry.time # written[i].entry.time
      BY <1>4, <2>3, <3>1
    <3>3. Matched(written, Undamaged, Append(E, f))
      BY <1>1, <1>2, <3>2, MatchedLonger
    <3> QED
      BY <2>2, <2>4, <3>1, <3>3
  <2> QED
    BY <2>1, <2>5, <2>6
<1> QED
  BY <1>5, <1>6, <1>7 DEF Next

LEMMA WholeStep ==
  ASSUME NoLongLines, FileInv, Next
  PROVE  Whole'
<1> DEFINE E == Scanning.entries
           S == [entry : EntryRecords, line : Nat]
           N == Len(written)
<1>1. FileType /\ Leftovers /\ Whole
  BY DEF FileInv
<1>2. E \in Seq(Founds) /\ Len(E) \in Nat /\ written \in Seq(S) /\ N \in Nat /\ torn \in Seq(Nat)
  BY <1>1, ScanningType DEF FileType
<1>3. ASSUME NEW w \in Writers, NEW e \in Journaled, CountLines(w, e)
      PROVE  Whole'
  <2>1. UNCHANGED <<file, open, written, torn>>
    BY <1>3 DEF CountLines
  <2>2. Scanning' = Scanning
    BY <2>1 DEF Scanning
  <2> QED
    BY <1>1, <2>1, <2>2 DEF Whole
<1>4. ASSUME NEW w \in Writers, WriteBlock(w)
      PROVE  Whole'
  <2> DEFINE e == loc[w].entry
             x == [entry |-> e, line |-> HeadingLine(loc[w].existing)]
  <2>1. PICK f \in Founds :
           /\ Scanning'.entries = Append(E, f)
           /\ Scanning.state = "idle" => f = [entry |-> ReadBack(e), line |-> Resumed.lineNo + 1]
    BY <1>1, <1>4, Wrote DEF Leftovers
  <2>2. Scanning'.state = "idle"
    BY <1>1, <1>4, Wrote DEF Leftovers
  <2>3. written' = Append(written, x) /\ torn' = torn /\ open' = FALSE
    BY <1>4 DEF WriteBlock
  <2>4. x \in S /\ x.entry = e
    BY <1>1, <1>4, Lands DEF HeadingLine, FileType
  <2> SUFFICES ASSUME torn = <<>>
               PROVE  /\ Len(Scanning'.entries) = Len(written')
                      /\ \A i \in 1 .. Len(written') :
                            Scanning'.entries[i].entry = ReadBack(written'[i].entry)
    BY <2>2, <2>3 DEF Whole
  <2>5. /\ f.entry = ReadBack(e) /\ Len(E) = N
        /\ \A i \in 1 .. N : E[i].entry = ReadBack(written[i].entry)
    BY <1>1, <2>1 DEF Whole
  <2> HIDE DEF e, x, E, S
  <2>6. /\ Len(Scanning'.entries) = N + 1 /\ Scanning'.entries[N + 1] = f
        /\ \A i \in 1 .. N : Scanning'.entries[i] = E[i]
    BY <1>2, <2>1, <2>5
  <2>7. Len(written') = N + 1 /\ written'[N + 1] = x /\ \A i \in 1 .. N : written'[i] = written[i]
    BY <1>2, <2>3, <2>4
  <2>8. \A i \in 1 .. N + 1 : i \in 1 .. N \/ i = N + 1
    BY <1>2
  <2> HIDE DEF N
  <2> QED
    BY <2>4, <2>5, <2>6, <2>7, <2>8
<1>5. ASSUME NEW w \in Writers, TearBlock(w)
      PROVE  Whole'
  <2>1. torn' = Append(torn, N)
    BY <1>5 DEF TearBlock
  <2>2. torn' # <<>>
    BY <1>2, <2>1
  <2> QED
    BY <2>2 DEF Whole
<1> QED
  BY <1>3, <1>4, <1>5 DEF Next

LEMMA FileNext == ASSUME NoLongLines PROVE FileInv /\ [Next]_vars => FileInv'
<1> SUFFICES ASSUME FileInv, [Next]_vars PROVE FileInv'
  OBVIOUS
<1>1. CASE Next
  BY <1>1, TypeStep, TimesStep, LeftoversStep, MatchedStep, WholeStep DEF FileInv
<1>2. CASE UNCHANGED vars
  BY <1>2 DEF vars, FileInv, FileType, TimesDiffer, Leftovers, Whole, Spent, InFlight,
              Scanning, Undamaged
<1> QED
  BY <1>1, <1>2

\* What the parser returns for the file.
LEMMA ParsedFile ==
  ASSUME FileInv
  PROVE  /\ Parsed(file).ok /\ Parsed(file).entries = Scanning.entries
         /\ FoundEntries = [i \in 1 .. Len(Scanning.entries) |-> Scanning.entries[i].entry]
<1>1. Scanning.failed = FALSE /\ Scanning.entries \in Seq(Founds)
  BY ScanningType DEF FileInv, Leftovers
<1>2. Scan!After(Scanner, file) = Scanning
  BY DEF Scanning, Scanned
<1>3. Parsed(file) = [ok |-> TRUE, entries |-> Scanning.entries]
  BY <1>1, <1>2 DEF Parsed
<1>4. DOMAIN Scanning.entries = 1 .. Len(Scanning.entries)
  BY <1>1
<1> QED
  BY <1>3, <1>4 DEF FoundEntries

\* INV1 for any number of processes and appends: no body and no interleaving makes
\* the parser return other entries than those appended, or in another order.
THEOREM LogIsReadBack ==
  ASSUME NoLongLines
  PROVE  Spec => []ReadsWhatWasWritten
<1>1. FileInv => ReadsWhatWasWritten
  <2> SUFFICES ASSUME FileInv, torn = <<>> PROVE FoundEntries = ReadBackAll(written)
    BY DEF ReadsWhatWasWritten
  <2> DEFINE E == Scanning.entries
             S == [entry : EntryRecords, line : Nat]
  <2>1. FoundEntries = [i \in 1 .. Len(E) |-> E[i].entry]
    BY ParsedFile
  <2>2. Len(E) = Len(written) /\ \A i \in 1 .. Len(written) : E[i].entry = ReadBack(written[i].entry)
    BY DEF FileInv, Whole
  <2>3. written \in Seq(S)
    BY DEF FileInv, FileType
  <2> HIDE DEF E, S
  <2>4. DOMAIN written = 1 .. Len(written)
    BY <2>3
  <2> QED
    BY <2>1, <2>2, <2>4 DEF ReadBackAll
<1> QED
  BY <1>1, FileInit, FileNext, PTL DEF Spec

\* INV2 for any number of torn writes, of any processes, wherever each is cut: the
\* entries not appended right after one are found, in order, and no other entry
\* found can be taken for one of them.
THEOREM TearsAreLocal ==
  ASSUME NoLongLines
  PROVE  Spec => []TearsStayLocal
<1>1. FileInv => TearsStayLocal
  <2> SUFFICES ASSUME FileInv PROVE TearsStayLocal
    OBVIOUS
  <2> DEFINE E == Scanning.entries
             found == FoundEntries
  <2>1. found = [i \in 1 .. Len(E) |-> E[i].entry]
    BY ParsedFile
  <2>2. PICK at : MatchedBy(at, written, Undamaged, E)
    BY DEF FileInv, Matched
  <2>3. Undamaged \subseteq 1 .. Len(written)
    BY DEF FileInv, FileType, Undamaged
  <2>4. \A i \in Undamaged : ReadBack(written[i].entry).time = written[i].entry.time
    BY <2>3, WrittenTimes, ReadBackTime DEF FileInv
  <2> HIDE DEF E, found
  <2>5. DOMAIN found = 1 .. Len(E) /\ \A n \in 1 .. Len(E) : found[n] = E[n].entry
    BY <2>1
  <2>6. at \in [Undamaged -> DOMAIN found]
    BY <2>2, <2>5 DEF MatchedBy
  <2>7. \A i \in Undamaged : found[at[i]] = ReadBack(written[i].entry)
    BY <2>2, <2>5, <2>6 DEF MatchedBy
  <2>8. \A n \in DOMAIN found \ Range(at) :
           \A i \in Undamaged : found[n] # ReadBack(written[i].entry)
    <3> TAKE n \in DOMAIN found \ Range(at)
    <3> TAKE i \in Undamaged
    <3>1. ~ \E j \in Undamaged : n = at[j]
      BY <2>6 DEF Range
    <3>2. E[n].entry.time # written[i].entry.time
      BY <2>2, <2>5, <3>1 DEF MatchedBy
    <3> QED
      BY <2>4, <2>5, <3>2
  <2>9. Matches(at, found)
    BY <2>2, <2>7, <2>8 DEF Matches, MatchedBy
  <2> QED
    BY <2>6, <2>9 DEF TearsStayLocal, found
<1> QED
  BY <1>1, FileInit, FileNext, PTL DEF Spec

\* A log without an overlong line can be parsed, whatever the torn writes left in
\* it: the overlong line of MCMarkdown_bodies is the only kind that breaks a rescan.
THEOREM LogAlwaysParses ==
  ASSUME NoLongLines
  PROVE  Spec => []AlwaysParses
<1>1. FileInv => AlwaysParses
  BY ParsedFile DEF AlwaysParses
<1> QED
  BY <1>1, FileInit, FileNext, PTL DEF Spec

-----------------------------------------------------------------------------
(* One process *)

\* The lines that the process counted are those of the file, and the headings of the
\* entries found are where it said.
Counted ==
    /\ \A w \in InFlight : loc[w].existing = Len(file)
    /\ torn = <<>> =>
        /\ Len(written) > 0 => Len(file) > 0
        /\ \A i \in 1 .. Len(written) : i > 1 => written[i].line = Scanning.entries[i].line

LEMMA CountedStep ==
  ASSUME NoLongLines, \A v, w \in Writers : v = w, FileInv, Counted, Next
  PROVE  Counted'
<1> DEFINE E == Scanning.entries
           S == [entry : EntryRecords, line : Nat]
           N == Len(written)
<1>1. FileType /\ Leftovers /\ Whole
  BY DEF FileInv
<1>2. E \in Seq(Founds) /\ Len(E) \in Nat /\ written \in Seq(S) /\ N \in Nat /\ torn \in Seq(Nat)
      /\ Len(file) \in Nat
  BY <1>1, ScanningType DEF FileType
<1>3. InFlight \subseteq Writers
  BY DEF InFlight
<1>4. ASSUME NEW w \in Writers, NEW e \in Journaled, CountLines(w, e)
      PROVE  Counted'
  <2>1. UNCHANGED <<file, open, written, torn>>
    BY <1>4 DEF CountLines
  <2>2. Scanning' = Scanning
    BY <2>1 DEF Scanning
  <2>3. InFlight' = InFlight \cup {w} /\ loc'[w].existing = Len(file)
    BY <1>1, <1>4, TakesOff
  <2>4. \A v \in InFlight' : v = w
    BY <1>3, <2>3
  <2> QED
    BY <2>1, <2>2, <2>3, <2>4 DEF Counted
<1>5. ASSUME NEW w \in Writers, WriteBlock(w)
      PROVE  Counted'
  <2> DEFINE e == loc[w].entry
             x == [entry |-> e, line |-> HeadingLine(loc[w].existing)]
  <2>1. w \in InFlight /\ InFlight' = InFlight \ {w}
    BY <1>1, <1>5, Lands
  <2>2. InFlight' = {}
    BY <1>3, <2>1
  <2>3. PICK f \in Founds :
           /\ Scanning'.entries = Append(E, f)
           /\ Scanning.state = "idle" => f = [entry |-> ReadBack(e), line |-> Resumed.lineNo + 1]
    BY <1>1, <1>5, Wrote DEF Leftovers
  <2>4. Len(file') > 0 \/ open
    BY <1>1, <1>5, Wrote DEF Leftovers
  <2>5. written' = Append(written, x) /\ torn' = torn
    BY <1>5 DEF WriteBlock
  <2>6. x \in S /\ x.line = HeadingLine(Len(file))
    <3>1. e \in EntryRecords /\ loc[w].existing = Len(file)
      BY <1>1, <1>5, <2>1, Lands DEF Counted
    <3> QED
      BY <1>2, <3>1 DEF HeadingLine
  <2>7. torn = <<>> => /\ open = FALSE /\ f.line = Len(file) + 2 /\ Len(E) = N
    <3> SUFFICES ASSUME torn = <<>> PROVE open = FALSE /\ f.line = Len(file) + 2 /\ Len(E) = N
      OBVIOUS
    <3>1. open = FALSE /\ Scanning.state = "idle" /\ Len(E) = N
      BY <1>1 DEF Whole
    <3>2. f.line = Resumed.lineNo + 1
      BY <2>3, <3>1
    <3>3. Resumed.lineNo = Len(file) + 1
      BY <1>1, <3>1, ResumedType
    <3> QED
      BY <1>2, <3>1, <3>2, <3>3
  <2> HIDE DEF x, e, S, E
  <2>8. torn = <<>> => Len(file') > 0
    BY <2>4, <2>7
  <2>9. Len(written') = N + 1 /\ written'[N + 1] = x /\ \A i \in 1 .. N : written'[i] = written[i]
    BY <1>2, <2>5, <2>6
  <2>10. ASSUME torn = <<>>, NEW i \in 1 .. Len(written'), i > 1
         PROVE  written'[i].line = Scanning'.entries[i].line
    <3>1. /\ Scanning'.entries[N + 1] = f
          /\ \A j \in 1 .. N : Scanning'.entries[j] = E[j]
      BY <1>2, <2>3, <2>7, <2>10
    <3>2. CASE i = N + 1
      <4>1. Len(file) > 0
        BY <1>2, <2>10, <3>2 DEF Counted
      <4>2. x.line = Len(file) + 2
        BY <2>6, <4>1 DEF HeadingLine
      <4> QED
        BY <2>7, <2>9, <2>10, <3>1, <3>2, <4>2
    <3>3. CASE i # N + 1
      <4>1. i \in 1 .. N
        BY <1>2, <2>9, <3>3
      <4>2. written[i].line = E[i].line
        BY <2>10, <4>1 DEF Counted, E
      <4> QED
        BY <2>9, <3>1, <4>1, <4>2
    <3> QED
      BY <3>2, <3>3
  <2> QED
    BY <2>2, <2>5, <2>8, <2>10 DEF Counted
<1>6. ASSUME NEW w \in Writers, TearBlock(w)
      PROVE  Counted'
  <2>1. w \in InFlight /\ InFlight' = InFlight \ {w}
    BY <1>1, <1>6, Lands
  <2>2. InFlight' = {}
    BY <1>3, <2>1
  <2>3. torn' = Append(torn, N)
    BY <1>6 DEF TearBlock
  <2>4. torn' # <<>>
    BY <1>2, <2>3
  <2> QED
    BY <2>2, <2>4 DEF Counted
<1> QED
  BY <1>4, <1>5, <1>6 DEF Next

\* INV3 for one process and any entries: the lines it reports are those the parser
\* finds, from the second entry of the file on.
THEOREM LinesAreReported ==
  ASSUME NoLongLines, \A v, w \in Writers : v = w
  PROVE  Spec => []LinesAgree
<1>1. Init => Counted
  <2> SUFFICES ASSUME Init PROVE Counted
    OBVIOUS
  <2>1. InFlight = {} /\ written = <<>>
    BY DEF Init, InFlight
  <2> QED
    BY <2>1 DEF Counted
<1>2. FileInv /\ Counted /\ [Next]_vars => Counted'
  <2> SUFFICES ASSUME FileInv, Counted, [Next]_vars PROVE Counted'
    OBVIOUS
  <2>1. CASE Next
    BY <2>1, CountedStep
  <2>2. CASE UNCHANGED vars
    BY <2>2 DEF vars, Counted, InFlight, Scanning
  <2> QED
    BY <2>1, <2>2
<1>3. FileInv /\ Counted => LinesAgree
  <2> SUFFICES ASSUME FileInv, Counted PROVE LinesAgree
    OBVIOUS
  <2>1. Parsed(file).entries = Scanning.entries
    BY ParsedFile
  <2>2. DOMAIN written = 1 .. Len(written)
    BY DEF FileInv, FileType
  <2> QED
    BY <2>1, <2>2 DEF Counted, LinesAgree
<1> QED
  BY <1>1, <1>2, <1>3, FileInit, FileNext, PTL DEF Spec
=============================================================================
