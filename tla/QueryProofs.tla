----------------------------- MODULE QueryProofs -----------------------------
(***************************************************************************)
(* That FTS5 can read what sanitizeFTSQuery makes of any query, reads the  *)
(* syntax that has no operators of one character as it was written, and    *)
(* reads a question as its keywords, proved for queries of any length over *)
(* any words.                                                              *)
(***************************************************************************)
EXTENDS QueryProperties, FiniteSetTheorems, SequenceTheorems, TLAPS

LexFacts == INSTANCE LoopProofs WITH Step <- ReadSymbol
SanitizeFacts == INSTANCE LoopProofs WITH Step <- SanitizePlace
TakeFacts == INSTANCE LoopProofs WITH Step <- TakeKeyword
JoinFacts == INSTANCE LoopProofs WITH Step <- JoinKeyword
-----------------------------------------------------------------------------
(* The lexer *)

Symbols == Words \cup Marks

Tokens == [kind : {"word", "string", "star", "open", "close", "operator"}, text : Seq(Symbols)]

Modes == {"space", "word", "string", "after quote", "error"}

Readers == [inside : Modes, text : Seq(Symbols), toks : Seq(Tokens)]

Reader(inside, text, toks) == [inside |-> inside, text |-> text, toks |-> toks]

Start == [inside |-> "space", text |-> <<>>, toks |-> <<>>]

\* What the lexer has made of q, begun in state s.
Read(s, q) == LexFacts!After(s, q)

\* Not inside a string, and nothing unreadable so far.
Settled(s) == s.inside \in {"space", "word", "after quote"}

LEMMA LexedIs == \A q : Lexed(q) = Complete(Read(Start, q))
BY DEF Lexed, Read, Start, Lexing!After, LexFacts!After

LEMMA WordsAreNoMarks ==
  /\ \A c \in WordLike : c \in Symbols /\ c \notin Parts \cup {"star", "operator", "other"}
  /\ \A c \in Symbols \ WordLike : c \in Parts \cup {"star", "operator", "other"}
BY WordsAssumption DEF WordLike, Symbols, Marks, Parts

LEMMA TokenType ==
  \A kind \in {"word", "string", "star", "open", "close", "operator"}, text \in Seq(Symbols) :
      Token(kind, text) \in Tokens
BY DEF Token, Tokens

LEMMA ReaderIs ==
  ASSUME NEW inside \in Modes, NEW text \in Seq(Symbols), NEW toks \in Seq(Tokens)
  PROVE  LET s == Reader(inside, text, toks)
         IN  s \in Readers /\ s.inside = inside /\ s.text = text /\ s.toks = toks
BY DEF Reader, Readers

LEMMA ReaderWith ==
  ASSUME NEW s \in Readers
  PROVE  /\ s.inside \in Modes /\ s.text \in Seq(Symbols) /\ s.toks \in Seq(Tokens)
         /\ \A inside : [s EXCEPT !.inside = inside] = Reader(inside, s.text, s.toks)
         /\ \A text : [s EXCEPT !.text = text] = Reader(s.inside, text, s.toks)
         /\ \A toks : [s EXCEPT !.toks = toks] = Reader(s.inside, s.text, toks)
         /\ \A inside, text : [s EXCEPT !.inside = inside, !.text = text] = Reader(inside, text, s.toks)
         /\ \A inside, toks : [s EXCEPT !.inside = inside, !.toks = toks] = Reader(inside, s.text, toks)
<1>1. s.inside \in Modes /\ s.text \in Seq(Symbols) /\ s.toks \in Seq(Tokens)
  BY DEF Readers
<1> DEFINE A == Modes
           B == Seq(Symbols)
           C == Seq(Tokens)
<1>2. s \in [inside : A, text : B, toks : C]
  BY DEF Readers
<1> HIDE DEF A, B, C
<1>3. \A inside : [s EXCEPT !.inside = inside] = Reader(inside, s.text, s.toks)
  BY <1>2 DEF Reader
<1>4. \A text : [s EXCEPT !.text = text] = Reader(s.inside, text, s.toks)
  BY <1>2 DEF Reader
<1>5. \A toks : [s EXCEPT !.toks = toks] = Reader(s.inside, s.text, toks)
  BY <1>2 DEF Reader
<1>6. \A a, b, c, text : [Reader(a, b, c) EXCEPT !.text = text] = Reader(a, text, c)
  BY DEF Reader
<1>7. \A a, b, c, toks : [Reader(a, b, c) EXCEPT !.toks = toks] = Reader(a, b, toks)
  BY DEF Reader
<1>8. ASSUME NEW inside, NEW text
      PROVE  [s EXCEPT !.inside = inside, !.text = text] = Reader(inside, text, s.toks)
  <2> DEFINE r == [s EXCEPT !.inside = inside]
  <2>1. r = Reader(inside, s.text, s.toks)
    BY <1>3
  <2>2. [s EXCEPT !.inside = inside, !.text = text] = [r EXCEPT !.text = text]
    OBVIOUS
  <2> HIDE DEF r
  <2> QED
    BY <1>6, <2>1, <2>2
<1>9. ASSUME NEW inside, NEW toks
      PROVE  [s EXCEPT !.inside = inside, !.toks = toks] = Reader(inside, s.text, toks)
  <2> DEFINE r == [s EXCEPT !.inside = inside]
  <2>1. r = Reader(inside, s.text, s.toks)
    BY <1>3
  <2>2. [s EXCEPT !.inside = inside, !.toks = toks] = [r EXCEPT !.toks = toks]
    OBVIOUS
  <2> HIDE DEF r
  <2> QED
    BY <1>7, <2>1, <2>2
<1> QED
  BY <1>1, <1>3, <1>4, <1>5, <1>8, <1>9

LEMMA CompleteIs ==
  ASSUME NEW s \in Readers
  PROVE  /\ Complete(s) \in Readers
         /\ Settled(s) => Complete(s).inside = "space"
         /\ ~Settled(s) => Complete(s) = s
         /\ s.inside = "space" => Complete(s) = s
         /\ s.inside = "word" => Complete(s).toks = Append(s.toks, Token("word", s.text))
<1> DEFINE word == Append(s.toks, Token("word", s.text))
           string == Append(s.toks, Token("string", s.text))
<1>1. word \in Seq(Tokens) /\ string \in Seq(Tokens) /\ s.text \in Seq(Symbols)
  <2>1. s.text \in Seq(Symbols) /\ s.toks \in Seq(Tokens)
    BY ReaderWith
  <2>2. Token("word", s.text) \in Tokens /\ Token("string", s.text) \in Tokens
    BY <2>1, TokenType
  <2> QED
    BY <2>1, <2>2
<1>2. \A inside, toks : [s EXCEPT !.inside = inside, !.toks = toks] = Reader(inside, s.text, toks)
  BY ReaderWith
<1>3. CASE s.inside = "word"
  <2>1. Complete(s) = [s EXCEPT !.inside = "space", !.toks = word]
    BY <1>3 DEF Complete
  <2> HIDE DEF word
  <2>2. [s EXCEPT !.inside = "space", !.toks = word] = Reader("space", s.text, word)
    BY <1>2
  <2>3. "space" \in Modes
    BY DEF Modes
  <2>4. Complete(s) \in Readers /\ Complete(s).inside = "space" /\ Complete(s).toks = word
    BY <1>1, <2>1, <2>2, <2>3, ReaderIs
  <2> QED
    BY <1>3, <2>4 DEF Settled, word
<1>4. CASE s.inside = "after quote"
  <2>1. Complete(s) = [s EXCEPT !.inside = "space", !.toks = string]
    BY <1>4 DEF Complete
  <2> HIDE DEF string
  <2>2. [s EXCEPT !.inside = "space", !.toks = string] = Reader("space", s.text, string)
    BY <1>2
  <2>3. "space" \in Modes
    BY DEF Modes
  <2>4. Complete(s) \in Readers /\ Complete(s).inside = "space"
    BY <1>1, <2>1, <2>2, <2>3, ReaderIs
  <2> QED
    BY <1>4, <2>4 DEF Settled
<1>5. CASE s.inside \notin {"word", "after quote"}
  <2>1. Complete(s) = s
    BY <1>5 DEF Complete
  <2> QED
    BY <1>5, <2>1 DEF Settled
<1> QED
  BY <1>3, <1>4, <1>5

LEMMA OutsideIs ==
  ASSUME NEW s \in Readers, NEW c \in Symbols
  PROVE  /\ c \in WordLike => Outside(s, c) = Reader("word", <<c>>, s.toks)
         /\ c = "quote" => Outside(s, c) = Reader("string", <<>>, s.toks)
         /\ c \in {"star", "open", "close", "operator"} =>
               Outside(s, c) = Reader(s.inside, s.text, Append(s.toks, Token(c, <<>>)))
         /\ c = "space" => Outside(s, c) = s
         /\ c = "other" => Outside(s, c) = Reader("error", s.text, s.toks)
<1> DEFINE more == Append(s.toks, Token(c, <<>>))
<1>1. c \in WordLike => c \notin {"quote", "star", "open", "close", "operator", "space", "other"}
  BY WordsAreNoMarks DEF Parts
<1>2. ASSUME c \in WordLike PROVE Outside(s, c) = Reader("word", <<c>>, s.toks)
  <2>1. Outside(s, c) = [s EXCEPT !.inside = "word", !.text = <<c>>]
    BY <1>1, <1>2 DEF Outside
  <2> QED
    BY <2>1, ReaderWith
<1>3. ASSUME c = "quote" PROVE Outside(s, c) = Reader("string", <<>>, s.toks)
  <2>1. Outside(s, c) = [s EXCEPT !.inside = "string", !.text = <<>>]
    BY <1>1, <1>3 DEF Outside
  <2> QED
    BY <2>1, ReaderWith
<1>4. ASSUME c \in {"star", "open", "close", "operator"} PROVE Outside(s, c) = Reader(s.inside, s.text, more)
  <2>1. Outside(s, c) = [s EXCEPT !.toks = more]
    BY <1>1, <1>4 DEF Outside
  <2> HIDE DEF more
  <2> QED
    BY <2>1, ReaderWith
<1>5. ASSUME c = "space" PROVE Outside(s, c) = s
  BY <1>1, <1>5 DEF Outside
<1>6. ASSUME c = "other" PROVE Outside(s, c) = Reader("error", s.text, s.toks)
  <2>1. Outside(s, c) = [s EXCEPT !.inside = "error"]
    BY <1>1, <1>6 DEF Outside
  <2> QED
    BY <2>1, ReaderWith
<1> QED
  BY <1>2, <1>3, <1>4, <1>5, <1>6

\* Where the symbol c takes the lexer from mode m: to mode n.
Moves(m, c, n) ==
  LET settled == m \in {"space", "word", "after quote"}
  IN  /\ m = "error" => n = "error"
      /\ m = "string" /\ c # "quote" => n = "string"
      /\ m = "string" /\ c = "quote" => n = "after quote"
      /\ settled /\ c = "quote" => n = "string"
      /\ settled /\ c \in WordLike => n = "word"
      /\ settled /\ c \in {"space", "open", "close", "star", "operator"} => n = "space"
      /\ settled /\ c = "other" => n = "error"

LEMMA SymbolMoves ==
  ASSUME NEW s \in Readers, NEW c \in Symbols
  PROVE  \E n \in Modes, text \in Seq(Symbols), toks \in Seq(Tokens) :
            ReadSymbol(s, c) = Reader(n, text, toks) /\ Moves(s.inside, c, n)
<1>1. PICK x \in Seq(Symbols), y \in Seq(Tokens) : x = s.text /\ y = s.toks
  BY ReaderWith
<1>2. s.inside \in Modes
  BY ReaderWith
<1>3. /\ \A m : [s EXCEPT !.inside = m] = Reader(m, x, y)
      /\ \A u : [s EXCEPT !.text = u] = Reader(s.inside, u, y)
      /\ \A m, u : [s EXCEPT !.inside = m, !.text = u] = Reader(m, u, y)
  BY <1>1, ReaderWith
<1>4. /\ "word" \in Modes /\ "string" \in Modes /\ "after quote" \in Modes
      /\ "error" \in Modes /\ "space" \in Modes
  BY DEF Modes
<1> DEFINE longer == Append(x, c)
<1>5. longer \in Seq(Symbols)
  OBVIOUS
<1>6. longer = Append(s.text, c)
  BY <1>1
<1> HIDE DEF longer
<1>7. <<c>> \in Seq(Symbols)
  OBVIOUS
<1>8. <<>> \in Seq(Symbols)
  OBVIOUS
<1>9. /\ c \in WordLike => c \notin {"quote", "star", "open", "close", "operator", "space", "other"}
      /\ c \in WordLike \/ c \in {"quote", "star", "open", "close", "operator", "space", "other"}
  BY WordsAreNoMarks DEF Parts
<1>10. CASE s.inside = "error"
  <2>1. ReadSymbol(s, c) = s
    BY <1>10 DEF ReadSymbol
  <2>2. s = Reader("error", x, y)
    <3>1. s = [s EXCEPT !.inside = s.inside]
      BY DEF Readers
    <3> QED
      BY <1>3, <1>10, <3>1
  <2>3. Moves(s.inside, c, "error")
    BY <1>10 DEF Moves
  <2> QED
    BY <1>4, <2>1, <2>2, <2>3
<1>11. CASE s.inside = "string" /\ c = "quote"
  <2>1. ReadSymbol(s, c) = [s EXCEPT !.inside = "after quote"]
    BY <1>11 DEF ReadSymbol
  <2>2. ReadSymbol(s, c) = Reader("after quote", x, y)
    BY <1>3, <2>1
  <2>3. Moves(s.inside, c, "after quote")
    BY <1>11 DEF Moves
  <2> QED
    BY <1>4, <2>2, <2>3
<1>12. CASE s.inside = "string" /\ c # "quote"
  <2>1. ReadSymbol(s, c) = [s EXCEPT !.text = longer]
    BY <1>6, <1>12 DEF ReadSymbol
  <2>2. ReadSymbol(s, c) = Reader("string", longer, y)
    BY <1>3, <1>12, <2>1
  <2>3. Moves(s.inside, c, "string")
    BY <1>12 DEF Moves
  <2> QED
    BY <1>4, <1>5, <2>2, <2>3
<1>13. CASE s.inside = "after quote" /\ c = "quote"
  <2>1. ReadSymbol(s, c) = [s EXCEPT !.inside = "string", !.text = longer]
    BY <1>6, <1>13 DEF ReadSymbol
  <2>2. ReadSymbol(s, c) = Reader("string", longer, y)
    BY <1>3, <2>1
  <2>3. Moves(s.inside, c, "string")
    BY <1>9, <1>13 DEF Moves
  <2> QED
    BY <1>4, <1>5, <2>2, <2>3
<1>14. CASE s.inside = "word" /\ c \in WordLike
  <2>1. ReadSymbol(s, c) = [s EXCEPT !.text = longer]
    BY <1>6, <1>14 DEF ReadSymbol
  <2>2. ReadSymbol(s, c) = Reader("word", longer, y)
    BY <1>3, <1>14, <2>1
  <2>3. Moves(s.inside, c, "word")
    BY <1>9, <1>14 DEF Moves
  <2> QED
    BY <1>4, <1>5, <2>2, <2>3
<1>15. CASE /\ Settled(s)
            /\ ~(s.inside = "after quote" /\ c = "quote")
            /\ ~(s.inside = "word" /\ c \in WordLike)
  <2> DEFINE d == Complete(s)
  <2>1. ReadSymbol(s, c) = Outside(d, c)
    BY <1>15 DEF ReadSymbol, Settled
  <2>2. d \in Readers /\ d.inside = "space"
    BY <1>15, CompleteIs
  <2> HIDE DEF d
  <2>3. PICK p \in Seq(Symbols), r \in Seq(Tokens) : p = d.text /\ r = d.toks
    BY <2>2, ReaderWith
  <2> DEFINE more == Append(r, Token(c, <<>>))
  <2>4. /\ c \in WordLike => ReadSymbol(s, c) = Reader("word", <<c>>, r)
        /\ c = "quote" => ReadSymbol(s, c) = Reader("string", <<>>, r)
        /\ c \in {"star", "open", "close", "operator"} => ReadSymbol(s, c) = Reader("space", p, more)
        /\ c = "space" => ReadSymbol(s, c) = d
        /\ c = "other" => ReadSymbol(s, c) = Reader("error", p, r)
    BY <2>1, <2>2, <2>3, OutsideIs
  <2>5. d = Reader("space", p, r)
    <3>1. d = [d EXCEPT !.inside = d.inside]
      BY <2>2 DEF Readers
    <3>2. [d EXCEPT !.inside = d.inside] = Reader(d.inside, d.text, d.toks)
      BY <2>2, ReaderWith
    <3> QED
      BY <2>2, <2>3, <3>1, <3>2
  <2>6. s.inside \in {"space", "word", "after quote"}
    BY <1>15 DEF Settled
  <2>7. CASE c \in WordLike
    <3>1. Moves(s.inside, c, "word")
      BY <1>9, <2>6, <2>7 DEF Moves
    <3>2. ReadSymbol(s, c) = Reader("word", <<c>>, r)
      BY <2>4, <2>7
    <3> QED
      BY <1>4, <1>7, <3>1, <3>2
  <2>8. CASE c = "quote"
    <3>1. Moves(s.inside, c, "string")
      BY <1>9, <2>6, <2>8 DEF Moves
    <3>2. ReadSymbol(s, c) = Reader("string", <<>>, r)
      BY <2>4, <2>8
    <3> QED
      BY <1>4, <1>8, <3>1, <3>2
  <2>9. CASE c \in {"star", "open", "close", "operator"}
    <3>1. Moves(s.inside, c, "space")
      BY <1>9, <2>6, <2>9 DEF Moves
    <3>2. Token(c, <<>>) \in Tokens
      BY <1>8, <2>9, TokenType
    <3>3. more \in Seq(Tokens)
      BY <3>2
    <3>4. ReadSymbol(s, c) = Reader("space", p, more)
      BY <2>4, <2>9
    <3> HIDE DEF more
    <3> QED
      BY <1>4, <3>1, <3>3, <3>4
  <2>10. CASE c = "space"
    <3>1. Moves(s.inside, c, "space")
      BY <1>9, <2>6, <2>10 DEF Moves
    <3>2. ReadSymbol(s, c) = Reader("space", p, r)
      BY <2>4, <2>5, <2>10
    <3> QED
      BY <1>4, <3>1, <3>2
  <2>11. CASE c = "other"
    <3>1. Moves(s.inside, c, "error")
      BY <1>9, <2>6, <2>11 DEF Moves
    <3>2. ReadSymbol(s, c) = Reader("error", p, r)
      BY <2>4, <2>11
    <3> QED
      BY <1>4, <3>1, <3>2
  <2> QED
    BY <1>9, <2>7, <2>8, <2>9, <2>10, <2>11
<1> QED
  BY <1>2, <1>10, <1>11, <1>12, <1>13, <1>14, <1>15 DEF Modes, Settled

\* How one symbol moves the lexer.
LEMMA OneSymbol ==
  ASSUME NEW s \in Readers, NEW c \in Symbols
  PROVE  LET t == ReadSymbol(s, c)
         IN  t \in Readers /\ Moves(s.inside, c, t.inside)
<1>1. PICK n \in Modes, u \in Seq(Symbols), v \in Seq(Tokens) :
         ReadSymbol(s, c) = Reader(n, u, v) /\ Moves(s.inside, c, n)
  BY SymbolMoves
<1>2. Reader(n, u, v) \in Readers /\ Reader(n, u, v).inside = n
  BY ReaderIs
<1> QED
  BY <1>1, <1>2

(* Reading a text *)

LEMMA ReadNone == \A s : Read(s, <<>>) = s
BY LexFacts!AfterNone DEF Read

LEMMA ReadAppend ==
  ASSUME NEW s, NEW q \in Seq(Symbols), NEW c \in Symbols
  PROVE  Read(s, Append(q, c)) = ReadSymbol(Read(s, q), c)
BY LexFacts!AfterAppend DEF Read

LEMMA ReadConcat ==
  ASSUME NEW s, NEW q \in Seq(Symbols), NEW r \in Seq(Symbols)
  PROVE  Read(s, q \o r) = Read(Read(s, q), r)
BY LexFacts!AfterConcat DEF Read

\* M[n] holds the modes allowed after n symbols.
LEMMA ReadThrough ==
  ASSUME NEW s \in Readers, NEW q \in Seq(Symbols), NEW M,
         s.inside \in M[0],
         \A n \in 0 .. Len(q) - 1 : \A m, k \in Modes :
            m \in M[n] /\ Moves(m, q[n + 1], k) => k \in M[n + 1]
  PROVE  Read(s, q) \in Readers /\ Read(s, q).inside \in M[Len(q)]
<1> DEFINE I == [n \in 0 .. Len(q) |-> {t \in Readers : t.inside \in M[n]}]
<1>1. Len(q) \in Nat
  OBVIOUS
<1>2. s \in I[0]
  BY <1>1
<1>3. ASSUME NEW n \in 0 .. Len(q) - 1, NEW t \in I[n]
      PROVE  ReadSymbol(t, q[n + 1]) \in I[n + 1]
  <2>1. n \in 0 .. Len(q) /\ n + 1 \in 0 .. Len(q) /\ q[n + 1] \in Symbols
    OBVIOUS
  <2>2. t \in Readers /\ t.inside \in M[n]
    BY <2>1
  <2> DEFINE u == ReadSymbol(t, q[n + 1])
  <2>3. u \in Readers /\ Moves(t.inside, q[n + 1], u.inside)
    BY <2>1, <2>2, OneSymbol
  <2> HIDE DEF u
  <2>4. t.inside \in Modes /\ u.inside \in Modes
    BY <2>2, <2>3, ReaderWith
  <2>5. u.inside \in M[n + 1]
    BY <2>2, <2>3, <2>4
  <2>6. u \in I[n + 1]
    BY <2>1, <2>3, <2>5
  <2> QED
    BY <2>6 DEF u
<1>4. I[Len(q)] = {t \in Readers : t.inside \in M[Len(q)]}
  BY <1>1
<1> HIDE DEF I
<1>5. Read(s, q) \in I[Len(q)]
  BY <1>2, <1>3, LexFacts!AfterInvariant DEF Read
<1> QED
  BY <1>4, <1>5

LEMMA ReadType ==
  ASSUME NEW s \in Readers, NEW q \in Seq(Symbols)
  PROVE  Read(s, q) \in Readers
<1> DEFINE M == [n \in Nat |-> Modes]
<1>1. s.inside \in M[0]
  BY ReaderWith
<1>2. \A n \in 0 .. Len(q) - 1 : M[n + 1] = Modes
  OBVIOUS
<1> HIDE DEF M
<1> QED
  BY <1>1, <1>2, ReadThrough

Calm == {"space", "word", "after quote"}

LEMMA SettledIs == \A s : Settled(s) <=> s.inside \in Calm
BY DEF Settled, Calm

LEMMA StartIs == Start \in Readers /\ Settled(Start)
<1>1. "space" \in Modes
  BY DEF Modes
<1> QED
  BY <1>1 DEF Start, Readers, Settled

\* A text of words and stars leaves no string open and is readable.
LEMMA ReadPlain ==
  ASSUME NEW s \in Readers, Settled(s), NEW q \in Seq(Symbols),
         \A i \in 1 .. Len(q) : q[i] \in WordLike \cup Separators \cup {"star"}
  PROVE  Read(s, q) \in Readers /\ Settled(Read(s, q))
<1> DEFINE M == [n \in Nat |-> Calm]
<1>1. s.inside \in M[0]
  BY SettledIs
<1>2. ASSUME NEW n \in 0 .. Len(q) - 1, NEW m \in Calm, NEW k, Moves(m, q[n + 1], k)
      PROVE  k \in Calm
  <2>1. q[n + 1] \in WordLike \cup Separators \cup {"star"}
    OBVIOUS
  <2> QED
    BY <1>2, <2>1 DEF Moves, Calm, Separators
<1>3. \A n \in 0 .. Len(q) - 1 : M[n] = Calm /\ M[n + 1] = Calm
  OBVIOUS
<1>4. M[Len(q)] = Calm
  OBVIOUS
<1> HIDE DEF M
<1>5. Read(s, q) \in Readers /\ Read(s, q).inside \in M[Len(q)]
  BY <1>1, <1>2, <1>3, ReadThrough
<1> QED
  BY <1>4, <1>5, SettledIs

\* A phrase that is closed leaves no string open.
LEMMA ReadPhrase ==
  ASSUME NEW s \in Readers, Settled(s), NEW q \in Seq(Symbols),
         Len(q) >= 2, q[1] = "quote", q[Len(q)] = "quote",
         \A i \in 2 .. Len(q) - 1 : q[i] # "quote"
  PROVE  Read(s, q) \in Readers /\ Settled(Read(s, q))
<1> DEFINE M == [n \in Nat |-> IF n = 0 \/ n = Len(q) THEN Calm ELSE {"string"}]
<1>1. s.inside \in M[0]
  BY SettledIs
<1>2. ASSUME NEW n \in 0 .. Len(q) - 1, NEW m \in M[n], NEW k, Moves(m, q[n + 1], k)
      PROVE  k \in M[n + 1]
  <2>1. CASE n = 0
    <3>1. m \in Calm /\ q[n + 1] = "quote" /\ M[n + 1] = {"string"}
      BY <2>1
    <3> QED
      BY <1>2, <3>1 DEF Moves, Calm
  <2>2. CASE n # 0 /\ n # Len(q) - 1
    <3>1. m = "string" /\ q[n + 1] # "quote" /\ M[n + 1] = {"string"}
      BY <2>2
    <3> QED
      BY <1>2, <3>1 DEF Moves
  <2>3. CASE n = Len(q) - 1
    <3>1. m = "string" /\ q[n + 1] = "quote" /\ M[n + 1] = Calm
      BY <2>3
    <3> QED
      BY <1>2, <3>1 DEF Moves, Calm
  <2> QED
    BY <2>1, <2>2, <2>3
<1>3. M[Len(q)] = Calm
  OBVIOUS
<1> HIDE DEF M
<1>4. Read(s, q) \in Readers /\ Read(s, q).inside \in M[Len(q)]
  BY <1>1, <1>2, ReadThrough
<1> QED
  BY <1>3, <1>4, SettledIs

\* The lexer has met what it cannot read, or an operator of one character.
HasOperator(toks) == \E i \in DOMAIN toks : toks[i].kind = "operator"

Met(s) == s.inside = "error" \/ HasOperator(s.toks)

LEMMA OperatorsRemain ==
  ASSUME NEW toks \in Seq(Tokens), NEW x \in Tokens
  PROVE  HasOperator(toks) \/ x.kind = "operator" => HasOperator(Append(toks, x))
<1> DEFINE more == Append(toks, x)
<1>1. /\ DOMAIN more = 1 .. Len(toks) + 1 /\ DOMAIN toks = 1 .. Len(toks) /\ Len(toks) \in Nat
      /\ more[Len(toks) + 1] = x /\ \A i \in 1 .. Len(toks) : more[i] = toks[i]
  OBVIOUS
<1> HIDE DEF more
<1>2. HasOperator(toks) => HasOperator(more)
  BY <1>1 DEF HasOperator
<1>3. x.kind = "operator" => HasOperator(more)
  BY <1>1 DEF HasOperator
<1> QED
  BY <1>2, <1>3 DEF more

LEMMA CompleteMet ==
  ASSUME NEW s \in Readers, Met(s)
  PROVE  Met(Complete(s))
<1>1. s.text \in Seq(Symbols) /\ s.toks \in Seq(Tokens)
  BY ReaderWith
<1>2. \A toks : [s EXCEPT !.inside = "space", !.toks = toks].toks = toks
  BY DEF Readers
<1>3. CASE s.inside \in {"word", "after quote"}
  <2>1. HasOperator(s.toks)
    BY <1>3 DEF Met
  <2>2. PICK kind \in {"word", "string"} :
           Complete(s) = [s EXCEPT !.inside = "space", !.toks = Append(@, Token(kind, s.text))]
    BY <1>3 DEF Complete
  <2>3. Token(kind, s.text) \in Tokens
    BY <1>1, TokenType
  <2>4. HasOperator(Append(s.toks, Token(kind, s.text)))
    BY <1>1, <2>1, <2>3, OperatorsRemain
  <2> QED
    BY <1>2, <2>2, <2>4 DEF Met
<1>4. CASE s.inside \notin {"word", "after quote"}
  <2>1. Complete(s) = s
    BY <1>4 DEF Complete
  <2> QED
    BY <2>1
<1> QED
  BY <1>3, <1>4

\* Once met it is not forgotten; and a symbol outside strings may meet it.
LEMMA SymbolMeets ==
  ASSUME NEW s \in Readers, NEW c \in Symbols,
         Met(s) \/ (Settled(s) /\ c \in {"operator", "other"})
  PROVE  Met(ReadSymbol(s, c))
<1>1. CASE s.inside = "error"
  <2>1. ReadSymbol(s, c) = s
    BY <1>1 DEF ReadSymbol
  <2> QED
    BY <1>1, <2>1 DEF Met
<1>2. CASE \/ s.inside = "string"
           \/ s.inside = "after quote" /\ c = "quote"
           \/ s.inside = "word" /\ c \in WordLike
  <2>1. HasOperator(s.toks)
    <3>1. ~(Settled(s) /\ c \in {"operator", "other"})
      BY <1>2, WordsAreNoMarks DEF Settled
    <3> QED
      BY <1>2, <3>1 DEF Met
  <2>2. ReadSymbol(s, c).toks = s.toks
    <3>1. \A n, u : /\ [s EXCEPT !.inside = n].toks = s.toks
                    /\ [s EXCEPT !.text = u].toks = s.toks
                    /\ [s EXCEPT !.inside = n, !.text = u].toks = s.toks
      BY DEF Readers
    <3> QED
      BY <1>2, <3>1 DEF ReadSymbol
  <2> QED
    BY <2>1, <2>2 DEF Met
<1>3. CASE /\ Settled(s)
           /\ ~(s.inside = "after quote" /\ c = "quote")
           /\ ~(s.inside = "word" /\ c \in WordLike)
  <2> DEFINE d == Complete(s)
             more == Append(d.toks, Token(c, <<>>))
             t == Outside(d, c)
  <2>1. ReadSymbol(s, c) = t
    BY <1>3 DEF ReadSymbol, Settled
  <2>2. d \in Readers /\ d.inside = "space"
    BY <1>3, CompleteIs
  <2>3. HasOperator(d.toks) \/ c \in {"operator", "other"}
    <3>1. Met(s) => Met(d)
      BY CompleteMet
    <3> QED
      BY <2>2, <3>1 DEF Met
  <2> HIDE DEF d
  <2>4. d.toks \in Seq(Tokens)
    BY <2>2, ReaderWith
  <2>5. CASE c \in {"star", "open", "close", "operator"}
    <3>1. t = Reader("space", d.text, more)
      BY <2>2, <2>5, OutsideIs
    <3>2. Token(c, <<>>) \in Tokens /\ Token(c, <<>>).kind = c
      <4>1. <<>> \in Seq(Symbols)
        OBVIOUS
      <4> QED
        BY <2>5, <4>1, TokenType DEF Token
    <3>3. HasOperator(more)
      BY <2>3, <2>4, <2>5, <3>2, OperatorsRemain
    <3> HIDE DEF more, t
    <3> QED
      BY <2>1, <3>1, <3>3 DEF Met, Reader
  <2>6. CASE c = "other"
    <3>1. t = Reader("error", d.text, d.toks)
      BY <2>2, <2>6, OutsideIs
    <3> HIDE DEF t
    <3> QED
      BY <2>1, <3>1 DEF Met, Reader
  <2>7. CASE c \notin {"star", "open", "close", "operator", "other"}
    <3>1. t.toks = d.toks
      <4>1. c \in WordLike \/ c \in {"quote", "space"}
        BY <2>7, WordsAreNoMarks DEF Parts
      <4>2. CASE c \in WordLike
        <5>1. t = Reader("word", <<c>>, d.toks)
          BY <2>2, <4>2, OutsideIs
        <5> HIDE DEF t
        <5> QED
          BY <5>1 DEF Reader
      <4>3. CASE c = "quote"
        <5>1. t = Reader("string", <<>>, d.toks)
          BY <2>2, <4>3, OutsideIs
        <5> HIDE DEF t
        <5> QED
          BY <5>1 DEF Reader
      <4>4. CASE c = "space"
        <5>1. t = d
          BY <2>2, <4>4, OutsideIs
        <5> QED
          BY <5>1
      <4> QED
        BY <4>1, <4>2, <4>3, <4>4
    <3> HIDE DEF t
    <3> QED
      BY <2>1, <2>3, <2>7, <3>1 DEF Met
  <2> QED
    BY <2>5, <2>6, <2>7
<1>4. s.inside \in Modes
  BY ReaderWith
<1> QED
  BY <1>1, <1>2, <1>3, <1>4 DEF Modes, Settled

LEMMA MetRemains ==
  ASSUME NEW s \in Readers, Met(s), NEW q \in Seq(Symbols)
  PROVE  Met(Read(s, q))
<1> DEFINE I == [n \in Nat |-> {t \in Readers : Met(t)}]
<1>1. s \in I[0]
  OBVIOUS
<1>2. ASSUME NEW n \in 0 .. Len(q) - 1, NEW t \in I[n]
      PROVE  ReadSymbol(t, q[n + 1]) \in I[n + 1]
  <2>1. t \in Readers /\ Met(t) /\ q[n + 1] \in Symbols
    OBVIOUS
  <2>2. ReadSymbol(t, q[n + 1]) \in Readers /\ Met(ReadSymbol(t, q[n + 1]))
    BY <2>1, OneSymbol, SymbolMeets
  <2> QED
    BY <2>2
<1>3. I[Len(q)] = {t \in Readers : Met(t)}
  OBVIOUS
<1> HIDE DEF I
<1>4. Read(s, q) \in I[Len(q)]
  BY <1>1, <1>2, LexFacts!AfterInvariant DEF Read
<1> QED
  BY <1>3, <1>4

\* A text that holds such a mark outside strings.
LEMMA ReadMeets ==
  ASSUME NEW s \in Readers, Settled(s), NEW q \in Seq(Symbols), NEW p \in 1 .. Len(q),
         q[p] \in {"operator", "other"}, \A i \in 1 .. p : q[i] # "quote"
  PROVE  Met(Read(s, q))
<1> DEFINE I == [n \in Nat |-> {t \in Readers : Met(t) \/ (n < p /\ Settled(t))}]
<1>1. s \in I[0]
  OBVIOUS
<1>2. ASSUME NEW n \in 0 .. Len(q) - 1, NEW t \in I[n]
      PROVE  ReadSymbol(t, q[n + 1]) \in I[n + 1]
  <2> DEFINE u == ReadSymbol(t, q[n + 1])
  <2>1. t \in Readers /\ (Met(t) \/ (n < p /\ Settled(t))) /\ q[n + 1] \in Symbols
    OBVIOUS
  <2>2. u \in Readers /\ Moves(t.inside, q[n + 1], u.inside)
    BY <2>1, OneSymbol
  <2>3. CASE Met(t) \/ (Settled(t) /\ q[n + 1] \in {"operator", "other"})
    <3>1. Met(u)
      BY <2>1, <2>3, SymbolMeets
    <3> HIDE DEF u
    <3>2. u \in I[n + 1]
      BY <2>2, <3>1
    <3> QED
      BY <3>2 DEF u
  <2>4. CASE ~Met(t) /\ q[n + 1] \notin {"operator", "other"}
    <3>1. n < p /\ Settled(t)
      BY <2>1, <2>4
    <3>2. n + 1 \in 1 .. p /\ n + 1 # p
      BY <2>4, <3>1
    <3>3. q[n + 1] \in WordLike \/ q[n + 1] \in {"space", "open", "close", "star"}
      BY <2>1, <2>4, <3>2, WordsAreNoMarks DEF Parts
    <3> HIDE DEF u
    <3>4. Settled(u)
      BY <2>2, <3>1, <3>3 DEF Moves, Settled
    <3>5. u \in I[n + 1]
      BY <2>2, <3>2, <3>4
    <3> QED
      BY <3>5 DEF u
  <2> QED
    BY <2>1, <2>3, <2>4
<1>3. I[Len(q)] = {t \in Readers : Met(t)}
  OBVIOUS
<1> HIDE DEF I
<1>4. Read(s, q) \in I[Len(q)]
  BY <1>1, <1>2, LexFacts!AfterInvariant DEF Read
<1> QED
  BY <1>3, <1>4

\* A text that FTS5 reads without operators of one character meets none.
LEMMA FreeTexts ==
  ASSUME NEW q \in Seq(Symbols), Accepts(q), OperatorFree(q)
  PROVE  ~Met(Read(Start, q))
<1>1. Read(Start, q) \in Readers
  BY StartIs, ReadType
<1>2. ~Met(Lexed(q))
  BY DEF Met, HasOperator, Accepts, OperatorFree
<1> QED
  BY <1>1, <1>2, CompleteMet, LexedIs
-----------------------------------------------------------------------------
(* sanitizeFTSQuery, piece by piece *)

LEMMA FirstFromIs ==
  ASSUME NEW q \in Seq(Symbols), NEW i \in 1 .. Len(q) + 1, NEW S
  PROVE  LET j == FirstFrom(q, i, S)
         IN  /\ j \in i .. Len(q) + 1
             /\ \A h \in i .. j - 1 : q[h] \notin S
             /\ j <= Len(q) => q[j] \in S
<1> DEFINE H == {j \in i .. Len(q) : q[j] \in S}
<1>1. CASE H = {}
  <2>1. FirstFrom(q, i, S) = Len(q) + 1
    BY <1>1 DEF FirstFrom
  <2>2. \A h \in i .. Len(q) : q[h] \notin S
    BY <1>1
  <2>3. (Len(q) + 1) - 1 = Len(q) /\ Len(q) + 1 \in i .. Len(q) + 1 /\ ~(Len(q) + 1 <= Len(q))
    OBVIOUS
  <2> QED
    BY <2>1, <2>2, <2>3
<1>2. CASE H # {}
  <2>1. H \subseteq Nat
    OBVIOUS
  <2>2. PICK j \in H : \A m \in H : j <= m
    <3> HIDE DEF H
    <3> QED
      BY <1>2, <2>1, LexFacts!Least
  <2>3. j \in i .. Len(q) /\ q[j] \in S /\ \A h \in i .. j - 1 : q[h] \notin S
    BY <2>2
  <2> DEFINE P(k) == q[k] \in S /\ \A h \in i .. k - 1 : q[h] \notin S
             k == CHOOSE k \in i .. Len(q) : P(k)
  <2>4. k \in i .. Len(q) /\ P(k)
    BY <2>3
  <2>5. FirstFrom(q, i, S) = k
    BY <1>2 DEF FirstFrom
  <2>6. k <= Len(q) /\ k \in i .. Len(q) + 1
    <3> HIDE DEF k
    <3> QED
      BY <2>4
  <2> HIDE DEF k
  <2> QED
    BY <2>4, <2>5, <2>6
<1> QED
  BY <1>1, <1>2

LEMMA SeparatorPiece ==
  ASSUME NEW q \in Seq(Symbols), NEW i \in 1 .. Len(q), q[i] \in Separators
  PROVE  AfterPiece(q, i) = i + 1 /\ Written(q, i) = SubSeq(q, i, i)
<1>1. AfterPiece(q, i) = i + 1
  <2>1. q[i] # "quote"
    BY DEF Separators
  <2> QED
    BY <2>1 DEF AfterPiece
<1>2. (i + 1) - 1 = i
  OBVIOUS
<1> QED
  BY <1>1, <1>2 DEF Written

\* A phrase ends after its second quote, if it has one.
LEMMA PhrasePiece ==
  ASSUME NEW q \in Seq(Symbols), NEW i \in 1 .. Len(q), q[i] = "quote"
  PROVE  LET j == AfterPiece(q, i)
         IN  /\ j \in i + 1 .. Len(q) + 1
             /\ Written(q, i) = SubSeq(q, i, j - 1)
             /\ \A h \in i + 1 .. j - 2 : q[h] # "quote"
             /\ \/ j - 1 > i /\ q[j - 1] = "quote"
                \/ j = Len(q) + 1 /\ \A h \in i + 1 .. Len(q) : q[h] # "quote"
<1> DEFINE k == FirstFrom(q, i + 1, {"quote"})
           j == AfterPiece(q, i)
<1>1. /\ k \in i + 1 .. Len(q) + 1
      /\ \A h \in i + 1 .. k - 1 : q[h] \notin {"quote"}
      /\ k <= Len(q) => q[k] \in {"quote"}
  <2>1. i + 1 \in 1 .. Len(q) + 1
    OBVIOUS
  <2> QED
    BY <2>1, FirstFromIs
<1>2. j = IF k <= Len(q) THEN k + 1 ELSE k
  BY DEF AfterPiece, AfterPhrase, Separators
<1>3. Written(q, i) = SubSeq(q, i, j - 1)
  BY DEF Written
<1> HIDE DEF k, j
<1>4. /\ j \in i + 1 .. Len(q) + 1
      /\ \A h \in i + 1 .. j - 2 : q[h] # "quote"
      /\ \/ j - 1 > i /\ q[j - 1] = "quote"
         \/ j = Len(q) + 1 /\ \A h \in i + 1 .. Len(q) : q[h] # "quote"
  <2>1. CASE k <= Len(q)
    <3>1. j - 1 = k /\ j - 2 = k - 1 /\ j \in i + 1 .. Len(q) + 1 /\ k > i
      BY <1>1, <1>2, <2>1
    <3> QED
      BY <1>1, <2>1, <3>1
  <2>2. CASE ~(k <= Len(q))
    <3>1. k = Len(q) + 1 /\ j = k /\ k - 1 = Len(q) /\ j - 2 = Len(q) - 1
      BY <1>1, <1>2, <2>2
    <3> QED
      BY <1>1, <3>1
  <2> QED
    BY <2>1, <2>2
<1> QED
  BY <1>3, <1>4 DEF j

LEMMA TokenPiece ==
  ASSUME NEW q \in Seq(Symbols), NEW i \in 1 .. Len(q), q[i] \notin Parts
  PROVE  LET j == AfterPiece(q, i)
         IN  /\ j \in i + 1 .. Len(q) + 1
             /\ Written(q, i) = QuoteFTSToken(SubSeq(q, i, j - 1))
             /\ \A h \in i .. j - 1 : q[h] \notin Parts
             /\ j <= Len(q) => q[j] \in Parts
<1> DEFINE j == FirstFrom(q, i, Parts)
<1>1. /\ j \in i .. Len(q) + 1
      /\ \A h \in i .. j - 1 : q[h] \notin Parts
      /\ j <= Len(q) => q[j] \in Parts
  <2>1. i \in 1 .. Len(q) + 1
    OBVIOUS
  <2> QED
    BY <2>1, FirstFromIs
<1>2. q[i] \notin Separators \cup {"quote"}
  BY DEF Parts, Separators
<1>3. AfterPiece(q, i) = j
  BY <1>2 DEF AfterPiece
<1>4. Written(q, i) = QuoteFTSToken(SubSeq(q, i, j - 1))
  BY <1>2, <1>3 DEF Written
<1> HIDE DEF j
<1>5. j # i
  BY <1>1
<1>6. j \in i + 1 .. Len(q) + 1
  BY <1>1, <1>5
<1> QED
  BY <1>1, <1>3, <1>4, <1>6

LEMMA PieceEnds ==
  ASSUME NEW q \in Seq(Symbols), NEW i \in 1 .. Len(q)
  PROVE  AfterPiece(q, i) \in i + 1 .. Len(q) + 1
<1>1. CASE q[i] \in Separators
  BY <1>1, SeparatorPiece
<1>2. CASE q[i] = "quote"
  BY <1>2, PhrasePiece
<1>3. CASE q[i] \notin Parts
  BY <1>3, TokenPiece
<1> QED
  BY <1>1, <1>2, <1>3 DEF Parts, Separators

Place(q, i, out) == [runes |-> q, i |-> i, out |-> out]

LEMMA PlaceIs ==
  \A q, i, out :
    /\ Place(q, i, out).runes = q
    /\ Place(q, i, out).i = i
    /\ Place(q, i, out).out = out
BY DEF Place

LEMMA SanitizeStep ==
  ASSUME NEW q, NEW i, NEW out, NEW n
  PROVE  SanitizePlace(Place(q, i, out), n) =
            IF n # i THEN Place(q, i, out)
            ELSE Place(q, AfterPiece(q, i), out \o Written(q, i))
<1> DEFINE s == Place(q, i, out)
           x == AfterPiece(q, n)
           y == out \o Written(q, n)
<1>1. s.runes = q /\ s.i = i /\ s.out = out
  BY PlaceIs
<1>2. n # i => SanitizePlace(s, n) = s
  <2> HIDE DEF s
  <2> QED
    BY <1>1 DEF SanitizePlace
<1>3. n = i => SanitizePlace(s, n) = [s EXCEPT !.i = x, !.out = y]
  <2> HIDE DEF s
  <2> QED
    BY <1>1 DEF SanitizePlace
<1>4. [s EXCEPT !.i = x, !.out = y] = Place(q, x, y)
  <2> HIDE DEF x, y
  <2> DEFINE p == [s EXCEPT !.i = x]
  <2>1. p = Place(q, x, out)
    BY DEF Place
  <2>2. [s EXCEPT !.i = x, !.out = y] = [p EXCEPT !.out = y]
    OBVIOUS
  <2>3. [Place(q, x, out) EXCEPT !.out = y] = Place(q, x, y)
    BY DEF Place
  <2> HIDE DEF p
  <2> QED
    BY <2>1, <2>2, <2>3
<1> QED
  BY <1>2, <1>3, <1>4

\* What holds of the place and the output before the loop, and is kept by each piece,
\* holds at the end.
LEMMA SanitizeLoop ==
  ASSUME NEW q \in Seq(Symbols), NEW G, G \subseteq Nat \X Seq(Symbols),
         <<1, <<>>>> \in G,
         \A i \in 1 .. Len(q), out \in Seq(Symbols) : <<i, out>> \in G =>
            <<AfterPiece(q, i), out \o Written(q, i)>> \in G
  PROVE  <<Len(q) + 1, SanitizeFTSQuery(q)>> \in G
<1> DEFINE places == [i \in 1 .. Len(q) |-> i]
           start == Place(q, 1, <<>>)
           end == SanitizeFacts!After(start, places)
           S(n) == {s \in [runes : {q}, i : n + 1 .. Len(q) + 1, out : Seq(Symbols)] :
                       <<s.i, s.out>> \in G}
           I == [n \in 0 .. Len(q) |-> S(n)]
<1>1. places \in Seq(Nat) /\ Len(places) = Len(q) /\ Len(q) \in Nat
  OBVIOUS
<1>2. \A n \in 0 .. Len(q) - 1 : places[n + 1] = n + 1
  OBVIOUS
<1>3. \A n \in 0 .. Len(q) : I[n] = S(n)
  OBVIOUS
<1>4. ASSUME NEW n \in Nat, NEW i \in n + 1 .. Len(q) + 1, NEW out \in Seq(Symbols),
             <<i, out>> \in G
      PROVE  Place(q, i, out) \in S(n)
  BY <1>4 DEF Place
<1>5. ASSUME NEW n \in Nat, NEW s \in S(n)
      PROVE  \E i \in n + 1 .. Len(q) + 1, out \in Seq(Symbols) :
                s = Place(q, i, out) /\ <<i, out>> \in G
  <2>1. s.i \in n + 1 .. Len(q) + 1 /\ s.out \in Seq(Symbols) /\ <<s.i, s.out>> \in G
    OBVIOUS
  <2>2. s = Place(q, s.i, s.out)
    BY DEF Place
  <2> QED
    BY <2>1, <2>2
<1> HIDE DEF S
<1>6. start \in I[0]
  <2>1. 1 \in 0 + 1 .. Len(q) + 1 /\ <<>> \in Seq(Symbols)
    BY <1>1
  <2>2. start \in S(0)
    BY <1>4, <2>1
  <2>3. I[0] = S(0)
    BY <1>1, <1>3
  <2> QED
    BY <2>2, <2>3
<1> HIDE DEF I
<1>7. ASSUME NEW n \in 0 .. Len(q) - 1, NEW s \in I[n]
      PROVE  SanitizePlace(s, places[n + 1]) \in I[n + 1]
  <2>1. n \in Nat /\ n + 1 \in Nat /\ I[n] = S(n) /\ I[n + 1] = S(n + 1)
    BY <1>1, <1>3
  <2>0. places[n + 1] = n + 1
    BY <1>2
  <2>2. PICK i \in n + 1 .. Len(q) + 1, out \in Seq(Symbols) :
           s = Place(q, i, out) /\ <<i, out>> \in G
    BY <1>5, <2>1
  <2> HIDE DEF places
  <2> DEFINE j == AfterPiece(q, i)
             more == out \o Written(q, i)
  <2>3. SanitizePlace(s, places[n + 1]) =
           IF n + 1 # i THEN Place(q, i, out) ELSE Place(q, j, more)
    BY <2>0, <2>2, SanitizeStep
  <2>4. CASE n + 1 # i
    <3>1. i \in (n + 1) + 1 .. Len(q) + 1
      BY <2>4
    <3> QED
      BY <1>4, <2>1, <2>2, <2>3, <2>4, <3>1
  <2>5. CASE n + 1 = i
    <3>1. i \in 1 .. Len(q)
      BY <2>5
    <3>2. j \in (n + 1) + 1 .. Len(q) + 1
      BY <2>5, <3>1, PieceEnds
    <3>3. <<j, more>> \in G
      BY <2>2, <3>1
    <3>4. more \in Seq(Symbols)
      BY <3>3
    <3> HIDE DEF j, more
    <3> QED
      BY <1>4, <2>1, <2>3, <2>5, <3>2, <3>3, <3>4
  <2> QED
    BY <2>4, <2>5
<1>8. end \in I[Len(q)]
  <2> HIDE DEF places, start
  <2> QED
    BY <1>1, <1>6, <1>7, SanitizeFacts!AfterInvariant
<1>9. SanitizeFTSQuery(q) = end.out
  BY DEF SanitizeFTSQuery, Sanitizing!After, SanitizeFacts!After, Place
<1> HIDE DEF end
<1>10. PICK i \in Len(q) + 1 .. Len(q) + 1, out \in Seq(Symbols) :
          end = Place(q, i, out) /\ <<i, out>> \in G
  <2> DEFINE m == Len(q)
  <2>1. m \in Nat /\ end \in S(m)
    BY <1>1, <1>3, <1>8
  <2>2. \E i \in m + 1 .. Len(q) + 1, out \in Seq(Symbols) :
           end = Place(q, i, out) /\ <<i, out>> \in G
    <3> HIDE DEF m
    <3> QED
      BY <1>5, <2>1
  <2> QED
    BY <2>2
<1>11. i = Len(q) + 1 /\ end.out = out
  BY <1>1, <1>10, PlaceIs
<1> QED
  BY <1>9, <1>10, <1>11

LEMMA WrittenType ==
  ASSUME NEW q \in Seq(Symbols), NEW i \in 1 .. Len(q)
  PROVE  Written(q, i) \in Seq(Symbols)
<1> DEFINE piece == SubSeq(q, i, AfterPiece(q, i) - 1)
<1>1. piece \in Seq(Symbols)
  BY PieceEnds
<1> HIDE DEF piece
<1>2. <<"quote">> \in Seq(Symbols)
  BY DEF Symbols, Marks
<1>3. <<"quote">> \o piece \o <<"quote">> \in Seq(Symbols)
  BY <1>1, <1>2
<1>4. Written(q, i) = piece \/ Written(q, i) = <<"quote">> \o piece \o <<"quote">>
  BY DEF Written, QuoteFTSToken, piece
<1> QED
  BY <1>1, <1>3, <1>4

LEMMA TokenSettles ==
  ASSUME NEW s \in Readers, Settled(s), NEW tok \in Seq(Symbols),
         \A i \in 1 .. Len(tok) : tok[i] \notin Parts
  PROVE  Settled(Read(s, QuoteFTSToken(tok)))
<1>1. CASE Bare(tok)
  <2>1. QuoteFTSToken(tok) = tok
    BY <1>1 DEF QuoteFTSToken
  <2>2. \A i \in 1 .. Len(tok) : tok[i] \in WordLike \cup Separators \cup {"star"}
    BY <1>1 DEF Bare
  <2> QED
    BY <2>1, <2>2, ReadPlain
<1>2. CASE ~Bare(tok)
  <2> DEFINE phrase == <<"quote">> \o tok \o <<"quote">>
  <2>1. QuoteFTSToken(tok) = phrase
    BY <1>2 DEF QuoteFTSToken
  <2>2. "quote" \in Symbols /\ "quote" \in Parts
    BY DEF Symbols, Marks, Parts
  <2>3. /\ phrase \in Seq(Symbols) /\ Len(phrase) = Len(tok) + 2
        /\ phrase[1] = "quote" /\ phrase[Len(tok) + 2] = "quote"
        /\ \A i \in 2 .. Len(tok) + 1 : phrase[i] = tok[i - 1]
    BY <2>2
  <2>4. \A i \in 2 .. Len(phrase) - 1 : phrase[i] # "quote"
    <3> TAKE i \in 2 .. Len(phrase) - 1
    <3> HIDE DEF phrase
    <3>1. i - 1 \in 1 .. Len(tok) /\ i \in 2 .. Len(tok) + 1
      BY <2>3
    <3> QED
      BY <2>2, <2>3, <3>1
  <2> HIDE DEF phrase
  <2>5. Len(phrase) >= 2 /\ phrase[Len(phrase)] = "quote"
    BY <2>3
  <2> QED
    BY <2>1, <2>3, <2>4, <2>5, ReadPhrase
<1> QED
  BY <1>1, <1>2

\* The phrase that begins at i is closed.
Closed(q, i) == AfterPiece(q, i) - 1 > i /\ q[AfterPiece(q, i) - 1] = "quote"

LEMMA PieceSettles ==
  ASSUME NEW s \in Readers, Settled(s), NEW q \in Seq(Symbols), NEW i \in 1 .. Len(q),
         q[i] = "quote" => Closed(q, i)
  PROVE  Settled(Read(s, Written(q, i)))
<1> DEFINE j == AfterPiece(q, i)
<1>1. j \in i + 1 .. Len(q) + 1
  BY PieceEnds
<1>2. CASE q[i] \in Separators
  <2> DEFINE u == SubSeq(q, i, i)
  <2>1. u \in Seq(Symbols) /\ Len(u) = 1 /\ u[1] = q[i]
    OBVIOUS
  <2> HIDE DEF u
  <2>2. \A h \in 1 .. Len(u) : u[h] \in WordLike \cup Separators \cup {"star"}
    BY <1>2, <2>1
  <2>3. Written(q, i) = u
    BY <1>2, SeparatorPiece DEF u
  <2> QED
    BY <2>1, <2>2, <2>3, ReadPlain
<1>3. CASE q[i] = "quote"
  <2> DEFINE u == SubSeq(q, i, j - 1)
  <2>1. Written(q, i) = u /\ \A h \in i + 1 .. j - 2 : q[h] # "quote"
    BY <1>3, PhrasePiece
  <2>2. j - 1 > i /\ q[j - 1] = "quote"
    BY <1>3 DEF Closed
  <2> HIDE DEF j
  <2>3. /\ u \in Seq(Symbols) /\ Len(u) = j - i
        /\ \A h \in 1 .. j - i : u[h] = q[i + h - 1]
    BY <1>1
  <2> HIDE DEF u
  <2>4. Len(u) >= 2 /\ u[1] = "quote" /\ u[Len(u)] = "quote"
    <3>1. 1 \in 1 .. j - i /\ j - i \in 1 .. j - i /\ i + 1 - 1 = i /\ i + (j - i) - 1 = j - 1
      BY <1>1, <2>2
    <3> QED
      BY <1>3, <2>2, <2>3, <3>1
  <2>5. \A h \in 2 .. Len(u) - 1 : u[h] # "quote"
    <3> TAKE h \in 2 .. Len(u) - 1
    <3>1. h \in 1 .. j - i /\ i + h - 1 \in i + 1 .. j - 2
      BY <1>1, <2>3
    <3> QED
      BY <2>1, <2>3, <3>1
  <2> QED
    BY <2>1, <2>3, <2>4, <2>5, ReadPhrase
<1>4. CASE q[i] \notin Parts
  <2> DEFINE u == SubSeq(q, i, j - 1)
  <2>1. Written(q, i) = QuoteFTSToken(u) /\ \A h \in i .. j - 1 : q[h] \notin Parts
    BY <1>4, TokenPiece
  <2> HIDE DEF j
  <2>2. u \in Seq(Symbols) /\ Len(u) = j - i /\ \A h \in 1 .. j - i : u[h] = q[i + h - 1]
    BY <1>1
  <2> HIDE DEF u
  <2>3. \A h \in 1 .. Len(u) : u[h] \notin Parts
    <3> TAKE h \in 1 .. Len(u)
    <3>1. h \in 1 .. j - i /\ i + h - 1 \in i .. j - 1
      BY <1>1, <2>2
    <3> QED
      BY <2>1, <2>2, <3>1
  <2> QED
    BY <2>1, <2>2, <2>3, TokenSettles
<1> QED
  BY <1>2, <1>3, <1>4 DEF Parts, Separators
-----------------------------------------------------------------------------
(* Closed quotes suffice *)

\* The quotes before place i.
QuotesBefore(q, i) == {h \in 1 .. i - 1 : q[h] = "quote"}

Even(S) == Cardinality(S) % 2 = 0

LEMMA TwoMore ==
  ASSUME NEW S, IsFiniteSet(S), NEW x, NEW y, x \notin S, y \notin S, x # y, Even(S)
  PROVE  Even(S \cup {x, y})
<1>1. Cardinality(S) \in Nat
  BY FS_CardinalityType
<1>2. IsFiniteSet(S \cup {x}) /\ Cardinality(S \cup {x}) = Cardinality(S) + 1
  BY FS_AddElement
<1>3. y \notin S \cup {x} /\ (S \cup {x}) \cup {y} = S \cup {x, y}
  OBVIOUS
<1>4. Cardinality(S \cup {x, y}) = Cardinality(S) + 2
  <2>1. Cardinality((S \cup {x}) \cup {y}) = Cardinality(S \cup {x}) + 1
    BY <1>2, <1>3, FS_AddElement
  <2> QED
    BY <1>1, <1>2, <1>3, <2>1
<1> DEFINE c == Cardinality(S)
<1>5. c \in Nat /\ c % 2 = 0
  BY <1>1 DEF Even
<1>6. (c + 2) % 2 = 0
  <2> HIDE DEF c
  <2> QED
    BY <1>5
<1> QED
  BY <1>4, <1>6 DEF Even

LEMMA OneMore ==
  ASSUME NEW S, IsFiniteSet(S), NEW x, x \notin S, Even(S)
  PROVE  ~Even(S \cup {x})
<1>1. Cardinality(S) \in Nat
  BY FS_CardinalityType
<1>2. Cardinality(S \cup {x}) = Cardinality(S) + 1
  BY FS_AddElement
<1> DEFINE c == Cardinality(S)
<1>3. c \in Nat /\ c % 2 = 0
  BY <1>1 DEF Even
<1>4. (c + 1) % 2 # 0
  <2> HIDE DEF c
  <2> QED
    BY <1>3
<1> QED
  BY <1>2, <1>4 DEF Even

LEMMA QuotesBeforeIs ==
  ASSUME NEW q \in Seq(Symbols), NEW i \in 1 .. Len(q) + 1
  PROVE  IsFiniteSet(QuotesBefore(q, i))
<1>1. IsFiniteSet(1 .. i - 1)
  BY FS_Interval
<1>2. QuotesBefore(q, i) \subseteq 1 .. i - 1
  BY DEF QuotesBefore
<1> QED
  BY <1>1, <1>2, FS_Subset

\* Behind each piece the quotes are even, if they were before it and a phrase was closed.
LEMMA QuotesStayEven ==
  ASSUME NEW q \in Seq(Symbols), NEW i \in 1 .. Len(q), Even(QuotesBefore(q, i)),
         q[i] = "quote" => Closed(q, i)
  PROVE  Even(QuotesBefore(q, AfterPiece(q, i)))
<1> DEFINE j == AfterPiece(q, i)
<1>1. j \in i + 1 .. Len(q) + 1
  BY PieceEnds
<1>2. CASE q[i] = "quote"
  <2>1. \A h \in i + 1 .. j - 2 : q[h] # "quote"
    BY <1>2, PhrasePiece
  <2>2. j - 1 > i /\ q[j - 1] = "quote"
    BY <1>2 DEF Closed
  <2> HIDE DEF j
  <2>3. QuotesBefore(q, j) = QuotesBefore(q, i) \cup {i, j - 1}
    <3>1. ASSUME NEW h \in 1 .. j - 1, q[h] = "quote" PROVE h \in 1 .. i - 1 \/ h \in {i, j - 1}
      <4>1. h \notin i + 1 .. j - 2
        BY <2>1, <3>1
      <4> QED
        BY <1>1, <4>1
    <3>2. i \in 1 .. j - 1 /\ j - 1 \in 1 .. j - 1 /\ 1 .. i - 1 \subseteq 1 .. j - 1
      BY <1>1, <2>2
    <3> QED
      BY <1>2, <2>2, <3>1, <3>2 DEF QuotesBefore
  <2>4. i \notin QuotesBefore(q, i) /\ j - 1 \notin QuotesBefore(q, i) /\ i # j - 1
    BY <1>1, <2>2 DEF QuotesBefore
  <2>5. IsFiniteSet(QuotesBefore(q, i))
    BY QuotesBeforeIs
  <2>6. Even(QuotesBefore(q, i) \cup {i, j - 1})
    BY <2>4, <2>5, TwoMore
  <2> QED
    BY <2>3, <2>6 DEF j
<1>3. CASE q[i] # "quote"
  <2>1. \A h \in i .. j - 1 : q[h] # "quote"
    <3>1. CASE q[i] \in Separators
      <4>1. j = i + 1
        BY <3>1, SeparatorPiece
      <4> HIDE DEF j
      <4>2. i .. j - 1 = {i}
        BY <4>1
      <4> QED
        BY <1>3, <4>2
    <3>2. CASE q[i] \notin Separators
      <4>1. q[i] \notin Parts
        BY <1>3, <3>2 DEF Parts, Separators
      <4>2. \A h \in i .. j - 1 : q[h] \notin Parts
        BY <4>1, TokenPiece
      <4> HIDE DEF j
      <4> QED
        BY <4>2 DEF Parts
    <3> QED
      BY <3>1, <3>2
  <2> HIDE DEF j
  <2>2. QuotesBefore(q, j) = QuotesBefore(q, i)
    <3>1. \A h \in 1 .. j - 1 : h \in 1 .. i - 1 \/ h \in i .. j - 1
      BY <1>1
    <3>2. 1 .. i - 1 \subseteq 1 .. j - 1
      BY <1>1
    <3> QED
      BY <2>1, <3>1, <3>2 DEF QuotesBefore
  <2> QED
    BY <2>2 DEF j
<1> QED
  BY <1>2, <1>3

LEMMA EvenMeansClosed ==
  ASSUME NEW q \in Seq(Symbols), NEW i \in 1 .. Len(q), q[i] = "quote",
         Even(Quotes(q)), Even(QuotesBefore(q, i))
  PROVE  Closed(q, i)
<1> SUFFICES ASSUME ~Closed(q, i) PROVE FALSE
  OBVIOUS
<1>1. \A h \in i + 1 .. Len(q) : q[h] # "quote"
  BY PhrasePiece DEF Closed
<1>2. Quotes(q) = QuotesBefore(q, i) \cup {i}
  <2>1. \A h \in DOMAIN q : h \in 1 .. i - 1 \/ h = i \/ h \in i + 1 .. Len(q)
    OBVIOUS
  <2>2. i \in DOMAIN q /\ 1 .. i - 1 \subseteq DOMAIN q
    OBVIOUS
  <2> QED
    BY <1>1, <2>1, <2>2 DEF Quotes, QuotesBefore
<1>3. i \notin QuotesBefore(q, i) /\ IsFiniteSet(QuotesBefore(q, i))
  BY QuotesBeforeIs DEF QuotesBefore
<1> QED
  BY <1>2, <1>3, OneMore

LEMMA SanitizedIsReadable ==
  ASSUME NEW q \in Seq(Symbols), Even(Quotes(q))
  PROVE  Accepts(SanitizeFTSQuery(q))
<1> DEFINE G == {g \in (1 .. Len(q) + 1) \X Seq(Symbols) :
                    Settled(Read(Start, g[2])) /\ Even(QuotesBefore(q, g[1]))}
<1>1. \A i \in 1 .. Len(q) + 1, out \in Seq(Symbols) :
         <<i, out>> \in G <=> Settled(Read(Start, out)) /\ Even(QuotesBefore(q, i))
  OBVIOUS
<1>2. G \subseteq Nat \X Seq(Symbols)
  OBVIOUS
<1>3. G \subseteq (1 .. Len(q) + 1) \X Seq(Symbols)
  OBVIOUS
<1> HIDE DEF G
<1>4. <<1, <<>>>> \in G
  <2>1. QuotesBefore(q, 1) = {}
    BY DEF QuotesBefore
  <2>2. Even({})
    BY FS_EmptySet DEF Even
  <2>3. Settled(Read(Start, <<>>))
    BY StartIs, ReadNone
  <2>4. 1 \in 1 .. Len(q) + 1 /\ <<>> \in Seq(Symbols)
    OBVIOUS
  <2> QED
    BY <1>1, <2>1, <2>2, <2>3, <2>4
<1>5. ASSUME NEW i \in 1 .. Len(q), NEW out \in Seq(Symbols), <<i, out>> \in G
      PROVE  <<AfterPiece(q, i), out \o Written(q, i)>> \in G
  <2> DEFINE j == AfterPiece(q, i)
             w == Written(q, i)
             s == Read(Start, out)
  <2>1. j \in 1 .. Len(q) + 1
    BY PieceEnds
  <2>2. i \in 1 .. Len(q) + 1
    OBVIOUS
  <2>3. Settled(s) /\ Even(QuotesBefore(q, i))
    BY <1>1, <1>5, <2>2
  <2>4. q[i] = "quote" => Closed(q, i)
    BY <2>3, EvenMeansClosed
  <2>5. s \in Readers
    BY StartIs, ReadType
  <2>6. Even(QuotesBefore(q, j))
    BY <2>3, <2>4, QuotesStayEven
  <2>7. w \in Seq(Symbols)
    BY WrittenType
  <2>8. Settled(Read(s, w))
    <3> HIDE DEF s
    <3> QED
      BY <2>3, <2>4, <2>5, PieceSettles
  <2> HIDE DEF w, j
  <2>9. Read(Start, out \o w) = Read(s, w)
    BY <2>7, ReadConcat
  <2>10. out \o w \in Seq(Symbols)
    BY <2>7
  <2>11. <<j, out \o w>> \in G
    BY <1>1, <2>1, <2>6, <2>8, <2>9, <2>10
  <2> QED
    BY <2>11 DEF w, j
<1> DEFINE e == SanitizeFTSQuery(q)
<1>6. <<Len(q) + 1, e>> \in G
  BY <1>2, <1>4, <1>5, SanitizeLoop
<1> HIDE DEF e
<1>7. e \in Seq(Symbols) /\ Len(q) + 1 \in 1 .. Len(q) + 1
  BY <1>3, <1>6
<1>8. Settled(Read(Start, e))
  BY <1>1, <1>6, <1>7
<1>9. Read(Start, e) \in Readers
  BY <1>7, StartIs, ReadType
<1>10. Lexed(e).inside = "space"
  BY <1>8, <1>9, CompleteIs, LexedIs
<1> QED
  BY <1>10 DEF Accepts, e
-----------------------------------------------------------------------------
(* Syntax is kept *)

LEMMA SplitAt ==
  ASSUME NEW q \in Seq(Symbols), NEW i \in 1 .. Len(q) + 1, NEW j \in i .. Len(q) + 1
  PROVE  SubSeq(q, 1, i - 1) \o SubSeq(q, i, j - 1) = SubSeq(q, 1, j - 1)
<1> DEFINE a == SubSeq(q, 1, i - 1)
           b == SubSeq(q, i, j - 1)
           c == SubSeq(q, 1, j - 1)
<1>1. a \in Seq(Symbols) /\ Len(a) = i - 1 /\ \A h \in 1 .. i - 1 : a[h] = q[h]
  OBVIOUS
<1>2. b \in Seq(Symbols) /\ Len(b) = j - i /\ \A h \in 1 .. j - i : b[h] = q[i + h - 1]
  OBVIOUS
<1>3. c \in Seq(Symbols) /\ Len(c) = j - 1 /\ \A h \in 1 .. j - 1 : c[h] = q[h]
  OBVIOUS
<1> HIDE DEF a, b, c
<1>4. /\ a \o b \in Seq(Symbols) /\ Len(a \o b) = j - 1
      /\ \A h \in 1 .. j - 1 : (a \o b)[h] = IF h <= i - 1 THEN a[h] ELSE b[h - (i - 1)]
  <2>1. /\ a \o b \in Seq(Symbols) /\ Len(a \o b) = Len(a) + Len(b)
        /\ \A h \in 1 .. Len(a) + Len(b) :
              (a \o b)[h] = IF h <= Len(a) THEN a[h] ELSE b[h - Len(a)]
    BY <1>1, <1>2, ConcatProperties
  <2>2. Len(a) + Len(b) = j - 1
    BY <1>1, <1>2
  <2> QED
    BY <1>1, <2>1, <2>2
<1>5. ASSUME NEW h \in 1 .. j - 1 PROVE (a \o b)[h] = c[h]
  <2>1. CASE h <= i - 1
    <3>1. h \in 1 .. i - 1
      BY <2>1
    <3> QED
      BY <1>1, <1>3, <1>4, <2>1, <3>1
  <2>2. CASE ~(h <= i - 1)
    <3>1. h - (i - 1) \in 1 .. j - i /\ i + (h - (i - 1)) - 1 = h
      BY <2>2
    <3> QED
      BY <1>2, <1>3, <1>4, <2>2, <3>1
  <2> QED
    BY <2>1, <2>2
<1> DEFINE d == a \o b
<1>6. d \in Seq(Symbols) /\ Len(d) = j - 1 /\ \A h \in 1 .. j - 1 : d[h] = c[h]
  BY <1>4, <1>5
<1> HIDE DEF d
<1>7. d = c
  BY <1>3, <1>6
<1> QED
  BY <1>7 DEF a, b, c, d

\* A token that FTS5 can read, and reads without operators, is written as it was.
LEMMA TokenIsKept ==
  ASSUME NEW q \in Seq(Symbols), Accepts(q), StarsEndTokens(q), OperatorFree(q),
         NEW i \in 1 .. Len(q), q[i] \notin Parts,
         Settled(Read(Start, SubSeq(q, 1, i - 1)))
  PROVE  Written(q, i) = SubSeq(q, i, AfterPiece(q, i) - 1)
<1> DEFINE j == AfterPiece(q, i)
           a == SubSeq(q, 1, i - 1)
           u == SubSeq(q, i, j - 1)
           s == Read(Start, a)
<1>1. /\ j \in i + 1 .. Len(q) + 1
      /\ Written(q, i) = QuoteFTSToken(u)
      /\ \A h \in i .. j - 1 : q[h] \notin Parts
  BY TokenPiece
<1> HIDE DEF j
<1>2. u \in Seq(Symbols) /\ Len(u) = j - i /\ \A h \in 1 .. j - i : u[h] = q[i + h - 1]
  BY <1>1
<1>3. a \in Seq(Symbols)
  OBVIOUS
<1>4. Settled(s)
  OBVIOUS
<1> HIDE DEF a, u
<1>5. s \in Readers
  BY <1>3, StartIs, ReadType
<1> HIDE DEF s
<1>6. ASSUME ~Bare(u) PROVE FALSE
  <2>1. PICK k \in 1 .. j - i : u[k] \notin WordLike /\ ~(u[k] = "star" /\ k = j - i)
    BY <1>2, <1>6 DEF Bare
  <2>2. i + k - 1 \in i .. j - 1 /\ i + k - 1 \in DOMAIN q
    BY <1>1, <2>1
  <2>3. u[k] \notin Parts /\ u[k] \in Symbols
    BY <1>1, <1>2, <2>2
  <2>4. u[k] \in {"star", "operator", "other"}
    BY <2>1, <2>3, WordsAreNoMarks
  <2>5. u[k] # "star"
    <3> SUFFICES ASSUME u[k] = "star" PROVE FALSE
      OBVIOUS
    <3>1. k # j - i
      BY <2>1
    <3>2. i + k - 1 # Len(q) /\ (i + k - 1) + 1 \in i .. j - 1
      BY <1>1, <2>1, <3>1
    <3>3. q[i + k - 1] = "star"
      BY <1>2
    <3> QED
      BY <1>1, <2>2, <3>2, <3>3 DEF StarsEndTokens
  <2>6. u[k] \in {"operator", "other"}
    BY <2>4, <2>5
  <2>7. \A h \in 1 .. k : u[h] # "quote"
    <3> TAKE h \in 1 .. k
    <3>1. h \in 1 .. j - i /\ i + h - 1 \in i .. j - 1
      BY <1>1
    <3>2. u[h] \notin Parts
      BY <1>1, <1>2, <3>1
    <3> QED
      BY <3>2 DEF Parts
  <2> DEFINE t == Read(s, u)
  <2>8. t \in Readers
    BY <1>2, <1>5, ReadType
  <2>9. Met(t)
    BY <1>2, <1>4, <1>5, <2>6, <2>7, ReadMeets
  <2> HIDE DEF t
  <2> DEFINE r == SubSeq(q, j, Len(q))
  <2>10. r \in Seq(Symbols)
    BY <1>1
  <2>11. q = (a \o u) \o r
    <3>1. a \o u = SubSeq(q, 1, j - 1)
      BY <1>1, SplitAt DEF a, u
    <3>2. SubSeq(q, 1, j - 1) \o SubSeq(q, j, (Len(q) + 1) - 1) = SubSeq(q, 1, (Len(q) + 1) - 1)
      <4>1. j \in 1 .. Len(q) + 1 /\ Len(q) + 1 \in j .. Len(q) + 1
        BY <1>1
      <4> QED
        BY <4>1, SplitAt
    <3>3. (Len(q) + 1) - 1 = Len(q) /\ SubSeq(q, 1, Len(q)) = q
      OBVIOUS
    <3> QED
      BY <3>1, <3>2, <3>3
  <2> HIDE DEF r
  <2>12. a \o u \in Seq(Symbols)
    BY <1>2, <1>3
  <2>13. Read(Start, (a \o u) \o r) = Read(t, r)
    <3>1. Read(Start, a \o u) = t
      BY <1>2, <1>3, ReadConcat DEF s, t
    <3>2. Read(Start, (a \o u) \o r) = Read(Read(Start, a \o u), r)
      BY <2>10, <2>12, ReadConcat
    <3> QED
      BY <3>1, <3>2
  <2>14. Met(Read(Start, q))
    BY <2>8, <2>9, <2>10, <2>11, <2>13, MetRemains
  <2> QED
    BY <2>14, FreeTexts
<1>7. QuoteFTSToken(u) = u
  BY <1>6 DEF QuoteFTSToken
<1> QED
  BY <1>1, <1>7 DEF u, j

LEMMA SyntaxIsWrittenAsItWas ==
  ASSUME NEW q \in Seq(Symbols), Accepts(q), StarsEndTokens(q), OperatorFree(q)
  PROVE  SanitizeFTSQuery(q) = q
<1> DEFINE G == {g \in (1 .. Len(q) + 1) \X Seq(Symbols) :
                    /\ g[2] = SubSeq(q, 1, g[1] - 1)
                    /\ g[1] <= Len(q) => Settled(Read(Start, g[2]))}
<1>1. \A i \in 1 .. Len(q) + 1, out \in Seq(Symbols) :
         <<i, out>> \in G <=> /\ out = SubSeq(q, 1, i - 1)
                              /\ i <= Len(q) => Settled(Read(Start, out))
  OBVIOUS
<1>2. G \subseteq Nat \X Seq(Symbols)
  OBVIOUS
<1>3. G \subseteq (1 .. Len(q) + 1) \X Seq(Symbols)
  OBVIOUS
<1> HIDE DEF G
<1>4. <<1, <<>>>> \in G
  <2>1. Settled(Read(Start, <<>>))
    BY StartIs, ReadNone
  <2>2. 1 \in 1 .. Len(q) + 1 /\ <<>> \in Seq(Symbols) /\ <<>> = SubSeq(q, 1, 1 - 1)
    OBVIOUS
  <2> QED
    BY <1>1, <2>1, <2>2
<1>5. ASSUME NEW i \in 1 .. Len(q), NEW out \in Seq(Symbols), <<i, out>> \in G
      PROVE  <<AfterPiece(q, i), out \o Written(q, i)>> \in G
  <2> DEFINE j == AfterPiece(q, i)
             w == Written(q, i)
             s == Read(Start, out)
  <2>1. j \in i + 1 .. Len(q) + 1
    BY PieceEnds
  <2>2. i \in 1 .. Len(q) + 1 /\ i <= Len(q)
    OBVIOUS
  <2>3. out = SubSeq(q, 1, i - 1) /\ Settled(s)
    BY <1>1, <1>5, <2>2
  <2>4. s \in Readers
    BY StartIs, ReadType
  <2>5. w = SubSeq(q, i, j - 1)
    <3>1. CASE q[i] \in Separators
      <4>1. w = SubSeq(q, i, i) /\ j = i + 1
        BY <3>1, SeparatorPiece
      <4>2. (i + 1) - 1 = i
        OBVIOUS
      <4> QED
        BY <4>1, <4>2
    <3>2. CASE q[i] = "quote"
      BY <3>2, PhrasePiece
    <3>3. CASE q[i] \notin Parts
      BY <2>3, <3>3, TokenIsKept
    <3> QED
      BY <3>1, <3>2, <3>3 DEF Parts, Separators
  <2>6. w \in Seq(Symbols)
    BY WrittenType
  <2>7. ASSUME j <= Len(q) PROVE Settled(Read(s, w))
    <3>1. q[i] = "quote" => Closed(q, i)
      <4> SUFFICES ASSUME q[i] = "quote" PROVE Closed(q, i)
        OBVIOUS
      <4>1. \/ j - 1 > i /\ q[j - 1] = "quote"
            \/ j = Len(q) + 1
        BY PhrasePiece
      <4>2. j # Len(q) + 1
        BY <2>7
      <4> QED
        BY <4>1, <4>2 DEF Closed
    <3> HIDE DEF s
    <3> QED
      BY <2>3, <2>4, <3>1, PieceSettles
  <2> HIDE DEF w, j
  <2>8. out \o w = SubSeq(q, 1, j - 1)
    <3>1. j \in i .. Len(q) + 1
      BY <2>1
    <3> QED
      BY <2>2, <2>3, <2>5, <3>1, SplitAt
  <2>9. Read(Start, out \o w) = Read(s, w)
    BY <2>6, ReadConcat
  <2>10. out \o w \in Seq(Symbols) /\ j \in 1 .. Len(q) + 1
    BY <2>1, <2>6
  <2>11. <<j, out \o w>> \in G
    BY <1>1, <2>7, <2>8, <2>9, <2>10
  <2> QED
    BY <2>11 DEF w, j
<1> DEFINE e == SanitizeFTSQuery(q)
<1>6. <<Len(q) + 1, e>> \in G
  BY <1>2, <1>4, <1>5, SanitizeLoop
<1> HIDE DEF e
<1>7. e \in Seq(Symbols) /\ Len(q) + 1 \in 1 .. Len(q) + 1
  BY <1>3, <1>6
<1>8. e = SubSeq(q, 1, (Len(q) + 1) - 1)
  BY <1>1, <1>6, <1>7
<1>9. (Len(q) + 1) - 1 = Len(q) /\ SubSeq(q, 1, Len(q)) = q
  OBVIOUS
<1> QED
  BY <1>8, <1>9 DEF e
-----------------------------------------------------------------------------
(* The keywords of a question *)

Due(q) == {Lower[w] : w \in Range(q) \cap Words} \ (StopWords \cup Short)

Distinct(ks) == \A k, l \in 1 .. Len(ks) : ks[k] = ks[l] => k = l

LEMMA OneMoreKeyword ==
  ASSUME NEW ks \in Seq(Words), NEW w \in Words, Distinct(ks), w \notin Range(ks),
         IsFiniteSet(Range(ks)), Cardinality(Range(ks)) = Len(ks)
  PROVE  LET more == Append(ks, w)
         IN  /\ more \in Seq(Words) /\ Len(more) = Len(ks) + 1
             /\ Distinct(more)
             /\ Range(more) = Range(ks) \cup {w}
             /\ IsFiniteSet(Range(more)) /\ Cardinality(Range(more)) = Len(more)
<1> DEFINE more == Append(ks, w)
<1>1. /\ more \in Seq(Words) /\ Len(more) = Len(ks) + 1
      /\ \A k \in 1 .. Len(ks) : more[k] = ks[k]
      /\ more[Len(ks) + 1] = w
  OBVIOUS
<1>2. DOMAIN more = 1 .. Len(ks) + 1 /\ DOMAIN ks = 1 .. Len(ks) /\ Len(ks) \in Nat
  OBVIOUS
<1> HIDE DEF more
<1>3. \A k \in 1 .. Len(ks) : ks[k] # w
  BY <1>2 DEF Range
<1>4. Distinct(more)
  <2> SUFFICES ASSUME NEW k \in 1 .. Len(ks) + 1, NEW l \in 1 .. Len(ks) + 1, more[k] = more[l]
               PROVE  k = l
    BY <1>1 DEF Distinct
  <2>1. k \in 1 .. Len(ks) \/ k = Len(ks) + 1
    OBVIOUS
  <2>2. l \in 1 .. Len(ks) \/ l = Len(ks) + 1
    OBVIOUS
  <2> QED
    BY <1>1, <1>3, <2>1, <2>2 DEF Distinct
<1>5. Range(more) = Range(ks) \cup {w}
  <2>1. \A k \in 1 .. Len(ks) + 1 : more[k] \in Range(ks) \cup {w}
    <3> TAKE k \in 1 .. Len(ks) + 1
    <3>1. k \in 1 .. Len(ks) \/ k = Len(ks) + 1
      OBVIOUS
    <3> QED
      BY <1>1, <1>2, <3>1 DEF Range
  <2>2. \A k \in 1 .. Len(ks) : ks[k] \in Range(more)
    <3> TAKE k \in 1 .. Len(ks)
    <3>1. k \in DOMAIN more /\ more[k] = ks[k]
      BY <1>1, <1>2
    <3> QED
      BY <3>1 DEF Range
  <2>3. w \in Range(more)
    <3>1. Len(ks) + 1 \in DOMAIN more
      BY <1>2
    <3> QED
      BY <1>1, <3>1 DEF Range
  <2>4. Range(more) \subseteq Range(ks) \cup {w}
    BY <1>2, <2>1 DEF Range
  <2>5. Range(ks) \subseteq Range(more)
    BY <1>2, <2>2 DEF Range
  <2> QED
    BY <2>3, <2>4, <2>5
<1>6. IsFiniteSet(Range(ks) \cup {w}) /\ Cardinality(Range(ks) \cup {w}) = Cardinality(Range(ks)) + 1
  BY FS_AddElement
<1> QED
  BY <1>1, <1>4, <1>5, <1>6 DEF more

\* The loop takes each keyword once, and leaves one out only at the cap.
LEMMA KeywordsAre ==
  ASSUME NEW q \in Seq(Symbols)
  PROVE  LET ks == Keywords(q)
         IN  /\ ks \in Seq(Words) /\ Distinct(ks)
             /\ Range(ks) \subseteq Due(q)
             /\ IsFiniteSet(Range(ks)) /\ Cardinality(Range(ks)) = Len(ks)
             /\ Len(ks) <= KeywordCap
             /\ Len(ks) = KeywordCap \/ Range(ks) = Due(q)
<1> DEFINE D == Due(q)
           says(w) == w \in StopWords \cup Short
           sofar(ks, n) == \A h \in 1 .. n : q[h] \in Words =>
                              says(Lower[q[h]]) \/ Lower[q[h]] \in Range(ks)
           I == [n \in 0 .. Len(q) |->
                   {ks \in Seq(Words) :
                      /\ Distinct(ks)
                      /\ Range(ks) \subseteq D
                      /\ IsFiniteSet(Range(ks))
                      /\ Cardinality(Range(ks)) = Len(ks)
                      /\ Len(ks) <= KeywordCap
                      /\ Len(ks) = KeywordCap \/ sofar(ks, n)}]
<1>1. ASSUME NEW n \in 0 .. Len(q), NEW ks
      PROVE  ks \in I[n] <=> /\ ks \in Seq(Words)
                             /\ Distinct(ks)
                             /\ Range(ks) \subseteq D
                             /\ IsFiniteSet(Range(ks))
                             /\ Cardinality(Range(ks)) = Len(ks)
                             /\ Len(ks) <= KeywordCap
                             /\ Len(ks) = KeywordCap \/ sofar(ks, n)
  OBVIOUS
<1> HIDE DEF I, sofar
<1>2. Len(q) \in Nat /\ KeywordCap \in Nat /\ KeywordCap > 0
  BY KeywordBoundsAssumption
<1>3. <<>> \in I[0]
  <2> DEFINE none == <<>>
  <2>1. none \in Seq(Words) /\ Distinct(none) /\ Len(none) = 0 /\ Range(none) = {}
    BY DEF Distinct, Range
  <2>2. sofar(none, 0)
    BY DEF sofar
  <2>3. 0 \in 0 .. Len(q)
    BY <1>2
  <2> HIDE DEF none
  <2>4. IsFiniteSet(Range(none)) /\ Cardinality(Range(none)) = Len(none)
    BY <2>1, FS_EmptySet
  <2>5. Range(none) \subseteq D /\ Len(none) <= KeywordCap
    BY <1>2, <2>1
  <2>6. none \in I[0]
    BY <1>1, <2>1, <2>2, <2>3, <2>4, <2>5
  <2> QED
    BY <2>6 DEF none
<1>4. ASSUME NEW n \in 0 .. Len(q) - 1, NEW ks \in I[n]
      PROVE  TakeKeyword(ks, q[n + 1]) \in I[n + 1]
  <2> DEFINE c == q[n + 1]
             w == Lower[c]
             more == Append(ks, w)
  <2>1. n \in 0 .. Len(q) /\ n + 1 \in 0 .. Len(q) /\ n + 1 \in 1 .. Len(q)
    OBVIOUS
  <2>2. /\ ks \in Seq(Words) /\ Distinct(ks) /\ Range(ks) \subseteq D
        /\ IsFiniteSet(Range(ks)) /\ Cardinality(Range(ks)) = Len(ks)
        /\ Len(ks) <= KeywordCap
        /\ Len(ks) = KeywordCap \/ sofar(ks, n)
    BY <1>1, <2>1
  <2>3. \A h \in 1 .. n + 1 : h \in 1 .. n \/ h = n + 1
    OBVIOUS
  <2>4. CASE c \in Words /\ IsNewKeyword(ks, w) /\ Len(ks) < KeywordCap
    <3>1. TakeKeyword(ks, c) = more
      BY <2>4 DEF TakeKeyword
    <3>2. w \in Words /\ w \notin Range(ks) /\ w \notin StopWords \cup Short
      BY <2>4, LowerAssumption DEF IsNewKeyword
    <3>3. w \in D
      <4>1. c \in Range(q)
        BY <2>1 DEF Range
      <4> QED
        BY <2>4, <3>2, <4>1 DEF Due
    <3> HIDE DEF w
    <3>4. /\ more \in Seq(Words) /\ Len(more) = Len(ks) + 1 /\ Distinct(more)
          /\ Range(more) = Range(ks) \cup {w}
          /\ IsFiniteSet(Range(more)) /\ Cardinality(Range(more)) = Len(more)
      BY <2>2, <3>2, OneMoreKeyword
    <3> HIDE DEF more
    <3>5. Range(more) \subseteq D
      BY <2>2, <3>3, <3>4
    <3>6. Len(more) <= KeywordCap /\ Len(ks) # KeywordCap
      BY <1>2, <2>2, <2>4, <3>4
    <3>7. sofar(more, n + 1)
      BY <2>2, <2>3, <3>4, <3>6 DEF sofar, w
    <3> QED
      BY <1>1, <2>1, <3>1, <3>4, <3>5, <3>6, <3>7
  <2>5. CASE ~(c \in Words /\ IsNewKeyword(ks, w) /\ Len(ks) < KeywordCap)
    <3>1. TakeKeyword(ks, c) = ks
      BY <2>5 DEF TakeKeyword
    <3>2. Len(ks) \in Nat
      BY <2>2
    <3>3. Len(ks) = KeywordCap \/ sofar(ks, n + 1)
      BY <1>2, <2>2, <2>3, <2>5, <3>2 DEF sofar, IsNewKeyword
    <3> QED
      BY <1>1, <2>1, <2>2, <3>1, <3>3
  <2> QED
    BY <2>4, <2>5
<1>5. Keywords(q) \in I[Len(q)]
  <2>1. TakeFacts!After(<<>>, q) \in I[Len(q)]
    BY <1>3, <1>4, TakeFacts!AfterInvariant
  <2> QED
    BY <2>1 DEF Keywords, Taking!After, TakeFacts!After
<1> DEFINE ks == Keywords(q)
<1> HIDE DEF ks
<1>6. ASSUME sofar(ks, Len(q)) PROVE D \subseteq Range(ks)
  <2> SUFFICES ASSUME NEW d \in D PROVE d \in Range(ks)
    OBVIOUS
  <2>1. PICK w \in Range(q) \cap Words : d = Lower[w]
    BY DEF Due
  <2>2. PICK h \in 1 .. Len(q) : q[h] = w
    BY DEF Range
  <2>3. ~says(d)
    BY DEF Due
  <2> QED
    BY <1>6, <2>1, <2>2, <2>3 DEF sofar
<1>7. ks \in I[Len(q)] /\ Len(q) \in 0 .. Len(q)
  BY <1>2, <1>5 DEF ks
<1>8. /\ ks \in Seq(Words) /\ Distinct(ks) /\ Range(ks) \subseteq D
      /\ IsFiniteSet(Range(ks)) /\ Cardinality(Range(ks)) = Len(ks)
      /\ Len(ks) <= KeywordCap
      /\ Len(ks) = KeywordCap \/ sofar(ks, Len(q))
  BY <1>1, <1>7
<1>9. Len(ks) = KeywordCap \/ Range(ks) = D
  BY <1>6, <1>8
<1> QED
  BY <1>8, <1>9 DEF ks
-----------------------------------------------------------------------------
(* The tokens of the joined keywords *)

WordTok(w) == Token("word", <<w>>)

StarTok == Token("star", <<>>)

LEMMA WordsAreSymbols ==
  \A w \in Words : /\ w \in Symbols /\ w \in WordLike
                   /\ <<w>> \in Seq(Symbols)
                   /\ WordTok(w) \in Tokens
<1> TAKE w \in Words
<1>1. w \in Symbols /\ w \in WordLike
  BY DEF Symbols, WordLike
<1>2. <<w>> \in Seq(Symbols)
  BY <1>1
<1>3. Token("word", <<w>>) \in Tokens
  BY <1>2, TokenType
<1> QED
  BY <1>1, <1>2, <1>3 DEF WordTok

LEMMA TokenIs ==
  /\ \A w : WordTok(w).kind = "word" /\ WordTok(w).text = <<w>> /\ WordTok(w).text[1] = w
  /\ StarTok.kind = "star" /\ StarTok \in Tokens
<1>1. \A w : WordTok(w).kind = "word" /\ WordTok(w).text = <<w>>
  BY DEF WordTok, Token
<1>2. \A w : <<w>>[1] = w
  OBVIOUS
<1>3. StarTok.kind = "star"
  BY DEF StarTok, Token
<1>4. <<>> \in Seq(Symbols)
  OBVIOUS
<1>5. StarTok \in Tokens
  BY <1>4, TokenType DEF StarTok
<1> QED
  BY <1>1, <1>2, <1>3, <1>5

\* The tokens that ask for a keyword.
Asked(T) == {i \in DOMAIN T : T[i].kind = "word" /\ T[i].text # <<OrWord>>}

\* A keyword ends at place i.
EndsAt(T, i) == i \in Asked(T) \/ (T[i].kind = "star" /\ i - 1 \in Asked(T))

\* T asks for the first n of ks.
AsksFor(T, ks, n) ==
  /\ \A i \in Asked(T) : \E k \in 1 .. n : T[i].text = <<ks[k]>>
  /\ \A i, j \in Asked(T) : T[i].text = T[j].text => i = j
  /\ Cardinality(Asked(T)) = n
  /\ \A i \in DOMAIN T \ Asked(T) :
        \/ T[i].kind = "star" /\ i - 1 \in Asked(T) /\ T[i - 1].text[1] \in Long
        \/ T[i] = WordTok(OrWord) /\ i + 1 \in Asked(T) /\ EndsAt(T, i - 1)
  /\ n > 0 => Len(T) > 0 /\ EndsAt(T, Len(T))

\* U is T with OR, the keyword w and, for a long one, a star.
Extends(U, T, first, w) ==
  LET p == IF first THEN Len(T) + 1 ELSE Len(T) + 2
  IN  /\ Len(U) \in {p, p + 1}
      /\ \A i \in 1 .. Len(T) : U[i] = T[i]
      /\ ~first => U[p - 1] = WordTok(OrWord)
      /\ U[p] = WordTok(w)
      /\ Len(U) = p + 1 => U[p + 1] = StarTok /\ w \in Long

LEMMA KeywordAdded ==
  ASSUME NEW ks \in Seq(Words), Distinct(ks), \A k \in 1 .. Len(ks) : ks[k] # OrWord,
         NEW n \in 0 .. Len(ks) - 1,
         NEW T \in Seq(Tokens), AsksFor(T, ks, n),
         NEW U \in Seq(Tokens), Extends(U, T, n = 0, ks[n + 1])
  PROVE  AsksFor(U, ks, n + 1)
<1> DEFINE p == IF n = 0 THEN Len(T) + 1 ELSE Len(T) + 2
           w == ks[n + 1]
<1>1. /\ Len(U) \in {p, p + 1}
      /\ \A i \in 1 .. Len(T) : U[i] = T[i]
      /\ n # 0 => U[p - 1] = WordTok(OrWord)
      /\ U[p] = WordTok(w)
      /\ Len(U) = p + 1 => U[p + 1] = StarTok /\ w \in Long
  BY DEF Extends
<1>2. /\ Len(T) \in Nat /\ Len(U) \in Nat /\ p \in Nat /\ p > Len(T)
      /\ n = 0 => p = Len(T) + 1
      /\ n # 0 => p = Len(T) + 2
  OBVIOUS
<1>3. DOMAIN T = 1 .. Len(T) /\ DOMAIN U = 1 .. Len(U)
  OBVIOUS
<1>4. w \in Words /\ w # OrWord /\ n + 1 \in 1 .. Len(ks)
  OBVIOUS
<1> HIDE DEF p
<1>5. \A i \in 1 .. Len(U) : \/ i \in 1 .. Len(T)
                             \/ n # 0 /\ i = p - 1
                             \/ i = p
                             \/ i = p + 1 /\ Len(U) = p + 1
  BY <1>1, <1>2
<1>6. p \in Asked(U)
  <2>1. U[p].kind = "word" /\ U[p].text = <<w>>
    BY <1>1, TokenIs
  <2>2. <<w>> # <<OrWord>>
    BY <1>4
  <2> HIDE DEF w
  <2>3. Len(U) = p \/ Len(U) = p + 1
    BY <1>1
  <2>4. 1 <= p /\ p <= Len(U)
    BY <1>2, <2>3
  <2>5. p \in DOMAIN U
    BY <1>2, <1>3, <2>4
  <2> QED
    BY <2>1, <2>2, <2>5 DEF Asked
<1>7. n # 0 => p - 1 \notin Asked(U)
  BY <1>1, TokenIs DEF Asked
<1>8. Len(U) = p + 1 => p + 1 \notin Asked(U)
  <2>1. Len(U) = p + 1 => U[p + 1].kind = "star"
    BY <1>1, TokenIs
  <2> QED
    BY <2>1 DEF Asked
<1>9. ASSUME NEW i \in 1 .. Len(T) PROVE i \in Asked(U) <=> i \in Asked(T)
  <2>1. i <= Len(U)
    <3>1. Len(U) = p \/ Len(U) = p + 1
      BY <1>1
    <3> QED
      BY <1>2, <3>1
  <2>2. i \in DOMAIN T /\ i \in DOMAIN U
    BY <1>2, <1>3, <2>1
  <2>3. U[i] = T[i]
    BY <1>1
  <2> QED
    BY <2>2, <2>3 DEF Asked
<1>10. Asked(T) \subseteq 1 .. Len(T) /\ Asked(U) \subseteq 1 .. Len(U)
  BY <1>3 DEF Asked
<1>11. Asked(U) = Asked(T) \cup {p}
  BY <1>5, <1>6, <1>7, <1>8, <1>9, <1>10
<1>12. p \notin Asked(T)
  BY <1>2, <1>10
<1>13. U[p].text = <<w>>
  BY <1>1, TokenIs
<1> HIDE DEF w
<1>14. ASSUME NEW i \in Asked(T) PROVE U[i].text # <<w>> /\ U[i].text = T[i].text
  <2>1. U[i] = T[i]
    BY <1>1, <1>10
  <2>2. PICK k \in 1 .. n : T[i].text = <<ks[k]>>
    BY DEF AsksFor
  <2>3. ks[k] # w
    BY <1>4 DEF Distinct, w
  <2>4. <<ks[k]>> # <<w>>
    BY <2>3
  <2> QED
    BY <2>1, <2>2, <2>4
<1>15. ASSUME NEW i \in Asked(U) PROVE \E k \in 1 .. n + 1 : U[i].text = <<ks[k]>>
  <2>1. CASE i = p
    BY <1>4, <1>13, <2>1 DEF w
  <2>2. CASE i \in Asked(T)
    <3>1. PICK k \in 1 .. n : T[i].text = <<ks[k]>>
      BY <2>2 DEF AsksFor
    <3>2. k \in 1 .. n + 1
      OBVIOUS
    <3> QED
      BY <1>14, <2>2, <3>1, <3>2
  <2> QED
    BY <1>11, <2>1, <2>2
<1>16. ASSUME NEW i \in Asked(U), NEW j \in Asked(U), U[i].text = U[j].text PROVE i = j
  <2>1. \A h \in Asked(U) : h = p \/ h \in Asked(T)
    BY <1>11
  <2>2. \A h, m \in Asked(T) : T[h].text = T[m].text => h = m
    BY DEF AsksFor
  <2> QED
    BY <1>13, <1>14, <1>16, <2>1, <2>2
<1>17. Cardinality(Asked(U)) = n + 1
  <2>1. IsFiniteSet(1 .. Len(T))
    BY <1>2, FS_Interval
  <2>2. IsFiniteSet(Asked(T))
    BY <1>10, <2>1, FS_Subset
  <2>3. Cardinality(Asked(T)) = n
    BY DEF AsksFor
  <2> QED
    BY <1>11, <1>12, <2>2, <2>3, FS_AddElement
<1>18. ASSUME NEW i \in 1 .. Len(T) PROVE EndsAt(T, i) => EndsAt(U, i)
  BY <1>1, <1>11, <1>18 DEF EndsAt
<1>19. ASSUME NEW i \in DOMAIN U \ Asked(U)
       PROVE  \/ U[i].kind = "star" /\ i - 1 \in Asked(U) /\ U[i - 1].text[1] \in Long
              \/ U[i] = WordTok(OrWord) /\ i + 1 \in Asked(U) /\ EndsAt(U, i - 1)
  <2>1. CASE i \in 1 .. Len(T)
    <3>1. i \in DOMAIN T \ Asked(T) /\ U[i] = T[i]
      BY <1>1, <1>3, <1>9, <2>1
    <3>2. \/ T[i].kind = "star" /\ i - 1 \in Asked(T) /\ T[i - 1].text[1] \in Long
          \/ T[i] = WordTok(OrWord) /\ i + 1 \in Asked(T) /\ EndsAt(T, i - 1)
      BY <3>1 DEF AsksFor
    <3>3. CASE T[i].kind = "star" /\ i - 1 \in Asked(T) /\ T[i - 1].text[1] \in Long
      <4>1. i - 1 \in 1 .. Len(T)
        BY <1>10, <3>3
      <4>2. U[i - 1] = T[i - 1]
        BY <1>1, <4>1
      <4> QED
        BY <1>11, <3>1, <3>3, <4>2
    <3>4. CASE T[i] = WordTok(OrWord) /\ i + 1 \in Asked(T) /\ EndsAt(T, i - 1)
      <4>1. i - 1 \in 1 .. Len(T)
        <5>1. i - 1 \in Asked(T) \/ (i - 1) - 1 \in Asked(T)
          BY <3>4 DEF EndsAt
        <5> QED
          BY <1>2, <1>10, <2>1, <5>1
      <4> QED
        BY <1>11, <1>18, <3>1, <3>4, <4>1
    <3> QED
      BY <3>2, <3>3, <3>4
  <2>2. CASE n # 0 /\ i = p - 1
    <3>1. U[i] = WordTok(OrWord)
      BY <1>1, <2>2, TokenIs
    <3>2. i + 1 = p /\ i - 1 = Len(T)
      BY <1>2, <2>2
    <3>3. Len(T) > 0 /\ EndsAt(T, Len(T))
      BY <2>2 DEF AsksFor
    <3>4. Len(T) \in 1 .. Len(T)
      BY <1>2, <3>3
    <3>5. EndsAt(U, Len(T))
      BY <1>18, <3>3, <3>4
    <3> QED
      BY <1>6, <3>1, <3>2, <3>5
  <2>3. CASE i = p + 1 /\ Len(U) = p + 1
    <3>1. U[i].kind = "star" /\ w \in Long
      BY <1>1, <2>3, TokenIs
    <3>2. i - 1 = p
      BY <1>2, <2>3
    <3>3. <<w>>[1] = w
      OBVIOUS
    <3>4. U[i - 1].text[1] \in Long
      BY <1>13, <3>1, <3>2, <3>3
    <3> QED
      BY <1>6, <3>1, <3>2, <3>4
  <2> QED
    BY <1>3, <1>5, <1>6, <2>1, <2>2, <2>3
<1>20. Len(U) > 0 /\ EndsAt(U, Len(U))
  <2>1. CASE Len(U) = p
    BY <1>2, <1>6, <2>1 DEF EndsAt
  <2>2. CASE Len(U) = p + 1
    <3>1. U[p + 1].kind = "star" /\ (p + 1) - 1 = p
      BY <1>1, <1>2, <2>2, TokenIs
    <3> QED
      BY <1>2, <1>6, <2>2, <3>1 DEF EndsAt
  <2> QED
    BY <1>1, <2>1, <2>2
<1> QED
  BY <1>15, <1>16, <1>17, <1>19, <1>20 DEF AsksFor
-----------------------------------------------------------------------------
(* Reading the joined keywords *)

\* Neither in a string nor just behind one.
Plain(s) == s \in Readers /\ s.inside \in {"space", "word"}

\* The tokens that s has read, the one at its end included.
ReadSoFar(s) == Complete(s).toks

LEMMA ReadSpace ==
  ASSUME NEW s, Plain(s)
  PROVE  LET t == ReadSymbol(s, "space")
         IN  Plain(t) /\ t.inside = "space" /\ ReadSoFar(t) = ReadSoFar(s)
<1> DEFINE d == Complete(s)
<1>1. "space" \in Symbols /\ "space" \notin WordLike
  <2>1. "space" \in Symbols
    BY DEF Symbols, Marks
  <2> QED
    BY <2>1, WordsAreNoMarks DEF Parts
<1>2. s \in Readers /\ Settled(s)
  BY DEF Plain, Settled
<1>3. d \in Readers /\ d.inside = "space"
  BY <1>2, CompleteIs
<1>4. ReadSymbol(s, "space") = Outside(d, "space")
  BY <1>1 DEF ReadSymbol, Plain
<1>5. d.toks = ReadSoFar(s)
  BY DEF ReadSoFar
<1> HIDE DEF d
<1>6. ReadSymbol(s, "space") = d
  BY <1>1, <1>3, <1>4, OutsideIs
<1>7. Complete(d) = d
  BY <1>3, CompleteIs
<1>8. ReadSoFar(d) = ReadSoFar(s)
  BY <1>5, <1>7 DEF ReadSoFar
<1> QED
  BY <1>3, <1>6, <1>8 DEF Plain

LEMMA ReadStar ==
  ASSUME NEW s, Plain(s)
  PROVE  LET t == ReadSymbol(s, "star")
         IN  Plain(t) /\ t.inside = "space" /\ ReadSoFar(t) = Append(ReadSoFar(s), StarTok)
<1> DEFINE d == Complete(s)
<1>1. "star" \in Symbols /\ "star" \notin WordLike
  <2>1. "star" \in Symbols
    BY DEF Symbols, Marks
  <2> QED
    BY <2>1, WordsAreNoMarks DEF Parts
<1>2. s \in Readers /\ Settled(s)
  BY DEF Plain, Settled
<1>3. d \in Readers /\ d.inside = "space"
  BY <1>2, CompleteIs
<1>4. ReadSymbol(s, "star") = Outside(d, "star")
  BY <1>1 DEF ReadSymbol, Plain
<1>5. d.toks = ReadSoFar(s)
  BY DEF ReadSoFar
<1> HIDE DEF d
<1> DEFINE more == Append(d.toks, StarTok)
           t == Reader("space", d.text, more)
<1>6. ReadSymbol(s, "star") = t
  BY <1>1, <1>3, <1>4, OutsideIs DEF StarTok
<1>7. d.text \in Seq(Symbols) /\ d.toks \in Seq(Tokens)
  BY <1>3, ReaderWith
<1>8. more \in Seq(Tokens)
  BY <1>7, TokenIs
<1>9. "space" \in Modes
  BY DEF Modes
<1>10. more = Append(ReadSoFar(s), StarTok)
  BY <1>5
<1> HIDE DEF more
<1>11. t \in Readers /\ t.inside = "space" /\ t.toks = more
  BY <1>7, <1>8, <1>9, ReaderIs
<1> HIDE DEF t
<1>12. ReadSoFar(t) = more
  BY <1>11, CompleteIs DEF ReadSoFar
<1> QED
  BY <1>6, <1>10, <1>11, <1>12 DEF Plain

LEMMA ReadWord ==
  ASSUME NEW s, Plain(s), s.inside = "space", NEW w \in Words
  PROVE  LET t == ReadSymbol(s, w)
         IN  Plain(t) /\ ReadSoFar(t) = Append(ReadSoFar(s), WordTok(w))
<1>1. w \in Symbols /\ w \in WordLike /\ <<w>> \in Seq(Symbols)
  BY WordsAreSymbols
<1>2. s \in Readers
  BY DEF Plain
<1>3. Complete(s) = s
  BY <1>2, CompleteIs
<1>4. ReadSymbol(s, w) = Outside(s, w)
  BY <1>3 DEF ReadSymbol
<1> DEFINE text == <<w>>
           t == Reader("word", text, s.toks)
<1>5. ReadSymbol(s, w) = t
  BY <1>1, <1>2, <1>4, OutsideIs
<1>6. s.toks \in Seq(Tokens)
  BY <1>2, ReaderWith
<1>7. "word" \in Modes
  BY DEF Modes
<1>8. text \in Seq(Symbols) /\ Token("word", text) = WordTok(w)
  BY <1>1 DEF WordTok
<1> HIDE DEF text
<1>9. t \in Readers /\ t.inside = "word" /\ t.text = text /\ t.toks = s.toks
  BY <1>6, <1>7, <1>8, ReaderIs
<1> HIDE DEF t
<1>10. Complete(t).toks = Append(s.toks, WordTok(w))
  BY <1>8, <1>9, CompleteIs
<1>11. ReadSoFar(t) = Append(ReadSoFar(s), WordTok(w))
  BY <1>3, <1>10 DEF ReadSoFar
<1> QED
  BY <1>5, <1>9, <1>11 DEF Plain

LEMMA StarsAppend ==
  ASSUME NEW q \in Seq(Symbols), NEW c \in Symbols, StarsEndTokens(q),
         c \in Parts \/ q = <<>> \/ q[Len(q)] # "star"
  PROVE  StarsEndTokens(Append(q, c))
<1> DEFINE m == Len(q)
           r == Append(q, c)
<1>1. m \in Nat /\ r \in Seq(Symbols) /\ Len(r) = m + 1 /\ r[m + 1] = c
  OBVIOUS
<1>2. \A i \in 1 .. m : r[i] = q[i]
  OBVIOUS
<1>3. DOMAIN r = 1 .. m + 1 /\ DOMAIN q = 1 .. m
  OBVIOUS
<1>4. m = 0 \/ c \in Parts \/ q[m] # "star"
  OBVIOUS
<1>5. Len(q) = m
  OBVIOUS
<1> HIDE DEF m, r
<1> SUFFICES ASSUME NEW i \in DOMAIN r, r[i] = "star"
             PROVE  i = Len(r) \/ r[i + 1] \in Parts
  BY DEF StarsEndTokens, r
<1>6. CASE i = m + 1
  BY <1>1, <1>6
<1>7. CASE i = m
  <2>1. i \in 1 .. m /\ m # 0
    BY <1>1, <1>3, <1>7
  <2>2. q[m] = "star"
    BY <1>2, <1>7, <2>1
  <2>3. r[i + 1] = c
    BY <1>1, <1>7
  <2> QED
    BY <1>4, <2>1, <2>2, <2>3
<1>8. CASE i # m /\ i # m + 1
  <2>1. i \in 1 .. m /\ i + 1 \in 1 .. m
    BY <1>1, <1>3, <1>8
  <2>2. q[i] = "star"
    BY <1>2, <2>1
  <2>3. i = m \/ q[i + 1] \in Parts
    BY <1>3, <1>5, <2>1, <2>2 DEF StarsEndTokens
  <2> QED
    BY <1>2, <1>8, <2>1, <2>3
<1> QED
  BY <1>6, <1>7, <1>8

\* What FTS5 has read of s asks for the first n of ks.
ReadsAs(s, ks, n) ==
  /\ s \in Seq(Symbols)
  /\ Plain(Read(Start, s))
  /\ AsksFor(ReadSoFar(Read(Start, s)), ks, n)
  /\ StarsEndTokens(s)
  /\ s = <<>> <=> n = 0

LEMMA LastIs ==
  ASSUME NEW q \in Seq(Symbols), NEW c \in Symbols
  PROVE  LET r == Append(q, c) IN r \in Seq(Symbols) /\ r # <<>> /\ r[Len(r)] = c
<1> DEFINE r == Append(q, c)
<1>1. r \in Seq(Symbols) /\ Len(r) = Len(q) + 1 /\ r[Len(q) + 1] = c
  OBVIOUS
<1>2. Len(q) \in Nat
  OBVIOUS
<1> HIDE DEF r
<1>3. r # <<>>
  BY <1>1, <1>2
<1> QED
  BY <1>1, <1>3 DEF r

\* The beginning of what is joined to s: nothing, or OR between spaces.
LEMMA ReadOr ==
  ASSUME NEW s \in Seq(Symbols), Plain(Read(Start, s)), StarsEndTokens(s)
  PROVE  LET b == s \o <<"space", OrWord, "space">>
             r == Read(Start, b)
         IN  /\ b \in Seq(Symbols) /\ b # <<>> /\ b[Len(b)] = "space" /\ StarsEndTokens(b)
             /\ Plain(r) /\ r.inside = "space"
             /\ ReadSoFar(r) = Append(ReadSoFar(Read(Start, s)), WordTok(OrWord))
<1> DEFINE a == Append(s, "space")
           o == Append(a, OrWord)
           b == Append(o, "space")
<1>1. "space" \in Symbols /\ "space" \in Parts
  BY DEF Symbols, Marks, Parts
<1>2. OrWord \in Words /\ OrWord \in Symbols /\ OrWord # "star"
  BY WordsAssumption DEF Symbols, Marks
<1>3. s \o <<"space", OrWord, "space">> = b
  OBVIOUS
<1>4. a \in Seq(Symbols) /\ a # <<>> /\ a[Len(a)] = "space"
  BY <1>1, LastIs
<1>5. StarsEndTokens(a)
  BY <1>1, StarsAppend
<1>6. Read(Start, a) = ReadSymbol(Read(Start, s), "space")
  BY <1>1, ReadAppend
<1> DEFINE ra == Read(Start, a)
           ro == Read(Start, o)
           rb == Read(Start, b)
<1>7. Plain(ra) /\ ra.inside = "space" /\ ReadSoFar(ra) = ReadSoFar(Read(Start, s))
  BY <1>6, ReadSpace
<1> HIDE DEF a, ra
<1>8. o \in Seq(Symbols) /\ StarsEndTokens(o)
  <2>1. a[Len(a)] # "star"
    BY <1>4
  <2> QED
    BY <1>2, <1>4, <1>5, <2>1, StarsAppend
<1>9. ro = ReadSymbol(ra, OrWord)
  BY <1>2, <1>4, ReadAppend DEF ra
<1>10. Plain(ro) /\ ReadSoFar(ro) = Append(ReadSoFar(ra), WordTok(OrWord))
  BY <1>2, <1>7, <1>9, ReadWord
<1> HIDE DEF o, ro
<1>11. b \in Seq(Symbols) /\ b # <<>> /\ b[Len(b)] = "space"
  BY <1>1, <1>8, LastIs
<1>12. StarsEndTokens(b)
  BY <1>1, <1>8, StarsAppend
<1>13. rb = ReadSymbol(ro, "space")
  BY <1>1, <1>8, ReadAppend DEF ro
<1>14. Plain(rb) /\ rb.inside = "space" /\ ReadSoFar(rb) = ReadSoFar(ro)
  BY <1>10, <1>13, ReadSpace
<1> HIDE DEF b
<1> QED
  BY <1>3, <1>7, <1>10, <1>11, <1>12, <1>14 DEF ra

\* A keyword that is joined to b, with its star.
LEMMA ReadStem ==
  ASSUME NEW b \in Seq(Symbols), StarsEndTokens(b), b = <<>> \/ b[Len(b)] # "star",
         Plain(Read(Start, b)), Read(Start, b).inside = "space",
         NEW w \in Words
  PROVE  LET e == b \o Stem(w)
             r == Read(Start, e)
             more == Append(ReadSoFar(Read(Start, b)), WordTok(w))
         IN  /\ e \in Seq(Symbols) /\ e # <<>> /\ StarsEndTokens(e)
             /\ Plain(r)
             /\ ReadSoFar(r) = IF w \in Long THEN Append(more, StarTok) ELSE more
<1> DEFINE a == Append(b, w)
           ra == Read(Start, a)
           more == Append(ReadSoFar(Read(Start, b)), WordTok(w))
<1>1. w \in Symbols /\ w # "star" /\ "star" \in Symbols
  BY WordsAssumption DEF Symbols, Marks
<1>2. a \in Seq(Symbols) /\ a # <<>> /\ a[Len(a)] # "star"
  <2>1. a \in Seq(Symbols) /\ a # <<>> /\ a[Len(a)] = w
    BY <1>1, LastIs
  <2> QED
    BY <1>1, <2>1
<1>3. StarsEndTokens(a)
  BY <1>1, StarsAppend
<1>4. ra = ReadSymbol(Read(Start, b), w)
  BY <1>1, ReadAppend
<1>5. Plain(ra) /\ ReadSoFar(ra) = more
  BY <1>4, ReadWord
<1>6. CASE w \notin Long
  <2>1. b \o Stem(w) = a
    BY <1>6 DEF Stem
  <2> HIDE DEF a, more
  <2> QED
    BY <1>2, <1>3, <1>5, <1>6, <2>1 DEF ra, more
<1>7. CASE w \in Long
  <2> DEFINE e == Append(a, "star")
             re == Read(Start, e)
  <2>1. b \o Stem(w) = e
    BY <1>7 DEF Stem
  <2> HIDE DEF a, more, ra
  <2>2. e \in Seq(Symbols) /\ e # <<>>
    BY <1>1, <1>2
  <2>3. StarsEndTokens(e)
    BY <1>1, <1>2, <1>3, StarsAppend
  <2>4. re = ReadSymbol(ra, "star")
    BY <1>1, <1>2, ReadAppend DEF ra
  <2>5. Plain(re) /\ ReadSoFar(re) = Append(more, StarTok)
    BY <1>5, <2>4, ReadStar
  <2> HIDE DEF e
  <2> QED
    BY <1>7, <2>1, <2>2, <2>3, <2>5 DEF more
<1> QED
  BY <1>6, <1>7

LEMMA KeywordJoined ==
  ASSUME NEW ks \in Seq(Words), Distinct(ks), \A k \in 1 .. Len(ks) : ks[k] # OrWord,
         NEW n \in 0 .. Len(ks) - 1, NEW s, ReadsAs(s, ks, n)
  PROVE  ReadsAs(JoinKeyword(s, ks[n + 1]), ks, n + 1)
<1> DEFINE w == ks[n + 1]
           b == IF n = 0 THEN s ELSE s \o <<"space", OrWord, "space">>
           T == ReadSoFar(Read(Start, s))
           R == ReadSoFar(Read(Start, b))
           e == b \o Stem(w)
           U == ReadSoFar(Read(Start, e))
<1>1. w \in Words
  OBVIOUS
<1>2. /\ s \in Seq(Symbols) /\ Plain(Read(Start, s)) /\ AsksFor(T, ks, n)
      /\ StarsEndTokens(s)
      /\ s = <<>> <=> n = 0
  BY DEF ReadsAs
<1>3. JoinKeyword(s, w) = e
  <2>1. CASE n = 0
    <3>1. s = <<>> /\ b = <<>>
      BY <1>2, <2>1
    <3>2. JoinKeyword(s, w) = s \o <<>> \o Stem(w)
      BY <3>1 DEF JoinKeyword
    <3>3. <<>> \o <<>> = <<>>
      OBVIOUS
    <3> HIDE DEF b, w
    <3> QED
      BY <3>1, <3>2, <3>3
  <2>2. CASE n # 0
    <3>1. s # <<>> /\ b = s \o <<"space", OrWord, "space">>
      BY <1>2, <2>2
    <3> HIDE DEF b
    <3> QED
      BY <3>1 DEF JoinKeyword
  <2> QED
    BY <2>1, <2>2
<1>4. /\ b \in Seq(Symbols) /\ StarsEndTokens(b)
      /\ b = <<>> \/ b[Len(b)] # "star"
      /\ Plain(Read(Start, b)) /\ Read(Start, b).inside = "space"
      /\ R = IF n = 0 THEN T ELSE Append(T, WordTok(OrWord))
  <2>1. CASE n = 0
    <3>1. b = s /\ s = <<>>
      BY <1>2, <2>1
    <3>2. Read(Start, s).inside = "space"
      BY <3>1, ReadNone DEF Start
    <3> QED
      BY <1>2, <2>1, <3>1, <3>2
  <2>2. CASE n # 0
    <3> DEFINE o == s \o <<"space", OrWord, "space">>
    <3>1. b = o
      BY <2>2
    <3>2. /\ o \in Seq(Symbols) /\ o # <<>> /\ o[Len(o)] = "space" /\ StarsEndTokens(o)
          /\ Plain(Read(Start, o)) /\ Read(Start, o).inside = "space"
          /\ ReadSoFar(Read(Start, o)) = Append(T, WordTok(OrWord))
      BY <1>2, ReadOr
    <3> HIDE DEF o, b
    <3> QED
      BY <2>2, <3>1, <3>2
  <2> QED
    BY <2>1, <2>2
<1>5. /\ e \in Seq(Symbols) /\ e # <<>> /\ StarsEndTokens(e)
      /\ Plain(Read(Start, e))
      /\ U = IF w \in Long THEN Append(Append(R, WordTok(w)), StarTok) ELSE Append(R, WordTok(w))
  <2> HIDE DEF w, b
  <2> QED
    BY <1>1, <1>4, ReadStem
<1>6. \A r : Plain(r) => ReadSoFar(r) \in Seq(Tokens)
  <2> TAKE r
  <2> HAVE Plain(r)
  <2>1. Complete(r) \in Readers
    BY CompleteIs DEF Plain
  <2> QED
    BY <2>1, ReaderWith DEF ReadSoFar
<1>7. T \in Seq(Tokens) /\ U \in Seq(Tokens)
  BY <1>2, <1>5, <1>6
<1> HIDE DEF w, b, T, R, e, U
<1>8. Extends(U, T, n = 0, w)
  <2> DEFINE ow == WordTok(OrWord)
             ww == WordTok(w)
  <2>1. R = IF n = 0 THEN T ELSE Append(T, ow)
    BY <1>4
  <2>2. U = IF w \in Long THEN Append(Append(R, ww), StarTok) ELSE Append(R, ww)
    BY <1>5
  <2> HIDE DEF ow, ww
  <2> DEFINE p == IF n = 0 THEN Len(T) + 1 ELSE Len(T) + 2
  <2>3. /\ Len(R) = p - 1 /\ Len(R) \in Nat
        /\ \A i \in 1 .. Len(T) : R[i] = T[i]
        /\ n # 0 => R[p - 1] = ow
        /\ Len(T) \in Nat /\ Len(T) <= Len(R)
    <3>1. CASE n = 0
      BY <1>7, <2>1, <3>1
    <3>2. CASE n # 0
      <4>1. R = Append(T, ow)
        BY <2>1, <3>2
      <4> QED
        BY <1>7, <3>2, <4>1
    <3> QED
      BY <3>1, <3>2
  <2> DEFINE v == Append(R, ww)
  <2>4. v \in Seq(Tokens) /\ R \in Seq(Tokens)
    <3>1. R \in Seq(Tokens)
      BY <1>4, <1>6 DEF R
    <3>2. ww \in Tokens
      BY <1>1, WordsAreSymbols DEF ww
    <3> QED
      BY <3>1, <3>2
  <2>5. /\ Len(v) = p
        /\ \A i \in 1 .. Len(R) : v[i] = R[i]
        /\ v[p] = ww
    BY <2>3, <2>4
  <2> HIDE DEF v
  <2>6. \A i \in 1 .. Len(T) : v[i] = T[i]
    BY <2>3, <2>5
  <2>7. n # 0 => v[p - 1] = ow
    BY <2>3, <2>5
  <2>8. p \in Nat /\ p > Len(T) /\ (n # 0 => p - 1 \in 1 .. p)
    BY <2>3
  <2> HIDE DEF p
  <2>9. CASE w \in Long
    <3>1. U = Append(v, StarTok)
      BY <2>2, <2>9 DEF v
    <3>2. Len(U) = p + 1 /\ U[p + 1] = StarTok /\ \A i \in 1 .. p : U[i] = v[i]
      <4>1. /\ Len(U) = Len(v) + 1 /\ U[Len(v) + 1] = StarTok
            /\ \A i \in 1 .. Len(v) : U[i] = v[i]
        BY <2>4, <3>1, TokenIs
      <4> QED
        BY <2>5, <4>1
    <3>3. p \in 1 .. p /\ \A i \in 1 .. Len(T) : i \in 1 .. p
      BY <2>3, <2>8
    <3>4. /\ \A i \in 1 .. Len(T) : U[i] = T[i]
          /\ n # 0 => U[p - 1] = ow
          /\ U[p] = ww
      BY <2>5, <2>6, <2>7, <2>8, <3>2, <3>3
    <3> QED
      BY <2>9, <3>2, <3>4 DEF Extends, p, ow, ww
  <2>10. CASE w \notin Long
    <3>1. U = v
      BY <2>2, <2>10 DEF v
    <3> QED
      BY <2>5, <2>6, <2>7, <2>8, <3>1 DEF Extends, p, ow, ww
  <2> QED
    BY <2>9, <2>10
<1>9. AsksFor(U, ks, n + 1)
  <2>1. Extends(U, T, n = 0, ks[n + 1])
    BY <1>8 DEF w
  <2> QED
    BY <1>2, <1>7, <2>1, KeywordAdded
<1>10. n + 1 # 0
  OBVIOUS
<1> QED
  BY <1>3, <1>5, <1>9, <1>10 DEF ReadsAs, U, w

\* FTS5 reads the joined keywords as them and nothing else, and sanitizeFTSQuery
\* passes them on as they are.
LEMMA KeywordsAreAsked ==
  ASSUME NEW ks \in Seq(Words), Distinct(ks), \A k \in 1 .. Len(ks) : ks[k] # OrWord
  PROVE  LET e == SanitizeFTSQuery(Joined(ks))
         IN  /\ e \in Seq(Symbols)
             /\ Accepts(e) /\ AsksFor(Lexed(e).toks, ks, Len(ks)) /\ Lexed(e).toks \in Seq(Tokens)
<1> DEFINE I == [n \in 0 .. Len(ks) |-> {s \in Seq(Symbols) : ReadsAs(s, ks, n)}]
           e == Joined(ks)
<1>1. ASSUME NEW n \in 0 .. Len(ks), NEW s PROVE s \in I[n] <=> ReadsAs(s, ks, n)
  BY DEF ReadsAs
<1>2. Len(ks) \in Nat
  OBVIOUS
<1>3. ReadsAs(<<>>, ks, 0)
  <2> DEFINE none == <<>>
  <2>1. none \in Seq(Symbols) /\ StarsEndTokens(none)
    BY DEF StarsEndTokens
  <2>2. Read(Start, none) = Start
    BY ReadNone
  <2>3. Plain(Start) /\ Start.inside = "space" /\ Start.toks = none
    BY StartIs DEF Plain, Start
  <2>4. ReadSoFar(Start) = none
    BY <2>3, CompleteIs DEF ReadSoFar, Plain
  <2>5. DOMAIN none = {}
    OBVIOUS
  <2>6. none = <<>>
    OBVIOUS
  <2> HIDE DEF none
  <2>7. Asked(none) = {}
    BY <2>5 DEF Asked
  <2>8. Cardinality(Asked(none)) = 0
    BY <2>7, FS_EmptySet
  <2>9. AsksFor(none, ks, 0)
    BY <2>5, <2>7, <2>8 DEF AsksFor
  <2>10. ReadsAs(none, ks, 0)
    BY <2>1, <2>2, <2>3, <2>4, <2>6, <2>9 DEF ReadsAs
  <2> QED
    BY <2>6, <2>10
<1> HIDE DEF I
<1>4. <<>> \in I[0]
  BY <1>1, <1>2, <1>3
<1>5. ASSUME NEW n \in 0 .. Len(ks) - 1, NEW s \in I[n]
      PROVE  JoinKeyword(s, ks[n + 1]) \in I[n + 1]
  <2>1. n \in 0 .. Len(ks) /\ n + 1 \in 0 .. Len(ks)
    OBVIOUS
  <2>2. ReadsAs(s, ks, n)
    BY <1>1, <2>1
  <2>3. ReadsAs(JoinKeyword(s, ks[n + 1]), ks, n + 1)
    BY <2>2, KeywordJoined
  <2> QED
    BY <1>1, <2>1, <2>3
<1>6. e \in I[Len(ks)]
  <2>1. JoinFacts!After(<<>>, ks) \in I[Len(ks)]
    BY <1>4, <1>5, JoinFacts!AfterInvariant
  <2> QED
    BY <2>1 DEF Joined, Joining!After, JoinFacts!After
<1> HIDE DEF e
<1>7. ReadsAs(e, ks, Len(ks))
  BY <1>1, <1>2, <1>6
<1> DEFINE r == Read(Start, e)
<1>8. e \in Seq(Symbols) /\ StarsEndTokens(e) /\ Plain(r) /\ AsksFor(ReadSoFar(r), ks, Len(ks))
  BY <1>7 DEF ReadsAs
<1>9. Lexed(e) = Complete(r)
  BY LexedIs
<1>10. r \in Readers /\ Settled(r)
  BY <1>8 DEF Plain, Settled
<1>11. Complete(r) \in Readers /\ Complete(r).inside = "space"
  BY <1>10, CompleteIs
<1>12. Accepts(e) /\ Lexed(e).toks \in Seq(Tokens)
  BY <1>9, <1>11, ReaderWith DEF Accepts
<1>13. AsksFor(Lexed(e).toks, ks, Len(ks))
  BY <1>8, <1>9 DEF ReadSoFar
<1>14. SanitizeFTSQuery(e) = e
  <2>1. OperatorFree(e)
    BY <1>13, TokenIs DEF OperatorFree, AsksFor, Asked
  <2> QED
    BY <1>8, <1>12, <2>1, SyntaxIsWrittenAsItWas
<1> QED
  BY <1>8, <1>12, <1>13, <1>14 DEF e
-----------------------------------------------------------------------------
(* The searches *)

LEMMA DueIsFinite == \A q \in Seq(Symbols) : IsFiniteSet(Due(q))
<1> TAKE q \in Seq(Symbols)
<1> DEFINE S == {h \in 1 .. Len(q) : q[h] \in Words}
           T == {Lower[w] : w \in Range(q) \cap Words}
           f == [h \in S |-> Lower[q[h]]]
<1>1. IsFiniteSet(1 .. Len(q)) /\ S \in SUBSET (1 .. Len(q))
  <2>1. Len(q) \in Nat /\ 1 \in Int
    OBVIOUS
  <2> QED
    BY <2>1, FS_Interval
<1>2. IsFiniteSet(S)
  <2> HIDE DEF S
  <2> QED
    BY <1>1, FS_Subset
<1>3. \A h \in S : f[h] \in T
  BY DEF Range
<1>4. \A t \in T : \E h \in S : f[h] = t
  BY DEF Range
<1>5. f \in Surjection(S, T)
  BY <1>3, <1>4 DEF Surjection
<1>6. IsFiniteSet(T)
  <2> HIDE DEF S, T, f
  <2> QED
    BY <1>2, <1>5, FS_Surjection
<1>7. Due(q) \in SUBSET T
  BY DEF Due
<1> QED
  <2> HIDE DEF T
  <2> QED
    BY <1>6, <1>7, FS_Subset

\* The inductive invariant.
QueryInv ==
  /\ query \in Seq(Symbols)
  /\ Searched =>
       expression = SanitizeFTSQuery(IF mode = "natural" THEN NaturalizeFTSQuery(query) ELSE query)

LEMMA QueryInvariant == Spec => []QueryInv
<1>1. Init => QueryInv
  <2> SUFFICES ASSUME Init PROVE QueryInv
    OBVIOUS
  <2>1. PICK n \in 1 .. MaxSymbols : query \in [1 .. n -> Words \cup Marks]
    BY DEF Init, Queries
  <2>2. n \in Nat
    BY <2>1, KeywordBoundsAssumption
  <2>3. query \in Seq(Symbols)
    BY <2>1, <2>2 DEF Symbols
  <2>4. ~Searched
    BY DEF Init, Searched
  <2> QED
    BY <2>3, <2>4 DEF QueryInv
<1>2. QueryInv /\ [Next]_vars => QueryInv'
  <2> SUFFICES ASSUME QueryInv, [Next]_vars PROVE QueryInv'
    OBVIOUS
  <2>1. CASE Next
    BY <2>1 DEF Next, Search, QueryInv
  <2>2. CASE UNCHANGED vars
    BY <2>2 DEF vars, QueryInv, Searched
  <2> QED
    BY <2>1, <2>2
<1> QED
  BY <1>1, <1>2, PTL DEF Spec

\* QRY1: FTS5 can split what is passed to it into tokens, if the client closed
\* its quotes.  Each piece that sanitizeFTSQuery writes leaves the lexer outside
\* strings, and an even number of quotes is left to the right of it.
THEOREM QueriesAreReadable == Spec => []ClosedQuotesSuffice
<1>1. QueryInv => ClosedQuotesSuffice
  <2> SUFFICES ASSUME QueryInv, Searched, mode = "raw", Cardinality(Quotes(query)) % 2 = 0
               PROVE  Accepts(expression)
    BY DEF ClosedQuotesSuffice
  <2>1. expression = SanitizeFTSQuery(query) /\ query \in Seq(Symbols)
    BY DEF QueryInv
  <2> QED
    BY <2>1, SanitizedIsReadable DEF Even
<1> QED
  BY <1>1, QueryInvariant, PTL

\* QRY2: FTS5 reads the words, prefixes, parentheses, phrases and the operators AND,
\* OR, NOT and NEAR of a client that writes its syntax, if it has none of the
\* operators of one character; what the client wrote is passed on symbol by symbol.
THEOREM SyntaxReachesFTS5 == Spec => []SyntaxIsKept
<1>1. QueryInv => SyntaxIsKept
  <2> SUFFICES ASSUME QueryInv, Searched, mode = "raw", Accepts(query), StarsEndTokens(query),
                      OperatorFree(query)
               PROVE  Lexed(expression).toks = Lexed(query).toks
    BY DEF SyntaxIsKept
  <2>1. expression = SanitizeFTSQuery(query) /\ query \in Seq(Symbols)
    BY DEF QueryInv
  <2>2. SanitizeFTSQuery(query) = query
    BY <2>1, SyntaxIsWrittenAsItWas
  <2> QED
    BY <2>1, <2>2
<1> QED
  BY <1>1, QueryInvariant, PTL

\* QRY3: FTS5 reads a question as its keywords, each once, joined by OR, and none
\* is missing unless the cap is reached.
THEOREM QuestionsAskForKeywords == Spec => []QuestionAsksForKeywords
<1>1. QueryInv => QuestionAsksForKeywords
  <2> DEFINE toks == Lexed(expression).toks
             due == Due(query)
             ks == Keywords(query)
  <2> SUFFICES ASSUME QueryInv, Searched, mode = "natural", due # {}
               PROVE  /\ Accepts(expression)
                      /\ \A i \in Asked(toks) : toks[i].text \in {<<w>> : w \in due}
                      /\ \A i, j \in Asked(toks) : toks[i].text = toks[j].text => i = j
                      /\ Cardinality(Asked(toks)) =
                            IF Cardinality(due) < KeywordCap THEN Cardinality(due) ELSE KeywordCap
                      /\ \A i \in DOMAIN toks \ Asked(toks) :
                            \/ /\ toks[i].kind = "star" /\ i - 1 \in Asked(toks)
                               /\ toks[i - 1].text[1] \in Long
                            \/ /\ toks[i] = WordTok(OrWord)
                               /\ i + 1 \in Asked(toks)
                               /\ \/ i - 1 \in Asked(toks)
                                  \/ toks[i - 1].kind = "star" /\ i - 2 \in Asked(toks)
    BY DEF QuestionAsksForKeywords, Asked, Due, WordTok
  <2>1. expression = SanitizeFTSQuery(NaturalizeFTSQuery(query)) /\ query \in Seq(Symbols)
    BY DEF QueryInv
  <2>2. /\ ks \in Seq(Words) /\ Distinct(ks)
        /\ Range(ks) \subseteq due
        /\ IsFiniteSet(Range(ks)) /\ Cardinality(Range(ks)) = Len(ks)
        /\ Len(ks) <= KeywordCap
        /\ Len(ks) = KeywordCap \/ Range(ks) = due
    BY <2>1, KeywordsAre
  <2>3. IsFiniteSet(due)
    BY <2>1, DueIsFinite
  <2>4. KeywordCap \in Nat /\ KeywordCap # 0
    BY KeywordBoundsAssumption
  <2>5. \A d \in due : d # OrWord
    BY LowerAssumption DEF Due
  <2>6. NaturalizeFTSQuery(query) = IF ks = <<>> THEN query ELSE Joined(ks)
    BY DEF NaturalizeFTSQuery
  <2> HIDE DEF ks, due
  <2>7. ks # <<>>
    <3> SUFFICES ASSUME ks = <<>> PROVE FALSE
      OBVIOUS
    <3>1. Len(ks) = 0 /\ Range(ks) = {}
      BY DEF Range
    <3> QED
      BY <2>2, <2>4, <3>1
  <2>8. expression = SanitizeFTSQuery(Joined(ks))
    BY <2>1, <2>6, <2>7
  <2>9. \A k \in 1 .. Len(ks) : ks[k] \in due
    BY <2>2 DEF Range
  <2>10. Accepts(expression) /\ AsksFor(toks, ks, Len(ks))
    <3>1. \A k \in 1 .. Len(ks) : ks[k] # OrWord
      BY <2>5, <2>9
    <3> QED
      BY <2>2, <2>8, <3>1, KeywordsAreAsked
  <2>11. Len(ks) = IF Cardinality(due) < KeywordCap THEN Cardinality(due) ELSE KeywordCap
    <3>1. Cardinality(due) \in Nat /\ Len(ks) \in Nat
      BY <2>2, <2>3, FS_CardinalityType
    <3>2. Cardinality(Range(ks)) <= Cardinality(due)
      BY <2>2, <2>3, FS_Subset
    <3> QED
      BY <2>2, <2>4, <3>1, <3>2
  <2> HIDE DEF toks
  <2>12. /\ \A i \in Asked(toks) : \E k \in 1 .. Len(ks) : toks[i].text = <<ks[k]>>
         /\ \A i, j \in Asked(toks) : toks[i].text = toks[j].text => i = j
         /\ Cardinality(Asked(toks)) = Len(ks)
         /\ \A i \in DOMAIN toks \ Asked(toks) :
               \/ toks[i].kind = "star" /\ i - 1 \in Asked(toks) /\ toks[i - 1].text[1] \in Long
               \/ toks[i] = WordTok(OrWord) /\ i + 1 \in Asked(toks) /\ EndsAt(toks, i - 1)
    BY <2>10 DEF AsksFor
  <2>13. \A i \in Asked(toks) : toks[i].text \in {<<w>> : w \in due}
    BY <2>9, <2>12
  <2>14. \A i \in DOMAIN toks : (i - 1) - 1 = i - 2
    <3>1. toks \in Seq(Tokens)
      BY <2>2, <2>5, <2>8, <2>9, KeywordsAreAsked DEF toks
    <3> QED
      BY <3>1
  <2>15. ASSUME NEW i \in DOMAIN toks, EndsAt(toks, i - 1)
         PROVE  i - 1 \in Asked(toks) \/ (toks[i - 1].kind = "star" /\ i - 2 \in Asked(toks))
    BY <2>14, <2>15 DEF EndsAt
  <2> QED
    BY <2>10, <2>11, <2>12, <2>13, <2>15
<1> QED
  BY <1>1, QueryInvariant, PTL
=============================================================================
