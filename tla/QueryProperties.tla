--------------------------- MODULE QueryProperties ---------------------------
(* What FTS5 reads in the expression that memory_search passes to it. *)
EXTENDS Queries

(***************************************************************************)
(* The lexer of FTS5: a bareword, a string between quotes in which a       *)
(* doubled quote stands for one, a star, a parenthesis, and the operators  *)
(* of one character; nothing else outside strings.                         *)
(***************************************************************************)
Token(kind, text) == [kind |-> kind, text |-> text]

\* What was being read is complete.
Complete(s) ==
    CASE s.inside = "word" -> [s EXCEPT !.inside = "space", !.toks = Append(@, Token("word", s.text))]
      [] s.inside = "after quote" ->
            [s EXCEPT !.inside = "space", !.toks = Append(@, Token("string", s.text))]
      [] OTHER -> s

Outside(s, c) ==
    CASE c \in WordLike -> [s EXCEPT !.inside = "word", !.text = <<c>>]
      [] c = "quote" -> [s EXCEPT !.inside = "string", !.text = <<>>]
      [] c \in {"star", "open", "close", "operator"} -> [s EXCEPT !.toks = Append(@, Token(c, <<>>))]
      [] c = "space" -> s
      [] OTHER -> [s EXCEPT !.inside = "error"]

ReadSymbol(s, c) ==
    CASE s.inside = "error" -> s
      [] s.inside = "string" /\ c = "quote" -> [s EXCEPT !.inside = "after quote"]
      [] s.inside = "string" /\ c # "quote" -> [s EXCEPT !.text = Append(@, c)]
      [] s.inside = "after quote" /\ c = "quote" ->
            [s EXCEPT !.inside = "string", !.text = Append(@, c)]
      [] s.inside = "word" /\ c \in WordLike -> [s EXCEPT !.text = Append(@, c)]
      [] OTHER -> Outside(Complete(s), c)

Lexing == INSTANCE Loops WITH Step <- ReadSymbol

Lexed(q) == Complete(Lexing!After([inside |-> "space", text |-> <<>>, toks |-> <<>>], q))

Accepts(q) == Lexed(q).inside = "space"
-----------------------------------------------------------------------------
Searched == expression # <<>>

Quotes(q) == {i \in DOMAIN q : q[i] = "quote"}

\* Each star ends its token.
StarsEndTokens(q) ==
    \A i \in DOMAIN q : q[i] = "star" => i = Len(q) \/ q[i + 1] \in Parts

\* FTS5 reads none of the operators of one character in q.
OperatorFree(q) == \A i \in DOMAIN Lexed(q).toks : Lexed(q).toks[i].kind # "operator"

\* QRY1: whatever marks a query holds, beside or inside quoted phrases, FTS5 can
\* split what is passed to it into tokens, if the client closed its quotes.
ClosedQuotesSuffice ==
    Searched /\ mode = "raw" /\ Cardinality(Quotes(query)) % 2 = 0 => Accepts(expression)

\* QRY2: of the syntax of FTS5, words, prefixes, parentheses and phrases reach it
\* unchanged, and so do AND, OR, NOT and NEAR, which are words.  The operators of
\* one character do not (see SyntaxVerbatim).
SyntaxIsKept ==
    Searched /\ mode = "raw" /\ Accepts(query) /\ StarsEndTokens(query) /\ OperatorFree(query)
        => Lexed(expression).toks = Lexed(query).toks

\* "The query string is passed through to FTS5 verbatim", as sqlite.go:326 says.
\* It is not: quoteFTSToken puts a token that holds an operator of one character
\* between quotes, so that ^paint, object:paint, {entity object} : paint and the
\* distance of NEAR(paint cat, 10) become text to search for.
SyntaxVerbatim ==
    /\ Searched /\ mode = "raw" /\ Accepts(query) /\ StarsEndTokens(query)
    /\ query[Len(query)] \in Words
    => Lexed(expression).toks = Lexed(query).toks

\* QRY3: a question asks for its keywords and for nothing else: FTS5 reads them
\* joined by OR, each once and with at most one star, whatever operators and
\* marks the question held; each stands for a word of the question, and no
\* keyword of it is missing unless the cap is reached.
QuestionAsksForKeywords ==
    LET toks == Lexed(expression).toks
        asked == {i \in DOMAIN toks : toks[i].kind = "word" /\ toks[i].text # <<OrWord>>}
        due == {Lower[w] : w \in Range(query) \cap Words} \ (StopWords \cup Short)
    IN
    Searched /\ mode = "natural" /\ due # {} =>
        /\ Accepts(expression)
        /\ \A i \in asked : toks[i].text \in {<<w>> : w \in due}
        /\ \A i, j \in asked : toks[i].text = toks[j].text => i = j
        /\ Cardinality(asked) =
              IF Cardinality(due) < KeywordCap THEN Cardinality(due) ELSE KeywordCap
        /\ \A i \in DOMAIN toks \ asked :
              \/ toks[i].kind = "star" /\ i - 1 \in asked /\ toks[i - 1].text[1] \in Long
              \/ /\ toks[i] = Token("word", <<OrWord>>)
                 /\ i + 1 \in asked
                 /\ i - 1 \in asked \/ (toks[i - 1].kind = "star" /\ i - 2 \in asked)
=============================================================================
