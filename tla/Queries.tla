------------------------------- MODULE Queries -------------------------------
(***************************************************************************)
(* What memory_search makes of a query before FTS5 reads it: the rewriting *)
(* of a question into keywords (mode "natural"), and sanitizeFTSQuery,     *)
(* which puts quotes around what FTS5 would take for syntax.               *)
(*                                                                         *)
(* A query is a sequence of words and marks.  A word is a run of letters   *)
(* and digits, so no two words are adjacent; "operator" is any of the      *)
(* characters : + - ^ , { } that FTS5 has for its syntax, and "other" any  *)
(* that means nothing to the program or to FTS5, as an apostrophe.         *)
(***************************************************************************)
EXTENDS Integers, Sequences, FiniteSets, SequencesExt

CONSTANTS Words,      \* the words of queries
          Lower,      \* a word in lower case
          StopWords,  \* the words that say nothing
          Short,      \* the words of one or two letters
          Long,       \* the words of four letters or more
          OrWord,     \* the word OR
          KeywordCap, \* how many keywords a question may have: 12 in the program
          MaxSymbols  \* bound of the model: the length of a query

Marks == {"space", "open", "close", "quote", "star", "underscore", "operator", "other"}

ASSUME WordsAssumption == Words \cap Marks = {} /\ OrWord \in Words
\* ToLower leaves no capital.
ASSUME LowerAssumption ==
    /\ Lower \in [Words -> Words]
    /\ \A w \in Words : Lower[w] # OrWord
ASSUME SortsOfWordsAssumption ==
    StopWords \subseteq Words /\ Short \subseteq Words /\ Long \subseteq Words \ Short
ASSUME KeywordBoundsAssumption == KeywordCap \in Nat \ {0} /\ MaxSymbols \in Nat

VARIABLES query,     \* what the client asks for
          mode,      \* "raw" or "natural"
          expression \* what is passed to MATCH; empty before the search

vars == <<query, mode, expression>>

\* ToolSearch turns a blank query away.
Queries ==
    {q \in UNION {[1 .. n -> Words \cup Marks] : n \in 1 .. MaxSymbols} :
        /\ \A i \in 1 .. Len(q) - 1 : q[i] \notin Words \/ q[i + 1] \notin Words
        /\ Range(q) # {"space"}}
-----------------------------------------------------------------------------
(* sanitizeFTSQuery *)

\* (Faulty variant.) Parentheses belong to the tokens beside them.
PartsButParens == {"space", "quote"}

Separators == {"space", "open", "close"}

\* What ends a token.
Parts == {"space", "open", "close", "quote"}

WordLike == Words \cup {"underscore"}

\* quoteFTSToken: a bare token may end in a star.  AND, OR, NOT and NEAR are bare.
Bare(tok) ==
    \A i \in DOMAIN tok : tok[i] \in WordLike \/ (tok[i] = "star" /\ i = Len(tok))

QuoteFTSToken(tok) == IF Bare(tok) THEN tok ELSE <<"quote">> \o tok \o <<"quote">>

\* The first place from i on with one of S, or the end of the query.
FirstFrom(q, i, S) ==
    IF \E j \in i .. Len(q) : q[j] \in S
    THEN CHOOSE j \in i .. Len(q) : q[j] \in S /\ \A h \in i .. j - 1 : q[h] \notin S
    ELSE Len(q) + 1

\* (Faulty variant.) The closing quote is left for the next round.
AfterPhraseText(q, i) == FirstFrom(q, i + 1, {"quote"})

\* Where the quoted phrase ends that begins at i: after its closing quote, or at
\* the end of the query if it has none.
AfterPhrase(q, i) ==
    LET j == FirstFrom(q, i + 1, {"quote"})
    IN  IF j <= Len(q) THEN j + 1 ELSE j

AfterPiece(q, i) ==
    CASE q[i] \in Separators -> i + 1
      [] q[i] = "quote" -> AfterPhrase(q, i)
      [] OTHER -> FirstFrom(q, i, Parts)

\* What is written for the separator, the phrase or the token that begins at i.
Written(q, i) ==
    LET piece == SubSeq(q, i, AfterPiece(q, i) - 1)
    IN  IF q[i] \in Separators \cup {"quote"} THEN piece ELSE QuoteFTSToken(piece)

\* Place i of the query is passed over when it is inside a piece.
SanitizePlace(s, i) ==
    IF i # s.i THEN s
    ELSE [s EXCEPT !.i = AfterPiece(s.runes, i), !.out = @ \o Written(s.runes, i)]

Sanitizing == INSTANCE Loops WITH Step <- SanitizePlace

SanitizeFTSQuery(q) ==
    Sanitizing!After([runes |-> q, i |-> 1, out |-> <<>>], [i \in 1 .. Len(q) |-> i]).out
-----------------------------------------------------------------------------
(* naturalizeFTSQuery *)

\* No stop word, no short one, and none that the question had before.
IsNewKeyword(ks, w) == w \notin StopWords \cup Short \cup Range(ks)

\* (Faulty variant.) A word is looked up as it was written.
TakeAsWritten(ks, c) ==
    IF c \in Words /\ IsNewKeyword(ks, c) /\ Len(ks) < KeywordCap THEN Append(ks, c) ELSE ks

\* The words of a question that are looked for, each once, up to the cap.
TakeKeyword(ks, c) ==
    IF c \in Words /\ IsNewKeyword(ks, Lower[c]) /\ Len(ks) < KeywordCap
    THEN Append(ks, Lower[c]) ELSE ks

Taking == INSTANCE Loops WITH Step <- TakeKeyword

Keywords(q) == Taking!After(<<>>, q)

\* A keyword of four letters or more also finds the words that begin with it.
Stem(w) == IF w \in Long THEN <<w, "star">> ELSE <<w>>

JoinKeyword(s, w) ==
    s \o (IF s = <<>> THEN <<>> ELSE <<"space", OrWord, "space">>) \o Stem(w)

Joining == INSTANCE Loops WITH Step <- JoinKeyword

Joined(ks) == Joining!After(<<>>, ks)

\* A question without keywords is passed on as it is.
NaturalizeFTSQuery(q) == IF Keywords(q) = <<>> THEN q ELSE Joined(Keywords(q))
-----------------------------------------------------------------------------
Init ==
    /\ query \in Queries
    /\ mode \in {"raw", "natural"}
    /\ expression = <<>>

\* sqliteStore.Search up to the statement.
Search ==
    /\ expression = <<>>
    /\ expression' =
        SanitizeFTSQuery(IF mode = "natural" THEN NaturalizeFTSQuery(query) ELSE query)
    /\ UNCHANGED <<query, mode>>

Next == Search

Spec == Init /\ [][Next]_vars
=============================================================================
